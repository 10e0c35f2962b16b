---------------------------- MODULE BiusDataPath ----------------------------
(***************************************************************************)
(* The data of a request, byte by byte, from the test program that wrote   *)
(* it (examples/blktest.c) through the bios of the request                 *)
(* (kernel/command.h), the buffer of the library's thread                  *)
(* (library/libbius.c) and the callbacks of the example servers            *)
(* (examples/ramdisk.c, examples/passthrough.c) to the disk, and back.     *)
(*                                                                         *)
(* One thread, the default build. The test's write() and read() of a chunk *)
(* are one request each, its bios and segments split in any of Layouts.    *)
(* Which requests are pending and who answers them is left to              *)
(* BiusTransport.                                                          *)
(***************************************************************************)
EXTENDS Naturals, FiniteSetsExt

CONSTANTS
  Layouts,  \* how a chunk is split: where its segments and its bios end, as
            \* offsets into the chunk
  Chunk,    \* buffer_size of the test, in bytes
  Iter,     \* hard_test_iteration
  Servers,  \* the example servers to choose from
  Faults    \* may copies, pread and pwrite stop short?

Index == 1 .. Chunk

ASSUME ConstantsOK ==
  /\ Chunk \in Nat \ {0} /\ Iter \in Nat \ {0}
  /\ Layouts \subseteq [segs : SUBSET Index, bios : SUBSET Index]
  /\ \A l \in Layouts : l.bios \subseteq l.segs /\ Chunk \in l.bios
  /\ Servers \subseteq {"ramdisk", "passthrough"}
  /\ Faults \in BOOLEAN

\* pattern(i, j) of the test, with values that are all distinct.
pattern(i, j) == <<i, j>>
Junk == <<0, 0>>

VARIABLES
  server,                        \* which callbacks serve the device
  mode, iter,                    \* the test: "write" or "read" pass, and chunk
  pages,                         \* the request's memory, in the order of its bytes
  chain,                         \* the request's segments and bios
  bio, bi_done, map_data,        \* bius_request: where its bio starts (Chunk: NULL),
                                 \* and how much of that bio is done
  remain_buffer, total_sent,     \* bius_send_data
  buffer, total_read,            \* the library's data_copy_buffer
  moved,                         \* read_size or written_size of the callback
  seg, user_data,                \* bius_receive_data: where the segment starts
  disk,                          \* the bytes of the target
  pc

testVars == <<server, mode, iter>>
reqVars == <<chain, bio, bi_done, map_data>>
sendVars == <<remain_buffer, total_sent>>
recvVars == <<seg, user_data>>
vars == <<testVars, pages, reqVars, sendVars, buffer, total_read, moved, recvVars, disk, pc>>

NoPage == [k \in Index |-> Junk]

Init ==
  /\ server \in Servers
  /\ mode = "write" /\ iter = 1
  /\ pages = NoPage /\ buffer = NoPage
  /\ chain = [segs |-> {}, bios |-> {}] /\ bio = 0 /\ bi_done = 0 /\ map_data = 0
  /\ remain_buffer = 0 /\ total_sent = 0 /\ total_read = 0 /\ moved = 0
  /\ seg = 0 /\ user_data = 0
  /\ disk = [b \in 1 .. Iter * Chunk |-> Junk]
  /\ pc = "test"

Goto(l) == pc' = l

\* Byte k of the chunk on the disk.
Pos(k) == (iter - 1) * Chunk + k

-----------------------------------------------------------------------------
(* do_test_hard                                                            *)

\* write() or read() of the next chunk: the request with its bios, and
\* bius_dev_read, which announces the data of a write.
Submit(l) ==
  /\ pc = "test"
  /\ chain' = l
  /\ bio' = 0 /\ bi_done' = 0
  /\ pages' = IF mode = "write" THEN [k \in Index |-> pattern(iter, k)] ELSE NoPage
  /\ map_data' = IF mode = "write" THEN Chunk ELSE 0
  /\ buffer' = NoPage /\ total_read' = 0 /\ moved' = 0
  /\ seg' = 0 /\ user_data' = 0
  /\ Goto(IF mode = "write" THEN "copyin" ELSE "serve")
  /\ UNCHANGED <<testVars, sendVars, disk>>

\* The request was ended with OK. After the last write the test starts to
\* read from the beginning.
NextChunk ==
  /\ pc = "ok"
  /\ IF iter < Iter THEN iter' = iter + 1 /\ UNCHANGED mode
     ELSE iter' = 1 /\ mode' = IF mode = "write" THEN "read" ELSE "end"
  /\ Goto(IF mode = "read" /\ iter = Iter THEN "end" ELSE "test")
  /\ UNCHANGED <<server, pages, reqVars, sendVars, buffer, total_read, moved, recvVars, disk>>

-----------------------------------------------------------------------------
(* handle_copy_in and bius_send_data                                       *)

\* read(fd, buffer + total_read, size - total_read).
handle_copy_in ==
  /\ pc = "copyin" /\ total_read < Chunk
  /\ remain_buffer' = Chunk - total_read /\ total_sent' = 0
  /\ Goto("send")
  /\ UNCHANGED <<testVars, pages, reqVars, buffer, total_read, moved, recvVars, disk>>

\* All the data is in the buffer.
CopiedIn ==
  /\ pc = "copyin" /\ total_read >= Chunk
  /\ Goto("serve")
  /\ UNCHANGED <<testVars, pages, reqVars, sendVars, buffer, total_read, moved, recvVars, disk>>

\* The first of some ends behind offset p.
NextEnd(ends, p) == Min({e \in ends : e > p})

\* Where the current bio ends and the next one starts.
BioEnd == NextEnd(chain.bios, bio)

\* mp_bio_iter_iovec: what is left of the segment under the iterator.
bv_len == NextEnd(chain.segs, bio + bi_done) - (bio + bi_done)

\* Mutant: the bios before the current one are not counted.
CopyToIter_FirstBio(n) ==
  LET to == total_read + total_sent
  IN buffer' = [k \in Index |-> IF k \in to + 1 .. to + n THEN pages[k - to + bi_done]
                                ELSE buffer[k]]

\* copy_to_iter: n bytes from under the iterator into the user's buffer.
CopyToIter(n) ==
  LET from == bio + bi_done
      to == total_read + total_sent
  IN buffer' = [k \in Index |-> IF k \in to + 1 .. to + n THEN pages[k - to + from]
                                ELSE buffer[k]]

\* Mutant: the iterator advances by the segment, not by what was copied.
bio_advance_iter_Segment(n) ==
  IF bio + bi_done + bv_len = BioEnd
  THEN bio' = BioEnd /\ bi_done' = 0
  ELSE bi_done' = bi_done + bv_len /\ UNCHANGED bio

\* The iterator moves on, at the end of a bio to the next one or to NULL.
bio_advance_iter(n) ==
  IF bio + bi_done + n = BioEnd
  THEN bio' = BioEnd /\ bi_done' = 0
  ELSE bi_done' = bi_done + n /\ UNCHANGED bio

size_to_send == IF bv_len < remain_buffer THEN bv_len ELSE remain_buffer

\* One round of the loop: n bytes of a segment, all that was asked for unless
\* the copy stops short. A round that copied nothing ends the loop.
bius_send_data(n) ==
  /\ pc = "send" /\ map_data > 0 /\ remain_buffer > 0
  /\ n \in 0 .. size_to_send /\ (n = size_to_send \/ Faults)
  /\ CopyToIter(n)
  /\ remain_buffer' = remain_buffer - n
  /\ total_sent' = total_sent + n
  /\ map_data' = map_data - n
  /\ bio_advance_iter(n)
  /\ Goto(IF n = 0 THEN "return" ELSE "send")
  /\ UNCHANGED <<testVars, pages, chain, total_read, moved, recvVars, disk>>

\* The loop is over.
SendDone ==
  /\ pc = "send" /\ (map_data = 0 \/ remain_buffer = 0)
  /\ Goto("return")
  /\ UNCHANGED <<testVars, pages, reqVars, sendVars, buffer, total_read, moved, recvVars, disk>>

\* Mutant: a read() that brought less than was asked for ends the copy.
ReadReturns_Once ==
  /\ pc = "return"
  /\ total_read' = total_read + total_sent /\ total_sent' = 0
  /\ Goto(IF total_sent = 0 THEN "exit" ELSE "serve")
  /\ UNCHANGED <<testVars, pages, reqVars, remain_buffer, buffer, moved, recvVars, disk>>

\* Mutant: the library asks again when nothing came.
ReadReturns_Retry ==
  /\ pc = "return"
  /\ total_read' = total_read + total_sent /\ total_sent' = 0
  /\ Goto("copyin")
  /\ UNCHANGED <<testVars, pages, reqVars, remain_buffer, buffer, moved, recvVars, disk>>

\* read() returns to the library, which exits when nothing came.
ReadReturns ==
  /\ pc = "return"
  /\ total_read' = total_read + total_sent /\ total_sent' = 0
  /\ Goto(IF total_sent = 0 THEN "exit" ELSE "copyin")
  /\ UNCHANGED <<testVars, pages, reqVars, remain_buffer, buffer, moved, recvVars, disk>>

-----------------------------------------------------------------------------
(* The callbacks of the servers                                            *)

\* Bytes a .. b of the chunk go from the buffer to the disk, or back.
Store(a, b) == disk' = [p \in DOMAIN disk |-> IF p \in Pos(a) .. Pos(b) THEN buffer[p - Pos(0)] ELSE disk[p]]
Fetch(a, b) == buffer' = [k \in Index |-> IF k \in a .. b THEN disk[Pos(k)] ELSE buffer[k]]

ramdisk_write ==
  /\ pc = "serve" /\ server = "ramdisk" /\ mode = "write"
  /\ Store(1, Chunk)
  /\ Goto("reply")
  /\ UNCHANGED <<testVars, pages, reqVars, sendVars, buffer, total_read, moved, recvVars>>

ramdisk_read ==
  /\ pc = "serve" /\ server = "ramdisk" /\ mode = "read"
  /\ Fetch(1, Chunk)
  /\ Goto("reply")
  /\ UNCHANGED <<testVars, pages, reqVars, sendVars, total_read, moved, recvVars, disk>>

\* One turn of the loops of passthrough_write and passthrough_read, which
\* zoned-passthrough.c has too: n bytes, all that remain unless the system
\* call is short.
Transfer(n) ==
  /\ n \in 1 .. Chunk - moved /\ (n = Chunk - moved \/ Faults)
  /\ moved' = moved + n
  /\ Goto(IF moved + n < Chunk THEN "serve" ELSE "reply")

passthrough_write(n) ==
  /\ pc = "serve" /\ server = "passthrough" /\ mode = "write"
  /\ Transfer(n)
  /\ Store(moved + 1, moved + n)
  /\ UNCHANGED <<testVars, pages, reqVars, sendVars, buffer, total_read, recvVars>>

passthrough_read(n) ==
  /\ pc = "serve" /\ server = "passthrough" /\ mode = "read"
  /\ Transfer(n)
  /\ Fetch(moved + 1, moved + n)
  /\ UNCHANGED <<testVars, pages, reqVars, sendVars, total_read, recvVars, disk>>

\* pread or pwrite returned 0 or an error: BLK_STS_IOERR, and the test stops.
TransferFailed ==
  /\ Faults
  /\ pc = "serve" /\ server = "passthrough"
  /\ Goto("ioerr")
  /\ UNCHANGED <<testVars, pages, reqVars, sendVars, buffer, total_read, moved, recvVars, disk>>

-----------------------------------------------------------------------------
(* The reply                                                               *)

\* rq_for_each_segment: where the current segment ends.
SegEnd == NextEnd(chain.segs, seg)

\* One segment of the data of a read, from the user's buffer to its page.
bius_receive_data ==
  /\ pc = "reply" /\ mode = "read" /\ seg < Chunk
  /\ pages' = [k \in Index |-> IF k \in seg + 1 .. SegEnd THEN buffer[user_data + k - seg]
                               ELSE pages[k]]
  /\ user_data' = user_data + SegEnd - seg
  /\ seg' = SegEnd
  /\ UNCHANGED <<testVars, reqVars, sendVars, buffer, total_read, moved, disk, pc>>

\* copy_from_user stopped short: the request is ended with an error, and the
\* library exits as its write() fails.
ReceiveFailed ==
  /\ Faults
  /\ pc = "reply" /\ mode = "read" /\ seg < Chunk
  /\ Goto("exit")
  /\ UNCHANGED <<testVars, pages, reqVars, sendVars, buffer, total_read, moved, recvVars, disk>>

\* end_blk_request with the server's BLK_STS_OK.
EndOk ==
  /\ pc = "reply" /\ (mode = "write" \/ seg = Chunk)
  /\ Goto("ok")
  /\ UNCHANGED <<testVars, pages, reqVars, sendVars, buffer, total_read, moved, recvVars, disk>>

-----------------------------------------------------------------------------
Next ==
  \/ \E l \in Layouts : Submit(l)
  \/ NextChunk
  \/ handle_copy_in \/ CopiedIn \/ SendDone \/ ReadReturns
  \/ \E n \in 0 .. Chunk : bius_send_data(n)
  \/ ramdisk_write \/ ramdisk_read
  \/ \E n \in 1 .. Chunk : passthrough_write(n) \/ passthrough_read(n)
  \/ TransferFailed
  \/ bius_receive_data \/ ReceiveFailed \/ EndOk

Spec == Init /\ [][Next]_vars

\* The thread and the test go on.
FairSpec == Spec /\ WF_vars(Next)

-----------------------------------------------------------------------------
(* Properties                                                              *)

\* map_data, the "remain length for copy", is what is left of the bio chain
\* after every segment, short copy and change of bio: the loop of
\* bius_send_data neither runs off the end of the chain nor stops early.
RemainMatchesChain ==
  mode = "write" /\ pc \in {"copyin", "send", "return"} =>
    map_data = Chunk - (bio + bi_done)

\* What the library has received at any moment is the data of the request in
\* order, however segments, bios and short copies cut it up.
InOrderPrefix ==
  mode = "write" /\ pc \in {"copyin", "send", "return"} =>
    \A k \in Index : buffer[k] = IF k <= total_read + total_sent THEN pages[k] ELSE Junk

\* The test's verification: what a read() returns after all write()s succeeded
\* is what was written.
VerificationOk ==
  pc = "ok" /\ mode = "read" => \A k \in Index : pages[k] = pattern(iter, k)

\* Whatever the split and however short the copies and transfers, the test comes
\* to its end, or to the error of a callback or a copy that failed.
TestEnds == <>(pc \in {"end", "ioerr", "exit"})
=============================================================================
