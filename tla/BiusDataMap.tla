----------------------------- MODULE BiusDataMap -----------------------------
(***************************************************************************)
(* The data mapping of the optional CONFIG_BIUS_DATAMAP build              *)
(* (kernel/data_mapping.c, and the branches of kernel/char_dev.c and       *)
(* library/libbius.c that use it): the pages of a large request are mapped *)
(* into the server instead of copied.                                      *)
(*                                                                         *)
(* One connection serves one request after the other. A request is a       *)
(* sequence of single-page segments, as rq_for_each_segment yields them: a *)
(* page is covered fully and mapped itself, or in part and mapped through  *)
(* a reserved page. Requests up to BIUS_MAP_DATA_THRESHOLD are those of    *)
(* BiusDataPath.                                                           *)
(***************************************************************************)
EXTENDS Integers, Sequences

CONSTANTS
  PAGE_SIZE,
  Page,       \* the kernel's pages
  Layouts,    \* the segment sequences that requests may have: page, offset and
              \* length, and at, the bytes of the request before the segment
  Positions,  \* where on the disk requests may start
  MaxSegs,    \* the longest layout
  MaxReq,     \* bound: how many requests a run submits
  Leftover,   \* what kmalloc may leave in the reserved pages and the list
  Faults      \* may a callback of the server fail, or the copy of a header?

Pos == 0 .. PAGE_SIZE - 1
Bytes(l) == l[Len(l)].at + l[Len(l)].len
MaxLen == MaxSegs * PAGE_SIZE
Disk == 0 .. MaxLen
vm_start == PAGE_SIZE
vm_end == vm_start + MaxLen + PAGE_SIZE
UserPage == 0 .. MaxSegs              \* one more for the list
Reserved == 2 .. MaxSegs + 2          \* 0 and 1 hold the two lists
ListIndex == 0 .. 2 * MaxSegs + 1

Frame(k, n) == [kind |-> k, n |-> n]
ZeroPage == Frame("zero", 0)
ListPage == Frame("list", 0)
Idle == [dir |-> "none", segs |-> <<>>, pos |-> 0, type |-> "UNMAPPED", data |-> 0, size |-> 0]

ASSUME DataMapConstantsOK ==
  /\ PAGE_SIZE \in Nat \ {0} /\ MaxSegs \in Nat \ {0} /\ MaxReq \in Nat /\ Faults \in BOOLEAN
  /\ Page \subseteq Nat \ {0}
  /\ \A l \in Layouts :
       /\ l \in Seq([pg : Page, off : Nat, len : Nat \ {0}, at : Nat])
       /\ Len(l) \in 1 .. MaxSegs /\ l[1].at = 0
       /\ \A i \in 1 .. Len(l) : l[i].off + l[i].len <= PAGE_SIZE
       /\ \A i \in 1 .. Len(l) - 1 : l[i + 1].at = l[i].at + l[i].len
  /\ Positions \subseteq Nat
  /\ \A j \in Leftover : j.reserved \in [Reserved -> [Pos -> Nat]] /\ j.list \in [ListIndex -> Nat]

VARIABLES
  mem,                   \* the kernel's pages
  ptes,                  \* what the server's window shows
  reserved,              \* the reserved pages of the connection
  reserve_mapping_list,  \* the kernel page each of them stands for, 0 if never set
  mapping_list,          \* pairs of address and length, ended by a zero address
  unset,                 \* history: where in its page no list was stored yet
  request,               \* the request in progress; data and size: map_data, mapped_size
  list_entry_index, user_page_num,
  segment_end_aligned,   \* the loop of bius_map_data, and with
  reserved_page_num, i,  \* them that of bius_copy_in_misaligned_pages
  k2u,                   \* the header the server has got last
  stale,                 \* does the server go on with an old header?
  pc, entry, offset,     \* the library's loop over the list
  reply,
  disk,
  requests,              \* requests so far
  wild,                  \* was memory written through an address never set?
  before                 \* history: mem and disk when the request was submitted

window == <<ptes, reserve_mapping_list, mapping_list, unset>>
mapLoop == <<list_entry_index, user_page_num, segment_end_aligned>>
copyLoop == <<reserved_page_num, i>>
server == <<entry, offset, reply>>
history == <<requests, before, stale>>
vars == <<mem, window, reserved, request, mapLoop, copyLoop, k2u, pc, server, disk, history, wild>>

\* bius_vm_open has filled the window with the zero page. The reserved pages,
\* and with them the lists, come from kmalloc and hold anything.
Init ==
  /\ mem = [g \in Page |-> [p \in Pos |-> 0]]
  /\ ptes = [u \in UserPage |-> ZeroPage]
  /\ \E j \in Leftover : reserved = j.reserved /\ mapping_list = j.list
  /\ reserve_mapping_list = [k \in Reserved |-> 0]
  /\ request = Idle
  /\ list_entry_index = 0 /\ user_page_num = 0 /\ segment_end_aligned = FALSE
  /\ reserved_page_num = 2 /\ i = 0
  /\ k2u = [type |-> "UNMAPPED", data |-> 0, dir |-> "none", pos |-> 0, len |-> 0]
  /\ pc = "idle" /\ entry = 0 /\ offset = 0 /\ reply = "OK"
  /\ disk = [d \in Disk |-> 0]
  /\ requests = 0 /\ wild = FALSE /\ stale = FALSE /\ unset = ListIndex
  /\ before = [mem |-> mem, disk |-> disk]

\* A request is queued; its pages and the disk hold bytes told apart.
Submit(dir, segs, pos) ==
  /\ pc = "idle" /\ requests < MaxReq /\ Bytes(segs) + pos <= MaxLen + 1
  /\ requests' = requests + 1
  /\ mem' = [g \in Page |-> [p \in Pos |-> 100 * requests' + 10 * g + p]]
  /\ disk' = [d \in Disk |-> 100 * requests' + 50 + d]
  /\ before' = [mem |-> mem', disk |-> disk']
  /\ request' = [Idle EXCEPT !.dir = dir, !.segs = segs, !.pos = pos]
  /\ pc' = "queued" /\ wild' = FALSE
  /\ UNCHANGED <<window, reserved, mapLoop, copyLoop, k2u, server, stale>>

-----------------------------------------------------------------------------
(* bius_map_data                                                           *)

\* bius_dev_read takes the request and maps it.
bius_dev_read ==
  /\ pc = "queued" /\ request.type = "UNMAPPED"
  /\ list_entry_index' = 0 /\ user_page_num' = 0 /\ segment_end_aligned' = FALSE
  /\ reserved_page_num' = 2
  /\ pc' = "mapping"
  /\ UNCHANGED <<mem, window, reserved, request, i, k2u, server, disk, history, wild>>

Covers(s, p) == p \in s.off .. s.off + s.len - 1

\* Mutant: a reserved page is not cleared.
Fill_NoClear(old, s) ==
  [p \in Pos |-> IF request.dir = "WRITE" /\ Covers(s, p) THEN mem[s.pg][p] ELSE old[p]]

\* A reserved page is cleared, and for a write filled with the segment.
Fill(old, s) ==
  [p \in Pos |-> IF request.dir = "WRITE" /\ Covers(s, p) THEN mem[s.pg][p] ELSE 0]

\* Only a page that is fully covered is mapped itself.
Whole(s) == s.len = PAGE_SIZE

\* Mutant: what an earlier request has left is kept.
StandsFor_Kept(old, s) == IF old = 0 THEN s.pg ELSE old

\* The kernel page that a reserved page stands for.
StandsFor(old, s) == s.pg

\* The segment goes on the last entry of the list only if the one before it
\* ended at the end of its page and it starts at the start of its own.
Opens(s) == ~segment_end_aligned \/ s.off # 0

AddToList(s) ==
  LET n == list_entry_index IN
  IF Opens(s)
  THEN /\ list_entry_index' = n + 1
       /\ mapping_list' = [mapping_list EXCEPT ![2 * n] = vm_start + user_page_num * PAGE_SIZE + s.off,
                                               ![2 * n + 1] = s.len]
       /\ unset' = unset \ {2 * n, 2 * n + 1}
  ELSE /\ mapping_list' = [mapping_list EXCEPT ![2 * n - 1] = @ + s.len]
       /\ UNCHANGED <<list_entry_index, unset>>

\* The segment's page itself is mapped, or the next reserved page for it.
MapPage(s) ==
  LET k == reserved_page_num
      show(f) == ptes' = [ptes EXCEPT ![user_page_num] = f]
  IN
  IF Whole(s)
  THEN show(Frame("data", s.pg)) /\ UNCHANGED <<reserved, reserve_mapping_list, reserved_page_num>>
  ELSE /\ show(Frame("reserved", k))
       /\ reserved' = [reserved EXCEPT ![k] = Fill(@, s)]
       /\ reserve_mapping_list' = [reserve_mapping_list EXCEPT ![k] = StandsFor(@, s)]
       /\ reserved_page_num' = k + 1

\* One round of the loop. Every segment takes one page of the window.
MapSegment ==
  /\ pc = "mapping" /\ user_page_num < Len(request.segs)
  /\ LET s == request.segs[user_page_num + 1] IN
     /\ AddToList(s)
     /\ MapPage(s)
     /\ segment_end_aligned' = (s.off + s.len = PAGE_SIZE)
  /\ user_page_num' = user_page_num + 1
  /\ UNCHANGED <<mem, request, i, k2u, pc, server, disk, history, wild>>

several == list_entry_index > 1

\* Mutant: the list is not ended.
EndList_Missing(list, n) == list

EndList(list, n) == [list EXCEPT ![2 * n] = 0, ![2 * n + 1] = 0]

\* Mutant: the window's size is taken before the list's page is added.
mapped_size_NoList == user_page_num * PAGE_SIZE

mapped_size == (IF several THEN user_page_num + 1 ELSE user_page_num) * PAGE_SIZE

map_data == IF several THEN vm_start + user_page_num * PAGE_SIZE ELSE mapping_list[0] % PAGE_SIZE

\* After the loop a list of several entries is ended by zeros and itself mapped
\* behind the data.
EndMapping ==
  /\ pc = "mapping" /\ user_page_num = Len(request.segs)
  /\ ptes' = IF several THEN [ptes EXCEPT ![user_page_num] = ListPage] ELSE ptes
  /\ mapping_list' = IF several THEN EndList(mapping_list, list_entry_index) ELSE mapping_list
  /\ unset' = IF several THEN unset \ {2 * list_entry_index, 2 * list_entry_index + 1} ELSE unset
  /\ request' = [request EXCEPT !.type = IF several THEN "LIST" ELSE "SIMPLE",
                                !.data = map_data, !.size = mapped_size]
  /\ UNCHANGED <<mem, reserved, reserve_mapping_list, mapLoop, copyLoop, disk, requests, before, wild>>

\* The map is complete and the header is sent.
MapDone ==
  /\ EndMapping
  /\ k2u' = [type |-> request'.type, data |-> request'.data, dir |-> request.dir,
             pos |-> request.pos, len |-> Bytes(request.segs)]
  /\ pc' = "handle" /\ entry' = 0 /\ offset' = request.pos /\ reply' = "OK"
  /\ UNCHANGED stale

\* The map is complete, but the header cannot be copied out: the request is
\* ended, and its pages stay in the window. read() returns 0, and the library
\* goes on with the header it has; the first time that is whatever was on the
\* stack, taken for an unknown opcode here.
SendCommandFailed ==
  /\ Faults
  /\ EndMapping
  /\ stale' = TRUE
  /\ pc' = IF k2u.type = "UNMAPPED" THEN "replying" ELSE "handle"
  /\ entry' = 0 /\ offset' = k2u.pos /\ reply' = "OK"
  /\ UNCHANGED k2u

-----------------------------------------------------------------------------
(* The server                                                              *)

\* What an address of the window shows, and a store through it.
At(addr) == ptes[(addr - vm_start) \div PAGE_SIZE]
Load(addr) ==
  LET f == At(addr) IN
  CASE f.kind = "data"     -> mem[f.n][addr % PAGE_SIZE]
    [] f.kind = "reserved" -> reserved[f.n][addr % PAGE_SIZE]
    [] OTHER               -> 0
\* A read past the end of the disk finds nothing.
DiskAt(d) == IF d \in Disk THEN disk[d] ELSE 0
Stored(old, kind, addr, n, off) ==
  [x \in DOMAIN old |-> [p \in Pos |->
     LET hit == {j \in 0 .. n - 1 : At(addr + j) = Frame(kind, x) /\ (addr + j) % PAGE_SIZE = p}
     IN IF hit = {} THEN old[x][p] ELSE DiskAt(off + CHOOSE j \in hit : TRUE)]]

\* ops->read or ops->write on n bytes at an address and a disk position.
Callback(addr, n, off) ==
  IF k2u.dir = "WRITE"
  THEN /\ disk' = [d \in Disk |-> IF d \in off .. off + n - 1 THEN Load(addr + d - off) ELSE disk[d]]
       /\ UNCHANGED <<mem, reserved>>
  ELSE /\ mem' = Stored(mem, "data", addr, n, off)
       /\ reserved' = Stored(reserved, "reserved", addr, n, off)
       /\ UNCHANGED disk

driver == <<window, request, mapLoop, copyLoop, k2u, history, wild>>

\* handle_blk_command for a simple map: one call for everything.
handle_blk_command ==
  /\ pc = "handle" /\ k2u.type = "SIMPLE"
  /\ Callback(vm_start + k2u.data, k2u.len, offset)
  /\ pc' = "replying"
  /\ UNCHANGED <<driver, server>>

\* The list as the server reads it, through its window. An old header may point
\* to another page: what that holds is taken for no address of the window.
datamap_list(j) == IF At(k2u.data) = ListPage /\ j \in ListIndex THEN mapping_list[j] ELSE 0

\* One round of the library's loop over a list: a call for every entry.
handle_blk_command_with_datamap_list ==
  /\ pc = "handle" /\ k2u.type = "LIST"
  /\ IF datamap_list(2 * entry) = 0
     THEN pc' = "replying" /\ UNCHANGED <<mem, reserved, disk, server>>
     ELSE /\ Callback(datamap_list(2 * entry), datamap_list(2 * entry + 1), offset)
          /\ entry' = entry + 1
          /\ offset' = offset + datamap_list(2 * entry + 1)
          /\ UNCHANGED <<pc, reply>>
  /\ UNCHANGED driver

\* A callback fails, and with it the command, whatever was done before.
CallbackFails ==
  /\ Faults /\ pc = "handle"
  /\ k2u.type = "LIST" => datamap_list(2 * entry) # 0
  /\ reply' = "IOERR" /\ pc' = "replying"
  /\ UNCHANGED <<driver, mem, reserved, disk, entry, offset>>

-----------------------------------------------------------------------------
(* The reply                                                               *)

\* bius_dev_write: the data of a read that succeeded is copied back.
bius_dev_write ==
  /\ pc = "replying" /\ ~stale
  /\ i' = 0 /\ reserved_page_num' = 2
  /\ pc' = IF reply = "OK" /\ request.dir = "READ" THEN "copying" ELSE "unmapping"
  /\ UNCHANGED <<mem, window, reserved, request, mapLoop, k2u, server, disk, history, wild>>

\* No request has the id of an old header: write() fails, the library exits and
\* the window is gone.
ReplyRefused ==
  /\ pc = "replying" /\ stale
  /\ pc' = "exited"
  /\ ptes' = [u \in UserPage |-> ZeroPage]
  /\ UNCHANGED <<mem, reserve_mapping_list, mapping_list, unset, reserved, request, mapLoop, copyLoop,
                 k2u, server, disk, history, wild>>

\* The list that bius_copy_in_misaligned_pages goes through: a simple map is
\* turned into one entry.
CopyList(j) ==
  CASE request.type = "LIST" -> IF j \in ListIndex THEN mapping_list[j] ELSE 0
    [] j = 0 -> vm_start + request.data
    [] j = 1 -> Bytes(request.segs)
    [] OTHER -> 0

\* The kernel page that reserved page k stands for, 0 if that was never set.
Dest(k) == IF k \in Reserved THEN reserve_mapping_list[k] ELSE 0

\* memcpy of n bytes from a reserved page to the kernel page it stands for.
CopyPage(m, k, off, n) ==
  IF Dest(k) = 0 THEN m
  ELSE [m EXCEPT ![Dest(k)] = [p \in Pos |-> IF p \in off .. off + n - 1 THEN reserved[k][p] ELSE @[p]]]

\* Mutant: the front page is always copied up to its end.
front_length_ToPageEnd(off, len) == PAGE_SIZE - off

front_length(off, len) == IF off + len < PAGE_SIZE THEN len ELSE PAGE_SIZE - off

\* One round of the loop of bius_copy_in_misaligned_pages. The offset and the
\* length at the end are computed from mapping_list[i], where the entry's
\* address is at mapping_list[i * 2].
CopyEntry ==
  /\ pc = "copying" /\ CopyList(2 * i) # 0
  /\ LET addr == CopyList(2 * i)
         len == CopyList(2 * i + 1)
         off == CopyList(i) % PAGE_SIZE
         front == addr % PAGE_SIZE # 0
         end == (addr + len) % PAGE_SIZE # 0 /\ ~(front /\ off + len < PAGE_SIZE)
         k == reserved_page_num
         k1 == IF front THEN k + 1 ELSE k
         m1 == IF front THEN CopyPage(mem, k, off, front_length(off, len)) ELSE mem
     IN
     /\ mem' = IF end THEN CopyPage(m1, k1, 0, (CopyList(i) + len) % PAGE_SIZE) ELSE m1
     /\ wild' = (wild \/ (front /\ Dest(k) = 0) \/ (end /\ Dest(k1) = 0))
     /\ reserved_page_num' = IF end THEN k1 + 1 ELSE k1
  /\ i' = i + 1
  /\ UNCHANGED <<window, reserved, request, mapLoop, k2u, pc, server, disk, history>>

\* The window shows the zero page again, and the request is completed.
bius_unmap_data ==
  /\ pc = "unmapping" \/ (pc = "copying" /\ CopyList(2 * i) = 0)
  /\ ptes' = [u \in UserPage |-> IF u < request.size \div PAGE_SIZE THEN ZeroPage ELSE ptes[u]]
  /\ request' = [request EXCEPT !.type = "UNMAPPED"]
  /\ pc' = "idle"
  /\ UNCHANGED <<mem, reserved, reserve_mapping_list, mapping_list, unset, mapLoop, copyLoop, k2u,
                 server, disk, history, wild>>

-----------------------------------------------------------------------------
Next ==
  \/ \E dir \in {"READ", "WRITE"}, segs \in Layouts, pos \in Positions : Submit(dir, segs, pos)
  \/ bius_dev_read \/ MapSegment \/ MapDone \/ SendCommandFailed
  \/ handle_blk_command \/ handle_blk_command_with_datamap_list \/ CallbackFails
  \/ bius_dev_write \/ ReplyRefused \/ CopyEntry \/ bius_unmap_data

Spec == Init /\ [][Next]_vars

-----------------------------------------------------------------------------
(* Properties                                                              *)

Segment == {request.segs[s] : s \in 1 .. Len(request.segs)}

\* Is byte p of page g part of the request, and where on the disk does byte p
\* of a segment's page belong?
Owns(g, p) == \E s \in Segment : s.pg = g /\ Covers(s, p)
Place(s, p) == request.pos + s.at + p - s.off

Completed(dir) == pc = "idle" /\ request.dir = dir /\ reply = "OK"

\* Whatever the alignment of its segments, and whatever earlier requests have
\* left in the lists and the reserved pages: a write that succeeds has put its
\* bytes on the disk, in order, and nothing else.
WrittenInOrder ==
  Completed("WRITE") =>
    /\ \A s \in Segment, p \in Pos : Covers(s, p) => disk[Place(s, p)] = before.mem[s.pg][p]
    /\ \A d \in Disk : d \notin request.pos .. request.pos + Bytes(request.segs) - 1 =>
         disk[d] = before.disk[d]

Delivered == \A s \in Segment, p \in Pos : Covers(s, p) => mem[s.pg][p] = disk[Place(s, p)]

\* A read through a simple map that succeeds has the disk's bytes in its pages.
SimpleReadsDelivered == Completed("READ") /\ k2u.type = "SIMPLE" => Delivered

\* A write changes no byte of the kernel's pages, and a read through a simple map
\* none that is not part of the request. Reads through a list do change others
\* (see ReadsDelivered), and so may the command of an old header.
OthersKept ==
  ~stale /\ (request.dir = "WRITE" \/ k2u.type # "LIST") =>
    /\ ~wild
    /\ \A g \in Page, p \in Pos :
         (request.dir = "WRITE" \/ ~Owns(g, p)) => mem[g][p] = before.mem[g][p]

\* While a server has the header of the request that is mapped, its window shows
\* of the kernel's pages the bytes of that request and no others, whatever
\* earlier requests have left in the reserved pages. The page of the list is
\* never cleared: where a list was stored it holds numbers of the window, and
\* the rest shows whatever kmalloc left there.
NothingElseShown ==
  ~stale =>
    \A u \in UserPage :
      /\ ptes[u].kind = "data" => \A p \in Pos : Owns(ptes[u].n, p)
      /\ ptes[u].kind = "reserved" => \A p \in Pos : reserved[ptes[u].n][p] # 0 =>
           Owns(reserve_mapping_list[ptes[u].n], p)
      /\ ptes[u].kind = "list" => \A j \in ListIndex \ unset : mapping_list[j] <= vm_end

\* A server never gets at the pages of an earlier request by way of a later one:
\* the window is cleared before the connection takes the next request. If a
\* header could not be copied out the pages of the ended request stay in the
\* window, but the server is gone before another one is mapped.
WindowCleared ==
  pc \in {"idle", "queued", "exited"} => \A u \in UserPage : ptes[u] = ZeroPage

\* The test program's check of what it reads back (examples/blktest.c), for
\* requests of any layout.
ReadsDelivered == Completed("READ") => Delivered
=============================================================================
