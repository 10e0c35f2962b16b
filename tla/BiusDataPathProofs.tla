------------------------- MODULE BiusDataPathProofs -------------------------
(***************************************************************************)
(* Proofs about BiusDataPath: for every chunk size, number of chunks and   *)
(* split into bios and segments, with short and failing copies, the bytes  *)
(* arrive in order at the server and back at the test.                     *)
(*                                                                         *)
(* DataInv is inductive. Its parts follow the data through the stages of a *)
(* request: Sending for the copy to the library, Serving for the callback, *)
(* Replying for the copy back, and OnDisk for what the chunks before this  *)
(* one have left.                                                          *)
(***************************************************************************)
EXTENDS BiusDataPath, WellFoundedInduction, TLAPS

-----------------------------------------------------------------------------
(* The inductive invariant                                                 *)

Place(i, k) == (i - 1) * Chunk + k
Written(i) == \A k \in Index : disk[Place(i, k)] = pattern(i, k)
Copying == {"copyin", "send", "return"}
Byte == Nat \X Nat

TypeOK ==
  /\ server \in {"ramdisk", "passthrough"}
  /\ mode \in {"write", "read", "end"} /\ iter \in 1 .. Iter
  /\ pages \in [Index -> Byte] /\ buffer \in [Index -> Byte]
  /\ disk \in [1 .. Iter * Chunk -> Byte]
  /\ pc # "test" => chain \in Layouts
  /\ bio \in Nat /\ bi_done \in Nat /\ map_data \in Nat
  /\ remain_buffer \in Nat /\ total_sent \in Nat /\ total_read \in Nat /\ moved \in Nat
  /\ seg \in Nat /\ user_data \in Nat
  /\ pc \in Copying \cup {"test", "serve", "reply", "ok", "ioerr", "exit", "end"}

\* Only writes are copied in, and the test is over when it says so.
Modes ==
  /\ pc \in Copying => mode = "write"
  /\ mode = "end" => pc = "end"
  /\ pc \notin {"send", "return"} => total_sent = 0

\* The iterator is inside its bio, and everything in front of it has been sent.
Sending ==
  pc \in Copying =>
    /\ bio + bi_done <= Chunk
    /\ bio < Chunk => bio + bi_done < BioEnd
    /\ map_data = Chunk - (bio + bi_done)
    /\ total_read + total_sent = bio + bi_done /\ moved = 0
    /\ \A k \in Index : pages[k] = pattern(iter, k)
    /\ \A k \in Index : buffer[k] = IF k <= total_read + total_sent THEN pages[k] ELSE Junk

\* What a callback has moved so far has arrived.
Serving ==
  pc = "serve" =>
    /\ moved < Chunk
    /\ mode = "write" =>
         /\ \A k \in Index : buffer[k] = pattern(iter, k)
         /\ \A k \in 1 .. moved : disk[Place(iter, k)] = pattern(iter, k)
    /\ mode = "read" =>
         /\ \A k \in 1 .. moved : buffer[k] = pattern(iter, k)
         /\ seg = 0 /\ user_data = 0

\* The segments received so far hold the data, and user_data keeps up.
Replying ==
  /\ pc = "reply" /\ mode = "read" =>
       /\ \A k \in Index : buffer[k] = pattern(iter, k)
       /\ seg <= Chunk /\ user_data = seg
       /\ \A k \in 1 .. seg : pages[k] = pattern(iter, k)
  /\ pc = "ok" /\ mode = "read" => \A k \in Index : pages[k] = pattern(iter, k)

\* Chunks written before this request stay as they are.
OnDisk ==
  /\ mode = "write" => \A i \in 1 .. Iter :
       i < iter \/ (i = iter /\ pc \in {"reply", "ok"}) => Written(i)
  /\ mode = "read" => \A i \in 1 .. Iter : Written(i)

DataInv == TypeOK /\ Modes /\ Sending /\ Serving /\ Replying /\ OnDisk
-----------------------------------------------------------------------------
(* Lemmas                                                                  *)

\* A set of natural numbers that is not empty has a least element.
LEMMA LeastExists ==
  ASSUME NEW S \in SUBSET Nat, S # {}
  PROVE  \E m \in S : \A x \in S : m <= x
<1> DEFINE R == {p \in Nat \X Nat : p[1] < p[2]}
<1>1. IsWellFoundedOn(R, Nat)
  BY NatLessThanWellFounded DEF OpToRel
<1> HIDE DEF R
<1>2. PICK m \in S : \A x \in S : <<x, m>> \notin R
  BY <1>1, WFMin
<1>3. ASSUME NEW x \in S
      PROVE  m <= x
  <2>1. x \in Nat /\ m \in Nat
    OBVIOUS
  <2>2. ~ x < m
    <3>1. SUFFICES ASSUME x < m PROVE FALSE
      OBVIOUS
    <3>2. <<x, m>> \in R
      BY <2>1, <3>1 DEF R
    <3> QED  BY <1>2, <3>2
  <2> QED  BY <2>1, <2>2
<1> QED  BY <1>2, <1>3

\* What the iterators of bios and segments find in front of the end of a chunk.
LEMMA NextEndIs ==
  ASSUME NEW ends \in SUBSET Index, Chunk \in ends, NEW p \in Nat, p < Chunk
  PROVE  /\ NextEnd(ends, p) \in ends /\ NextEnd(ends, p) > p
         /\ \A e \in ends : e > p => NextEnd(ends, p) <= e
<1> DEFINE S == {e \in ends : e > p}
<1>0. Chunk \in Nat /\ \A e \in ends : e \in Nat
  BY ConstantsOK DEF Index, ConstantsOK
<1>1. S \in SUBSET Nat /\ Chunk \in S
  BY <1>0
<1>2. \E m \in S : \A x \in S : m <= x
  <2> HIDE DEF S
  <2> QED  BY <1>1, LeastExists
<1>3. Min(S) \in S /\ \A x \in S : Min(S) <= x
  <2> HIDE DEF S
  <2> QED  BY <1>2 DEF Min
<1> QED  BY <1>3 DEF NextEnd

\* Chunks take places of their own on the disk.
LEMMA PlaceIs ==
  ASSUME NEW i \in 1 .. Iter, NEW k \in Index
  PROVE  /\ Place(i, k) \in 1 .. Iter * Chunk
         /\ \A j \in 1 .. Iter, a \in Index, b \in Index :
              Place(i, k) \in Place(j, a) .. Place(j, b) <=> i = j /\ k \in a .. b
<1> USE ConstantsOK DEF ConstantsOK, Index, Place
<1>1. \A x \in Nat, y \in Nat : x <= y => x * Chunk <= y * Chunk
  <2> SUFFICES ASSUME NEW x \in Nat, NEW y \in Nat, x <= y PROVE x * Chunk <= y * Chunk
    OBVIOUS
  <2>1. y * Chunk = x * Chunk + (y - x) * Chunk /\ (y - x) * Chunk >= 0 /\ x * Chunk \in Nat
    OBVIOUS
  <2> QED  BY <2>1
<1>2. \A x \in Nat \ {0} : x * Chunk \in Nat /\ (x - 1) * Chunk = x * Chunk - Chunk
  OBVIOUS
<1>3. Place(i, k) = i * Chunk - Chunk + k /\ i * Chunk <= Iter * Chunk /\ Chunk <= i * Chunk
  BY <1>1, <1>2
<1>4. Place(i, k) \in 1 .. Iter * Chunk
  BY <1>2, <1>3
<1>5. ASSUME NEW j \in 1 .. Iter, NEW a \in Index, NEW b \in Index
      PROVE  Place(i, k) \in Place(j, a) .. Place(j, b) <=> i = j /\ k \in a .. b
  <2>1. Place(j, a) = j * Chunk - Chunk + a /\ Place(j, b) = j * Chunk - Chunk + b
    BY <1>2
  <2>2. i * Chunk \in Nat /\ j * Chunk \in Nat
    BY <1>2
  <2>3. CASE i = j
    BY <1>3, <2>1, <2>2, <2>3
  <2>4. CASE i < j
    <3>1. i * Chunk <= j * Chunk - Chunk
      BY <1>1, <1>2, <2>4
    <3>2. i * Chunk - Chunk + k < j * Chunk - Chunk + a
      BY <2>2, <3>1
    <3> HIDE DEF Place
    <3>3. Place(i, k) < Place(j, a) /\ Place(i, k) \in Nat
      BY <1>3, <1>4, <2>1, <3>2
    <3>4. Place(j, a) \in Int /\ Place(j, b) \in Int
      BY <2>1, <2>2
    <3> QED  BY <2>4, <3>3, <3>4
  <2>5. CASE j < i
    <3>1. j * Chunk <= i * Chunk - Chunk
      BY <1>1, <1>2, <2>5
    <3>2. j * Chunk - Chunk + b < i * Chunk - Chunk + k
      BY <2>2, <3>1
    <3> HIDE DEF Place
    <3>3. Place(j, b) < Place(i, k) /\ Place(i, k) \in Nat
      BY <1>3, <1>4, <2>1, <3>2
    <3>4. Place(j, a) \in Int /\ Place(j, b) \in Int
      BY <2>1, <2>2
    <3> QED  BY <2>5, <3>3, <3>4
  <2> QED  BY <2>3, <2>4, <2>5
<1> QED  BY <1>4, <1>5

\* A callback's transfer to the disk changes the bytes it is about and no other.
LEMMA StoreIs ==
  ASSUME TypeOK, NEW a \in Index, NEW b \in Index, Store(a, b)
  PROVE  /\ disk' \in [1 .. Iter * Chunk -> Byte]
         /\ \A i \in 1 .. Iter, k \in Index :
              disk'[Place(i, k)] = IF i = iter /\ k \in a .. b THEN buffer[k]
                                   ELSE disk[Place(i, k)]
<1>0. iter \in 1 .. Iter /\ buffer \in [Index -> Byte] /\ disk \in [1 .. Iter * Chunk -> Byte]
  BY DEF TypeOK
<1>1. Pos(a) = Place(iter, a) /\ Pos(b) = Place(iter, b)
  BY DEF Pos, Place
<1>2. DOMAIN disk = 1 .. Iter * Chunk
  BY <1>0
<1>3. disk' = [p \in 1 .. Iter * Chunk |->
                 IF p \in Place(iter, a) .. Place(iter, b) THEN buffer[p - Pos(0)] ELSE disk[p]]
  BY <1>1, <1>2 DEF Store
<1>i. iter \in Nat /\ Chunk \in Nat /\ (iter - 1) * Chunk \in Nat
  BY <1>0, ConstantsOK DEF ConstantsOK
<1>4. ASSUME NEW i \in 1 .. Iter, NEW k \in Index
      PROVE  disk'[Place(i, k)] = IF i = iter /\ k \in a .. b THEN buffer[k] ELSE disk[Place(i, k)]
  <2>1. Place(i, k) \in 1 .. Iter * Chunk
    BY PlaceIs
  <2>2. Place(i, k) \in Place(iter, a) .. Place(iter, b) <=> i = iter /\ k \in a .. b
    BY <1>0, PlaceIs
  <2>3. i = iter => Place(i, k) - Pos(0) = k
    BY <1>i DEF Place, Pos, Index
  <2> HIDE DEF Place
  <2> QED  BY <1>3, <2>1, <2>2, <2>3
<1>5. ASSUME NEW p \in 1 .. Iter * Chunk, p \in Place(iter, a) .. Place(iter, b)
      PROVE  p - Pos(0) \in Index
  BY <1>i, <1>5, ConstantsOK DEF Place, Pos, Index, ConstantsOK
<1>6. disk' \in [1 .. Iter * Chunk -> Byte]
  BY <1>0, <1>3, <1>5
<1> QED  BY <1>4, <1>6

\* The facts about constants and layouts that the steps below need.
LEMMA Sizes == Chunk \in Nat \ {0} /\ Iter \in Nat \ {0}
BY ConstantsOK DEF ConstantsOK

LEMMA Bytes ==
  /\ Junk \in Byte
  /\ \A i \in 1 .. Iter, k \in Index : pattern(i, k) \in Byte
BY Sizes DEF Junk, Byte, pattern, Index

LEMMA LayoutIs ==
  ASSUME NEW l \in Layouts
  PROVE  /\ l.segs \in SUBSET Index /\ l.bios \in SUBSET Index /\ l.bios \subseteq l.segs
         /\ Chunk \in l.bios /\ Chunk \in l.segs
BY ConstantsOK DEF ConstantsOK

-----------------------------------------------------------------------------
(* The steps                                                               *)

LEMMA InitHolds == Init => DataInv
<1> SUFFICES ASSUME Init PROVE DataInv
  OBVIOUS
<1> USE Sizes DEF Init
<1>1. TypeOK
  <2>1. NoPage \in [Index -> Byte] /\ [b \in 1 .. Iter * Chunk |-> Junk] \in [1 .. Iter * Chunk -> Byte]
    BY Bytes DEF NoPage
  <2>2. server \in {"ramdisk", "passthrough"}
    BY ConstantsOK DEF ConstantsOK
  <2> QED  BY <2>1, <2>2 DEF TypeOK
<1>2. Modes /\ Sending /\ Serving /\ Replying /\ OnDisk
  BY DEF Modes, Sending, Serving, Replying, OnDisk, Copying
<1> QED  BY <1>1, <1>2 DEF DataInv

\* Submit: the iterator stands at the start of the first bio, which is not empty.
LEMMA SubmitKeeps ==
  ASSUME DataInv, NEW l \in Layouts, Submit(l)
  PROVE  DataInv'
<1> USE DEF DataInv
<1>0. pc = "test" /\ iter \in 1 .. Iter /\ mode \in {"write", "read"} /\ total_sent = 0
  BY DEF TypeOK, Modes, Submit
<1>t. UNCHANGED <<server, mode, iter, remain_buffer, total_sent, disk>>
  BY DEF Submit, testVars, sendVars
<1>p. pc' = IF mode = "write" THEN "copyin" ELSE "serve"
  BY DEF Submit, Goto
<1>c. /\ chain' = l /\ bio' = 0 /\ bi_done' = 0 /\ total_read' = 0 /\ moved' = 0
      /\ seg' = 0 /\ user_data' = 0 /\ buffer' = NoPage
      /\ map_data' = IF mode = "write" THEN Chunk ELSE 0
      /\ pages' = IF mode = "write" THEN [k \in Index |-> pattern(iter, k)] ELSE NoPage
  BY DEF Submit
<1>n. NoPage \in [Index -> Byte] /\ \A k \in Index : NoPage[k] = Junk
  BY Bytes DEF NoPage
<1>1. TypeOK'
  <2>1. pages' \in [Index -> Byte]
    BY <1>0, <1>c, <1>n, Bytes
  <2>2. pc' \in Copying \cup {"test", "serve", "reply", "ok", "ioerr", "exit", "end"}
    BY <1>p DEF Copying
  <2> QED  BY <1>t, <1>c, <1>n, <2>1, <2>2, Sizes DEF TypeOK
<1>2. Modes'
  BY <1>0, <1>t, <1>p DEF Modes, Copying
<1>3. Sending'
  <2> SUFFICES ASSUME pc' \in Copying PROVE Sending'
    BY DEF Sending
  <2>0. mode = "write"
    BY <1>p DEF Copying
  <2>1. NextEnd(l.bios, 0) > 0
    BY LayoutIs, NextEndIs, Sizes
  <2>2. BioEnd' = NextEnd(l.bios, 0)
    BY <1>c DEF BioEnd
  <2>3. \A k \in Index : pages'[k] = pattern(iter, k) /\ ~(k <= 0)
    BY <1>c, <2>0, Sizes DEF Index
  <2>4. BioEnd' \in Nat
    BY <2>2, LayoutIs, NextEndIs, Sizes DEF Index
  <2>5. bio' + bi_done' = 0 /\ total_read' + total_sent' = 0
    BY <1>0, <1>t, <1>c
  <2> QED  BY <1>t, <1>c, <1>n, <2>0, <2>1, <2>2, <2>3, <2>4, <2>5, Sizes DEF Sending
<1>4. Serving'
  <2>1. pc' = "serve" => mode' = "read"
    BY <1>0, <1>t, <1>p
  <2>2. 1 .. moved' = {}
    BY <1>c
  <2> QED  BY <1>c, <2>1, <2>2, Sizes DEF Serving
<1>5. Replying'
  BY <1>p DEF Replying
<1>6. OnDisk'
  BY <1>0, <1>t, <1>p DEF OnDisk, Written
<1> QED  BY <1>1, <1>2, <1>3, <1>4, <1>5, <1>6

\* NextChunk: the chunk just done joins those on the disk.
LEMMA NextChunkKeeps ==
  ASSUME DataInv, NextChunk
  PROVE  DataInv'
<1> USE DEF DataInv
<1>0. pc = "ok" /\ iter \in 1 .. Iter /\ mode \in {"write", "read"} /\ total_sent = 0
  BY DEF TypeOK, Modes, NextChunk
<1>t. UNCHANGED <<server, pages, chain, bio, bi_done, map_data, remain_buffer, total_sent, buffer,
                  total_read, moved, seg, user_data, disk>>
  BY DEF NextChunk, reqVars, sendVars, recvVars
<1>p. pc' = IF mode = "read" /\ iter = Iter THEN "end" ELSE "test"
  BY DEF NextChunk, Goto
<1>c. IF iter < Iter THEN iter' = iter + 1 /\ mode' = mode
      ELSE iter' = 1 /\ mode' = IF mode = "write" THEN "read" ELSE "end"
  BY DEF NextChunk
<1>1. TypeOK'
  <2>1. iter' \in 1 .. Iter /\ mode' \in {"write", "read", "end"}
    BY <1>0, <1>c, Sizes
  <2>2. chain' \in Layouts
    BY <1>0, <1>t DEF TypeOK
  <2> QED  BY <1>t, <1>p, <2>1, <2>2 DEF TypeOK
<1>2. Modes'
  BY <1>0, <1>t, <1>p, <1>c, Sizes DEF Modes, Copying
<1>3. Sending' /\ Serving' /\ Replying'
  BY <1>p DEF Sending, Serving, Replying, Copying
<1>6. OnDisk'
  <2>1. ASSUME NEW i \in 1 .. Iter, mode' = "write", i < iter' PROVE Written(i)'
    <3>1. mode = "write" /\ (i < iter \/ i = iter)
      BY <1>0, <1>c, <2>1, Sizes
    <3> QED  BY <1>0, <1>t, <3>1 DEF OnDisk, Written
  <2>2. ASSUME NEW i \in 1 .. Iter, mode' = "read" PROVE Written(i)'
    <3>1. mode = "read" \/ (mode = "write" /\ (i < iter \/ i = iter))
      BY <1>0, <1>c, <2>2, Sizes
    <3> QED  BY <1>0, <1>t, <3>1 DEF OnDisk, Written
  <2> QED  BY <1>p, <2>1, <2>2 DEF OnDisk
<1> QED  BY <1>1, <1>2, <1>3, <1>6
\* handle_copy_in, CopiedIn, SendDone and ReadReturns: the library asks for the
\* rest until it has all of the chunk.
LEMMA CopyInKeeps ==
  ASSUME DataInv, handle_copy_in \/ CopiedIn \/ SendDone \/ ReadReturns
  PROVE  DataInv'
<1> USE DEF DataInv
<1>0. /\ pc \in Copying /\ mode = "write" /\ chain \in Layouts
      /\ total_read \in Nat /\ total_sent \in Nat
  BY DEF TypeOK, Modes, handle_copy_in, CopiedIn, SendDone, ReadReturns, Copying
<1>t. UNCHANGED <<server, mode, iter, pages, chain, bio, bi_done, map_data, buffer, moved, seg,
                  user_data, disk>>
  BY DEF handle_copy_in, CopiedIn, SendDone, ReadReturns, testVars, reqVars, recvVars
<1>p. pc' \in {"copyin", "send", "return", "serve", "exit"}
  BY DEF handle_copy_in, CopiedIn, SendDone, ReadReturns, Goto
<1>c. /\ remain_buffer' \in Nat /\ total_read' \in Nat /\ total_sent' \in Nat
      /\ total_read' + total_sent' = total_read + total_sent
  BY Sizes DEF TypeOK, Modes, handle_copy_in, CopiedIn, SendDone, ReadReturns, sendVars
<1>s. pc' \notin {"send", "return"} => total_sent' = 0
  BY DEF Modes, handle_copy_in, CopiedIn, SendDone, ReadReturns, Goto, sendVars
<1>v. pc' = "serve" => total_read >= Chunk /\ total_sent = 0
  BY <1>0 DEF Modes, handle_copy_in, CopiedIn, SendDone, ReadReturns, Goto
<1>1. TypeOK'
  BY <1>0, <1>t, <1>p, <1>c DEF TypeOK, Copying
<1>2. Modes'
  BY <1>0, <1>t, <1>s DEF Modes
<1>3. Sending'
  <2>1. BioEnd' = BioEnd
    BY <1>t DEF BioEnd
  <2> QED  BY <1>0, <1>t, <1>c, <2>1 DEF Sending
<1>4. Serving'
  <2> SUFFICES ASSUME pc' = "serve" PROVE Serving'
    BY DEF Serving
  <2>1. \A k \in Index : buffer[k] = pattern(iter, k)
    <3>1. \A k \in Index : k <= total_read + total_sent
      BY <1>0, <1>v, Sizes DEF Index
    <3> QED  BY <1>0, <3>1 DEF Sending
  <2>2. moved = 0
    BY <1>0 DEF Sending
  <2>3. mode' = "write" /\ moved' = 0 /\ 1 .. moved' = {}
    BY <1>0, <1>t, <2>2
  <2> QED  BY <1>t, <2>1, <2>3, Sizes DEF Serving
<1>5. Replying'
  BY <1>p DEF Replying
<1>6. OnDisk'
  BY <1>0, <1>t, <1>p DEF OnDisk, Written, Copying
<1> QED  BY <1>1, <1>2, <1>3, <1>4, <1>5, <1>6

\* bius_send_data: n bytes of one segment, which does not reach beyond its bio.
LEMMA SendKeeps ==
  ASSUME DataInv, NEW n \in Nat, bius_send_data(n)
  PROVE  DataInv'
<1> USE DEF DataInv
<1> DEFINE at == bio + bi_done
<1>0. /\ pc = "send" /\ mode = "write" /\ chain \in Layouts
      /\ total_read \in Nat /\ total_sent \in Nat /\ bio \in Nat /\ bi_done \in Nat
      /\ map_data \in Nat /\ remain_buffer \in Nat /\ iter \in 1 .. Iter
      /\ map_data > 0 /\ remain_buffer > 0 /\ n <= size_to_send
  BY DEF TypeOK, Modes, bius_send_data, Copying
<1>i. /\ at < Chunk /\ bio < Chunk /\ at < BioEnd /\ total_read + total_sent = at
      /\ map_data = Chunk - at /\ moved = 0
  BY <1>0, Sizes DEF Sending, Copying
<1>t. UNCHANGED <<server, mode, iter, pages, chain, total_read, moved, seg, user_data, disk>>
  BY DEF bius_send_data, testVars, recvVars
<1>p. pc' \in {"send", "return"}
  BY DEF bius_send_data, Goto
<1>e. /\ BioEnd \in chain.bios /\ BioEnd \in chain.segs /\ BioEnd \in Index
      /\ NextEnd(chain.segs, at) \in Index /\ NextEnd(chain.segs, at) > at
      /\ NextEnd(chain.segs, at) <= BioEnd
  <2>1. BioEnd \in chain.bios
    BY <1>0, <1>i, LayoutIs, NextEndIs DEF BioEnd
  <2>2. BioEnd \in chain.segs /\ BioEnd \in Index
    BY <1>0, <2>1, LayoutIs
  <2>3. at \in Nat
    BY <1>0
  <2> HIDE DEF at
  <2> QED  BY <1>0, <1>i, <2>1, <2>2, <2>3, LayoutIs, NextEndIs
<1>n. at + n <= NextEnd(chain.segs, at) /\ at + n <= BioEnd /\ BioEnd <= Chunk /\ n <= remain_buffer
  BY <1>0, <1>e, Sizes DEF size_to_send, bv_len, Index
<1>c. /\ remain_buffer' = remain_buffer - n /\ total_sent' = total_sent + n
      /\ map_data' = map_data - n
  BY DEF bius_send_data
<1>a. /\ bio' \in Nat /\ bi_done' \in Nat /\ bio' + bi_done' = at + n
      /\ at + n # BioEnd => bio' = bio /\ at + n < BioEnd
      /\ at + n = BioEnd => bio' = BioEnd /\ bi_done' = 0
  BY <1>0, <1>e, <1>n DEF bius_send_data, bio_advance_iter, Index
<1>b. buffer' = [k \in Index |-> IF k \in at + 1 .. at + n THEN pages[k] ELSE buffer[k]]
  <2>1. \A k \in Index : k - at + at = k
    BY <1>0, Sizes DEF Index
  <2> QED  BY <1>i, <2>1 DEF bius_send_data, CopyToIter
<1>1. TypeOK'
  <2>1. buffer' \in [Index -> Byte]
    BY <1>b DEF TypeOK
  <2>2. remain_buffer' \in Nat /\ total_sent' \in Nat /\ map_data' \in Nat
    BY <1>0, <1>i, <1>n, <1>c, <1>e, Sizes DEF Index
  <2> QED  BY <1>0, <1>t, <1>p, <1>a, <2>1, <2>2 DEF TypeOK, Copying
<1>2. Modes'
  BY <1>0, <1>t, <1>p DEF Modes
<1>3. Sending'
  <2>1. bio' + bi_done' <= Chunk
    BY <1>0, <1>a, <1>n, <1>e, Sizes DEF Index
  <2>2. bio' < Chunk => bio' + bi_done' < BioEnd'
    <3>1. CASE at + n # BioEnd
      BY <1>a, <1>t, <3>1 DEF BioEnd
    <3>2. CASE at + n = BioEnd
      <4>1. bio' = BioEnd /\ bi_done' = 0 /\ BioEnd \in Nat
        BY <1>a, <1>e, <3>2 DEF Index
      <4>2. BioEnd < Chunk => NextEnd(chain.bios, BioEnd) > BioEnd
        BY <1>0, <4>1, LayoutIs, NextEndIs
      <4>3. BioEnd' = NextEnd(chain.bios, BioEnd)
        BY <1>t, <4>1 DEF BioEnd
      <4> QED  BY <4>1, <4>2, <4>3
    <3> QED  BY <3>1, <3>2
  <2>3. map_data' = Chunk - (bio' + bi_done') /\ total_read' + total_sent' = at + n
    <3>1. map_data' = map_data - n /\ map_data = Chunk - at
      BY <1>i, <1>c
    <3>2. total_read' = total_read /\ total_sent' = total_sent + n /\ total_read + total_sent = at
      BY <1>i, <1>t, <1>c
    <3>3. bio' + bi_done' = at + n
      BY <1>a
    <3>4. at \in Nat
      BY <1>0
    <3> HIDE DEF at
    <3>5. map_data' = Chunk - (at + n)
      BY <3>1, <3>4, Sizes
    <3>6. total_read' + total_sent' = at + n
      BY <1>0, <3>2, <3>4
    <3> QED  BY <3>3, <3>5, <3>6
  <2>4. \A k \in Index : pages'[k] = pattern(iter', k)
    BY <1>0, <1>t DEF Sending, Copying
  <2>5. ASSUME NEW k \in Index
        PROVE  buffer'[k] = IF k <= at + n THEN pages[k] ELSE Junk
    <3>1. buffer[k] = IF k <= at THEN pages[k] ELSE Junk
      BY <1>0, <1>i DEF Sending, Copying
    <3>2. buffer'[k] = IF k \in at + 1 .. at + n THEN pages[k] ELSE buffer[k]
      BY <1>b
    <3>3. k \in Nat /\ at \in Nat
      BY <1>0, Sizes DEF Index
    <3> HIDE DEF at
    <3> QED  BY <3>1, <3>2, <3>3
  <2> HIDE DEF at
  <2> QED  BY <1>t, <1>a, <1>i, <2>1, <2>2, <2>3, <2>4, <2>5 DEF Sending
<1>4. Serving' /\ Replying'
  BY <1>p DEF Serving, Replying
<1>6. OnDisk'
  BY <1>0, <1>t, <1>p DEF OnDisk, Written
<1> QED  BY <1>1, <1>2, <1>3, <1>4, <1>6
\* The callbacks for writes: bytes a .. b of the chunk go to the disk, and the
\* reply is next when they were the last.
LEMMA StoredKeeps ==
  ASSUME DataInv, pc = "serve", mode = "write", NEW b \in Index, Store(moved + 1, b) \/ Store(1, b),
         pc' \in {"serve", "reply"}, pc' = "serve" => moved' = b /\ b < Chunk, pc' = "reply" => b = Chunk,
         moved' \in Nat,
         UNCHANGED <<server, mode, iter, pages, chain, bio, bi_done, map_data, remain_buffer,
                     total_sent, buffer, total_read, seg, user_data>>
  PROVE  DataInv'
<1> USE DEF DataInv
<1>0. /\ iter \in 1 .. Iter /\ moved \in Nat /\ moved < Chunk /\ b \in Nat
      /\ \A k \in Index : buffer[k] = pattern(iter, k)
      /\ \A k \in 1 .. moved : disk[Place(iter, k)] = pattern(iter, k)
  BY Sizes DEF TypeOK, Serving, Index
<1>1. PICK a \in Index : Store(a, b) /\ a <= moved + 1
  <2>1. moved + 1 \in Index /\ 1 \in Index
    BY <1>0, Sizes DEF Index
  <2> QED  BY <1>0, <2>1
<1>2. /\ disk' \in [1 .. Iter * Chunk -> Byte]
      /\ \A i \in 1 .. Iter, k \in Index :
           disk'[Place(i, k)] = IF i = iter /\ k \in a .. b THEN buffer[k] ELSE disk[Place(i, k)]
  BY <1>1, StoreIs
<1>3. ASSUME NEW k \in Index, k <= b
      PROVE  disk'[Place(iter, k)] = pattern(iter, k)
  <2>1. k \in a .. b \/ k \in 1 .. moved
    BY <1>0, <1>1, <1>3, Sizes DEF Index
  <2>2. disk'[Place(iter, k)] = IF k \in a .. b THEN buffer[k] ELSE disk[Place(iter, k)]
    BY <1>0, <1>2
  <2> QED  BY <1>0, <2>1, <2>2
<1>4. ASSUME NEW i \in 1 .. Iter, i < iter
      PROVE  Written(i)'
  <2>1. Written(i) /\ i # iter
    BY <1>0, <1>4, Sizes DEF OnDisk
  <2>2. \A k \in Index : disk'[Place(i, k)] = disk[Place(i, k)]
    BY <1>2, <2>1
  <2> QED  BY <2>1, <2>2 DEF Written
<1>5. TypeOK'
  BY <1>2 DEF TypeOK, Copying
<1>6. Modes' /\ Sending'
  BY DEF Modes, Sending, Copying
<1>7. Serving'
  <2> SUFFICES ASSUME pc' = "serve" PROVE Serving'
    BY DEF Serving
  <2>1. moved' = b /\ b < Chunk
    OBVIOUS
  <2>2. \A k \in 1 .. b : k \in Index /\ k <= b
    BY <1>0, <2>1, Sizes DEF Index
  <2> QED  BY <1>0, <1>3, <2>1, <2>2 DEF Serving
<1>8. Replying'
  BY DEF Replying
<1>9. OnDisk'
  <2>1. pc' = "reply" => \A k \in Index : k <= b
    BY Sizes DEF Index
  <2>2. pc' = "reply" => Written(iter)'
    BY <1>3, <2>1 DEF Written
  <2> QED  BY <1>4, <2>2 DEF OnDisk, Written
<1> QED  BY <1>5, <1>6, <1>7, <1>8, <1>9

\* The callbacks for reads, likewise.
LEMMA FetchedKeeps ==
  ASSUME DataInv, pc = "serve", mode = "read", NEW b \in Index, Fetch(moved + 1, b) \/ Fetch(1, b),
         pc' \in {"serve", "reply"}, pc' = "serve" => moved' = b /\ b < Chunk, pc' = "reply" => b = Chunk,
         moved' \in Nat,
         UNCHANGED <<server, mode, iter, pages, chain, bio, bi_done, map_data, remain_buffer,
                     total_sent, disk, total_read, seg, user_data>>
  PROVE  DataInv'
<1> USE DEF DataInv
<1>0. /\ iter \in 1 .. Iter /\ moved \in Nat /\ moved < Chunk /\ b \in Nat
      /\ \A k \in 1 .. moved : buffer[k] = pattern(iter, k)
      /\ seg = 0 /\ user_data = 0 /\ buffer \in [Index -> Byte]
  BY Sizes DEF TypeOK, Serving, Index
<1>1. PICK a \in Index : Fetch(a, b) /\ a <= moved + 1
  <2>1. moved + 1 \in Index /\ 1 \in Index
    BY <1>0, Sizes DEF Index
  <2> QED  BY <1>0, <2>1
<1>d. \A k \in Index : disk[Pos(k)] = pattern(iter, k)
  BY <1>0 DEF OnDisk, Written, Pos, Place
<1>2. \A k \in Index : buffer'[k] = IF k \in a .. b THEN pattern(iter, k) ELSE buffer[k]
  BY <1>1, <1>d DEF Fetch
<1>3. ASSUME NEW k \in Index, k <= b
      PROVE  buffer'[k] = pattern(iter, k)
  <2>1. k \in a .. b \/ k \in 1 .. moved
    BY <1>0, <1>1, <1>3, Sizes DEF Index
  <2> QED  BY <1>0, <1>2, <2>1
<1>5. TypeOK'
  <2>1. buffer' \in [Index -> Byte]
    BY <1>0, <1>1, <1>d, Bytes DEF Fetch
  <2> QED  BY <2>1 DEF TypeOK, Copying
<1>6. Modes' /\ Sending'
  BY DEF Modes, Sending, Copying
<1>7. Serving'
  <2> SUFFICES ASSUME pc' = "serve" PROVE Serving'
    BY DEF Serving
  <2>1. moved' = b /\ b < Chunk
    OBVIOUS
  <2>2. \A k \in 1 .. b : k \in Index /\ k <= b
    BY <1>0, <2>1, Sizes DEF Index
  <2> QED  BY <1>0, <1>3, <2>1, <2>2 DEF Serving
<1>8. Replying'
  <2> SUFFICES ASSUME pc' = "reply" PROVE Replying'
    BY DEF Replying
  <2>1. \A k \in Index : k <= b
    BY Sizes DEF Index
  <2>2. \A k \in Index : buffer'[k] = pattern(iter, k)
    BY <1>3, <2>1
  <2>3. 1 .. seg' = {} /\ seg' = 0
    BY <1>0
  <2> QED  BY <1>0, <2>2, <2>3, Sizes DEF Replying
<1>9. OnDisk'
  BY DEF OnDisk, Written
<1> QED  BY <1>5, <1>6, <1>7, <1>8, <1>9

\* ramdisk_write, ramdisk_read, and a turn of the loops of the passthrough server.
LEMMA CallbackKeeps ==
  ASSUME DataInv,
         ramdisk_write \/ ramdisk_read \/ \E n \in 1 .. Chunk : passthrough_write(n) \/ passthrough_read(n)
  PROVE  DataInv'
<1>0. Chunk \in Index /\ moved \in Nat
  BY Sizes DEF Index, DataInv, TypeOK
<1>1. CASE ramdisk_write
  BY <1>0, <1>1, StoredKeeps DEF ramdisk_write, Goto, testVars, reqVars, sendVars, recvVars
<1>2. CASE ramdisk_read
  BY <1>0, <1>2, FetchedKeeps DEF ramdisk_read, Goto, testVars, reqVars, sendVars, recvVars
<1>3. ASSUME NEW n \in 1 .. Chunk, passthrough_write(n) PROVE DataInv'
  <2>1. /\ moved' = moved + n /\ moved + n \in Index
        /\ pc' = IF moved + n < Chunk THEN "serve" ELSE "reply"
    BY <1>0, <1>3, Sizes DEF passthrough_write, Transfer, Goto, Index
  <2>2. moved' \in Nat /\ (~ moved + n < Chunk => moved + n = Chunk)
    BY <1>0, <2>1, Sizes DEF Index
  <2> QED  BY <1>3, <2>1, <2>2, StoredKeeps DEF passthrough_write, testVars, reqVars, sendVars, recvVars
<1>4. ASSUME NEW n \in 1 .. Chunk, passthrough_read(n) PROVE DataInv'
  <2>1. /\ moved' = moved + n /\ moved + n \in Index
        /\ pc' = IF moved + n < Chunk THEN "serve" ELSE "reply"
    BY <1>0, <1>4, Sizes DEF passthrough_read, Transfer, Goto, Index
  <2>2. moved' \in Nat /\ (~ moved + n < Chunk => moved + n = Chunk)
    BY <1>0, <2>1, Sizes DEF Index
  <2> QED  BY <1>4, <2>1, <2>2, FetchedKeeps DEF passthrough_read, testVars, reqVars, sendVars, recvVars
<1> QED  BY <1>1, <1>2, <1>3, <1>4
\* bius_receive_data: one segment more of the pages holds the data.
LEMMA ReceiveKeeps ==
  ASSUME DataInv, bius_receive_data
  PROVE  DataInv'
<1> USE DEF DataInv
<1>0. /\ pc = "reply" /\ mode = "read" /\ seg < Chunk /\ seg \in Nat /\ user_data = seg
      /\ chain \in Layouts /\ iter \in 1 .. Iter
      /\ \A k \in Index : buffer[k] = pattern(iter, k)
      /\ \A k \in 1 .. seg : pages[k] = pattern(iter, k)
      /\ pages \in [Index -> Byte]
  BY DEF TypeOK, Replying, bius_receive_data
<1>t. UNCHANGED <<server, mode, iter, chain, bio, bi_done, map_data, remain_buffer, total_sent,
                  buffer, total_read, moved, disk, pc>>
  BY DEF bius_receive_data, testVars, reqVars, sendVars
<1>e. SegEnd \in Nat /\ SegEnd > seg /\ SegEnd <= Chunk
  <2>1. SegEnd \in chain.segs /\ SegEnd > seg
    BY <1>0, LayoutIs, NextEndIs DEF SegEnd
  <2>2. SegEnd \in Index
    BY <1>0, <2>1, LayoutIs
  <2> QED  BY <2>1, <2>2, Sizes DEF Index
<1>c. seg' = SegEnd /\ user_data' = SegEnd
  BY <1>0, <1>e DEF bius_receive_data
<1>b. pages' = [k \in Index |-> IF k \in seg + 1 .. SegEnd THEN pattern(iter, k) ELSE pages[k]]
  <2>1. \A k \in Index : user_data + k - seg = k
    BY <1>0, Sizes DEF Index
  <2> QED  BY <1>0, <2>1 DEF bius_receive_data
<1>1. TypeOK'
  <2>1. pages' \in [Index -> Byte]
    BY <1>0, <1>b, Bytes
  <2> QED  BY <1>t, <1>c, <1>e, <2>1 DEF TypeOK
<1>2. Modes' /\ Sending' /\ Serving'
  BY <1>0, <1>t DEF Modes, Sending, Serving, Copying
<1>3. Replying'
  <2>1. ASSUME NEW k \in 1 .. SegEnd PROVE pages'[k] = pattern(iter, k)
    <3>1. k \in Index /\ (k \in seg + 1 .. SegEnd \/ k \in 1 .. seg)
      BY <1>0, <1>e, Sizes DEF Index
    <3> QED  BY <1>0, <1>b, <3>1
  <2> QED  BY <1>0, <1>t, <1>c, <1>e, <2>1 DEF Replying
<1>4. OnDisk'
  BY <1>t DEF OnDisk, Written
<1> QED  BY <1>1, <1>2, <1>3, <1>4

\* EndOk and the failures change nothing but the stage.
LEMMA EndKeeps ==
  ASSUME DataInv, EndOk \/ TransferFailed \/ ReceiveFailed
  PROVE  DataInv'
<1> USE DEF DataInv
<1>t. UNCHANGED <<server, mode, iter, pages, chain, bio, bi_done, map_data, remain_buffer,
                  total_sent, buffer, total_read, moved, seg, user_data, disk>>
  BY DEF EndOk, TransferFailed, ReceiveFailed, testVars, reqVars, sendVars, recvVars
<1>p. /\ pc' \in {"ok", "ioerr", "exit"} /\ pc \in {"serve", "reply"}
      /\ pc' = "ok" => pc = "reply" /\ (mode = "write" \/ seg = Chunk)
  BY DEF EndOk, TransferFailed, ReceiveFailed, Goto
<1>1. TypeOK'
  BY <1>t, <1>p DEF TypeOK
<1>2. Modes' /\ Sending' /\ Serving'
  BY <1>t, <1>p DEF Modes, Sending, Serving, Copying
<1>3. Replying'
  BY <1>t, <1>p DEF Replying, Index
<1>4. OnDisk'
  BY <1>t, <1>p DEF OnDisk, Written
<1> QED  BY <1>1, <1>2, <1>3, <1>4

LEMMA NextKeeps == DataInv /\ [Next]_vars => DataInv'
<1> SUFFICES ASSUME DataInv, [Next]_vars PROVE DataInv'
  OBVIOUS
<1>1. CASE UNCHANGED vars
  BY <1>1 DEF vars, testVars, reqVars, sendVars, recvVars, DataInv, TypeOK, Modes, Sending, BioEnd,
     Serving, Replying, OnDisk, Written
<1>2. CASE Next
  <2>1. \A n \in 0 .. Chunk : n \in Nat
    BY Sizes
  <2> QED  BY <1>2, <2>1, SubmitKeeps, NextChunkKeeps, CopyInKeeps, SendKeeps, CallbackKeeps,
              ReceiveKeeps, EndKeeps DEF Next
<1> QED  BY <1>1, <1>2

-----------------------------------------------------------------------------
(* Theorems                                                                *)

\* The invariant of the data path: at every stage of a request, from the test's
\* write() through bius_send_data, the callback and bius_receive_data to its
\* read(), what has been moved is the data, in order, and nothing else.
THEOREM DataPathInvariant == Spec => []DataInv
BY InitHolds, NextKeeps, PTL DEF Spec

\* map_data of bius_send_data is what is left of the chain of bios.
THEOREM RemainIsExact == Spec => []RemainMatchesChain
<1>1. DataInv => RemainMatchesChain
  BY DEF DataInv, Sending, Copying, RemainMatchesChain
<1> QED  BY <1>1, DataPathInvariant, PTL

\* However segments, bios and short copies cut it up, what handle_copy_in has
\* received is the data of the request in order.
THEOREM ReceivedInOrder == Spec => []InOrderPrefix
<1>1. DataInv => InOrderPrefix
  BY DEF DataInv, Sending, Copying, InOrderPrefix
<1> QED  BY <1>1, DataPathInvariant, PTL

\* The verification of blktest never fails: a read() that is answered with OK
\* returns what the write() of that chunk has written, for both servers.
THEOREM TestVerifies == Spec => []VerificationOk
<1>1. DataInv => VerificationOk
  BY DEF DataInv, Replying, VerificationOk
<1> QED  BY <1>1, DataPathInvariant, PTL
=============================================================================
