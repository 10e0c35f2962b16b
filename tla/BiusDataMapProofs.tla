-------------------------- MODULE BiusDataMapProofs --------------------------
(***************************************************************************)
(* Proofs about BiusDataMap: for every page size and every layout of the   *)
(* segments, whatever earlier requests have left behind, a write through   *)
(* the window arrives in order, a read through a simple map is delivered,  *)
(* and the window shows what belongs to the request and is cleared after   *)
(* it.                                                                     *)
(*                                                                         *)
(* The byte b of a request is at address vm_start + Base(l, s) + b, where  *)
(* s is its segment. Segments of one entry of the list have the same base, *)
(* which is why one call of the server can do them all.                    *)
(***************************************************************************)
EXTENDS BiusDataMap, WellFoundedInduction, TLAPS

-----------------------------------------------------------------------------
(* Segments, addresses and entries                                         *)

\* The bytes before segment s, and all of them behind the last one.
Start(l, s) == IF s <= Len(l) THEN l[s].at ELSE Bytes(l)

PageAt(s) == (s - 1) * PAGE_SIZE
Base(l, s) == PageAt(s) + l[s].off - l[s].at
AddrOf(l, s) == vm_start + Base(l, s) + Start(l, s)

\* Which byte of the request byte p of its page is.
ByteNo(l, s, p) == l[s].at + p - l[s].off

\* Segments s .. t - 1 are next to each other in the window.
Run(l, s, t) ==
  /\ s \in 1 .. Len(l) /\ t \in s + 1 .. Len(l) + 1
  /\ \A x \in s .. t - 1 : Base(l, x) = Base(l, s)

\* An entry for them: the address of their first byte, and their length.
Entry(e, s, t) ==
  /\ Run(request.segs, s, t)
  /\ mapping_list[2 * e] = AddrOf(request.segs, s)
  /\ mapping_list[2 * e + 1] = Start(request.segs, t) - Start(request.segs, s)

\* Entry e of the list stands for the segments f[e] .. f[e + 1] - 1.
Splits(f, u) ==
  /\ f[0] = 1 /\ f[list_entry_index] = u + 1
  /\ \A e \in 0 .. list_entry_index - 1 : Entry(e, f[e], f[e + 1])

SegNo == 1 .. MaxSegs + 1
Splittings == [0 .. list_entry_index -> SegNo]

-----------------------------------------------------------------------------
(* The inductive invariant                                                 *)

Serving == {"handle", "replying", "copying", "unmapping"}
Frames == {ZeroPage, ListPage} \cup [kind : {"data"}, n : Page] \cup [kind : {"reserved"}, n : Reserved]

TypeOK ==
  /\ mem \in [Page -> [Pos -> Nat]] /\ reserved \in [Reserved -> [Pos -> Nat]]
  /\ ptes \in [UserPage -> Frames]
  /\ reserve_mapping_list \in [Reserved -> Page \cup {0}]
  /\ mapping_list \in [ListIndex -> Nat]
  /\ request \in [dir : {"none", "READ", "WRITE"}, segs : Layouts \cup {<<>>}, pos : Nat,
                  type : {"UNMAPPED", "SIMPLE", "LIST"}, data : Nat, size : Nat]
  /\ list_entry_index \in 0 .. MaxSegs /\ user_page_num \in 0 .. MaxSegs
  /\ segment_end_aligned \in BOOLEAN
  /\ reserved_page_num \in Nat /\ i \in Nat /\ entry \in Nat /\ offset \in Nat /\ requests \in Nat
  /\ pc \in Serving \cup {"idle", "queued", "mapping"}
  /\ reply \in {"OK", "IOERR"} /\ wild \in BOOLEAN
  /\ disk \in [Disk -> Nat]

\* A request is of one of the layouts and fits on the disk.
RequestOK ==
  /\ pc # "idle" => request.dir # "none"
  /\ request.dir # "none" => /\ request.segs \in Layouts
                             /\ request.pos + Bytes(request.segs) <= MaxLen + 1
  /\ pc \in {"idle", "queued", "mapping"} => request.type = "UNMAPPED"
  /\ pc = "copying" => request.dir = "READ" /\ reply = "OK" /\ (i = 0 => reserved_page_num = 2)

\* The reserved page that shows segment s.
R(s) == ptes[s - 1].n
WholeSeg(s) == Whole(request.segs[s])

\* The first u segments are in the window. What is not theirs in a reserved page
\* is zero, and a write finds its data there.
Shown(u) ==
  \A s \in 1 .. u :
    IF WholeSeg(s) THEN ptes[s - 1] = Frame("data", request.segs[s].pg)
    ELSE /\ ptes[s - 1] = Frame("reserved", R(s)) /\ R(s) \in Reserved
         /\ reserve_mapping_list[R(s)] = request.segs[s].pg
         /\ \A p \in Pos :
              IF Covers(request.segs[s], p)
              THEN request.dir = "WRITE" => reserved[R(s)][p] = mem[request.segs[s].pg][p]
              ELSE reserved[R(s)][p] = 0

\* Reserved pages are handed out in the order of the segments, from 2 on.
Numbered(u) ==
  /\ \A s \in 1 .. u, t \in 1 .. u : s < t /\ ~WholeSeg(s) /\ ~WholeSeg(t) =>
       /\ R(s) < R(t)
       /\ (\A x \in s + 1 .. t - 1 : WholeSeg(x)) => R(t) = R(s) + 1
  /\ \A s \in 1 .. u : ~WholeSeg(s) /\ (\A x \in 1 .. s - 1 : WholeSeg(x)) => R(s) = 2

\* And the next one is behind all of them.
NextReserved(u) ==
  /\ reserved_page_num \in 2 .. u + 2
  /\ \A s \in 1 .. u : ~WholeSeg(s) =>
       /\ R(s) < reserved_page_num
       /\ (\A x \in s + 1 .. u : WholeSeg(x)) => reserved_page_num = R(s) + 1
  /\ (\A x \in 1 .. u : WholeSeg(x)) => reserved_page_num = 2

\* How many pages of the window are in use.
InUse ==
  CASE pc = "mapping" -> user_page_num
    [] pc \in Serving -> IF several THEN user_page_num + 1 ELSE user_page_num
    [] OTHER -> 0

WindowOK ==
  /\ \A v \in UserPage : v >= InUse => ptes[v] = ZeroPage
  /\ pc \in Serving => request.size = InUse * PAGE_SIZE

MappingOK ==
  pc = "mapping" =>
    /\ user_page_num <= Len(request.segs) /\ list_entry_index <= user_page_num
    /\ user_page_num > 0 => list_entry_index > 0
    /\ segment_end_aligned = (user_page_num > 0 /\
         request.segs[user_page_num].off + request.segs[user_page_num].len = PAGE_SIZE)
    /\ Shown(user_page_num) /\ Numbered(user_page_num) /\ NextReserved(user_page_num)
    /\ \E f \in Splittings : Splits(f, user_page_num)

MappedOK ==
  pc \in Serving =>
    /\ user_page_num = Len(request.segs) /\ list_entry_index \in 1 .. user_page_num
    /\ request.type = IF several THEN "LIST" ELSE "SIMPLE"
    /\ request.data = IF several THEN vm_start + PageAt(user_page_num + 1) ELSE request.segs[1].off
    /\ k2u = [type |-> request.type, data |-> request.data, dir |-> request.dir, pos |-> request.pos,
               len |-> Bytes(request.segs)]
    /\ several => ptes[user_page_num] = ListPage /\ mapping_list[2 * list_entry_index] = 0
    /\ Shown(user_page_num) /\ Numbered(user_page_num)
    /\ \E f \in Splittings :
         /\ Splits(f, user_page_num)
         /\ pc = "handle" => /\ entry \in 0 .. list_entry_index /\ offset = request.pos + Start(request.segs, f[entry])
                             /\ ~several => entry = 0

\* The first b bytes of a write are on the disk, and no others.
Written(b) ==
  /\ \A s \in 1 .. Len(request.segs), p \in Pos :
       Covers(request.segs[s], p) /\ ByteNo(request.segs, s, p) < b =>
         disk[request.pos + ByteNo(request.segs, s, p)] = before.mem[request.segs[s].pg][p]
  /\ \A d \in Disk : d \notin request.pos .. request.pos + b - 1 => disk[d] = before.disk[d]

WriteOK ==
  request.dir = "WRITE" =>
    /\ pc \in {"queued", "mapping"} => Written(0)
    /\ pc = "handle" => Written(offset - request.pos)
    /\ pc \in {"replying", "copying", "unmapping", "idle"} /\ reply = "OK" => Written(Bytes(request.segs))

\* Memory that is not part of the request.
KeptOK ==
  pc \in {"queued", "mapping", "handle", "replying"} \/ request.dir # "READ" \/ k2u.type # "LIST" =>
    /\ ~wild
    /\ \A g \in Page, p \in Pos :
         (request.dir = "WRITE" \/ ~Owns(g, p)) => mem[g][p] = before.mem[g][p]

MapInv == TypeOK /\ RequestOK /\ WindowOK /\ MappingOK /\ MappedOK /\ WriteOK /\ KeptOK

\* Where a list was ever stored, there are addresses and lengths of the window.
ListOK == \A j \in ListIndex \ unset : mapping_list[j] <= vm_end

\* When a header could not be copied out, the connection is near its end: nothing is known of the
\* window, but it is empty before anything else could be mapped.
StaleOK ==
  /\ stale /\ pc \in {"handle", "replying", "exited"}
  /\ pc = "exited" => \A u \in UserPage : ptes[u] = ZeroPage

DataMapInv == (~stale /\ MapInv /\ ListOK) \/ StaleOK

\* The segments of a request do not overlap.
SegmentsApart ==
  \A l \in Layouts : \A s, t \in 1 .. Len(l) :
    s # t => \A p \in Pos : ~(l[s].pg = l[t].pg /\ Covers(l[s], p) /\ Covers(l[t], p))

\* A read through a simple map has its data in the pages and the reserved pages,
\* and after the copy in the pages.
Fetched(u) ==
  \A s \in 1 .. u, p \in Pos : Covers(request.segs[s], p) =>
    (IF WholeSeg(s) THEN mem[request.segs[s].pg][p] ELSE reserved[R(s)][p])
      = disk[request.pos + ByteNo(request.segs, s, p)]

InPlace ==
  \A s \in 1 .. Len(request.segs), p \in Pos : Covers(request.segs[s], p) =>
    mem[request.segs[s].pg][p] = disk[request.pos + ByteNo(request.segs, s, p)]

ReadOK ==
  request.dir = "READ" /\ reply = "OK" /\ k2u.type = "SIMPLE" =>
    /\ pc = "replying" => Fetched(user_page_num)
    /\ pc = "copying" => IF i = 0 THEN Fetched(user_page_num)
                         ELSE i = 1 /\ InPlace
    /\ pc = "unmapping" => FALSE
    /\ pc = "idle" => InPlace

-----------------------------------------------------------------------------
(* Arithmetic                                                              *)

\* A set of natural numbers that is not empty has a least element.
LEMMA LeastExists ==
  ASSUME NEW S \in SUBSET Nat, S # {}
  PROVE  \E m \in S : \A x \in S : m <= x
<1> DEFINE Less == {p \in Nat \X Nat : p[1] < p[2]}
<1>1. IsWellFoundedOn(Less, Nat)
  BY NatLessThanWellFounded DEF OpToRel
<1> HIDE DEF Less
<1>2. PICK m \in S : \A x \in S : <<x, m>> \notin Less
  BY <1>1, WFMin
<1>3. ASSUME NEW x \in S
      PROVE  m <= x
  <2>1. x \in Nat /\ m \in Nat
    OBVIOUS
  <2>2. ~ x < m
    <3>1. SUFFICES ASSUME x < m PROVE FALSE
      OBVIOUS
    <3>2. <<x, m>> \in Less
      BY <2>1, <3>1 DEF Less
    <3> QED  BY <1>2, <3>2
  <2> QED  BY <2>1, <2>2
<1> QED  BY <1>2, <1>3

LEMMA Sizes == PAGE_SIZE \in Nat \ {0} /\ MaxSegs \in Nat \ {0} /\ MaxLen \in Nat
BY DataMapConstantsOK DEF DataMapConstantsOK, MaxLen

LEMMA PagesFollow ==
  ASSUME NEW s \in Nat \ {0}
  PROVE  PageAt(s) \in Nat /\ PageAt(s + 1) = PageAt(s) + PAGE_SIZE
BY Sizes DEF PageAt

\* Page and offset of an address.
LEMMA DivMod ==
  ASSUME NEW x \in Nat, NEW p \in Pos
  PROVE  (x * PAGE_SIZE + p) \div PAGE_SIZE = x /\ (x * PAGE_SIZE + p) % PAGE_SIZE = p
<1> DEFINE a == x * PAGE_SIZE + p
           q == a \div PAGE_SIZE
           r == a % PAGE_SIZE
<1>0. PAGE_SIZE \in Nat /\ PAGE_SIZE > 0 /\ p \in Nat /\ p < PAGE_SIZE
  BY Sizes DEF Pos
<1>1. a \in Nat
  BY <1>0
<1>2. q \in Nat /\ r \in Nat /\ r < PAGE_SIZE /\ a = q * PAGE_SIZE + r
  <2> HIDE DEF a
  <2> QED  BY <1>0, <1>1
<1> HIDE DEF q, r
<1>3. q * PAGE_SIZE + r = x * PAGE_SIZE + p
  BY <1>2
<1>4. ~ q < x
  <2> SUFFICES ASSUME q < x PROVE FALSE
    OBVIOUS
  <2>1. x * PAGE_SIZE = q * PAGE_SIZE + (x - q) * PAGE_SIZE
    BY <1>0, <1>2
  <2>2. (x - q) * PAGE_SIZE >= PAGE_SIZE
    BY <1>0, <1>2
  <2> QED  BY <1>0, <1>2, <1>3, <2>1, <2>2
<1>5. ~ x < q
  <2> SUFFICES ASSUME x < q PROVE FALSE
    OBVIOUS
  <2>1. q * PAGE_SIZE = x * PAGE_SIZE + (q - x) * PAGE_SIZE
    BY <1>0, <1>2
  <2>2. (q - x) * PAGE_SIZE >= PAGE_SIZE
    BY <1>0, <1>2
  <2> QED  BY <1>0, <1>2, <1>3, <2>1, <2>2
<1>6. q = x
  BY <1>2, <1>4, <1>5
<1>7. r = p
  BY <1>0, <1>2, <1>3, <1>6
<1> QED  BY <1>6, <1>7 DEF q, r

-----------------------------------------------------------------------------
(* Layouts                                                                 *)

LEMMA LayoutIs ==
  ASSUME NEW l \in Layouts
  PROVE  /\ Len(l) \in 1 .. MaxSegs /\ Len(l) \in Nat /\ l[1].at = 0
         /\ \A s \in 1 .. Len(l) :
              /\ l[s].pg \in Page /\ l[s].off \in Nat /\ l[s].len \in Nat \ {0} /\ l[s].at \in Nat
              /\ l[s].off + l[s].len <= PAGE_SIZE
         /\ \A s \in 1 .. Len(l) - 1 : l[s + 1].at = l[s].at + l[s].len
<1> DEFINE Rec == [pg : Page, off : Nat, len : Nat \ {0}, at : Nat]
<1>1. /\ l \in Seq(Rec) /\ Len(l) \in 1 .. MaxSegs /\ l[1].at = 0
      /\ \A s \in 1 .. Len(l) : l[s].off + l[s].len <= PAGE_SIZE
      /\ \A s \in 1 .. Len(l) - 1 : l[s + 1].at = l[s].at + l[s].len
  BY DataMapConstantsOK DEF DataMapConstantsOK
<1>2. \A s \in 1 .. Len(l) : l[s] \in Rec
  <2> HIDE DEF Rec
  <2> QED  BY <1>1
<1>3. \A s \in 1 .. Len(l) :
        l[s].pg \in Page /\ l[s].off \in Nat /\ l[s].len \in Nat \ {0} /\ l[s].at \in Nat
  BY <1>2
<1> HIDE DEF Rec
<1> QED  BY <1>1, <1>3, Sizes

LEMMA StartIs ==
  ASSUME NEW l \in Layouts
  PROVE  /\ Start(l, 1) = 0 /\ Start(l, Len(l) + 1) = Bytes(l) /\ Bytes(l) \in Nat \ {0}
         /\ \A s \in 1 .. Len(l) : Start(l, s) = l[s].at /\ Start(l, s + 1) = l[s].at + l[s].len
         /\ \A s \in 1 .. Len(l) + 1 : Start(l, s) \in Nat
<1>0. /\ Len(l) \in Nat /\ Len(l) >= 1 /\ l[1].at = 0
      /\ \A s \in 1 .. Len(l) : l[s].len \in Nat \ {0} /\ l[s].at \in Nat
      /\ \A s \in 1 .. Len(l) - 1 : l[s + 1].at = l[s].at + l[s].len
  BY LayoutIs
<1>1. Bytes(l) \in Nat \ {0} /\ Bytes(l) = l[Len(l)].at + l[Len(l)].len
  BY <1>0 DEF Bytes
<1>2. ASSUME NEW s \in 1 .. Len(l)
      PROVE  Start(l, s) = l[s].at /\ Start(l, s + 1) = l[s].at + l[s].len
  <2>1. CASE s = Len(l)
    BY <1>0, <1>1, <2>1 DEF Start
  <2>2. CASE s < Len(l)
    <3>1. s \in 1 .. Len(l) - 1 /\ s + 1 <= Len(l)
      BY <1>0, <2>2
    <3> QED  BY <1>0, <3>1 DEF Start
  <2> QED  BY <1>0, <2>1, <2>2
<1>3. ASSUME NEW s \in 1 .. Len(l) + 1
      PROVE  Start(l, s) \in Nat
  <2>1. s \in 1 .. Len(l) \/ s = Len(l) + 1
    BY <1>0
  <2> QED  BY <1>0, <1>1, <2>1 DEF Start
<1> QED  BY <1>0, <1>1, <1>2, <1>3 DEF Start

\* Later segments have the later bytes.
LEMMA StartGrows ==
  ASSUME NEW l \in Layouts, NEW s \in 1 .. Len(l) + 1, NEW t \in 1 .. Len(l) + 1, s < t
  PROVE  Start(l, s) < Start(l, t) /\ Start(l, s + 1) <= Start(l, t)
<1>0. Len(l) \in Nat
  BY LayoutIs
<1>1. \A x \in 1 .. Len(l) : Start(l, x) < Start(l, x + 1) /\ Start(l, x) \in Nat /\ Start(l, x + 1) \in Nat
  <2> SUFFICES ASSUME NEW x \in 1 .. Len(l)
               PROVE  Start(l, x) < Start(l, x + 1) /\ Start(l, x) \in Nat /\ Start(l, x + 1) \in Nat
    OBVIOUS
  <2>1. Start(l, x) = l[x].at /\ Start(l, x + 1) = l[x].at + l[x].len
    BY StartIs
  <2>2. l[x].at \in Nat /\ l[x].len \in Nat \ {0}
    BY LayoutIs
  <2> QED  BY <2>1, <2>2
<1> DEFINE Bad == {x \in s + 1 .. Len(l) + 1 : ~ Start(l, s + 1) <= Start(l, x)}
<1>2. Bad = {}
  <2> SUFFICES ASSUME Bad # {} PROVE FALSE
    OBVIOUS
  <2>1. Bad \in SUBSET Nat
    BY <1>0
  <2>2. PICK m \in Bad : \A x \in Bad : m <= x
    <3> HIDE DEF Bad
    <3> QED  BY <2>1, LeastExists
  <2>3. m \in s + 1 .. Len(l) + 1 /\ ~ Start(l, s + 1) <= Start(l, m)
    OBVIOUS
  <2>4. s + 1 \in 1 .. Len(l) + 1 /\ Start(l, s + 1) \in Nat
    BY <1>0, StartIs
  <2>5. m # s + 1
    BY <2>3, <2>4
  <2>6. m - 1 \in s + 1 .. Len(l) + 1 /\ m - 1 \in 1 .. Len(l) /\ (m - 1) + 1 = m /\ m - 1 < m
    BY <1>0, <2>3, <2>5
  <2>7. ~ m - 1 \in Bad
    <3>1. ASSUME m - 1 \in Bad PROVE m <= m - 1
      BY <2>2, <3>1
    <3> QED  BY <2>6, <3>1
  <2>8. Start(l, s + 1) <= Start(l, m - 1)
    BY <2>6, <2>7
  <2>9. Start(l, m - 1) < Start(l, m) /\ Start(l, m - 1) \in Nat /\ Start(l, m) \in Nat
    BY <1>1, <2>6
  <2> QED  BY <2>3, <2>4, <2>8, <2>9
<1>3. t \in s + 1 .. Len(l) + 1 /\ s \in 1 .. Len(l)
  BY <1>0
<1>4. Start(l, s + 1) <= Start(l, t)
  BY <1>2, <1>3
<1>5. Start(l, t) \in Nat
  BY StartIs
<1> QED  BY <1>1, <1>3, <1>4, <1>5

\* Every byte is in a segment.
LEMMA SegmentOf ==
  ASSUME NEW l \in Layouts, NEW s \in 1 .. Len(l) + 1, NEW t \in 1 .. Len(l) + 1,
         NEW b \in Nat, Start(l, s) <= b, b < Start(l, t)
  PROVE  \E x \in s .. t - 1 : x \in 1 .. Len(l) /\ Start(l, x) <= b /\ b < Start(l, x + 1)
<1>0. Len(l) \in Nat /\ \A x \in 1 .. Len(l) + 1 : Start(l, x) \in Nat
  BY LayoutIs, StartIs
<1> DEFINE Above == {x \in 1 .. Len(l) + 1 : b < Start(l, x)}
<1>1. Above \in SUBSET Nat /\ t \in Above
  BY <1>0
<1>2. PICK m \in Above : \A x \in Above : m <= x
  <2> HIDE DEF Above
  <2> QED  BY <1>1, LeastExists
<1>3. m \in 1 .. Len(l) + 1 /\ b < Start(l, m) /\ m <= t
  BY <1>1, <1>2
<1>4. s < m
  <2> SUFFICES ASSUME ~ s < m PROVE FALSE
    OBVIOUS
  <2>1. m = s \/ m < s
    BY <1>0, <1>3
  <2>2. Start(l, m) <= Start(l, s)
    BY <1>0, <1>3, <2>1, StartGrows
  <2> QED  BY <1>0, <1>3, <2>2
<1>5. m - 1 \in 1 .. Len(l) + 1 /\ m - 1 \in s .. t - 1 /\ m - 1 \in 1 .. Len(l) /\ (m - 1) + 1 = m
      /\ m - 1 < m
  BY <1>0, <1>3, <1>4
<1>6. ~ m - 1 \in Above
  <2>1. ASSUME m - 1 \in Above PROVE m <= m - 1
    BY <1>2, <2>1
  <2> QED  BY <1>5, <2>1
<1>7. Start(l, m - 1) <= b
  BY <1>0, <1>5, <1>6
<1> QED  BY <1>3, <1>5, <1>7

-----------------------------------------------------------------------------
(* The window and the bytes                                                *)

LEMMA CoversIs ==
  ASSUME NEW l \in Layouts, NEW x \in 1 .. Len(l), NEW p \in Pos, Covers(l[x], p)
  PROVE  /\ p \in Nat /\ p < PAGE_SIZE /\ l[x].off <= p /\ p < l[x].off + l[x].len
         /\ ByteNo(l, x, p) \in Nat /\ Start(l, x) <= ByteNo(l, x, p) /\ ByteNo(l, x, p) < Start(l, x + 1)
<1>1. l[x].off \in Nat /\ l[x].len \in Nat \ {0} /\ l[x].at \in Nat
  BY LayoutIs
<1>2. Start(l, x) = l[x].at /\ Start(l, x + 1) = l[x].at + l[x].len
  BY StartIs
<1>3. p \in Nat /\ p < PAGE_SIZE
  BY Sizes DEF Pos
<1>4. l[x].off <= p /\ p < l[x].off + l[x].len
  BY <1>1, <1>3 DEF Covers
<1> DEFINE o == l[x].off
           a == l[x].at
           n == l[x].len
<1>5. o \in Nat /\ a \in Nat /\ n \in Nat /\ p \in Nat /\ o <= p /\ p < o + n
  BY <1>1, <1>3, <1>4
<1>6. ByteNo(l, x, p) = a + p - o /\ Start(l, x) = a /\ Start(l, x + 1) = a + n
  BY <1>2 DEF ByteNo
<1> HIDE DEF o, a, n
<1>7. ByteNo(l, x, p) \in Nat /\ a <= ByteNo(l, x, p) /\ ByteNo(l, x, p) < a + n
  BY <1>5, <1>6
<1> QED  BY <1>3, <1>4, <1>6, <1>7

LEMMA RunIs ==
  ASSUME NEW l \in Layouts, NEW s, NEW t, Run(l, s, t)
  PROVE  /\ s \in 1 .. Len(l) /\ t \in s + 1 .. Len(l) + 1
         /\ s \in 1 .. Len(l) + 1 /\ t \in 1 .. Len(l) + 1 /\ s < t
         /\ Start(l, s) \in Nat /\ Start(l, t) \in Nat /\ Start(l, s) < Start(l, t)
         /\ AddrOf(l, s) = vm_start + PageAt(s) + l[s].off
         /\ AddrOf(l, s) \in Nat /\ AddrOf(l, s) > 0
         /\ \A x \in s .. t - 1 : x \in 1 .. Len(l)
<1>0. Len(l) \in Nat
  BY LayoutIs
<1>1. s \in 1 .. Len(l) /\ t \in s + 1 .. Len(l) + 1
  BY DEF Run
<1>2. s \in 1 .. Len(l) + 1 /\ t \in 1 .. Len(l) + 1 /\ s < t /\ \A x \in s .. t - 1 : x \in 1 .. Len(l)
  BY <1>0, <1>1
<1>3. Start(l, s) \in Nat /\ Start(l, t) \in Nat /\ Start(l, s) < Start(l, t)
  BY <1>2, StartIs, StartGrows
<1>4. Start(l, s) = l[s].at /\ l[s].at \in Nat /\ l[s].off \in Nat
  BY <1>1, StartIs, LayoutIs
<1>5. s \in Nat \ {0} /\ PageAt(s) \in Nat /\ PAGE_SIZE \in Nat \ {0}
  <2>1. s \in Nat \ {0}
    BY <1>0, <1>1
  <2> QED  BY <2>1, PagesFollow, Sizes
<1>6. AddrOf(l, s) = vm_start + PageAt(s) + l[s].off
  BY <1>4, <1>5 DEF AddrOf, Base, vm_start
<1>7. AddrOf(l, s) \in Nat /\ AddrOf(l, s) > 0
  BY <1>4, <1>5, <1>6 DEF vm_start
<1> QED  BY <1>1, <1>2, <1>3, <1>6, <1>7

\* The address of a byte, computed from the entry it is in, is that of its place in
\* the page the window shows for its segment.
LEMMA Located ==
  ASSUME NEW l \in Layouts, NEW s, NEW t, Run(l, s, t),
         NEW x \in s .. t - 1, NEW p \in Pos, Covers(l[x], p),
         NEW j, j = ByteNo(l, x, p) - Start(l, s)
  PROVE  /\ j \in 0 .. (Start(l, t) - Start(l, s)) - 1
         /\ At(AddrOf(l, s) + j) = ptes[x - 1]
         /\ (AddrOf(l, s) + j) % PAGE_SIZE = p
<1>0. Len(l) \in Nat /\ PAGE_SIZE \in Nat
  BY LayoutIs, Sizes
<1>1. /\ s \in 1 .. Len(l) + 1 /\ t \in 1 .. Len(l) + 1 /\ s \in 1 .. Len(l)
      /\ Start(l, s) \in Nat /\ Start(l, t) \in Nat /\ x \in 1 .. Len(l)
  BY RunIs
<1>2. x + 1 \in 1 .. Len(l) + 1 /\ x \in 1 .. Len(l) + 1
  BY <1>0, <1>1
<1>3. Start(l, s) <= Start(l, x) /\ Start(l, x + 1) <= Start(l, t) /\ Start(l, x) \in Nat /\ Start(l, x + 1) \in Nat
  <2>1. Start(l, x) \in Nat /\ Start(l, x + 1) \in Nat
    BY <1>2, StartIs
  <2>2. s = x \/ s < x
    BY <1>0, <1>1
  <2>3. x < t
    BY <1>0, <1>1
  <2> QED  BY <1>1, <1>2, <2>1, <2>2, <2>3, StartGrows
<1>4. /\ p \in Nat /\ ByteNo(l, x, p) \in Nat
      /\ Start(l, x) <= ByteNo(l, x, p) /\ ByteNo(l, x, p) < Start(l, x + 1)
  BY <1>1, CoversIs
<1>5. j \in 0 .. (Start(l, t) - Start(l, s)) - 1
  <2>1. ASSUME NEW a \in Nat, NEW b \in Nat, NEW c \in Nat, NEW d \in Nat, NEW k \in Nat,
               a <= c, c <= k, k < d, d <= b
        PROVE  k - a \in 0 .. (b - a) - 1
    BY <2>1
  <2> HIDE DEF Start, ByteNo
  <2> QED  BY <1>1, <1>3, <1>4, <2>1
<1>6. AddrOf(l, s) + j = x * PAGE_SIZE + p
  <2>1. Base(l, x) = Base(l, s)
    BY DEF Run
  <2>2. l[x].off \in Nat /\ l[x].at \in Nat /\ l[s].off \in Nat /\ l[s].at \in Nat
    BY <1>1, LayoutIs
  <2>3. PageAt(s) \in Nat /\ PageAt(x) \in Nat /\ PageAt(x + 1) = PageAt(x) + PAGE_SIZE
    <3>1. s \in Nat \ {0} /\ x \in Nat \ {0}
      BY <1>0, <1>1
    <3> QED  BY <3>1, PagesFollow
  <2>4. Base(l, s) \in Int /\ Base(l, x) = PageAt(x) + l[x].off - l[x].at
    BY <2>2, <2>3 DEF Base
  <2>5. AddrOf(l, s) + j = PAGE_SIZE + Base(l, x) + ByteNo(l, x, p)
    BY <1>0, <1>1, <1>4, <2>1, <2>4 DEF AddrOf, vm_start
  <2>6. PAGE_SIZE + Base(l, x) + ByteNo(l, x, p) = PageAt(x + 1) + p
    <3> DEFINE o == l[x].off
               a == l[x].at
               here == PageAt(x)
               next == PageAt(x + 1)
               base == Base(l, x)
    <3>1. /\ o \in Nat /\ a \in Nat /\ here \in Nat /\ next = here + PAGE_SIZE /\ p \in Nat
          /\ base = here + o - a /\ PAGE_SIZE \in Nat
      BY <1>0, <1>4, <2>2, <2>3, <2>4
    <3>2. ByteNo(l, x, p) = a + p - o
      BY DEF ByteNo
    <3> HIDE DEF o, a, here, next, base
    <3>3. PAGE_SIZE + base + ByteNo(l, x, p) = next + p
      BY <3>1, <3>2
    <3> QED  BY <3>3 DEF base, next
  <2>7. PageAt(x + 1) = x * PAGE_SIZE
    BY <1>0, <1>1 DEF PageAt
  <2> QED  BY <2>5, <2>6, <2>7
<1>7. (AddrOf(l, s) + j) % PAGE_SIZE = p
  BY <1>1, <1>6, DivMod
<1>8. (AddrOf(l, s) + j) - vm_start = (x - 1) * PAGE_SIZE + p
  BY <1>0, <1>1, <1>4, <1>6 DEF vm_start
<1>9. ((AddrOf(l, s) + j) - vm_start) \div PAGE_SIZE = x - 1
  BY <1>1, <1>8, DivMod
<1> QED  BY <1>5, <1>7, <1>9 DEF At

\* And every byte that a call of the server touches is one of a segment.
LEMMA ByteIn ==
  ASSUME NEW l \in Layouts, NEW s, NEW t, Run(l, s, t), NEW j \in 0 .. (Start(l, t) - Start(l, s)) - 1
  PROVE  \E x \in s .. t - 1, p \in Pos : Covers(l[x], p) /\ j = ByteNo(l, x, p) - Start(l, s)
<1>1. /\ s \in 1 .. Len(l) + 1 /\ t \in 1 .. Len(l) + 1
      /\ Start(l, s) \in Nat /\ Start(l, t) \in Nat
  BY RunIs
<1>2. /\ Start(l, s) + j \in Nat /\ Start(l, s) <= Start(l, s) + j /\ Start(l, s) + j < Start(l, t)
      /\ j \in Nat
  BY <1>1
<1>3. PICK x \in s .. t - 1 : /\ x \in 1 .. Len(l) /\ Start(l, x) <= Start(l, s) + j
                              /\ Start(l, s) + j < Start(l, x + 1)
  BY <1>1, <1>2, SegmentOf
<1>4. /\ l[x].off \in Nat /\ l[x].len \in Nat \ {0} /\ l[x].at \in Nat /\ l[x].off + l[x].len <= PAGE_SIZE
      /\ Start(l, x) = l[x].at /\ Start(l, x + 1) = l[x].at + l[x].len /\ PAGE_SIZE \in Nat
  BY <1>3, LayoutIs, StartIs, Sizes
<1> DEFINE p == l[x].off + (Start(l, s) + j) - l[x].at
           o == l[x].off
           n == l[x].len
           a == l[x].at
           st == Start(l, s)
<1>a. /\ o \in Nat /\ n \in Nat /\ a \in Nat /\ st \in Nat /\ j \in Nat /\ o + n <= PAGE_SIZE
      /\ a <= st + j /\ st + j < a + n /\ PAGE_SIZE \in Nat /\ p = o + (st + j) - a
  BY <1>1, <1>2, <1>3, <1>4
<1>b. ByteNo(l, x, p) = a + p - o
  BY DEF ByteNo
<1> HIDE DEF p, o, n, a, st
<1>c. p \in Nat /\ o <= p /\ p < o + n /\ p < PAGE_SIZE
  BY <1>a
<1>d. j = ByteNo(l, x, p) - st
  BY <1>a, <1>b, <1>c
<1>5. p \in Nat /\ l[x].off <= p /\ p < l[x].off + l[x].len /\ p < PAGE_SIZE
  BY <1>c DEF o, n
<1>6. j = ByteNo(l, x, p) - Start(l, s)
  BY <1>d DEF st
<1>7. p \in Pos /\ Covers(l[x], p)
  BY <1>4, <1>5 DEF Pos, Covers
<1> QED  BY <1>6, <1>7

-----------------------------------------------------------------------------
(* A call of the server                                                    *)

\* What a write finds at the address of a byte.
LEMMA LoadIs ==
  ASSUME request.segs \in Layouts, request.dir = "WRITE", Shown(Len(request.segs)),
         NEW s, NEW t, Run(request.segs, s, t),
         NEW x \in s .. t - 1, NEW p \in Pos, Covers(request.segs[x], p),
         NEW j, j = ByteNo(request.segs, x, p) - Start(request.segs, s)
  PROVE  Load(AddrOf(request.segs, s) + j) = mem[request.segs[x].pg][p]
<1> DEFINE a == AddrOf(request.segs, s) + j
<1>1. At(a) = ptes[x - 1] /\ a % PAGE_SIZE = p
  BY Located
<1>2. x \in 1 .. Len(request.segs)
  BY RunIs
<1>3. CASE WholeSeg(x)
  <2>1. At(a) = Frame("data", request.segs[x].pg)
    BY <1>1, <1>2, <1>3 DEF Shown
  <2> HIDE DEF a
  <2>2. Load(a) = mem[request.segs[x].pg][p]
    BY <1>1, <2>1 DEF Load, Frame
  <2> QED  BY <2>2 DEF a
<1>4. CASE ~WholeSeg(x)
  <2>1. At(a) = Frame("reserved", R(x)) /\ reserved[R(x)][p] = mem[request.segs[x].pg][p]
    BY <1>1, <1>2, <1>4 DEF Shown
  <2> HIDE DEF a
  <2>2. Load(a) = mem[request.segs[x].pg][p]
    BY <1>1, <2>1 DEF Load, Frame
  <2> QED  BY <2>2 DEF a
<1> QED  BY <1>3, <1>4

\* Its call puts the bytes of its segments on the disk, behind those of earlier calls.
LEMMA WriteCall ==
  ASSUME TypeOK, request.segs \in Layouts, request.pos + Bytes(request.segs) <= MaxLen + 1,
         request.dir = "WRITE", k2u.dir = "WRITE", Shown(Len(request.segs)),
         \A g \in Page, p \in Pos : mem[g][p] = before.mem[g][p],
         NEW s, NEW t, Run(request.segs, s, t), Written(Start(request.segs, s)),
         Callback(AddrOf(request.segs, s), Start(request.segs, t) - Start(request.segs, s),
                  request.pos + Start(request.segs, s)),
         UNCHANGED <<request, before>>
  PROVE  UNCHANGED <<mem, reserved>> /\ disk' \in [Disk -> Nat] /\ Written(Start(request.segs, t))'
<1> DEFINE l == request.segs
           a == AddrOf(l, s)
           from == Start(l, s)
           to == Start(l, t)
           pos == request.pos
<1>1. /\ s \in 1 .. Len(l) /\ s \in 1 .. Len(l) + 1 /\ t \in 1 .. Len(l) + 1 /\ s < t
      /\ from \in Nat /\ to \in Nat /\ from < to /\ a \in Nat /\ \A x \in s .. t - 1 : x \in 1 .. Len(l)
  BY RunIs
<1>2. Len(l) \in Nat /\ \A x \in 1 .. Len(l) + 1 : Start(l, x) \in Nat
  BY LayoutIs, StartIs
<1>3. pos \in Nat
  BY DEF TypeOK
<1>4. /\ UNCHANGED <<mem, reserved>>
      /\ disk' = [d \in Disk |-> IF d \in (pos + from) .. (pos + from) + (to - from) - 1
                                 THEN Load(a + d - (pos + from)) ELSE disk[d]]
  BY DEF Callback
<1>5. MaxLen \in Nat /\ Disk = 0 .. MaxLen
  BY Sizes DEF Disk
<1>6. pos + to <= MaxLen + 1
  <2>1. Start(l, Len(l) + 1) = Bytes(l) /\ Bytes(l) \in Nat
    BY StartIs
  <2>2. to <= Bytes(l)
    <3>1. t = Len(l) + 1 \/ t < Len(l) + 1
      <4>1. t \in 1 .. Len(l) + 1 /\ Len(l) \in Nat
        BY <1>1, <1>2
      <4> QED  BY <4>1
    <3>2. CASE t = Len(l) + 1
      BY <2>1, <3>2
    <3>3. CASE t < Len(l) + 1
      <4>1. Len(l) + 1 \in 1 .. Len(l) + 1
        BY <1>2
      <4>2. Start(l, t) < Start(l, Len(l) + 1)
        BY <1>1, <3>3, <4>1, StartGrows
      <4> QED  BY <1>1, <2>1, <4>2
    <3> QED  BY <3>1, <3>2, <3>3
  <2> QED  BY <1>1, <1>3, <1>5, <2>1, <2>2
<1>7. ASSUME NEW x \in s .. t - 1, NEW p \in Pos, Covers(l[x], p)
      PROVE  /\ pos + ByteNo(l, x, p) \in Disk /\ mem[l[x].pg][p] \in Nat
             /\ disk'[pos + ByteNo(l, x, p)] = mem[l[x].pg][p]
  <2> DEFINE b == ByteNo(l, x, p)
             j == b - from
  <2>1. j \in 0 .. (to - from) - 1
    BY <1>7, Located
  <2>2. Load(a + j) = mem[l[x].pg][p]
    BY <1>7, LoadIs
  <2>3. x \in 1 .. Len(l)
    BY <1>1
  <2>4. b \in Nat
    BY <1>7, <2>3, CoversIs
  <2>5. l[x].pg \in Page
    BY <2>3, LayoutIs
  <2> HIDE DEF a, from, to, pos, b
  <2>6. /\ pos + b \in Disk /\ pos + b \in (pos + from) .. (pos + from) + (to - from) - 1
        /\ a + (pos + b) - (pos + from) = a + (b - from)
    BY <1>1, <1>3, <1>5, <1>6, <2>1, <2>4
  <2>7. disk'[pos + b] = Load(a + j)
    BY <1>4, <2>6
  <2>8. mem[l[x].pg][p] \in Nat
    BY <2>5 DEF TypeOK
  <2> QED  BY <2>2, <2>6, <2>7, <2>8 DEF b
<1>8. ASSUME NEW d \in Disk, d \notin (pos + from) .. (pos + to) - 1
      PROVE  disk'[d] = disk[d]
  <2>1. (pos + from) + (to - from) - 1 = (pos + to) - 1
    <3> HIDE DEF from, to, pos
    <3> QED  BY <1>1, <1>3
  <2> QED  BY <1>4, <1>8, <2>1
<1>9. disk' \in [Disk -> Nat]
  <2>1. ASSUME NEW d \in Disk
        PROVE  disk'[d] \in Nat
    <3>1. CASE d \notin (pos + from) .. (pos + to) - 1
      BY <1>8, <3>1 DEF TypeOK
    <3>2. CASE d \in (pos + from) .. (pos + to) - 1
      <4> DEFINE j == d - (pos + from)
      <4>0. d \in Nat
        BY <1>5
      <4>1. j \in 0 .. (to - from) - 1 /\ d = pos + (from + j) /\ j \in Int
        <5> HIDE DEF from, to, pos
        <5> QED  BY <1>1, <1>3, <3>2, <4>0
      <4>2. PICK x \in s .. t - 1, p \in Pos : Covers(l[x], p) /\ j = ByteNo(l, x, p) - from
        BY <4>1, ByteIn
      <4>3. ByteNo(l, x, p) \in Nat
        BY <1>1, <4>2, CoversIs
      <4>4. d = pos + ByteNo(l, x, p)
        <5> HIDE DEF from, to, pos, j
        <5> QED  BY <1>1, <1>3, <4>1, <4>2, <4>3
      <4> QED  BY <1>7, <4>2, <4>4
    <3> QED  BY <3>1, <3>2
  <2>2. disk' = [d \in Disk |-> disk'[d]]
    BY <1>4
  <2> QED  BY <2>1, <2>2
<1>10. ASSUME NEW y \in 1 .. Len(l), NEW p \in Pos, Covers(l[y], p), ByteNo(l, y, p) < to
       PROVE  disk'[pos + ByteNo(l, y, p)] = before.mem[l[y].pg][p]
  <2>1. /\ ByteNo(l, y, p) \in Nat /\ Start(l, y) <= ByteNo(l, y, p)
        /\ ByteNo(l, y, p) < Start(l, y + 1)
    BY <1>10, CoversIs
  <2>2. y \in 1 .. Len(l) + 1 /\ y + 1 \in 1 .. Len(l) + 1 /\ Start(l, y) \in Nat /\ Start(l, y + 1) \in Nat
    BY <1>2
  <2>3. y < t
    <3> SUFFICES ASSUME ~ y < t PROVE FALSE
      OBVIOUS
    <3>1. t = y \/ t < y
      BY <1>1, <1>2
    <3>2. to <= Start(l, y)
      BY <1>1, <2>2, <3>1, StartGrows
    <3> QED  BY <1>1, <1>10, <2>1, <2>2, <3>2
  <2>4. l[y].pg \in Page
    BY LayoutIs
  <2>5. CASE s <= y
    <3>1. y \in s .. t - 1
      BY <1>1, <1>2, <2>3, <2>5
    <3> QED  BY <1>7, <1>10, <2>4, <3>1
  <2>6. CASE ~ s <= y
    <3>1. y + 1 = s \/ y + 1 < s
      BY <1>1, <1>2, <2>6
    <3>2. Start(l, y + 1) <= from
      BY <1>1, <2>2, <3>1, StartGrows
    <3>3. ByteNo(l, y, p) < from
      BY <1>1, <2>1, <2>2, <3>2
    <3>4. disk[pos + ByteNo(l, y, p)] = before.mem[l[y].pg][p]
      BY <1>10, <3>3 DEF Written
    <3>5. /\ pos + ByteNo(l, y, p) \in Disk
          /\ pos + ByteNo(l, y, p) \notin (pos + from) .. (pos + to) - 1
      <4> HIDE DEF from, to, pos
      <4> QED  BY <1>1, <1>3, <1>5, <1>6, <2>1, <3>3
    <3> QED  BY <1>8, <3>4, <3>5
  <2> QED  BY <2>5, <2>6
<1>11. ASSUME NEW d \in Disk, d \notin pos .. pos + to - 1
       PROVE  disk'[d] = before.disk[d]
  <2>0. d \in Nat
    BY <1>5
  <2>1. d \notin pos .. pos + from - 1 /\ d \notin (pos + from) .. (pos + to) - 1
    <3> HIDE DEF from, to, pos
    <3> QED  BY <1>1, <1>3, <1>11, <2>0
  <2>2. disk[d] = before.disk[d]
    BY <2>1 DEF Written
  <2> QED  BY <1>8, <2>1, <2>2
<1>12. Written(Start(request.segs, t))'
  <2>1. request' = request /\ before' = before
    OBVIOUS
  <2>2. Start(request.segs, t)' = to
    BY <2>1 DEF Start, Bytes
  <2>3. \A y, p : ByteNo(request.segs, y, p)' = ByteNo(l, y, p)
    BY <2>1 DEF ByteNo
  <2> HIDE DEF to
  <2> QED  BY <1>10, <1>11, <2>1, <2>2, <2>3 DEF Written
<1> QED  BY <1>4, <1>9, <1>12

\* A store changes a byte of a page only through an address that shows it.
LEMMA StoredIs ==
  ASSUME NEW old, NEW kind, NEW a, NEW n, NEW off, NEW x \in DOMAIN old, NEW p \in Pos
  PROVE  LET hit(j) == At(a + j) = Frame(kind, x) /\ (a + j) % PAGE_SIZE = p
             new == Stored(old, kind, a, n, off)[x][p]
         IN  \/ new = old[x][p] /\ \A j \in 0 .. n - 1 : ~hit(j)
             \/ \E j \in 0 .. n - 1 : hit(j) /\ new = DiskAt(off + j)
<1> DEFINE hit(j) == At(a + j) = Frame(kind, x) /\ (a + j) % PAGE_SIZE = p
           hits == {j \in 0 .. n - 1 : hit(j)}
           pick == CHOOSE j \in hits : TRUE
           new == Stored(old, kind, a, n, off)[x][p]
<1>1. new = IF hits = {} THEN old[x][p] ELSE DiskAt(off + pick)
  BY DEF Stored
<1>2. CASE hits = {}
  <2>1. \A j \in 0 .. n - 1 : ~hit(j)
    BY <1>2
  <2> QED  BY <1>1, <1>2, <2>1
<1>3. CASE hits # {}
  <2>1. pick \in hits
    BY <1>3
  <2>2. pick \in 0 .. n - 1 /\ hit(pick)
    BY <2>1
  <2>3. new = DiskAt(off + pick)
    BY <1>1, <1>3
  <2> HIDE DEF pick, new
  <2>4. \E j \in 0 .. n - 1 : hit(j) /\ new = DiskAt(off + j)
    BY <2>2, <2>3
  <2> QED  BY <2>4 DEF new
<1> QED  BY <1>2, <1>3

\* Two segments have no reserved page in common.
LEMMA ReservedApart ==
  ASSUME NEW u \in Nat, Numbered(u), Shown(u), NEW x \in 1 .. u, NEW y \in 1 .. u,
         ~WholeSeg(x), ~WholeSeg(y), R(x) = R(y)
  PROVE  x = y
<1>1. x \in Nat /\ y \in Nat
  OBVIOUS
<1>2. R(x) \in Nat
  <2>1. R(x) \in Reserved
    BY DEF Shown
  <2> QED  BY <2>1, Sizes DEF Reserved
<1>3. x < y => R(x) < R(y)
  BY DEF Numbered
<1>4. y < x => R(y) < R(x)
  BY DEF Numbered
<1> QED  BY <1>1, <1>2, <1>3, <1>4

\* What the address of byte j of a call shows.
LEMMA CallByte ==
  ASSUME request.segs \in Layouts, Shown(Len(request.segs)),
         NEW s, NEW t, Run(request.segs, s, t),
         NEW j \in 0 .. (Start(request.segs, t) - Start(request.segs, s)) - 1
  PROVE  \E x \in s .. t - 1, p \in Pos :
           /\ x \in 1 .. Len(request.segs)
           /\ Covers(request.segs[x], p) /\ j = ByteNo(request.segs, x, p) - Start(request.segs, s)
           /\ (AddrOf(request.segs, s) + j) % PAGE_SIZE = p
           /\ At(AddrOf(request.segs, s) + j) = IF WholeSeg(x) THEN Frame("data", request.segs[x].pg)
                                                ELSE Frame("reserved", R(x))
<1>1. PICK x \in s .. t - 1, p \in Pos :
        Covers(request.segs[x], p) /\ j = ByteNo(request.segs, x, p) - Start(request.segs, s)
  BY ByteIn
<1>2. /\ At(AddrOf(request.segs, s) + j) = ptes[x - 1]
      /\ (AddrOf(request.segs, s) + j) % PAGE_SIZE = p
  BY <1>1, Located
<1>3. x \in 1 .. Len(request.segs)
  BY RunIs
<1>4. ptes[x - 1] = IF WholeSeg(x) THEN Frame("data", request.segs[x].pg) ELSE Frame("reserved", R(x))
  BY <1>3 DEF Shown
<1> QED  BY <1>1, <1>2, <1>3, <1>4

LEMMA DiskByte ==
  ASSUME TypeOK, NEW d
  PROVE  DiskAt(d) \in Nat
BY DEF TypeOK, DiskAt

\* A read changes the bytes of its segments only, in their pages or in the reserved pages
\* that show them.
LEMMA ReadCall ==
  ASSUME TypeOK, request.segs \in Layouts, k2u.dir # "WRITE",
         Shown(Len(request.segs)), Numbered(Len(request.segs)),
         NEW s, NEW t, Run(request.segs, s, t), NEW off,
         Callback(AddrOf(request.segs, s), Start(request.segs, t) - Start(request.segs, s), off)
  PROVE  /\ disk' = disk
         /\ mem' \in [Page -> [Pos -> Nat]] /\ reserved' \in [Reserved -> [Pos -> Nat]]
         /\ \A g \in Page, p \in Pos : ~Owns(g, p) => mem'[g][p] = mem[g][p]
         /\ \A y \in 1 .. Len(request.segs), p \in Pos :
              ~WholeSeg(y) /\ ~Covers(request.segs[y], p) => reserved'[R(y)][p] = 0
<1> DEFINE l == request.segs
           a == AddrOf(l, s)
           n == Start(l, t) - Start(l, s)
<1>1. mem' = Stored(mem, "data", a, n, off) /\ reserved' = Stored(reserved, "reserved", a, n, off) /\ disk' = disk
  BY DEF Callback
<1>2. DOMAIN mem = Page /\ DOMAIN reserved = Reserved
  BY DEF TypeOK
<1>3. ASSUME NEW g \in Page, NEW p \in Pos
      PROVE  \/ mem'[g][p] = mem[g][p]
             \/ Owns(g, p) /\ mem'[g][p] \in Nat
  <2>1. CASE mem'[g][p] = mem[g][p]
    BY <2>1
  <2>2. CASE \E j \in 0 .. n - 1 : /\ At(a + j) = Frame("data", g) /\ (a + j) % PAGE_SIZE = p
                                   /\ mem'[g][p] = DiskAt(off + j)
    <3>1. PICK j \in 0 .. n - 1 : /\ At(a + j) = Frame("data", g) /\ (a + j) % PAGE_SIZE = p
                                  /\ mem'[g][p] = DiskAt(off + j)
      BY <2>2
    <3>2. PICK x \in s .. t - 1, q \in Pos :
            /\ x \in 1 .. Len(l) /\ Covers(l[x], q) /\ (a + j) % PAGE_SIZE = q
            /\ At(a + j) = IF WholeSeg(x) THEN Frame("data", l[x].pg) ELSE Frame("reserved", R(x))
      BY CallByte
    <3>3. l[x].pg = g /\ q = p
      BY <3>1, <3>2 DEF Frame
    <3>4. Owns(g, p)
      BY <3>2, <3>3 DEF Owns, Segment
    <3> QED  BY <3>1, <3>4, DiskByte
  <2> QED  BY <1>1, <1>2, <2>1, <2>2, StoredIs
<1>4. ASSUME NEW k \in Reserved, NEW p \in Pos
      PROVE  \/ reserved'[k][p] = reserved[k][p]
             \/ /\ reserved'[k][p] \in Nat
                /\ \E x \in 1 .. Len(l) : ~WholeSeg(x) /\ R(x) = k /\ Covers(l[x], p)
  <2>1. CASE reserved'[k][p] = reserved[k][p]
    BY <2>1
  <2>2. CASE \E j \in 0 .. n - 1 : /\ At(a + j) = Frame("reserved", k) /\ (a + j) % PAGE_SIZE = p
                                   /\ reserved'[k][p] = DiskAt(off + j)
    <3>1. PICK j \in 0 .. n - 1 : /\ At(a + j) = Frame("reserved", k) /\ (a + j) % PAGE_SIZE = p
                                  /\ reserved'[k][p] = DiskAt(off + j)
      BY <2>2
    <3>2. PICK x \in s .. t - 1, q \in Pos :
            /\ x \in 1 .. Len(l) /\ Covers(l[x], q) /\ (a + j) % PAGE_SIZE = q
            /\ At(a + j) = IF WholeSeg(x) THEN Frame("data", l[x].pg) ELSE Frame("reserved", R(x))
      BY CallByte
    <3>3. ~WholeSeg(x) /\ R(x) = k /\ q = p
      BY <3>1, <3>2 DEF Frame
    <3> QED  BY <3>1, <3>2, <3>3, DiskByte
  <2> QED  BY <1>1, <1>2, <2>1, <2>2, StoredIs
<1>5. mem' \in [Page -> [Pos -> Nat]]
  <2>1. mem' = [g \in Page |-> [p \in Pos |-> mem'[g][p]]]
    BY <1>1, <1>2 DEF Stored
  <2>2. \A g \in Page, p \in Pos : mem'[g][p] \in Nat
    BY <1>3 DEF TypeOK
  <2> QED  BY <2>1, <2>2
<1>6. reserved' \in [Reserved -> [Pos -> Nat]]
  <2>1. reserved' = [k \in Reserved |-> [p \in Pos |-> reserved'[k][p]]]
    BY <1>1, <1>2 DEF Stored
  <2>2. \A k \in Reserved, p \in Pos : reserved'[k][p] \in Nat
    BY <1>4 DEF TypeOK
  <2> QED  BY <2>1, <2>2
<1>7. ASSUME NEW y \in 1 .. Len(l), NEW p \in Pos, ~WholeSeg(y), ~Covers(l[y], p)
      PROVE  reserved'[R(y)][p] = 0
  <2>1. R(y) \in Reserved /\ reserved[R(y)][p] = 0
    BY <1>7 DEF Shown
  <2>2. ASSUME NEW x \in 1 .. Len(l), ~WholeSeg(x), R(x) = R(y), Covers(l[x], p)
        PROVE  FALSE
    <3>1. Len(l) \in Nat
      BY LayoutIs
    <3>2. x = y
      BY <1>7, <2>2, <3>1, ReservedApart
    <3> QED  BY <1>7, <2>2, <3>2
  <2> QED  BY <1>4, <2>1, <2>2
<1>8. \A g \in Page, p \in Pos : ~Owns(g, p) => mem'[g][p] = mem[g][p]
  BY <1>3
<1> QED  BY <1>1, <1>5, <1>6, <1>7, <1>8

-----------------------------------------------------------------------------
(* The invariant holds at first, and the request is taken                  *)

LEMMA InitMap ==
  ASSUME Init
  PROVE  DataMapInv
<1> USE DEF Init
<1>1. TypeOK
  <2>1. mem \in [Page -> [Pos -> Nat]] /\ disk \in [Disk -> Nat]
    OBVIOUS
  <2>2. reserved \in [Reserved -> [Pos -> Nat]] /\ mapping_list \in [ListIndex -> Nat]
    BY DataMapConstantsOK DEF DataMapConstantsOK
  <2>3. ptes \in [UserPage -> Frames]
    BY DEF Frames
  <2>4. reserve_mapping_list \in [Reserved -> Page \cup {0}]
    OBVIOUS
  <2>5. request \in [dir : {"none", "READ", "WRITE"}, segs : Layouts \cup {<<>>}, pos : Nat,
                     type : {"UNMAPPED", "SIMPLE", "LIST"}, data : Nat, size : Nat]
    BY DEF Idle
  <2>6. /\ list_entry_index \in 0 .. MaxSegs /\ user_page_num \in 0 .. MaxSegs
        /\ reserved_page_num \in Nat /\ i \in Nat /\ entry \in Nat /\ offset \in Nat /\ requests \in Nat
    BY Sizes
  <2>7. /\ segment_end_aligned \in BOOLEAN /\ pc \in Serving \cup {"idle", "queued", "mapping"}
        /\ reply \in {"OK", "IOERR"} /\ wild \in BOOLEAN
    OBVIOUS
  <2> QED  BY <2>1, <2>2, <2>3, <2>4, <2>5, <2>6, <2>7 DEF TypeOK
<1>2. RequestOK
  BY DEF RequestOK, Idle
<1>3. WindowOK
  BY DEF WindowOK, InUse, Serving
<1>4. MappingOK /\ MappedOK
  BY DEF MappingOK, MappedOK, Serving
<1>5. WriteOK
  BY DEF WriteOK, Idle
<1>6. KeptOK
  BY DEF KeptOK
<1>7. ~stale /\ ListOK
  BY DEF ListOK
<1> QED  BY <1>1, <1>2, <1>3, <1>4, <1>5, <1>6, <1>7 DEF MapInv, DataMapInv

LEMMA SubmitMap ==
  ASSUME MapInv, NEW dir \in {"READ", "WRITE"}, NEW segs \in Layouts, NEW pos \in Positions,
         Submit(dir, segs, pos)
  PROVE  MapInv'
<1> USE DEF MapInv
<1>0. /\ pc = "idle" /\ pc' = "queued" /\ Bytes(segs) + pos <= MaxLen + 1 /\ pos \in Nat
      /\ mem' = [g \in Page |-> [p \in Pos |-> 100 * requests' + 10 * g + p]]
      /\ disk' = [d \in Disk |-> 100 * requests' + 50 + d]
      /\ before' = [mem |-> mem', disk |-> disk'] /\ wild' = FALSE /\ requests' = requests + 1
      /\ UNCHANGED <<window, reserved, mapLoop, copyLoop, k2u, server>>
  BY DataMapConstantsOK DEF Submit, DataMapConstantsOK
<1>1. request' = [dir |-> dir, segs |-> segs, pos |-> pos, type |-> "UNMAPPED", data |-> 0, size |-> 0]
  BY DEF Submit, Idle
<1>2. TypeOK'
  <2>1. requests' \in Nat
    BY <1>0 DEF TypeOK
  <2>2. mem' \in [Page -> [Pos -> Nat]]
    <3>1. \A g \in Page : g \in Nat
      BY DataMapConstantsOK DEF DataMapConstantsOK
    <3>2. \A p \in Pos : p \in Nat
      BY Sizes DEF Pos
    <3>3. \A g \in Page, p \in Pos : 100 * requests' + 10 * g + p \in Nat
      BY <2>1, <3>1, <3>2
    <3> QED  BY <1>0, <3>3
  <2>3. disk' \in [Disk -> Nat]
    <3>1. \A d \in Disk : d \in Nat
      BY Sizes DEF Disk
    <3>2. \A d \in Disk : 100 * requests' + 50 + d \in Nat
      BY <2>1, <3>1
    <3> QED  BY <1>0, <3>2
  <2>4. request' \in [dir : {"none", "READ", "WRITE"}, segs : Layouts \cup {<<>>}, pos : Nat,
                      type : {"UNMAPPED", "SIMPLE", "LIST"}, data : Nat, size : Nat]
    BY <1>0, <1>1
  <2> QED  BY <1>0, <2>1, <2>2, <2>3, <2>4 DEF TypeOK, window, mapLoop, copyLoop, server
<1>3. RequestOK'
  <2>1. Bytes(segs) \in Nat
    BY StartIs
  <2>2. pos + Bytes(segs) <= MaxLen + 1
    BY <1>0, <2>1, Sizes
  <2> QED  BY <1>0, <1>1, <2>2 DEF RequestOK, Bytes
<1>4. WindowOK'
  BY <1>0 DEF WindowOK, InUse, Serving, window
<1>5. MappingOK' /\ MappedOK'
  BY <1>0 DEF MappingOK, MappedOK, Serving
<1>6. WriteOK'
  <2>1. ASSUME NEW s \in 1 .. Len(segs), NEW p \in Pos, Covers(segs[s], p)
        PROVE  ~ ByteNo(segs, s, p) < 0
    BY <2>1, CoversIs
  <2>2. Written(0)'
    <3>1. request'.segs = segs /\ before'.disk = disk'
      BY <1>0, <1>1
    <3> QED  BY <2>1, <3>1 DEF Written, ByteNo
  <2> QED  BY <1>0, <2>2 DEF WriteOK
<1>7. KeptOK'
  BY <1>0 DEF KeptOK
<1> QED  BY <1>2, <1>3, <1>4, <1>5, <1>6, <1>7

LEMMA DevReadMap ==
  ASSUME MapInv, bius_dev_read
  PROVE  MapInv'
<1> USE DEF MapInv
<1>0. /\ pc = "queued" /\ pc' = "mapping" /\ list_entry_index' = 0 /\ user_page_num' = 0
      /\ segment_end_aligned' = FALSE /\ reserved_page_num' = 2
      /\ UNCHANGED <<mem, ptes, reserve_mapping_list, mapping_list, reserved, request, i, k2u, entry, offset,
                     reply, disk, requests, before, wild>>
  BY DEF bius_dev_read, window, server, history
<1>1. request.dir # "none" /\ request.segs \in Layouts /\ request.type = "UNMAPPED"
  BY <1>0 DEF RequestOK
<1>2. TypeOK'
  <2>1. list_entry_index' \in 0 .. MaxSegs /\ user_page_num' \in 0 .. MaxSegs /\ reserved_page_num' \in Nat
    BY <1>0, Sizes
  <2>2. segment_end_aligned' \in BOOLEAN /\ pc' \in Serving \cup {"idle", "queued", "mapping"}
    BY <1>0
  <2> QED  BY <1>0, <2>1, <2>2 DEF TypeOK
<1>3. RequestOK'
  BY <1>0, <1>1 DEF RequestOK
<1>4. WindowOK'
  <2>1. InUse = 0 /\ InUse' = 0
    BY <1>0 DEF InUse, Serving
  <2> QED  BY <1>0, <2>1 DEF WindowOK, Serving
<1>5. MappingOK'
  <2>1. Len(request.segs) \in Nat /\ Len(request.segs) \in 1 .. MaxSegs
    BY <1>1, LayoutIs
  <2>2. Shown(user_page_num)' /\ Numbered(user_page_num)' /\ NextReserved(user_page_num)'
    BY <1>0 DEF Shown, Numbered, NextReserved
  <2>3. \E f \in Splittings' : Splits(f, user_page_num)'
    <3> DEFINE f == [e \in 0 .. 0 |-> 1]
    <3>1. f \in Splittings'
      BY <1>0, Sizes DEF Splittings, SegNo
    <3>2. Splits(f, user_page_num)'
      BY <1>0 DEF Splits
    <3> QED  BY <3>1, <3>2
  <2>4. user_page_num' <= Len(request'.segs) /\ list_entry_index' <= user_page_num' /\ ~ user_page_num' > 0
    BY <1>0, <2>1
  <2> QED  BY <1>0, <2>2, <2>3, <2>4 DEF MappingOK
<1>6. MappedOK'
  BY <1>0 DEF MappedOK, Serving
<1>7. WriteOK'
  BY <1>0 DEF WriteOK, Written
<1>8. KeptOK'
  BY <1>0 DEF KeptOK, Owns, Segment
<1> QED  BY <1>2, <1>3, <1>4, <1>5, <1>6, <1>7, <1>8

-----------------------------------------------------------------------------
(* A segment is mapped                                                     *)

\* What is known when the next segment is mapped.
LEMMA NextSegment ==
  ASSUME MapInv, MapSegment
  PROVE  LET l == request.segs
             s == l[user_page_num + 1]
         IN  /\ pc = "mapping" /\ l \in Layouts /\ request.dir # "none"
             /\ Len(l) \in Nat /\ Len(l) <= MaxSegs /\ MaxSegs \in Nat
             /\ user_page_num \in Nat /\ list_entry_index \in Nat
             /\ user_page_num < Len(l) /\ user_page_num + 1 \in 1 .. Len(l)
             /\ list_entry_index <= user_page_num /\ (user_page_num > 0 => list_entry_index > 0)
             /\ s.pg \in Page /\ s.off \in Nat /\ s.len \in Nat \ {0} /\ s.at \in Nat /\ s.off + s.len <= PAGE_SIZE
             /\ Start(l, user_page_num + 1) = s.at /\ Start(l, user_page_num + 2) = s.at + s.len
             /\ user_page_num' = user_page_num + 1 /\ AddToList(s) /\ MapPage(s)
             /\ segment_end_aligned' = (s.off + s.len = PAGE_SIZE)
             /\ UNCHANGED <<mem, request, i, k2u, pc, entry, offset, reply, disk, requests, before, wild>>
<1> DEFINE l == request.segs
           u == user_page_num
           s == l[u + 1]
<1>1. /\ pc = "mapping" /\ u < Len(l) /\ user_page_num' = u + 1 /\ AddToList(s) /\ MapPage(s)
      /\ segment_end_aligned' = (s.off + s.len = PAGE_SIZE)
      /\ UNCHANGED <<mem, request, i, k2u, pc, entry, offset, reply, disk, requests, before, wild>>
  BY DEF MapSegment, server, history
<1>2. l \in Layouts /\ request.dir # "none"
  BY <1>1 DEF MapInv, RequestOK
<1>3. u \in 0 .. MaxSegs /\ list_entry_index \in 0 .. MaxSegs
  BY DEF MapInv, TypeOK
<1>4. list_entry_index <= u /\ (u > 0 => list_entry_index > 0)
  BY <1>1 DEF MapInv, MappingOK
<1>5. Len(l) \in Nat /\ Len(l) \in 1 .. MaxSegs /\ MaxSegs \in Nat
  BY <1>2, LayoutIs, Sizes
<1>6. /\ u \in Nat /\ list_entry_index \in Nat /\ u + 1 \in 1 .. Len(l) /\ (u + 1) + 1 = u + 2
      /\ Len(l) <= MaxSegs
  BY <1>1, <1>3, <1>5
<1>7. s.pg \in Page /\ s.off \in Nat /\ s.len \in Nat \ {0} /\ s.at \in Nat /\ s.off + s.len <= PAGE_SIZE
  BY <1>2, <1>6, LayoutIs
<1>8. Start(l, u + 1) = s.at /\ Start(l, u + 2) = s.at + s.len
  BY <1>2, <1>6, StartIs
<1> QED  BY <1>1, <1>2, <1>4, <1>5, <1>6, <1>7, <1>8

\* It extends the last entry of the list or starts one of its own.
LEMMA MapSegmentList ==
  ASSUME MapInv, MapSegment
  PROVE  /\ mapping_list' \in [ListIndex -> Nat] /\ list_entry_index' \in Nat
         /\ list_entry_index' <= user_page_num' /\ list_entry_index' > 0
         /\ \E f \in Splittings' : Splits(f, user_page_num)'
<1> DEFINE l == request.segs
           u == user_page_num
           n == list_entry_index
           s == l[u + 1]
<1>1. /\ pc = "mapping" /\ l \in Layouts /\ Len(l) \in Nat /\ Len(l) <= MaxSegs /\ MaxSegs \in Nat
      /\ u \in Nat /\ n \in Nat /\ u < Len(l) /\ u + 1 \in 1 .. Len(l) /\ n <= u /\ (u > 0 => n > 0)
      /\ s.off \in Nat /\ s.len \in Nat \ {0} /\ s.at \in Nat
      /\ Start(l, u + 1) = s.at /\ Start(l, u + 2) = s.at + s.len
      /\ user_page_num' = u + 1 /\ AddToList(s) /\ request' = request
  BY NextSegment
<1>2. PICK f \in Splittings : Splits(f, u)
  BY <1>1 DEF MapInv, MappingOK
<1>3. mapping_list \in [ListIndex -> Nat] /\ ListIndex = 0 .. 2 * MaxSegs + 1
  BY DEF MapInv, TypeOK, ListIndex
<1>4. PAGE_SIZE \in Nat /\ PAGE_SIZE > 0
  BY Sizes
<1>5. f \in [0 .. n -> SegNo] /\ SegNo = 1 .. MaxSegs + 1 /\ f[0] = 1 /\ f[n] = u + 1
  BY <1>2 DEF Splittings, Splits, SegNo
<1>6. \A e \in 0 .. n - 1 : Entry(e, f[e], f[e + 1])
  BY <1>2 DEF Splits
<1>7. \A a, b : Run(l, a, b)' = Run(l, a, b) /\ Start(l, a)' = Start(l, a) /\ AddrOf(l, a)' = AddrOf(l, a)
  BY <1>1 DEF Run, Start, Bytes, AddrOf, Base
<1> HIDE DEF l, n, u, s
<1>8. CASE Opens(s)
  <2>1. /\ list_entry_index' = n + 1
        /\ mapping_list' = [mapping_list EXCEPT ![2 * n] = vm_start + u * PAGE_SIZE + s.off, ![2 * n + 1] = s.len]
    BY <1>1, <1>8 DEF AddToList, n, u
  <2>2. 2 * n \in ListIndex /\ 2 * n + 1 \in ListIndex /\ 2 * n # 2 * n + 1
    BY <1>1, <1>3
  <2>3. vm_start + u * PAGE_SIZE + s.off \in Nat
    <3>1. u * PAGE_SIZE \in Nat
      BY <1>1, <1>4
    <3> QED  BY <1>1, <1>4, <3>1 DEF vm_start
  <2>4. mapping_list' \in [ListIndex -> Nat]
    BY <1>1, <1>3, <2>1, <2>2, <2>3
  <2>5. /\ mapping_list'[2 * n] = vm_start + u * PAGE_SIZE + s.off /\ mapping_list'[2 * n + 1] = s.len
        /\ \A j \in ListIndex : j # 2 * n /\ j # 2 * n + 1 => mapping_list'[j] = mapping_list[j]
    <3> HIDE DEF vm_start
    <3> QED  BY <1>3, <2>1, <2>2
  <2>6. Run(l, u + 1, u + 2)
    <3>1. u + 2 \in (u + 1) + 1 .. Len(l) + 1
      BY <1>1
    <3>2. \A x \in u + 1 .. (u + 2) - 1 : x = u + 1
      BY <1>1
    <3> QED  BY <1>1, <3>1, <3>2 DEF Run
  <2>7. AddrOf(l, u + 1) = vm_start + u * PAGE_SIZE + s.off
    <3>1. AddrOf(l, u + 1) = vm_start + PageAt(u + 1) + s.off
      BY <1>1, <2>6, RunIs DEF s
    <3>2. PageAt(u + 1) = u * PAGE_SIZE
      BY <1>1, <1>4 DEF PageAt
    <3> QED  BY <3>1, <3>2
  <2>8. Start(l, u + 2) - Start(l, u + 1) = s.len
    BY <1>1
  <2>g. PICK g : g = [e \in 0 .. n + 1 |-> IF e <= n THEN f[e] ELSE u + 2]
    OBVIOUS
  <2>9. /\ g \in [0 .. n + 1 -> SegNo] /\ g[0] = 1 /\ g[n] = u + 1 /\ g[n + 1] = u + 2
        /\ \A e \in 0 .. n - 1 : g[e] = f[e] /\ g[e + 1] = f[e + 1]
    BY <1>1, <1>5, <2>g
  <2>10. ASSUME NEW e \in 0 .. n
         PROVE  Entry(e, g[e], g[e + 1])'
    <3>1. CASE e = n
      BY <1>1, <1>7, <2>5, <2>6, <2>7, <2>8, <2>9, <3>1 DEF Entry, l
    <3>2. CASE e # n
      <4>1. e \in 0 .. n - 1 /\ 2 * e \in ListIndex /\ 2 * e + 1 \in ListIndex
        BY <1>1, <1>3, <3>2
      <4>2. 2 * e # 2 * n /\ 2 * e # 2 * n + 1 /\ 2 * e + 1 # 2 * n /\ 2 * e + 1 # 2 * n + 1
        BY <1>1, <3>2
      <4>3. mapping_list'[2 * e] = mapping_list[2 * e] /\ mapping_list'[2 * e + 1] = mapping_list[2 * e + 1]
        BY <2>5, <4>1, <4>2
      <4>4. Entry(e, g[e], g[e + 1])
        BY <1>6, <2>9, <4>1
      <4> QED  BY <1>1, <1>7, <4>3, <4>4 DEF Entry, l
    <3> QED  BY <3>1, <3>2
  <2>11. Splits(g, user_page_num)'
    <3>1. list_entry_index' - 1 = n /\ user_page_num' + 1 = u + 2
      BY <1>1, <2>1
    <3> QED  BY <2>1, <2>9, <2>10, <3>1 DEF Splits
  <2>12. g \in Splittings'
    BY <2>1, <2>9 DEF Splittings, SegNo
  <2>13. n + 1 \in Nat /\ n + 1 <= u + 1 /\ n + 1 > 0
    BY <1>1
  <2> QED  BY <1>1, <2>1, <2>4, <2>11, <2>12, <2>13
<1>9. CASE ~Opens(s)
  <2>1. list_entry_index' = n /\ mapping_list' = [mapping_list EXCEPT ![2 * n - 1] = @ + s.len]
    BY <1>1, <1>9 DEF AddToList, n
  <2>2. segment_end_aligned /\ s.off = 0
    BY <1>9 DEF Opens
  <2>3. u > 0 /\ l[u].off + l[u].len = PAGE_SIZE
    BY <1>1, <2>2 DEF MapInv, MappingOK, u, l
  <2>4. n > 0 /\ u \in 1 .. Len(l) /\ n - 1 \in 0 .. n - 1 /\ (n - 1) + 1 = n /\ 2 * (n - 1) + 1 = 2 * n - 1
    BY <1>1, <2>3
  <2>5. 2 * n - 1 \in ListIndex
    BY <1>1, <1>3, <2>4
  <2>6. mapping_list[2 * n - 1] \in Nat
    BY <1>3, <2>5
  <2>7. mapping_list' \in [ListIndex -> Nat]
    <3> DEFINE sum == mapping_list[2 * n - 1] + s.len
               at == 2 * n - 1
    <3>1. sum \in Nat
      BY <1>1, <2>6
    <3>2. mapping_list' = [mapping_list EXCEPT ![at] = sum] /\ at \in ListIndex
      BY <2>1, <2>5
    <3> HIDE DEF sum, at
    <3>3. mapping_list \in [ListIndex -> Nat]
      BY <1>3
    <3> QED  BY <3>1, <3>2, <3>3
  <2>8. /\ mapping_list'[2 * n - 1] = mapping_list[2 * n - 1] + s.len
        /\ \A j \in ListIndex : j # 2 * n - 1 => mapping_list'[j] = mapping_list[j]
    BY <1>3, <2>1, <2>5
  <2>9. Base(l, u + 1) = Base(l, u)
    <3>1. l[u].off \in Nat /\ l[u].len \in Nat /\ l[u].at \in Nat
      BY <1>1, <2>4, LayoutIs
    <3>2. Start(l, u + 1) = l[u].at + l[u].len
      BY <1>1, <2>4, StartIs
    <3>3. PageAt(u) \in Nat /\ PageAt(u + 1) = PageAt(u) + PAGE_SIZE
      <4>1. u \in Nat \ {0}
        BY <1>1, <2>3
      <4> QED  BY <4>1, PagesFollow
    <3> DEFINE here == PageAt(u)
               o == l[u].off
               a == l[u].at
               ln == l[u].len
               so == s.off
               sa == s.at
    <3>4. /\ so = 0 /\ sa = a + ln /\ o + ln = PAGE_SIZE /\ o \in Nat /\ a \in Nat /\ ln \in Nat /\ here \in Nat
          /\ PageAt(u + 1) = here + PAGE_SIZE
      BY <1>1, <2>2, <2>3, <3>1, <3>2, <3>3
    <3>5. Base(l, u) = here + o - a /\ Base(l, u + 1) = PageAt(u + 1) + so - sa
      BY DEF Base, s
    <3> HIDE DEF here, o, a, ln, so, sa
    <3> QED  BY <1>4, <3>4, <3>5
  <2>10. Entry(n - 1, f[n - 1], u + 1)
    BY <1>5, <1>6, <2>4
  <2>11. /\ Run(l, f[n - 1], u + 1) /\ mapping_list[2 * (n - 1)] = AddrOf(l, f[n - 1])
         /\ mapping_list[2 * n - 1] = Start(l, u + 1) - Start(l, f[n - 1])
    BY <2>4, <2>10 DEF Entry, l
  <2>12. Run(l, f[n - 1], u + 2)
    <3>1. f[n - 1] \in 1 .. Len(l) /\ u + 1 \in f[n - 1] + 1 .. Len(l) + 1
      BY <2>11 DEF Run
    <3>2. f[n - 1] \in Nat /\ f[n - 1] <= u /\ u + 2 \in f[n - 1] + 1 .. Len(l) + 1
      BY <1>1, <3>1
    <3>3. ASSUME NEW x \in f[n - 1] .. (u + 2) - 1
          PROVE  Base(l, x) = Base(l, f[n - 1])
      <4>1. x \in f[n - 1] .. (u + 1) - 1 \/ x = u + 1
        BY <1>1, <3>2
      <4>2. u \in f[n - 1] .. (u + 1) - 1
        BY <1>1, <3>2
      <4> QED  BY <2>9, <2>11, <4>1, <4>2 DEF Run
    <3> QED  BY <3>1, <3>2, <3>3 DEF Run
  <2>13. mapping_list'[2 * n - 1] = Start(l, u + 2) - Start(l, f[n - 1])
    <3>1. Start(l, f[n - 1]) \in Nat
      BY <1>1, <2>11, RunIs
    <3> DEFINE st == Start(l, f[n - 1])
               sl == s.len
               sa == s.at
    <3>2. /\ st \in Nat /\ sl \in Nat /\ sa \in Nat /\ mapping_list'[2 * n - 1] = (sa - st) + sl
          /\ Start(l, u + 2) = sa + sl
      BY <1>1, <2>8, <2>11, <3>1
    <3> HIDE DEF st, sl, sa
    <3>3. mapping_list'[2 * n - 1] = Start(l, u + 2) - st
      BY <3>2
    <3> QED  BY <3>3 DEF st
  <2>g. PICK g : g = [f EXCEPT ![n] = u + 2]
    OBVIOUS
  <2>14. /\ g \in [0 .. n -> SegNo] /\ g[0] = 1 /\ g[n] = u + 2 /\ g[n - 1] = f[n - 1]
         /\ \A e \in 0 .. n - 2 : g[e] = f[e] /\ g[e + 1] = f[e + 1]
    BY <1>1, <1>5, <2>4, <2>g
  <2>15. ASSUME NEW e \in 0 .. n - 1
         PROVE  Entry(e, g[e], g[e + 1])'
    <3>1. 2 * e \in ListIndex /\ 2 * e + 1 \in ListIndex /\ 2 * e # 2 * n - 1
      BY <1>1, <1>3
    <3>2. CASE e = n - 1
      <4>1. mapping_list'[2 * e] = AddrOf(l, f[n - 1])
        BY <2>8, <2>11, <3>1, <3>2
      <4>2. g[e] = f[n - 1] /\ g[e + 1] = u + 2 /\ 2 * e + 1 = 2 * n - 1
        BY <2>4, <2>14, <3>2
      <4> QED  BY <1>1, <1>7, <2>12, <2>13, <4>1, <4>2 DEF Entry, l
    <3>3. CASE e # n - 1
      <4>1. e \in 0 .. n - 2 /\ 2 * e + 1 # 2 * n - 1
        BY <1>1, <3>3
      <4>2. mapping_list'[2 * e] = mapping_list[2 * e] /\ mapping_list'[2 * e + 1] = mapping_list[2 * e + 1]
        BY <2>8, <3>1, <4>1
      <4>3. Entry(e, g[e], g[e + 1])
        BY <1>6, <2>14, <4>1
      <4> QED  BY <1>1, <1>7, <4>2, <4>3 DEF Entry, l
    <3> QED  BY <3>2, <3>3
  <2>16. Splits(g, user_page_num)'
    <3>1. user_page_num' + 1 = u + 2
      BY <1>1
    <3> QED  BY <2>1, <2>14, <2>15, <3>1 DEF Splits
  <2>17. g \in Splittings'
    BY <2>1, <2>14 DEF Splittings, SegNo
  <2>18. n <= u + 1
    BY <1>1
  <2> QED  BY <1>1, <2>1, <2>4, <2>7, <2>16, <2>17, <2>18
<1> QED  BY <1>8, <1>9

\* Its page, or a reserved page that no earlier segment has, goes into the window.
LEMMA MapSegmentPages ==
  ASSUME MapInv, MapSegment
  PROVE  /\ ptes' \in [UserPage -> Frames] /\ reserved' \in [Reserved -> [Pos -> Nat]]
         /\ reserve_mapping_list' \in [Reserved -> Page \cup {0}] /\ reserved_page_num' \in Nat
         /\ \A v \in UserPage : v >= user_page_num + 1 => ptes'[v] = ZeroPage
         /\ Shown(user_page_num)' /\ Numbered(user_page_num)' /\ NextReserved(user_page_num)'
<1> DEFINE l == request.segs
           u == user_page_num
           k == reserved_page_num
           sg == l[u + 1]
<1>1. /\ pc = "mapping" /\ l \in Layouts /\ Len(l) \in Nat /\ Len(l) <= MaxSegs /\ MaxSegs \in Nat
      /\ u \in Nat /\ u < Len(l) /\ sg.pg \in Page
      /\ user_page_num' = u + 1 /\ MapPage(sg) /\ request' = request /\ mem' = mem
  BY NextSegment
<1>2. /\ ptes \in [UserPage -> Frames] /\ reserved \in [Reserved -> [Pos -> Nat]]
      /\ reserve_mapping_list \in [Reserved -> Page \cup {0}] /\ mem \in [Page -> [Pos -> Nat]]
  BY DEF MapInv, TypeOK
<1>3. Shown(u) /\ Numbered(u) /\ NextReserved(u)
  BY <1>1 DEF MapInv, MappingOK
<1>4. \A v \in UserPage : v >= u => ptes[v] = ZeroPage
  BY <1>1 DEF MapInv, WindowOK, InUse, Serving
<1>5. k \in 2 .. u + 2
  BY <1>3 DEF NextReserved
<1>6. u \in UserPage /\ k \in Reserved /\ k \in Nat
  BY <1>1, <1>5 DEF UserPage, Reserved
<1> DEFINE new == IF Whole(sg) THEN Frame("data", sg.pg) ELSE Frame("reserved", k)
<1>7. ptes' = [ptes EXCEPT ![u] = new]
  BY <1>1 DEF MapPage
<1>8. new \in Frames
  BY <1>1, <1>6 DEF Frames, Frame
<1>9. ptes' \in [UserPage -> Frames] /\ ptes'[u] = new /\ \A v \in UserPage : v # u => ptes'[v] = ptes[v]
  <2> HIDE DEF new
  <2> QED  BY <1>2, <1>6, <1>7, <1>8
<1>10. \A v \in UserPage : v >= u + 1 => ptes'[v] = ZeroPage
  <2>1. \A v \in UserPage : v \in Nat
    BY Sizes DEF UserPage
  <2>2. \A v \in UserPage : v >= u + 1 => v # u /\ v >= u
    BY <1>1, <2>1
  <2> QED  BY <1>4, <1>9, <2>2
<1>11. ASSUME NEW s \in 1 .. u
       PROVE  /\ ptes'[s - 1] = ptes[s - 1] /\ R(s)' = R(s) /\ WholeSeg(s)' = WholeSeg(s) /\ s \in Nat
              /\ ~WholeSeg(s) => R(s) \in Reserved /\ R(s) < k /\ R(s) \in Nat
  <2>1. s \in Nat /\ s - 1 \in UserPage /\ s - 1 # u
    BY <1>1 DEF UserPage
  <2>2. ~WholeSeg(s) => R(s) \in Reserved
    BY <1>3 DEF Shown
  <2>3. ~WholeSeg(s) => R(s) < k
    BY <1>3 DEF NextReserved
  <2>4. R(s) \in Reserved => R(s) \in Nat
    BY Sizes DEF Reserved
  <2> QED  BY <1>1, <1>9, <2>1, <2>2, <2>3, <2>4 DEF R, WholeSeg
<1>w. PICK w : w = u + 1
  OBVIOUS
<1>12. w - 1 = u /\ (u + 1) - 1 = u /\ 1 .. u + 1 = 1 .. u \cup {u + 1} /\ u + 1 \notin 1 .. u
  BY <1>1, <1>w
<1>13. WholeSeg(w)' = Whole(sg) /\ R(w)' = new.n
  BY <1>1, <1>9, <1>12, <1>w DEF WholeSeg, R
<1>14. CASE Whole(sg)
  <2>1. UNCHANGED <<reserved, reserve_mapping_list, reserved_page_num>> /\ ptes'[u] = Frame("data", sg.pg)
    BY <1>1, <1>9, <1>14 DEF MapPage
  <2>2. Shown(user_page_num)'
    <3>1. ASSUME NEW s \in 1 .. u
          PROVE  IF WholeSeg(s)' THEN ptes'[s - 1] = Frame("data", l[s].pg)
                 ELSE /\ ptes'[s - 1] = Frame("reserved", R(s)') /\ R(s)' \in Reserved
                      /\ reserve_mapping_list'[R(s)'] = l[s].pg
                      /\ \A p \in Pos :
                           IF Covers(l[s], p) THEN request.dir = "WRITE" => reserved'[R(s)'][p] = mem[l[s].pg][p]
                           ELSE reserved'[R(s)'][p] = 0
      BY <1>3, <1>11, <2>1 DEF Shown
    <3>2. WholeSeg(w)' /\ ptes'[(u + 1) - 1] = Frame("data", l[u + 1].pg)
      BY <1>12, <1>w, <1>13, <1>14, <2>1
    <3> QED  BY <1>1, <1>12, <1>w, <3>1, <3>2 DEF Shown
  <2>3. Numbered(user_page_num)'
    <3>1. ASSUME NEW s \in 1 .. u + 1, NEW t \in 1 .. u + 1, s < t, ~WholeSeg(s)', ~WholeSeg(t)'
          PROVE  /\ R(s)' < R(t)'
                 /\ (\A x \in s + 1 .. t - 1 : WholeSeg(x)') => R(t)' = R(s)' + 1
      <4>1. s \in 1 .. u /\ t \in 1 .. u
        BY <1>12, <1>w, <1>13, <1>14, <3>1
      <4>2. \A x \in s + 1 .. t - 1 : x \in 1 .. u
        BY <1>1, <4>1
      <4>3. \A x \in s + 1 .. t - 1 : WholeSeg(x)' = WholeSeg(x)
        BY <1>11, <4>2
      <4>4. ~WholeSeg(s) /\ ~WholeSeg(t) /\ R(s)' = R(s) /\ R(t)' = R(t)
        BY <1>11, <3>1, <4>1
      <4> QED  BY <1>3, <3>1, <4>1, <4>3, <4>4 DEF Numbered
    <3>2. ASSUME NEW s \in 1 .. u + 1, ~WholeSeg(s)', \A x \in 1 .. s - 1 : WholeSeg(x)'
          PROVE  R(s)' = 2
      <4>1. s \in 1 .. u
        BY <1>12, <1>w, <1>13, <1>14, <3>2
      <4>2. \A x \in 1 .. s - 1 : x \in 1 .. u
        BY <1>1, <4>1
      <4>3. \A x \in 1 .. s - 1 : WholeSeg(x)
        BY <1>11, <3>2, <4>2
      <4> QED  BY <1>3, <1>11, <3>2, <4>1, <4>3 DEF Numbered
    <3> QED  BY <1>1, <3>1, <3>2 DEF Numbered
  <2>4. NextReserved(user_page_num)'
    <3>1. k \in 2 .. (u + 1) + 2
      BY <1>1, <1>5
    <3>2. ASSUME NEW s \in 1 .. u + 1, ~WholeSeg(s)'
          PROVE  R(s)' < k /\ ((\A x \in s + 1 .. u + 1 : WholeSeg(x)') => k = R(s)' + 1)
      <4>1. s \in 1 .. u /\ ~WholeSeg(s) /\ R(s)' = R(s)
        BY <1>11, <1>12, <1>w, <1>13, <1>14, <3>2
      <4>2. \A x \in s + 1 .. u : x \in 1 .. u /\ x \in s + 1 .. u + 1
        BY <1>1, <4>1
      <4>3. ASSUME \A x \in s + 1 .. u + 1 : WholeSeg(x)'
            PROVE  \A x \in s + 1 .. u : WholeSeg(x)
        BY <1>11, <4>2, <4>3
      <4> QED  BY <1>3, <4>1, <4>3 DEF NextReserved
    <3>3. ASSUME \A x \in 1 .. u + 1 : WholeSeg(x)'
          PROVE  k = 2
      <4>1. \A x \in 1 .. u : WholeSeg(x)
        BY <1>11, <1>12, <1>w, <3>3
      <4> QED  BY <1>3, <4>1 DEF NextReserved
    <3> QED  BY <1>1, <2>1, <3>1, <3>2, <3>3 DEF NextReserved
  <2> QED  BY <1>2, <1>6, <1>9, <1>10, <2>1, <2>2, <2>3, <2>4
<1>15. CASE ~Whole(sg)
  <2>1. /\ reserved' = [reserved EXCEPT ![k] = Fill(reserved[k], sg)] /\ ptes'[u] = Frame("reserved", k)
        /\ reserve_mapping_list' = [reserve_mapping_list EXCEPT ![k] = StandsFor(reserve_mapping_list[k], sg)]
        /\ reserved_page_num' = k + 1
    BY <1>1, <1>9, <1>15 DEF MapPage
  <2>2. /\ reserve_mapping_list' \in [Reserved -> Page \cup {0}] /\ reserve_mapping_list'[k] = sg.pg
        /\ \A x \in Reserved : x # k => reserve_mapping_list'[x] = reserve_mapping_list[x]
    BY <1>1, <1>2, <1>6, <2>1 DEF StandsFor
  <2> DEFINE fill == Fill(reserved[k], sg)
  <2>3. /\ fill \in [Pos -> Nat]
        /\ \A p \in Pos : IF Covers(sg, p) THEN request.dir = "WRITE" => fill[p] = mem[sg.pg][p] ELSE fill[p] = 0
    <3>1. \A p \in Pos : mem[sg.pg][p] \in Nat
      BY <1>1, <1>2
    <3>2. fill = [p \in Pos |-> IF request.dir = "WRITE" /\ Covers(sg, p) THEN mem[sg.pg][p] ELSE 0]
      BY DEF Fill
    <3> HIDE DEF fill
    <3> QED  BY <3>1, <3>2
  <2>4. /\ reserved' \in [Reserved -> [Pos -> Nat]] /\ reserved'[k] = fill
        /\ \A x \in Reserved : x # k => reserved'[x] = reserved[x]
    <3> HIDE DEF fill
    <3>1. reserved' = [reserved EXCEPT ![k] = fill]
      BY <2>1 DEF fill
    <3> QED  BY <1>2, <1>6, <2>3, <3>1
  <2>5. R(w)' = k /\ ~WholeSeg(w)'
    BY <1>13, <1>15 DEF Frame
  <2>6. Shown(user_page_num)'
    <3>1. ASSUME NEW s \in 1 .. u
          PROVE  IF WholeSeg(s)' THEN ptes'[s - 1] = Frame("data", l[s].pg)
                 ELSE /\ ptes'[s - 1] = Frame("reserved", R(s)') /\ R(s)' \in Reserved
                      /\ reserve_mapping_list'[R(s)'] = l[s].pg
                      /\ \A p \in Pos :
                           IF Covers(l[s], p) THEN request.dir = "WRITE" => reserved'[R(s)'][p] = mem[l[s].pg][p]
                           ELSE reserved'[R(s)'][p] = 0
      <4>1. CASE WholeSeg(s)
        BY <1>3, <1>11, <4>1 DEF Shown
      <4>2. CASE ~WholeSeg(s)
        <5>1. R(s) \in Reserved /\ R(s) # k /\ R(s)' = R(s) /\ ptes'[s - 1] = ptes[s - 1] /\ ~WholeSeg(s)'
          BY <1>6, <1>11, <4>2
        <5>2. reserve_mapping_list'[R(s)] = reserve_mapping_list[R(s)] /\ reserved'[R(s)] = reserved[R(s)]
          BY <2>2, <2>4, <5>1
        <5> QED  BY <1>3, <4>2, <5>1, <5>2 DEF Shown
      <4> QED  BY <4>1, <4>2
    <3>2. /\ ptes'[(u + 1) - 1] = Frame("reserved", R(w)') /\ R(w)' \in Reserved
          /\ reserve_mapping_list'[R(w)'] = l[u + 1].pg
          /\ \A p \in Pos :
               IF Covers(l[u + 1], p)
               THEN request.dir = "WRITE" => reserved'[R(w)'][p] = mem[l[u + 1].pg][p]
               ELSE reserved'[R(w)'][p] = 0
      <4> HIDE DEF fill
      <4> QED  BY <1>6, <1>12, <1>w, <2>1, <2>2, <2>3, <2>4, <2>5
    <3> QED  BY <1>1, <1>12, <1>w, <2>5, <3>1, <3>2 DEF Shown
  <2>7. Numbered(user_page_num)'
    <3>1. ASSUME NEW s \in 1 .. u + 1, NEW t \in 1 .. u + 1, s < t, ~WholeSeg(s)', ~WholeSeg(t)'
          PROVE  /\ R(s)' < R(t)'
                 /\ (\A x \in s + 1 .. t - 1 : WholeSeg(x)') => R(t)' = R(s)' + 1
      <4>1. s \in 1 .. u
        BY <1>1, <3>1
      <4>2. \A x \in s + 1 .. t - 1 : x \in 1 .. u
        BY <1>1, <4>1
      <4>3. \A x \in s + 1 .. t - 1 : WholeSeg(x)' = WholeSeg(x)
        BY <1>11, <4>2
      <4>4. ~WholeSeg(s) /\ R(s)' = R(s)
        BY <1>11, <3>1, <4>1
      <4>5. CASE t \in 1 .. u
        <5>1. ~WholeSeg(t) /\ R(t)' = R(t)
          BY <1>11, <3>1, <4>5
        <5> QED  BY <1>3, <3>1, <4>1, <4>3, <4>4, <4>5, <5>1 DEF Numbered
      <4>6. CASE t = u + 1
        <5>1. R(t)' = k /\ R(s) < k /\ t - 1 = u
          BY <1>11, <1>12, <1>w, <2>5, <4>1, <4>4, <4>6
        <5>2. (\A x \in s + 1 .. t - 1 : WholeSeg(x)) => k = R(s) + 1
          BY <1>3, <4>1, <4>4, <5>1 DEF NextReserved
        <5> QED  BY <4>3, <4>4, <5>1, <5>2
      <4> QED  BY <1>12, <1>w, <4>5, <4>6
    <3>2. ASSUME NEW s \in 1 .. u + 1, ~WholeSeg(s)', \A x \in 1 .. s - 1 : WholeSeg(x)'
          PROVE  R(s)' = 2
      <4>1. \A x \in 1 .. s - 1 : x \in 1 .. u
        BY <1>1
      <4>2. \A x \in 1 .. s - 1 : WholeSeg(x)
        BY <1>11, <3>2, <4>1
      <4>3. CASE s \in 1 .. u
        BY <1>3, <1>11, <3>2, <4>2, <4>3 DEF Numbered
      <4>4. CASE s = u + 1
        <5>1. \A x \in 1 .. u : WholeSeg(x)
          BY <1>12, <1>w, <4>2, <4>4
        <5> QED  BY <1>3, <1>w, <2>5, <4>4, <5>1 DEF NextReserved
      <4> QED  BY <1>12, <1>w, <4>3, <4>4
    <3> QED  BY <1>1, <3>1, <3>2 DEF Numbered
  <2>8. NextReserved(user_page_num)'
    <3>1. k + 1 \in 2 .. (u + 1) + 2
      BY <1>1, <1>5
    <3>2. ASSUME NEW s \in 1 .. u + 1, ~WholeSeg(s)'
          PROVE  R(s)' < k + 1 /\ ((\A x \in s + 1 .. u + 1 : WholeSeg(x)') => k + 1 = R(s)' + 1)
      <4>1. CASE s \in 1 .. u
        <5>1. R(s)' < k /\ R(s)' \in Nat
          BY <1>11, <3>2, <4>1
        <5>2. u + 1 \in s + 1 .. u + 1
          BY <1>1, <4>1
        <5> QED  BY <1>6, <1>w, <2>5, <5>1, <5>2
      <4>2. CASE s = u + 1
        BY <1>6, <1>w, <2>5, <4>2
      <4> QED  BY <1>12, <1>w, <4>1, <4>2
    <3>3. ~ \A x \in 1 .. u + 1 : WholeSeg(x)'
      BY <1>12, <1>w, <2>5
    <3> QED  BY <1>1, <2>1, <3>1, <3>2, <3>3 DEF NextReserved
  <2> QED  BY <1>6, <1>9, <1>10, <2>1, <2>2, <2>4, <2>6, <2>7, <2>8
<1> QED  BY <1>14, <1>15

LEMMA MapSegmentMap ==
  ASSUME MapInv, MapSegment
  PROVE  MapInv'
<1> DEFINE l == request.segs
           s == l[user_page_num + 1]
<1>1. /\ pc = "mapping" /\ l \in Layouts /\ Len(l) \in Nat /\ Len(l) <= MaxSegs /\ MaxSegs \in Nat
      /\ user_page_num \in Nat /\ user_page_num < Len(l) /\ list_entry_index \in Nat
      /\ user_page_num' = user_page_num + 1 /\ segment_end_aligned' = (s.off + s.len = PAGE_SIZE)
      /\ UNCHANGED <<mem, request, i, k2u, pc, entry, offset, reply, disk, requests, before, wild>>
  BY NextSegment
<1>2. /\ mapping_list' \in [ListIndex -> Nat] /\ list_entry_index' \in Nat
      /\ list_entry_index' <= user_page_num' /\ list_entry_index' > 0
      /\ \E f \in Splittings' : Splits(f, user_page_num)'
  BY MapSegmentList
<1>3. /\ ptes' \in [UserPage -> Frames] /\ reserved' \in [Reserved -> [Pos -> Nat]]
      /\ reserve_mapping_list' \in [Reserved -> Page \cup {0}] /\ reserved_page_num' \in Nat
      /\ \A v \in UserPage : v >= user_page_num + 1 => ptes'[v] = ZeroPage
      /\ Shown(user_page_num)' /\ Numbered(user_page_num)' /\ NextReserved(user_page_num)'
  BY MapSegmentPages
<1>4. TypeOK'
  <2>1. user_page_num' \in 0 .. MaxSegs /\ list_entry_index' \in 0 .. MaxSegs
    BY <1>1, <1>2
  <2>2. segment_end_aligned' \in BOOLEAN
    BY <1>1
  <2> QED  BY <1>1, <1>2, <1>3, <2>1, <2>2 DEF MapInv, TypeOK
<1>5. RequestOK'
  BY <1>1 DEF MapInv, RequestOK
<1>6. WindowOK'
  <2>1. InUse' = user_page_num + 1
    BY <1>1 DEF InUse, Serving
  <2> QED  BY <1>1, <1>3, <2>1 DEF WindowOK, Serving
<1>7. MappingOK'
  <2>1. user_page_num' <= Len(request'.segs) /\ user_page_num' > 0
    BY <1>1
  <2>2. segment_end_aligned' = (user_page_num' > 0 /\
          request'.segs[user_page_num'].off + request'.segs[user_page_num'].len = PAGE_SIZE)
    BY <1>1, <2>1
  <2> QED  BY <1>2, <1>3, <2>1, <2>2 DEF MappingOK
<1>8. MappedOK'
  BY <1>1 DEF MappedOK, Serving
<1>9. WriteOK'
  BY <1>1 DEF MapInv, WriteOK, Written
<1>10. KeptOK'
  BY <1>1 DEF MapInv, KeptOK, Owns, Segment
<1> QED  BY <1>4, <1>5, <1>6, <1>7, <1>8, <1>9, <1>10 DEF MapInv

-----------------------------------------------------------------------------
(* The header is sent, and the server handles the request                  *)

LEMMA MapDoneMap ==
  ASSUME MapInv, MapDone
  PROVE  MapInv'
<1> DEFINE l == request.segs
           u == user_page_num
           n == list_entry_index
<1>1. /\ pc = "mapping" /\ u = Len(l) /\ pc' = "handle" /\ entry' = 0 /\ offset' = request.pos /\ reply' = "OK"
      /\ ptes' = IF several THEN [ptes EXCEPT ![u] = ListPage] ELSE ptes
      /\ mapping_list' = IF several THEN EndList(mapping_list, n) ELSE mapping_list
      /\ request' = [request EXCEPT !.type = IF several THEN "LIST" ELSE "SIMPLE",
                                    !.data = map_data, !.size = mapped_size]
      /\ k2u' = [type |-> request'.type, data |-> request'.data, dir |-> request.dir, pos |-> request.pos,
                  len |-> Bytes(request.segs)]
      /\ UNCHANGED <<mem, reserved, reserve_mapping_list, list_entry_index, user_page_num,
                     segment_end_aligned, reserved_page_num, i, disk, requests, before, wild>>
  BY DEF MapDone, EndMapping, mapLoop, copyLoop
<1>2. l \in Layouts /\ request.dir # "none" /\ request.pos + Bytes(l) <= MaxLen + 1
  BY <1>1 DEF MapInv, RequestOK
<1>3. /\ Len(l) \in Nat /\ Len(l) \in 1 .. MaxSegs /\ MaxSegs \in Nat /\ PAGE_SIZE \in Nat /\ PAGE_SIZE > 0
      /\ l[1].off \in Nat /\ l[1].len \in Nat \ {0} /\ l[1].off + l[1].len <= PAGE_SIZE /\ l[1].at = 0
  <2>1. Len(l) \in Nat /\ Len(l) \in 1 .. MaxSegs /\ l[1].at = 0
    BY <1>2, LayoutIs
  <2>2. 1 \in 1 .. Len(l)
    BY <2>1
  <2> QED  BY <1>2, <2>1, <2>2, LayoutIs, Sizes
<1>4. n <= u /\ (u > 0 => n > 0) /\ Shown(u) /\ Numbered(u) /\ n \in 0 .. MaxSegs
  BY <1>1 DEF MapInv, MappingOK, TypeOK
<1>5. u \in Nat /\ n \in Nat /\ n >= 1 /\ n <= MaxSegs /\ n \in 1 .. u /\ u \in UserPage
  BY <1>1, <1>3, <1>4 DEF UserPage
<1>6. PICK f \in Splittings : Splits(f, u)
  BY <1>1 DEF MapInv, MappingOK
<1>7. mapping_list \in [ListIndex -> Nat] /\ ListIndex = 0 .. 2 * MaxSegs + 1
  BY DEF MapInv, TypeOK, ListIndex
<1>8. /\ request'.segs = l /\ request'.dir = request.dir /\ request'.pos = request.pos
      /\ request'.type = (IF several THEN "LIST" ELSE "SIMPLE")
      /\ request'.data = map_data /\ request'.size = mapped_size
  BY <1>1 DEF MapInv, TypeOK
<1>9. several' = several
  BY <1>1 DEF several
<1>10. f[0] = 1 /\ f[n] = u + 1 /\ \A e \in 0 .. n - 1 : Entry(e, f[e], f[e + 1])
  BY <1>6 DEF Splits
<1>11. map_data = (IF several THEN vm_start + PageAt(u + 1) ELSE l[1].off) /\ map_data \in Nat
  <2>1. CASE several
    <3>1. map_data = vm_start + u * PAGE_SIZE
      BY <2>1 DEF map_data
    <3>2. u * PAGE_SIZE \in Nat /\ PageAt(u + 1) = u * PAGE_SIZE
      BY <1>3, <1>5 DEF PageAt
    <3>3. vm_start + u * PAGE_SIZE \in Nat
      BY <1>3, <3>2 DEF vm_start
    <3> QED  BY <2>1, <3>1, <3>2, <3>3
  <2>2. CASE ~several
    <3>1. map_data = mapping_list[0] % PAGE_SIZE
      BY <2>2 DEF map_data
    <3>2. 0 \in 0 .. n - 1 /\ 2 * 0 = 0
      BY <1>5
    <3>3. Run(l, 1, f[1]) /\ mapping_list[0] = AddrOf(l, 1)
      BY <1>10, <3>2 DEF Entry
    <3>4. AddrOf(l, 1) = vm_start + PageAt(1) + l[1].off
      BY <1>2, <3>3, RunIs
    <3>5. PageAt(1) = 0
      BY <1>3 DEF PageAt
    <3>6. mapping_list[0] = 1 * PAGE_SIZE + l[1].off
      BY <1>3, <3>3, <3>4, <3>5 DEF vm_start
    <3>7. l[1].off \in Pos
      BY <1>3 DEF Pos
    <3>8. (1 * PAGE_SIZE + l[1].off) % PAGE_SIZE = l[1].off
      BY <3>7, DivMod
    <3> QED  BY <1>3, <2>2, <3>1, <3>6, <3>8
  <2> QED  BY <2>1, <2>2
<1>12. /\ mapping_list' \in [ListIndex -> Nat] /\ (several => mapping_list'[2 * n] = 0)
       /\ \A j \in ListIndex : j < 2 * n => mapping_list'[j] = mapping_list[j]
  <2>1. 2 * n \in ListIndex /\ 2 * n + 1 \in ListIndex /\ 2 * n # 2 * n + 1
    <3>1. n \in Nat /\ n <= MaxSegs /\ MaxSegs \in Nat
      BY <1>3, <1>5
    <3> HIDE DEF n
    <3>2. 0 <= 2 * n /\ 2 * n + 1 <= 2 * MaxSegs + 1 /\ 2 * n \in Nat
      BY <3>1
    <3> QED  BY <1>7, <3>1, <3>2
  <2>2. \A j \in ListIndex : j < 2 * n => j # 2 * n /\ j # 2 * n + 1
    BY <1>3, <1>5, <1>7
  <2> QED  BY <1>1, <1>7, <2>1, <2>2 DEF EndList
<1>13. /\ ptes' \in [UserPage -> Frames] /\ (several => ptes'[u] = ListPage)
       /\ \A v \in UserPage : (v # u \/ ~several) => ptes'[v] = ptes[v]
  <2>1. ptes \in [UserPage -> Frames] /\ ListPage \in Frames
    BY DEF MapInv, TypeOK, Frames
  <2> QED  BY <1>1, <1>5, <2>1
<1>14. InUse = u /\ InUse' = (IF several THEN u + 1 ELSE u)
  BY <1>1, <1>9 DEF InUse, Serving
<1>15. TypeOK'
  <2>1. mapped_size \in Nat
    <3>1. u * PAGE_SIZE \in Nat /\ (u + 1) * PAGE_SIZE \in Nat
      BY <1>3, <1>5
    <3> QED  BY <3>1 DEF mapped_size
  <2>2. request' \in [dir : {"none", "READ", "WRITE"}, segs : Layouts \cup {<<>>}, pos : Nat,
                      type : {"UNMAPPED", "SIMPLE", "LIST"}, data : Nat, size : Nat]
    BY <1>1, <1>11, <2>1 DEF MapInv, TypeOK
  <2>3. entry' \in Nat /\ offset' \in Nat /\ reply' \in {"OK", "IOERR"} /\ pc' \in Serving \cup {"idle", "queued", "mapping"}
    BY <1>1 DEF MapInv, TypeOK, Serving
  <2> QED  BY <1>1, <1>12, <1>13, <2>2, <2>3 DEF MapInv, TypeOK
<1>16. RequestOK'
  BY <1>1, <1>2, <1>8 DEF RequestOK, Bytes
<1>17. WindowOK'
  <2>1. \A v \in UserPage : v \in Nat
    BY <1>3 DEF UserPage
  <2>2. \A v \in UserPage : v >= u => ptes[v] = ZeroPage
    BY <1>14 DEF MapInv, WindowOK
  <2>3. ASSUME NEW v \in UserPage, v >= InUse'
        PROVE  ptes'[v] = ZeroPage
    <3>1. v >= u /\ (v # u \/ ~several)
      BY <1>5, <1>14, <2>1, <2>3
    <3> QED  BY <1>13, <2>2, <3>1
  <2>4. request'.size = InUse' * PAGE_SIZE
    BY <1>8, <1>14 DEF mapped_size
  <2> QED  BY <2>3, <2>4 DEF WindowOK
<1>18. MappingOK'
  BY <1>1 DEF MappingOK
<1>19. \A s \in 1 .. u : R(s)' = R(s) /\ WholeSeg(s)' = WholeSeg(s) /\ ptes'[s - 1] = ptes[s - 1]
  <2>1. \A s \in 1 .. u : s - 1 \in UserPage /\ s - 1 # u
    BY <1>3, <1>5 DEF UserPage
  <2> QED  BY <1>8, <1>13, <2>1 DEF R, WholeSeg
<1>20. Shown(user_page_num)'
  BY <1>1, <1>4, <1>8, <1>19 DEF Shown
<1>21. Numbered(user_page_num)'
  <2>1. ASSUME NEW s \in 1 .. u, NEW t \in 1 .. u, s < t, ~WholeSeg(s)', ~WholeSeg(t)'
        PROVE  R(s)' < R(t)' /\ ((\A x \in s + 1 .. t - 1 : WholeSeg(x)') => R(t)' = R(s)' + 1)
    <3>1. \A x \in s + 1 .. t - 1 : x \in 1 .. u
      BY <1>5
    <3> QED  BY <1>4, <1>19, <2>1, <3>1 DEF Numbered
  <2>2. ASSUME NEW s \in 1 .. u, ~WholeSeg(s)', \A x \in 1 .. s - 1 : WholeSeg(x)'
        PROVE  R(s)' = 2
    <3>1. \A x \in 1 .. s - 1 : x \in 1 .. u
      BY <1>5
    <3> QED  BY <1>4, <1>19, <2>2, <3>1 DEF Numbered
  <2> QED  BY <1>1, <2>1, <2>2 DEF Numbered
<1>22. Splits(f, user_page_num)'
  <2>1. ASSUME NEW e \in 0 .. n - 1
        PROVE  Entry(e, f[e], f[e + 1])'
    <3>1. 2 * e \in ListIndex /\ 2 * e + 1 \in ListIndex /\ 2 * e < 2 * n /\ 2 * e + 1 < 2 * n
      BY <1>3, <1>5, <1>7
    <3>2. mapping_list'[2 * e] = mapping_list[2 * e] /\ mapping_list'[2 * e + 1] = mapping_list[2 * e + 1]
      BY <1>12, <3>1
    <3> QED  BY <1>8, <1>10, <3>2 DEF Entry, Run, Start, Bytes, AddrOf, Base
  <2> QED  BY <1>1, <1>10, <2>1 DEF Splits
<1>23. MappedOK'
  <2>1. f \in Splittings'
    BY <1>1 DEF Splittings
  <2>2. entry' \in 0 .. list_entry_index' /\ offset' = request'.pos + Start(request'.segs, f[entry'])
    <3>1. Start(l, 1) = 0
      BY <1>2, StartIs
    <3>2. request.pos \in Nat
      BY DEF MapInv, TypeOK
    <3>3. 0 \in 0 .. n
      BY <1>5
    <3> QED  BY <1>1, <1>8, <1>10, <3>1, <3>2, <3>3
  <2>3. request'.data = IF several' THEN vm_start + PageAt(user_page_num' + 1) ELSE request'.segs[1].off
    BY <1>1, <1>8, <1>9, <1>11
  <2> QED  BY <1>1, <1>5, <1>8, <1>9, <1>12, <1>13, <1>20, <1>21, <1>22, <2>1, <2>2, <2>3 DEF MappedOK
<1>24. WriteOK'
  <2>1. offset' - request'.pos = 0
    <3>1. request.pos \in Nat
      BY DEF MapInv, TypeOK
    <3> QED  BY <1>1, <1>8, <3>1
  <2>2. request.dir = "WRITE" => Written(0)
    BY <1>1 DEF MapInv, WriteOK
  <2>3. request.dir = "WRITE" => Written(0)'
    BY <1>1, <1>8, <2>2 DEF Written
  <2> QED  BY <1>1, <1>8, <2>1, <2>3 DEF WriteOK, Written
<1>25. KeptOK'
  BY <1>1, <1>8 DEF MapInv, KeptOK, Owns, Segment
<1> QED  BY <1>15, <1>16, <1>17, <1>18, <1>23, <1>24, <1>25 DEF MapInv

\* What a call of the server for some of the segments leaves.
LEMMA Called ==
  ASSUME MapInv, pc = "handle", UNCHANGED driver, NEW s, NEW t, Run(request.segs, s, t),
         offset = request.pos + Start(request.segs, s),
         Callback(AddrOf(request.segs, s), Start(request.segs, t) - Start(request.segs, s), offset)
  PROVE  /\ mem' \in [Page -> [Pos -> Nat]] /\ reserved' \in [Reserved -> [Pos -> Nat]] /\ disk' \in [Disk -> Nat]
         /\ Shown(user_page_num)' /\ Numbered(user_page_num)'
         /\ request.dir = "WRITE" => Written(Start(request.segs, t))'
         /\ KeptOK'
<1> DEFINE l == request.segs
<1>1. /\ UNCHANGED <<ptes, reserve_mapping_list, mapping_list, request, list_entry_index, user_page_num,
                     segment_end_aligned, reserved_page_num, i, k2u, requests, before, wild>>
  BY DEF driver, window, mapLoop, copyLoop, history
<1>2. l \in Layouts /\ request.pos + Bytes(l) <= MaxLen + 1 /\ TypeOK
  BY DEF MapInv, RequestOK
<1>3. user_page_num = Len(l) /\ Shown(Len(l)) /\ Numbered(Len(l)) /\ k2u.dir = request.dir
  BY DEF MapInv, MappedOK, Serving
<1>4. ~wild /\ \A g \in Page, p \in Pos : (request.dir = "WRITE" \/ ~Owns(g, p)) => mem[g][p] = before.mem[g][p]
  BY DEF MapInv, KeptOK
<1>5. Numbered(user_page_num)'
  BY <1>1, <1>3 DEF Numbered, R, WholeSeg
<1>6. CASE request.dir = "WRITE"
  <2>1. Written(Start(l, s))
    <3>1. Start(l, s) \in Nat /\ request.pos \in Nat
      BY <1>2, RunIs DEF TypeOK
    <3>2. offset - request.pos = Start(l, s)
      BY <3>1
    <3> QED  BY <1>6, <3>2 DEF MapInv, WriteOK
  <2>2. UNCHANGED <<mem, reserved>> /\ disk' \in [Disk -> Nat] /\ Written(Start(l, t))'
    BY <1>1, <1>2, <1>3, <1>4, <1>6, <2>1, WriteCall
  <2>3. Shown(user_page_num)'
    BY <1>1, <1>3, <2>2 DEF Shown, R, WholeSeg
  <2>4. mem' \in [Page -> [Pos -> Nat]] /\ reserved' \in [Reserved -> [Pos -> Nat]]
    BY <1>2, <2>2 DEF TypeOK
  <2>5. KeptOK'
    BY <1>1, <1>4, <2>2 DEF KeptOK, Owns, Segment
  <2> QED  BY <1>5, <2>2, <2>3, <2>4, <2>5
<1>7. CASE request.dir # "WRITE"
  <2>1. /\ disk' = disk
        /\ mem' \in [Page -> [Pos -> Nat]] /\ reserved' \in [Reserved -> [Pos -> Nat]]
        /\ \A g \in Page, p \in Pos : ~Owns(g, p) => mem'[g][p] = mem[g][p]
        /\ \A y \in 1 .. Len(l), p \in Pos :
             ~WholeSeg(y) /\ ~Covers(l[y], p) => reserved'[R(y)][p] = 0
    BY <1>2, <1>3, <1>7, ReadCall
  <2>2. Shown(user_page_num)'
    <3>1. \A y \in 1 .. Len(l) : WholeSeg(y)' = WholeSeg(y) /\ R(y)' = R(y)
      BY <1>1 DEF WholeSeg, R
    <3>2. ASSUME NEW y \in 1 .. Len(l), ~WholeSeg(y)
          PROVE  /\ ptes[y - 1] = Frame("reserved", R(y)) /\ R(y) \in Reserved
                 /\ reserve_mapping_list[R(y)] = l[y].pg
      BY <1>3, <3>2 DEF Shown
    <3>3. \A y \in 1 .. Len(l) : WholeSeg(y) => ptes[y - 1] = Frame("data", l[y].pg)
      BY <1>3 DEF Shown
    <3> QED  BY <1>1, <1>3, <1>7, <2>1, <3>1, <3>2, <3>3 DEF Shown
  <2>3. KeptOK'
    BY <1>1, <1>4, <1>7, <2>1 DEF KeptOK, Owns, Segment
  <2>4. disk' \in [Disk -> Nat]
    BY <1>2, <2>1 DEF TypeOK
  <2> QED  BY <1>5, <1>7, <2>1, <2>2, <2>3, <2>4
<1> QED  BY <1>6, <1>7

\* The parts of the invariant that a step of the server or of the driver after it keeps
\* because it does not touch what they are about.
LEMMA ServedMap ==
  ASSUME MapInv, pc \in Serving, pc' \in Serving, UNCHANGED <<window, request, mapLoop, k2u>>
  PROVE  WindowOK' /\ MappingOK'
<1>1. several' = several /\ user_page_num' = user_page_num /\ UNCHANGED <<ptes, request>>
  BY DEF several, mapLoop, window
<1>2. InUse' = InUse
  BY <1>1 DEF InUse, Serving
<1>3. WindowOK'
  BY <1>1, <1>2 DEF MapInv, WindowOK
<1>4. MappingOK'
  BY DEF MappingOK, Serving
<1> QED  BY <1>3, <1>4

\* MappedOK again, when the splitting stays and the server does not go on.
LEMMA MappedStays ==
  ASSUME MapInv, pc \in Serving, pc' \in Serving \ {"handle"}, UNCHANGED <<window, request, mapLoop, k2u>>,
         Shown(user_page_num)', Numbered(user_page_num)'
  PROVE  MappedOK'
<1>1. UNCHANGED <<ptes, mapping_list, request, k2u, list_entry_index, user_page_num>>
  BY DEF mapLoop, window
<1>2. several' = several
  BY <1>1 DEF several
<1>3. PICK f \in Splittings : Splits(f, user_page_num)
  BY DEF MapInv, MappedOK
<1>4. f \in Splittings' /\ Splits(f, user_page_num)'
  <2>1. f \in Splittings'
    BY <1>1, <1>3 DEF Splittings
  <2>2. \A e, s, t : Entry(e, s, t)' = Entry(e, s, t)
    BY <1>1 DEF Entry, Run, Start, Bytes, AddrOf, Base
  <2> QED  BY <1>1, <1>3, <2>1, <2>2 DEF Splits
<1>5. pc' # "handle"
  OBVIOUS
<1> QED  BY <1>1, <1>2, <1>4, <1>5 DEF MapInv, MappedOK

LEMMA HandleMap ==
  ASSUME MapInv, handle_blk_command
  PROVE  MapInv'
<1> DEFINE l == request.segs
<1>1. /\ pc = "handle" /\ pc' = "replying" /\ k2u.type = "SIMPLE" /\ Callback(vm_start + k2u.data, k2u.len, offset)
      /\ UNCHANGED driver /\ UNCHANGED <<entry, offset, reply>>
  BY DEF handle_blk_command, server
<1>2. /\ UNCHANGED <<ptes, reserve_mapping_list, mapping_list, request, list_entry_index, user_page_num,
                     segment_end_aligned, reserved_page_num, i, k2u, requests, before, wild>>
      /\ UNCHANGED <<window, mapLoop>>
  BY <1>1 DEF driver, window, mapLoop, copyLoop, history
<1>3. l \in Layouts /\ TypeOK
  BY <1>1 DEF MapInv, RequestOK
<1>4. pc \in Serving /\ pc' \in Serving /\ pc' \in Serving \ {"handle"}
  BY <1>1 DEF Serving
<1>5. /\ user_page_num = Len(l) /\ list_entry_index \in 1 .. user_page_num
      /\ k2u.type = (IF several THEN "LIST" ELSE "SIMPLE")
      /\ k2u.data = IF several THEN vm_start + PageAt(user_page_num + 1) ELSE l[1].off
      /\ k2u.len = Bytes(l)
  BY <1>4 DEF MapInv, MappedOK
<1>6. ~several /\ k2u.data = l[1].off
  BY <1>1, <1>5
<1>7. PICK f \in Splittings :
        /\ Splits(f, user_page_num) /\ entry = 0 /\ offset = request.pos + Start(l, f[entry])
  BY <1>1, <1>4, <1>6 DEF MapInv, MappedOK
<1>8. Len(l) \in Nat /\ list_entry_index = 1
  BY <1>3, <1>5, <1>6, LayoutIs DEF several
<1>t. PICK t : t = Len(l) + 1
  OBVIOUS
<1>9. Run(l, 1, t) /\ offset = request.pos + Start(l, 1)
  <2>1. f[0] = 1 /\ f[1] = Len(l) + 1
    BY <1>5, <1>7, <1>8 DEF Splits
  <2>2. 0 \in 0 .. list_entry_index - 1 /\ 0 + 1 = 1
    BY <1>8
  <2>3. Entry(0, f[0], f[0 + 1])
    BY <1>7, <2>2 DEF Splits
  <2> QED  BY <1>7, <1>t, <2>1, <2>3 DEF Entry
<1>10. AddrOf(l, 1) = vm_start + k2u.data /\ Start(l, t) - Start(l, 1) = Bytes(l) /\ Start(l, t) = Bytes(l)
  <2>1. AddrOf(l, 1) = vm_start + PageAt(1) + l[1].off /\ l[1].off \in Nat
    <3>1. 1 \in 1 .. Len(l)
      BY <1>3, LayoutIs
    <3> QED  BY <1>3, <1>9, <3>1, RunIs, LayoutIs
  <2>2. PageAt(1) = 0 /\ PAGE_SIZE \in Nat
    BY Sizes DEF PageAt
  <2>3. Start(l, 1) = 0 /\ Start(l, Len(l) + 1) = Bytes(l) /\ Bytes(l) \in Nat
    BY <1>3, StartIs
  <2> QED  BY <1>6, <1>t, <2>1, <2>2, <2>3 DEF vm_start
<1>11. /\ mem' \in [Page -> [Pos -> Nat]] /\ reserved' \in [Reserved -> [Pos -> Nat]] /\ disk' \in [Disk -> Nat]
       /\ Shown(user_page_num)' /\ Numbered(user_page_num)'
       /\ request.dir = "WRITE" => Written(Start(l, t))'
       /\ KeptOK'
  <2>1. Callback(AddrOf(l, 1), Start(l, t) - Start(l, 1), offset)
    BY <1>1, <1>5, <1>10
  <2> QED  BY <1>1, <1>9, <2>1, Called
<1>12. TypeOK'
  BY <1>1, <1>2, <1>3, <1>11 DEF TypeOK, Serving
<1>13. RequestOK'
  BY <1>1, <1>2 DEF MapInv, RequestOK
<1>14. WindowOK' /\ MappingOK' /\ MappedOK'
  BY <1>2, <1>4, <1>11, ServedMap, MappedStays
<1>15. WriteOK'
  <2>1. request.dir = "WRITE" => Written(Bytes(request.segs))'
    BY <1>2, <1>10, <1>11 DEF Written, Start, Bytes
  <2> QED  BY <1>1, <1>2, <2>1 DEF WriteOK
<1> QED  BY <1>11, <1>12, <1>13, <1>14, <1>15 DEF MapInv

\* The server finds the list that bius_map_data has made.
LEMMA ListSeen ==
  ASSUME MapInv, pc = "handle", k2u.type = "LIST", NEW j \in ListIndex
  PROVE  several /\ datamap_list(j) = mapping_list[j]
<1>1. /\ k2u.type = (IF several THEN "LIST" ELSE "SIMPLE") /\ user_page_num \in 0 .. MaxSegs
      /\ k2u.data = (IF several THEN vm_start + PageAt(user_page_num + 1) ELSE request.segs[1].off)
      /\ several => ptes[user_page_num] = ListPage
  BY DEF MapInv, MappedOK, TypeOK, Serving
<1>2. several /\ k2u.data = vm_start + PageAt(user_page_num + 1) /\ ptes[user_page_num] = ListPage
  BY <1>1
<1>3. user_page_num \in Nat /\ PAGE_SIZE \in Nat /\ PAGE_SIZE > 0
  BY <1>1, Sizes
<1>4. PageAt(user_page_num + 1) = user_page_num * PAGE_SIZE + 0 /\ PageAt(user_page_num + 1) \in Nat
  BY <1>3 DEF PageAt
<1>5. k2u.data - vm_start = user_page_num * PAGE_SIZE + 0
  BY <1>2, <1>3, <1>4 DEF vm_start
<1>6. 0 \in Pos
  BY <1>3 DEF Pos
<1>7. (k2u.data - vm_start) \div PAGE_SIZE = user_page_num
  BY <1>3, <1>5, <1>6, DivMod
<1> QED  BY <1>2, <1>7 DEF datamap_list, At

LEMMA HandleListMap ==
  ASSUME MapInv, handle_blk_command_with_datamap_list
  PROVE  MapInv'
<1> DEFINE l == request.segs
           n == list_entry_index
           e == entry
<1>1. /\ pc = "handle" /\ k2u.type = "LIST" /\ UNCHANGED driver
      /\ UNCHANGED <<ptes, reserve_mapping_list, mapping_list, request, list_entry_index, user_page_num,
                     segment_end_aligned, reserved_page_num, i, k2u, requests, before, wild>>
      /\ UNCHANGED <<window, mapLoop>>
  BY DEF handle_blk_command_with_datamap_list, driver, window, mapLoop, copyLoop, history
<1>2. l \in Layouts /\ TypeOK /\ request.pos \in Nat /\ n \in 0 .. MaxSegs
  BY <1>1 DEF MapInv, RequestOK, TypeOK
<1>3. pc \in Serving
  BY <1>1 DEF Serving
<1>4. PICK f \in Splittings : Splits(f, user_page_num) /\ e \in 0 .. n /\ offset = request.pos + Start(l, f[e])
  BY <1>1, <1>3 DEF MapInv, MappedOK
<1>5. /\ user_page_num = Len(l) /\ Len(l) \in Nat /\ Shown(user_page_num) /\ Numbered(user_page_num)
      /\ several => mapping_list[2 * n] = 0
  BY <1>2, <1>3, LayoutIs DEF MapInv, MappedOK
<1>6. 2 * e \in ListIndex /\ 2 * e + 1 \in ListIndex /\ e \in Nat /\ n \in Nat
  BY <1>2, <1>4, Sizes DEF ListIndex
<1>7. several /\ datamap_list(2 * e) = mapping_list[2 * e] /\ datamap_list(2 * e + 1) = mapping_list[2 * e + 1]
  BY <1>1, <1>6, ListSeen
<1>8. several' = several
  BY <1>1 DEF several
<1>9. f \in Splittings' /\ Splits(f, user_page_num)'
  <2>1. f \in Splittings'
    BY <1>1, <1>4 DEF Splittings
  <2>2. \A x, s, t : Entry(x, s, t)' = Entry(x, s, t)
    BY <1>1 DEF Entry, Run, Start, Bytes, AddrOf, Base
  <2> QED  BY <1>1, <1>4, <2>1, <2>2 DEF Splits
<1>10. f[n] = Len(l) + 1 /\ \A x \in 0 .. n - 1 : Entry(x, f[x], f[x + 1])
  BY <1>4, <1>5 DEF Splits
<1>11. CASE mapping_list[2 * e] = 0
  <2>1. pc' = "replying" /\ UNCHANGED <<mem, reserved, disk, entry, offset, reply>>
    BY <1>7, <1>11 DEF handle_blk_command_with_datamap_list, server
  <2>2. e = n
    <3> SUFFICES ASSUME e # n PROVE FALSE
      OBVIOUS
    <3>1. e \in 0 .. n - 1
      BY <1>4, <1>6
    <3>2. Run(l, f[e], f[e + 1]) /\ mapping_list[2 * e] = AddrOf(l, f[e])
      BY <1>10, <3>1 DEF Entry
    <3>3. AddrOf(l, f[e]) \in Nat /\ AddrOf(l, f[e]) > 0
      BY <1>2, <3>2, RunIs
    <3> QED  BY <1>11, <3>2, <3>3
  <2>3. pc' \in Serving /\ pc' \in Serving \ {"handle"}
    BY <2>1 DEF Serving
  <2>4. Shown(user_page_num)' /\ Numbered(user_page_num)'
    BY <1>1, <1>5, <2>1 DEF Shown, Numbered, R, WholeSeg
  <2>5. WindowOK' /\ MappingOK' /\ MappedOK'
    BY <1>1, <1>3, <2>3, <2>4, ServedMap, MappedStays
  <2>6. TypeOK'
    BY <1>1, <1>2, <2>1 DEF TypeOK, Serving
  <2>7. RequestOK'
    BY <1>1, <2>1 DEF MapInv, RequestOK
  <2>8. WriteOK'
    <3>1. Start(l, Len(l) + 1) = Bytes(l) /\ Bytes(l) \in Nat
      BY <1>2, StartIs
    <3>2. offset - request.pos = Bytes(l)
      BY <1>2, <1>4, <1>10, <2>2, <3>1
    <3>3. request.dir = "WRITE" => Written(Bytes(l))
      BY <1>1, <3>2 DEF MapInv, WriteOK
    <3>4. request.dir = "WRITE" => Written(Bytes(request.segs))'
      BY <1>1, <2>1, <3>3 DEF Written, Bytes
    <3> QED  BY <1>1, <2>1, <3>4 DEF WriteOK
  <2>9. KeptOK'
    BY <1>1, <2>1 DEF MapInv, KeptOK, Owns, Segment
  <2> QED  BY <2>5, <2>6, <2>7, <2>8, <2>9 DEF MapInv
<1>12. CASE mapping_list[2 * e] # 0
  <2>1. /\ Callback(mapping_list[2 * e], mapping_list[2 * e + 1], offset) /\ UNCHANGED <<pc, reply>>
        /\ entry' = e + 1 /\ offset' = offset + mapping_list[2 * e + 1]
    BY <1>7, <1>12 DEF handle_blk_command_with_datamap_list
  <2>2. e # n
    BY <1>5, <1>7, <1>12
  <2>3. e \in 0 .. n - 1 /\ e + 1 \in 0 .. n /\ e + 1 \in Nat
    BY <1>4, <1>6, <2>2
  <2>4. PICK s, t : s = f[e] /\ t = f[e + 1]
    OBVIOUS
  <2>5. /\ Run(l, s, t) /\ mapping_list[2 * e] = AddrOf(l, s)
        /\ mapping_list[2 * e + 1] = Start(l, t) - Start(l, s)
    BY <1>10, <2>3, <2>4 DEF Entry
  <2>6. Start(l, s) \in Nat /\ Start(l, t) \in Nat
    BY <1>2, <2>5, RunIs
  <2>7. /\ mem' \in [Page -> [Pos -> Nat]] /\ reserved' \in [Reserved -> [Pos -> Nat]] /\ disk' \in [Disk -> Nat]
        /\ Shown(user_page_num)' /\ Numbered(user_page_num)'
        /\ request.dir = "WRITE" => Written(Start(l, t))'
        /\ KeptOK'
    <3>1. Callback(AddrOf(l, s), Start(l, t) - Start(l, s), offset) /\ offset = request.pos + Start(l, s)
      BY <1>4, <2>1, <2>4, <2>5
    <3> QED  BY <1>1, <2>5, <3>1, Called
  <2>8. offset' = request.pos + Start(l, t) /\ offset' \in Nat /\ offset' - request.pos = Start(l, t)
    BY <1>2, <1>4, <2>1, <2>4, <2>5, <2>6
  <2>9. TypeOK'
    BY <1>1, <1>2, <2>1, <2>3, <2>7, <2>8 DEF TypeOK
  <2>10. RequestOK'
    BY <1>1, <2>1 DEF MapInv, RequestOK
  <2>11. WindowOK' /\ MappingOK'
    BY <1>1, <1>3, <2>1, ServedMap
  <2>12. MappedOK'
    <3>1. entry' \in 0 .. list_entry_index' /\ offset' = request'.pos + Start(request'.segs, f[entry'])
      BY <1>1, <2>1, <2>3, <2>4, <2>8
    <3> QED  BY <1>1, <1>3, <1>7, <1>8, <1>9, <2>1, <2>7, <3>1 DEF MapInv, MappedOK
  <2>13. WriteOK'
    <3>1. request.dir = "WRITE" => Written(offset - request.pos)'
      BY <1>1, <2>7, <2>8 DEF Written, Start, Bytes
    <3> QED  BY <1>1, <2>1, <3>1 DEF WriteOK
  <2> QED  BY <2>7, <2>9, <2>10, <2>11, <2>12, <2>13 DEF MapInv
<1> QED  BY <1>11, <1>12

LEMMA FailsMap ==
  ASSUME MapInv, CallbackFails
  PROVE  MapInv'
<1>1. /\ pc = "handle" /\ pc' = "replying" /\ reply' = "IOERR"
      /\ UNCHANGED <<ptes, reserve_mapping_list, mapping_list, request, list_entry_index, user_page_num,
                     segment_end_aligned, reserved_page_num, i, k2u, requests, before, wild,
                     mem, reserved, disk, entry, offset>>
      /\ UNCHANGED <<window, mapLoop>>
  BY DEF CallbackFails, driver, window, mapLoop, copyLoop, history
<1>2. pc \in Serving /\ pc' \in Serving /\ pc' \in Serving \ {"handle"}
  BY <1>1 DEF Serving
<1>3. Shown(user_page_num)' /\ Numbered(user_page_num)'
  BY <1>1, <1>2 DEF MapInv, MappedOK, Shown, Numbered, R, WholeSeg
<1>4. WindowOK' /\ MappingOK' /\ MappedOK'
  BY <1>1, <1>2, <1>3, ServedMap, MappedStays
<1>5. TypeOK'
  BY <1>1 DEF MapInv, TypeOK, Serving
<1>6. RequestOK'
  BY <1>1 DEF MapInv, RequestOK
<1>7. WriteOK'
  BY <1>1 DEF WriteOK
<1>8. KeptOK'
  BY <1>1 DEF MapInv, KeptOK, Owns, Segment
<1> QED  BY <1>4, <1>5, <1>6, <1>7, <1>8 DEF MapInv

-----------------------------------------------------------------------------
(* The reply                                                               *)

LEMMA DevWriteMap ==
  ASSUME MapInv, bius_dev_write
  PROVE  MapInv'
<1>1. /\ pc = "replying" /\ i' = 0 /\ reserved_page_num' = 2
      /\ pc' = (IF reply = "OK" /\ request.dir = "READ" THEN "copying" ELSE "unmapping")
      /\ UNCHANGED <<ptes, reserve_mapping_list, mapping_list, request, list_entry_index, user_page_num,
                     segment_end_aligned, k2u, requests, before, wild,
                     mem, reserved, disk, entry, offset, reply>>
      /\ UNCHANGED <<window, mapLoop>>
  BY DEF bius_dev_write, window, mapLoop, server, history
<1>2. pc \in Serving /\ pc' \in Serving /\ pc' \in Serving \ {"handle"}
  BY <1>1 DEF Serving
<1>3. Shown(user_page_num)' /\ Numbered(user_page_num)'
  BY <1>1, <1>2 DEF MapInv, MappedOK, Shown, Numbered, R, WholeSeg
<1>4. WindowOK' /\ MappingOK' /\ MappedOK'
  BY <1>1, <1>2, <1>3, ServedMap, MappedStays
<1>5. TypeOK'
  BY <1>1 DEF MapInv, TypeOK, Serving
<1>6. RequestOK'
  BY <1>1 DEF MapInv, RequestOK
<1>7. WriteOK'
  BY <1>1 DEF MapInv, WriteOK, Written
<1>8. KeptOK'
  BY <1>1 DEF MapInv, KeptOK, Owns, Segment
<1> QED  BY <1>4, <1>5, <1>6, <1>7, <1>8 DEF MapInv

LEMMA UnmapMap ==
  ASSUME MapInv, bius_unmap_data
  PROVE  MapInv'
<1>1. /\ pc \in {"unmapping", "copying"} /\ pc' = "idle"
      /\ ptes' = [v \in UserPage |-> IF v < request.size \div PAGE_SIZE THEN ZeroPage ELSE ptes[v]]
      /\ request' = [request EXCEPT !.type = "UNMAPPED"]
      /\ UNCHANGED <<reserve_mapping_list, mapping_list, list_entry_index, user_page_num,
                     segment_end_aligned, reserved_page_num, i, k2u, requests, before, wild,
                     mem, reserved, disk, entry, offset, reply>>
  BY DEF bius_unmap_data, mapLoop, copyLoop, server, history
<1>2. /\ request'.segs = request.segs /\ request'.dir = request.dir /\ request'.pos = request.pos
      /\ request'.type = "UNMAPPED"
  BY <1>1 DEF MapInv, TypeOK
<1>3. \A v \in UserPage : ptes'[v] = ZeroPage
  <2>1. InUse \in Nat
    BY DEF MapInv, TypeOK, InUse
  <2>2. request.size = InUse * PAGE_SIZE + 0
    <3>1. request.size = InUse * PAGE_SIZE
      BY <1>1 DEF MapInv, WindowOK, Serving
    <3>2. InUse * PAGE_SIZE \in Nat
      BY <2>1, Sizes
    <3> QED  BY <3>1, <3>2
  <2>3. 0 \in Pos
    BY Sizes DEF Pos
  <2>4. request.size \div PAGE_SIZE = InUse
    BY <2>1, <2>2, <2>3, DivMod
  <2>5. \A v \in UserPage : v \in Nat
    BY Sizes DEF UserPage
  <2>6. \A v \in UserPage : v < InUse \/ v >= InUse
    BY <2>1, <2>5
  <2> QED  BY <1>1, <2>4, <2>6 DEF MapInv, WindowOK
<1>4. TypeOK'
  <2>1. ptes' \in [UserPage -> Frames]
    <3>1. ZeroPage \in Frames
      BY DEF Frames
    <3> QED  BY <1>1, <3>1 DEF MapInv, TypeOK
  <2>2. request' \in [dir : {"none", "READ", "WRITE"}, segs : Layouts \cup {<<>>}, pos : Nat,
                      type : {"UNMAPPED", "SIMPLE", "LIST"}, data : Nat, size : Nat]
    BY <1>1 DEF MapInv, TypeOK
  <2> QED  BY <1>1, <2>1, <2>2 DEF MapInv, TypeOK
<1>5. RequestOK'
  BY <1>1, <1>2 DEF MapInv, RequestOK, Bytes
<1>6. WindowOK' /\ MappingOK' /\ MappedOK'
  BY <1>1, <1>3 DEF WindowOK, MappingOK, MappedOK, Serving
<1>7. WriteOK'
  <2>1. request.dir = "WRITE" /\ reply = "OK" => Written(Bytes(request.segs))
    BY <1>1 DEF MapInv, WriteOK
  <2>2. request.dir = "WRITE" /\ reply = "OK" => Written(Bytes(request.segs))'
    BY <1>1, <1>2, <2>1 DEF Written, Bytes
  <2> QED  BY <1>1, <1>2, <2>2 DEF WriteOK
<1>8. KeptOK'
  BY <1>1, <1>2 DEF MapInv, KeptOK, Owns, Segment
<1> QED  BY <1>4, <1>5, <1>6, <1>7, <1>8 DEF MapInv

\* A simple map has one entry for everything.
LEMMA SimpleIs ==
  ASSUME MapInv, pc \in Serving, request.type = "SIMPLE"
  PROVE  /\ request.segs \in Layouts /\ Len(request.segs) \in Nat /\ Len(request.segs) >= 1
         /\ Run(request.segs, 1, Len(request.segs) + 1) /\ request.data = request.segs[1].off
         /\ user_page_num = Len(request.segs) /\ k2u.type = "SIMPLE"
         /\ Shown(Len(request.segs)) /\ Numbered(Len(request.segs))
<1> DEFINE l == request.segs
<1>1. pc # "idle"
  BY DEF Serving
<1>2. l \in Layouts
  BY <1>1 DEF MapInv, RequestOK
<1>3. /\ user_page_num = Len(l) /\ list_entry_index \in 1 .. user_page_num
      /\ request.type = (IF several THEN "LIST" ELSE "SIMPLE") /\ k2u.type = request.type
      /\ request.data = (IF several THEN vm_start + PageAt(user_page_num + 1) ELSE l[1].off)
      /\ Shown(Len(l)) /\ Numbered(Len(l))
  BY DEF MapInv, MappedOK
<1>4. ~several /\ request.data = l[1].off
  BY <1>3
<1>5. Len(l) \in Nat /\ Len(l) >= 1 /\ list_entry_index = 1
  BY <1>2, <1>3, <1>4, LayoutIs, Sizes DEF several
<1>6. PICK f \in Splittings : Splits(f, user_page_num)
  BY DEF MapInv, MappedOK
<1>7. Run(l, 1, Len(l) + 1)
  <2>1. f[0] = 1 /\ f[1] = Len(l) + 1
    BY <1>3, <1>5, <1>6 DEF Splits
  <2>2. 0 \in 0 .. list_entry_index - 1 /\ 0 + 1 = 1
    BY <1>5
  <2>3. Entry(0, f[0], f[0 + 1])
    BY <1>6, <2>2 DEF Splits
  <2> QED  BY <2>1, <2>3 DEF Entry
<1> QED  BY <1>2, <1>3, <1>4, <1>5, <1>7

\* So that a page in between is full, and the bytes end where the last segment does.
LEMMA RunEdges ==
  ASSUME NEW l \in Layouts, Run(l, 1, Len(l) + 1)
  PROVE  /\ \A x \in 1 .. Len(l) - 1 : l[x].off + l[x].len = PAGE_SIZE /\ l[x + 1].off = 0
         /\ \A x \in 2 .. Len(l) - 1 : Whole(l[x])
         /\ l[1].off + Bytes(l) = PageAt(Len(l)) + (l[Len(l)].off + l[Len(l)].len)
<1>0. Len(l) \in Nat /\ Len(l) >= 1 /\ PAGE_SIZE \in Nat /\ l[1].at = 0
  BY LayoutIs, Sizes
<1>1. ASSUME NEW x \in 1 .. Len(l) - 1
      PROVE  l[x].off + l[x].len = PAGE_SIZE /\ l[x + 1].off = 0
  <2>1. /\ x \in 1 .. Len(l) /\ x + 1 \in 1 .. Len(l) /\ x \in Nat \ {0}
        /\ x \in 1 .. (Len(l) + 1) - 1 /\ x + 1 \in 1 .. (Len(l) + 1) - 1
    BY <1>0
  <2>2. Base(l, x + 1) = Base(l, x)
    BY <2>1 DEF Run
  <2> DEFINE o == l[x].off
             ln == l[x].len
             a == l[x].at
             o1 == l[x + 1].off
             a1 == l[x + 1].at
             here == PageAt(x)
  <2>3. /\ o \in Nat /\ ln \in Nat /\ a \in Nat /\ o1 \in Nat /\ a1 = a + ln /\ o + ln <= PAGE_SIZE
    BY <2>1, LayoutIs
  <2>4. here \in Nat /\ PageAt(x + 1) = here + PAGE_SIZE
    BY <2>1, PagesFollow
  <2>5. Base(l, x) = here + o - a /\ Base(l, x + 1) = PageAt(x + 1) + o1 - a1
    BY DEF Base
  <2> HIDE DEF o, ln, a, o1, a1, here
  <2>6. o + ln = PAGE_SIZE /\ o1 = 0
    BY <1>0, <2>2, <2>3, <2>4, <2>5
  <2> QED  BY <2>6 DEF o, ln, o1
<1>2. ASSUME NEW x \in 2 .. Len(l) - 1
      PROVE  Whole(l[x])
  <2>1. x \in 1 .. Len(l) - 1 /\ x - 1 \in 1 .. Len(l) - 1 /\ (x - 1) + 1 = x /\ x \in 1 .. Len(l)
    BY <1>0
  <2>2. l[x].off + l[x].len = PAGE_SIZE /\ l[x].off = 0
    <3>1. l[(x - 1) + 1].off = 0
      BY <1>1, <2>1
    <3> QED  BY <1>1, <2>1, <3>1
  <2>3. l[x].len \in Nat
    BY <2>1, LayoutIs
  <2> QED  BY <1>0, <2>2, <2>3 DEF Whole
<1>3. l[1].off + Bytes(l) = PageAt(Len(l)) + (l[Len(l)].off + l[Len(l)].len)
  <2>1. Len(l) \in 1 .. (Len(l) + 1) - 1 /\ Len(l) \in 1 .. Len(l) /\ Len(l) \in Nat \ {0} /\ 1 \in 1 .. Len(l)
    BY <1>0
  <2>2. Base(l, Len(l)) = Base(l, 1)
    BY <2>1 DEF Run
  <2> DEFINE o == l[Len(l)].off
             ln == l[Len(l)].len
             a == l[Len(l)].at
             o1 == l[1].off
             here == PageAt(Len(l))
  <2>3. o \in Nat /\ ln \in Nat /\ a \in Nat /\ o1 \in Nat /\ Bytes(l) = a + ln
    BY <2>1, LayoutIs DEF Bytes
  <2>4. here \in Nat /\ PageAt(1) = 0
    BY <1>0, <2>1, PagesFollow DEF PageAt
  <2>5. Base(l, Len(l)) = here + o - a /\ Base(l, 1) = PageAt(1) + o1 - l[1].at
    BY DEF Base
  <2> HIDE DEF o, ln, a, o1, here
  <2>6. o1 + Bytes(l) = here + (o + ln)
    BY <1>0, <2>2, <2>3, <2>4, <2>5
  <2> QED  BY <2>6 DEF o, ln, o1, here
<1> QED  BY <1>1, <1>2, <1>3

LEMMA CopyPageType ==
  ASSUME TypeOK, NEW m \in [Page -> [Pos -> Nat]], NEW k, NEW off, NEW n
  PROVE  CopyPage(m, k, off, n) \in [Page -> [Pos -> Nat]]
<1>1. CASE Dest(k) = 0
  BY <1>1 DEF CopyPage
<1>2. CASE Dest(k) # 0
  <2>1. k \in Reserved /\ Dest(k) \in Page
    BY <1>2 DEF Dest, TypeOK
  <2> DEFINE d == Dest(k)
             row == [p \in Pos |-> IF p \in off .. off + n - 1 THEN reserved[k][p] ELSE m[d][p]]
  <2>2. row \in [Pos -> Nat]
    <3>1. \A p \in Pos : reserved[k][p] \in Nat /\ m[d][p] \in Nat
      BY <2>1 DEF TypeOK
    <3> QED  BY <3>1
  <2>3. CopyPage(m, k, off, n) = [m EXCEPT ![d] = row]
    BY <1>2 DEF CopyPage
  <2> HIDE DEF d, row
  <2> QED  BY <2>2, <2>3
<1> QED  BY <1>1, <1>2

\* The bytes of a segment are copied from its reserved page, if it has one.
Copied(m, s) == IF WholeSeg(s) THEN m ELSE CopyPage(m, R(s), request.segs[s].off, request.segs[s].len)

LEMMA CopiedIs ==
  ASSUME TypeOK, request.segs \in Layouts, Shown(Len(request.segs)),
         NEW m \in [Page -> [Pos -> Nat]], NEW s \in 1 .. Len(request.segs)
  PROVE  /\ Copied(m, s) \in [Page -> [Pos -> Nat]]
         /\ ~WholeSeg(s) => Dest(R(s)) # 0
         /\ \A g \in Page, p \in Pos :
              Copied(m, s)[g][p] = IF ~WholeSeg(s) /\ g = request.segs[s].pg /\ Covers(request.segs[s], p)
                                   THEN reserved[R(s)][p] ELSE m[g][p]
<1>1. CASE WholeSeg(s)
  BY <1>1 DEF Copied
<1>2. CASE ~WholeSeg(s)
  <2> DEFINE d == request.segs[s].pg
             row == [p \in Pos |-> IF Covers(request.segs[s], p) THEN reserved[R(s)][p] ELSE m[d][p]]
  <2>1. R(s) \in Reserved /\ reserve_mapping_list[R(s)] = d
    BY <1>2 DEF Shown
  <2>2. d \in Page /\ d # 0
    BY LayoutIs, DataMapConstantsOK DEF DataMapConstantsOK
  <2>3. Dest(R(s)) = d
    BY <2>1 DEF Dest
  <2>4. Copied(m, s) = [m EXCEPT ![d] = row]
    BY <1>2, <2>2, <2>3 DEF Copied, CopyPage, Covers
  <2>5. Copied(m, s) \in [Page -> [Pos -> Nat]]
    BY <1>2, CopyPageType DEF Copied
  <2>6. \A p \in Pos : row[p] = IF Covers(request.segs[s], p) THEN reserved[R(s)][p] ELSE m[d][p]
    OBVIOUS
  <2> HIDE DEF d, row
  <2>7. \A g \in Page : Copied(m, s)[g] = IF g = d THEN row ELSE m[g]
    BY <2>2, <2>4
  <2> QED  BY <1>2, <2>2, <2>3, <2>5, <2>6, <2>7 DEF d
<1> QED  BY <1>1, <1>2

\* For a simple map bius_copy_in_misaligned_pages copies the first and the last segment,
\* those of them that have a reserved page.
LEMMA CopySimple ==
  ASSUME MapInv, CopyEntry, request.type = "SIMPLE"
  PROVE  /\ i = 0 /\ wild' = wild
         /\ mem' = IF Len(request.segs) = 1 THEN Copied(mem, 1)
                   ELSE Copied(Copied(mem, 1), Len(request.segs))
<1> DEFINE l == request.segs
           L == Len(l)
           o1 == l[1].off
           n1 == l[1].len
           oL == l[L].off
           nL == l[L].len
           B == Bytes(l)
<1>1. pc = "copying" /\ CopyList(2 * i) # 0 /\ pc \in Serving
  BY DEF CopyEntry, Serving
<1>2. i = 0
  <2>1. i \in Nat
    BY DEF MapInv, TypeOK
  <2>2. i # 0 => 2 * i # 0 /\ 2 * i # 1
    BY <2>1
  <2> QED  BY <1>1, <2>2 DEF CopyList
<1>3. /\ l \in Layouts /\ L \in Nat /\ L >= 1 /\ Run(l, 1, L + 1) /\ request.data = o1 /\ Shown(L) /\ Numbered(L)
  BY <1>1, SimpleIs
<1>4. reserved_page_num = 2 /\ TypeOK
  BY <1>1, <1>2 DEF MapInv, RequestOK
<1>5. /\ o1 \in Nat /\ n1 \in Nat \ {0} /\ o1 + n1 <= PAGE_SIZE /\ oL \in Nat /\ nL \in Nat \ {0}
      /\ oL + nL <= PAGE_SIZE /\ PAGE_SIZE \in Nat /\ PAGE_SIZE > 0 /\ l[1].at = 0
      /\ 1 \in 1 .. L /\ L \in 1 .. L
  <2>1. 1 \in 1 .. L /\ L \in 1 .. L
    BY <1>3
  <2> QED  BY <1>3, <2>1, LayoutIs, Sizes
<1>s. L \in Nat /\ L >= 1 /\ PAGE_SIZE \in Nat /\ PAGE_SIZE > 0
  BY <1>3, <1>5
<1>6. /\ \A x \in 1 .. L - 1 : l[x].off + l[x].len = PAGE_SIZE /\ l[x + 1].off = 0
      /\ \A x \in 2 .. L - 1 : Whole(l[x])
      /\ o1 + B = PageAt(L) + (oL + nL)
  BY <1>3, RunEdges
<1>7. B \in Nat \ {0}
  BY <1>3, StartIs
<1>8. /\ CopyList(0) = vm_start + o1 /\ CopyList(1) = B /\ 2 * 0 = 0 /\ 2 * 0 + 1 = 1
  BY <1>3 DEF CopyList
<1>9. CopyList(0) % PAGE_SIZE = o1
  <2>1. CopyList(0) = 1 * PAGE_SIZE + o1 /\ o1 \in Pos
    <3> HIDE DEF o1, n1
    <3> QED  BY <1>5, <1>8 DEF vm_start, Pos
  <2> QED  BY <2>1, DivMod
<1>10. (CopyList(0) + B) % PAGE_SIZE = (IF oL + nL = PAGE_SIZE THEN 0 ELSE oL + nL)
  <2>1. PageAt(L) = (L - 1) * PAGE_SIZE /\ (L - 1) * PAGE_SIZE \in Nat
    <3>1. L - 1 \in Nat
      <4> HIDE DEF L
      <4> QED  BY <1>s
    <3> HIDE DEF L
    <3> QED  BY <1>s, <3>1 DEF PageAt
  <2>2. L * PAGE_SIZE = (L - 1) * PAGE_SIZE + PAGE_SIZE /\ (L + 1) * PAGE_SIZE = (L - 1) * PAGE_SIZE + 2 * PAGE_SIZE
    <3> HIDE DEF L
    <3> QED  BY <1>s
  <2>3. CopyList(0) + B = L * PAGE_SIZE + (oL + nL)
    <3> DEFINE before1 == (L - 1) * PAGE_SIZE
               whole == L * PAGE_SIZE
    <3>1. before1 \in Nat /\ whole = before1 + PAGE_SIZE /\ o1 + B = before1 + (oL + nL)
      BY <1>6, <2>1, <2>2
    <3> HIDE DEF before1, whole, o1, oL, nL, B, n1, L
    <3>2. CopyList(0) + B = whole + (oL + nL)
      BY <1>5, <1>7, <1>8, <3>1 DEF vm_start
    <3> QED  BY <3>2 DEF whole
  <2>4. CASE oL + nL = PAGE_SIZE
    <3>1. CopyList(0) + B = (L + 1) * PAGE_SIZE + 0
      BY <1>3, <1>5, <2>1, <2>2, <2>3, <2>4
    <3>2. 0 \in Pos /\ L + 1 \in Nat
      BY <1>3, <1>5 DEF Pos
    <3>3. ((L + 1) * PAGE_SIZE + 0) % PAGE_SIZE = 0
      BY <3>2, DivMod
    <3> QED  BY <2>4, <3>1, <3>3
  <2>5. CASE oL + nL # PAGE_SIZE
    <3>1. oL + nL \in Pos
      <4> HIDE DEF oL, nL
      <4> QED  BY <1>5, <2>5 DEF Pos
    <3>2. (L * PAGE_SIZE + (oL + nL)) % PAGE_SIZE = oL + nL
      BY <1>3, <3>1, DivMod
    <3> QED  BY <2>3, <2>5, <3>2
  <2> QED  BY <2>4, <2>5
<1> DEFINE front == o1 # 0
           end == oL + nL # PAGE_SIZE /\ ~(front /\ o1 + B < PAGE_SIZE)
           k1 == IF front THEN 3 ELSE 2
           m1 == IF front THEN CopyPage(mem, 2, o1, front_length(o1, B)) ELSE mem
<1>11. /\ mem' = (IF end THEN CopyPage(m1, k1, 0, oL + nL) ELSE m1)
       /\ wild' = (wild \/ (front /\ Dest(2) = 0) \/ (end /\ Dest(k1) = 0))
  <2>1. (CopyList(0) + B) % PAGE_SIZE # 0 <=> oL + nL # PAGE_SIZE
    <3> HIDE DEF oL, nL, o1, B
    <3> QED  BY <1>5, <1>10
  <2>2. end => (CopyList(0) + B) % PAGE_SIZE = oL + nL
    BY <1>10
  <2>3. 2 + 1 = 3
    OBVIOUS
  <2> HIDE DEF oL, nL, o1, B
  <2> QED  BY <1>2, <1>4, <1>8, <1>9, <2>1, <2>2, <2>3 DEF CopyEntry
<1>12. WholeSeg(1) <=> n1 = PAGE_SIZE
  BY DEF WholeSeg, Whole
<1>13. ~WholeSeg(1) => R(1) = 2 /\ Dest(2) # 0
  <2>1. \A x \in 1 .. 1 - 1 : WholeSeg(x)
    OBVIOUS
  <2>2. ~WholeSeg(1) => R(1) = 2
    BY <1>3, <1>5, <2>1 DEF Numbered
  <2>3. ~WholeSeg(1) => Dest(R(1)) # 0
    BY <1>3, <1>4, <1>5, CopiedIs DEF TypeOK
  <2> QED  BY <2>2, <2>3
<1>14. Copied(mem, 1) = IF WholeSeg(1) THEN mem ELSE CopyPage(mem, 2, o1, n1)
  BY <1>13 DEF Copied
<1>15. wild \in BOOLEAN
  BY <1>4 DEF TypeOK
<1>16. CASE L = 1
  <2>1. o1 = oL /\ n1 = nL /\ B = n1
    <3>1. B = l[1].at + l[1].len
      BY <1>16 DEF Bytes
    <3> QED  BY <1>5, <1>16, <3>1
  <2>2. CASE front
    <3>1. ~WholeSeg(1) /\ front_length(o1, B) = n1 /\ ~end
      <4> HIDE DEF o1, n1, oL, nL, B
      <4> QED  BY <1>5, <1>12, <2>1, <2>2 DEF front_length
    <3>2. mem' = CopyPage(mem, 2, o1, n1) /\ wild' = wild
      <4> HIDE DEF o1, n1, oL, nL, B, end
      <4> QED  BY <1>11, <1>13, <1>15, <2>2, <3>1
    <3> QED  BY <1>2, <1>14, <1>16, <3>1, <3>2
  <2>3. CASE ~front
    <3>1. o1 = 0 /\ (end <=> ~WholeSeg(1)) /\ oL + nL = n1 /\ k1 = 2
      <4> HIDE DEF o1, n1, oL, nL, B
      <4> QED  BY <1>5, <1>12, <2>1, <2>3
    <3>2. mem' = (IF WholeSeg(1) THEN mem ELSE CopyPage(mem, 2, o1, n1)) /\ wild' = wild
      <4> HIDE DEF o1, n1, oL, nL, B, end, k1
      <4> QED  BY <1>11, <1>13, <1>15, <2>3, <3>1
    <3> QED  BY <1>2, <1>14, <1>16, <3>2
  <2> QED  BY <2>2, <2>3
<1>17. CASE L # 1
  <2>1. L > 1 /\ 1 \in 1 .. L - 1 /\ L - 1 \in 1 .. L - 1 /\ (L - 1) + 1 = L
    <3> HIDE DEF L
    <3> QED  BY <1>s, <1>17
  <2>2. o1 + n1 = PAGE_SIZE /\ oL = 0
    <3>1. l[(L - 1) + 1].off = 0
      BY <1>6, <2>1
    <3> QED  BY <1>6, <2>1, <3>1
  <2>3. ~(o1 + B < PAGE_SIZE)
    <3>1. L - 1 \in Nat \ {0} /\ PageAt(L) = PageAt(L - 1) + PAGE_SIZE /\ PageAt(L - 1) \in Nat
      <4>1. L - 1 \in Nat \ {0}
        <5> HIDE DEF L
        <5> QED  BY <1>s, <2>1
      <4> QED  BY <2>1, <4>1, PagesFollow
    <3> HIDE DEF o1, B, oL, nL, L
    <3> QED  BY <1>5, <1>6, <1>7, <3>1
  <2>4. /\ front <=> ~WholeSeg(1)
        /\ front => front_length(o1, B) = n1
        /\ oL + nL = nL /\ (end <=> nL # PAGE_SIZE)
    <3> HIDE DEF o1, n1, oL, nL, B
    <3> QED  BY <1>5, <1>12, <2>2, <2>3 DEF front_length
  <2>5. m1 = Copied(mem, 1)
    <3> HIDE DEF front, o1, n1, B
    <3> QED  BY <1>14, <2>4
  <2>6. end <=> ~WholeSeg(L)
    <3> HIDE DEF end
    <3> QED  BY <2>4 DEF WholeSeg, Whole
  <2>7. ~WholeSeg(L) => R(L) = k1
    <3> SUFFICES ASSUME ~WholeSeg(L) PROVE R(L) = k1
      OBVIOUS
    <3>1. \A x \in 2 .. L - 1 : WholeSeg(x)
      BY <1>6 DEF WholeSeg
    <3>2. CASE front
      <4>1. ~WholeSeg(1) /\ R(1) = 2
        <5> HIDE DEF front
        <5> QED  BY <1>13, <2>4, <3>2
      <4>2. \A x \in 1 + 1 .. L - 1 : WholeSeg(x)
        BY <3>1
      <4>3. R(L) = R(1) + 1
        BY <1>3, <1>5, <2>1, <4>1, <4>2 DEF Numbered
      <4> QED  BY <3>2, <4>1, <4>3
    <3>3. CASE ~front
      <4>1. WholeSeg(1)
        <5> HIDE DEF front
        <5> QED  BY <2>4, <3>3
      <4>2. \A x \in 1 .. L - 1 : x = 1 \/ x \in 2 .. L - 1
        BY <1>3
      <4>3. \A x \in 1 .. L - 1 : WholeSeg(x)
        BY <3>1, <4>1, <4>2
      <4>4. R(L) = 2
        BY <1>3, <1>5, <4>3 DEF Numbered
      <4> QED  BY <3>3, <4>4
    <3> QED  BY <3>2, <3>3
  <2>8. end => Dest(k1) # 0
    <3>1. mem \in [Page -> [Pos -> Nat]]
      BY <1>4 DEF TypeOK
    <3>2. ~WholeSeg(L) => Dest(R(L)) # 0
      BY <1>3, <1>4, <1>5, <3>1, CopiedIs
    <3> HIDE DEF end, k1
    <3> QED  BY <2>6, <2>7, <3>2
  <2>9. mem' = Copied(Copied(mem, 1), L)
    <3>1. Copied(m1, L) = IF WholeSeg(L) THEN m1 ELSE CopyPage(m1, R(L), oL, nL)
      BY DEF Copied
    <3> HIDE DEF end, k1, m1, oL, nL
    <3> QED  BY <1>11, <2>2, <2>4, <2>5, <2>6, <2>7, <3>1
  <2>10. wild' = wild
    <3> HIDE DEF end, k1, front
    <3> QED  BY <1>11, <1>13, <1>15, <2>4, <2>8
  <2> QED  BY <1>2, <1>17, <2>9, <2>10
<1> QED  BY <1>16, <1>17

LEMMA CopyEntryMap ==
  ASSUME MapInv, CopyEntry
  PROVE  MapInv'
<1>1. /\ pc = "copying" /\ pc' = "copying" /\ i' = i + 1
      /\ UNCHANGED <<ptes, reserve_mapping_list, mapping_list, request, list_entry_index, user_page_num,
                     segment_end_aligned, k2u, requests, before, reserved, disk, entry, offset, reply>>
      /\ UNCHANGED <<window, mapLoop>>
  BY DEF CopyEntry, window, mapLoop, server, history
<1>2. pc \in Serving /\ pc' \in Serving /\ pc' \in Serving \ {"handle"}
  BY <1>1 DEF Serving
<1>3. request.dir = "READ" /\ reply = "OK" /\ TypeOK /\ i \in Nat /\ reserved_page_num \in Nat
  BY <1>1 DEF MapInv, RequestOK, TypeOK
<1>4. Shown(user_page_num)' /\ Numbered(user_page_num)'
  <2>1. Shown(user_page_num) /\ Numbered(user_page_num)
    BY <1>2 DEF MapInv, MappedOK
  <2>2. request.dir # "WRITE"
    BY <1>3
  <2> QED  BY <1>1, <2>1, <2>2 DEF Shown, Numbered, R, WholeSeg
<1>5. WindowOK' /\ MappingOK' /\ MappedOK'
  BY <1>1, <1>2, <1>4, ServedMap, MappedStays
<1>6. TypeOK'
  <2>1. mem \in [Page -> [Pos -> Nat]] /\ wild \in BOOLEAN
    BY <1>3 DEF TypeOK
  <2>2. mem' \in [Page -> [Pos -> Nat]]
    <3>1. \A k, off, n : CopyPage(mem, k, off, n) \in [Page -> [Pos -> Nat]]
      BY <1>3, <2>1, CopyPageType
    <3>2. \A k, off, n, k2, off2, n2 : CopyPage(CopyPage(mem, k, off, n), k2, off2, n2) \in [Page -> [Pos -> Nat]]
      BY <1>3, <3>1, CopyPageType
    <3> QED  BY <2>1, <3>1, <3>2 DEF CopyEntry
  <2>3. reserved_page_num' \in Nat
    BY <1>3 DEF CopyEntry
  <2>4. wild' \in BOOLEAN
    BY DEF CopyEntry
  <2>5. i' \in Nat
    BY <1>1, <1>3
  <2> QED  BY <1>1, <1>3, <2>2, <2>3, <2>4, <2>5 DEF TypeOK
<1>7. RequestOK'
  <2>1. i' # 0
    BY <1>1, <1>3
  <2> QED  BY <1>1, <2>1 DEF MapInv, RequestOK
<1>8. WriteOK'
  BY <1>1, <1>3 DEF WriteOK
<1>9. KeptOK'
  <2>1. request.type \in {"SIMPLE", "LIST"} /\ k2u.type = request.type
    BY <1>2 DEF MapInv, MappedOK
  <2>2. CASE request.type = "LIST"
    BY <1>1, <1>3, <2>1, <2>2 DEF KeptOK
  <2>3. CASE request.type = "SIMPLE"
    <3> DEFINE l == request.segs
    <3>1. l \in Layouts /\ Len(l) \in Nat /\ Len(l) >= 1 /\ Shown(Len(l)) /\ k2u.type = "SIMPLE"
      BY <1>2, <2>3, SimpleIs
    <3>2. /\ wild' = wild
          /\ mem' = IF Len(l) = 1 THEN Copied(mem, 1) ELSE Copied(Copied(mem, 1), Len(l))
      BY <2>3, CopySimple
    <3>3. ~wild /\ \A g \in Page, p \in Pos : ~Owns(g, p) => mem[g][p] = before.mem[g][p]
      BY <3>1 DEF MapInv, KeptOK
    <3>4. 1 \in 1 .. Len(l) /\ Len(l) \in 1 .. Len(l)
      BY <3>1
    <3>5. ASSUME NEW m \in [Page -> [Pos -> Nat]], NEW s \in 1 .. Len(l), NEW g \in Page, NEW p \in Pos, ~Owns(g, p)
          PROVE  Copied(m, s)[g][p] = m[g][p] /\ Copied(m, s) \in [Page -> [Pos -> Nat]]
      <4>1. ~(g = l[s].pg /\ Covers(l[s], p))
        BY <3>5 DEF Owns, Segment
      <4>2. /\ Copied(m, s) \in [Page -> [Pos -> Nat]]
            /\ Copied(m, s)[g][p] = IF ~WholeSeg(s) /\ g = l[s].pg /\ Covers(l[s], p)
                                    THEN reserved[R(s)][p] ELSE m[g][p]
        BY <1>3, <3>1, CopiedIs
      <4> QED  BY <4>1, <4>2
    <3>6. ASSUME NEW g \in Page, NEW p \in Pos, ~Owns(g, p)
          PROVE  mem'[g][p] = mem[g][p]
      <4>1. mem \in [Page -> [Pos -> Nat]]
        BY <1>3 DEF TypeOK
      <4>2. Copied(mem, 1)[g][p] = mem[g][p] /\ Copied(mem, 1) \in [Page -> [Pos -> Nat]]
        BY <3>4, <3>5, <3>6, <4>1
      <4>3. Copied(Copied(mem, 1), Len(l))[g][p] = Copied(mem, 1)[g][p]
        BY <3>4, <3>5, <3>6, <4>2
      <4> QED  BY <3>2, <4>2, <4>3
    <3> QED  BY <1>1, <1>3, <3>2, <3>3, <3>6 DEF KeptOK, Owns, Segment
  <2> QED  BY <2>1, <2>2, <2>3
<1> QED  BY <1>5, <1>6, <1>7, <1>8, <1>9 DEF MapInv

LEMMA StutterMap ==
  ASSUME MapInv, UNCHANGED vars
  PROVE  MapInv'
<1>1. UNCHANGED <<mem, ptes, reserve_mapping_list, mapping_list, reserved, request, list_entry_index, user_page_num,
                  segment_end_aligned, reserved_page_num, i, k2u, pc, entry, offset, reply, disk,
                  requests, before, wild>>
  BY DEF vars, window, mapLoop, copyLoop, server, history
<1>2. TypeOK' /\ RequestOK'
  BY <1>1 DEF MapInv, TypeOK, RequestOK, Bytes
<1>3. several' = several
  BY <1>1 DEF several
<1>4. InUse' = InUse
  BY <1>1, <1>3 DEF InUse
<1>5. WindowOK'
  BY <1>1, <1>4 DEF MapInv, WindowOK
<1>6. \A u : Shown(u)' = Shown(u) /\ Numbered(u)' = Numbered(u) /\ NextReserved(u)' = NextReserved(u)
  BY <1>1 DEF Shown, Numbered, NextReserved, R, WholeSeg
<1>7. \A f, u : Splits(f, u)' = Splits(f, u)
  BY <1>1 DEF Splits, Entry, Run, Start, Bytes, AddrOf, Base
<1>8. Splittings' = Splittings
  BY <1>1 DEF Splittings
<1>9. MappingOK'
  BY <1>1, <1>6, <1>7, <1>8 DEF MapInv, MappingOK
<1>10. MappedOK'
  BY <1>1, <1>3, <1>6, <1>7, <1>8 DEF MapInv, MappedOK, Start, Bytes
<1>11. WriteOK' /\ KeptOK'
  BY <1>1 DEF MapInv, WriteOK, Written, Bytes, KeptOK, Owns, Segment
<1> QED  BY <1>2, <1>5, <1>9, <1>10, <1>11 DEF MapInv

LEMMA NextMap ==
  ASSUME MapInv, ~stale, ~stale', [Next]_vars
  PROVE  MapInv'
<1>1. ASSUME NEW dir \in {"READ", "WRITE"}, NEW segs \in Layouts, NEW pos \in Positions, Submit(dir, segs, pos)
      PROVE  MapInv'
  BY <1>1, SubmitMap
<1>2. CASE bius_dev_read
  BY <1>2, DevReadMap
<1>3. CASE MapSegment
  BY <1>3, MapSegmentMap
<1>4. CASE MapDone
  BY <1>4, MapDoneMap
<1>5. CASE handle_blk_command
  BY <1>5, HandleMap
<1>6. CASE handle_blk_command_with_datamap_list
  BY <1>6, HandleListMap
<1>7. CASE CallbackFails
  BY <1>7, FailsMap
<1>8. CASE bius_dev_write
  BY <1>8, DevWriteMap
<1>9. CASE CopyEntry
  BY <1>9, CopyEntryMap
<1>10. CASE bius_unmap_data
  BY <1>10, UnmapMap
<1>11. CASE UNCHANGED vars
  BY <1>11, StutterMap
<1>12. ~SendCommandFailed /\ ~ReplyRefused
  BY DEF SendCommandFailed, ReplyRefused
<1> QED  BY <1>1, <1>2, <1>3, <1>4, <1>5, <1>6, <1>7, <1>8, <1>9, <1>10, <1>11, <1>12 DEF Next

-----------------------------------------------------------------------------
(* What the page of the list holds, and a header that is not copied out    *)

\* The address and the length of an entry are numbers of the window.
LEMMA EntryBound ==
  ASSUME NEW l \in Layouts, Bytes(l) <= MaxLen + 1, NEW s, NEW t, Run(l, s, t)
  PROVE  AddrOf(l, s) <= vm_end /\ Start(l, t) - Start(l, s) <= vm_end
<1>1. /\ s \in 1 .. Len(l) /\ t \in 1 .. Len(l) + 1 /\ Start(l, s) \in Nat /\ Start(l, t) \in Nat
      /\ AddrOf(l, s) = vm_start + PageAt(s) + l[s].off
  BY RunIs
<1>2. /\ Len(l) \in Nat /\ Len(l) <= MaxSegs /\ Bytes(l) \in Nat /\ Start(l, Len(l) + 1) = Bytes(l)
      /\ l[s].off \in Nat /\ l[s].off <= PAGE_SIZE
  <2>1. l[s].off \in Nat /\ l[s].len \in Nat /\ l[s].off + l[s].len <= PAGE_SIZE
    BY <1>1, LayoutIs
  <2>2. Len(l) \in 1 .. MaxSegs /\ Len(l) \in Nat
    BY LayoutIs
  <2> QED  BY <2>1, <2>2, StartIs, Sizes
<1>3. PAGE_SIZE \in Nat /\ MaxSegs \in Nat /\ MaxLen \in Nat /\ PAGE_SIZE > 0
  BY Sizes
<1>4. PageAt(s) \in Nat /\ PageAt(s) <= MaxLen
  <2>1. s \in Nat /\ s - 1 \in Nat /\ MaxSegs - (s - 1) \in Nat
    BY <1>1, <1>2, <1>3
  <2>2. (s - 1) * PAGE_SIZE \in Nat /\ (MaxSegs - (s - 1)) * PAGE_SIZE \in Nat
    BY <1>3, <2>1
  <2>3. MaxSegs * PAGE_SIZE = (s - 1) * PAGE_SIZE + (MaxSegs - (s - 1)) * PAGE_SIZE
    BY <1>3, <2>1
  <2> QED  BY <1>3, <2>2, <2>3 DEF PageAt, MaxLen
<1>5. Start(l, t) <= Bytes(l)
  <2>1. t = Len(l) + 1 \/ t < Len(l) + 1
    BY <1>1, <1>2
  <2>2. Len(l) + 1 \in 1 .. Len(l) + 1
    BY <1>2
  <2> QED  BY <1>1, <1>2, <2>1, <2>2, StartGrows
<1>6. vm_start = PAGE_SIZE /\ vm_end = PAGE_SIZE + MaxLen + PAGE_SIZE
  BY DEF vm_start, vm_end
<1>7. AddrOf(l, s) <= vm_end
  <2>1. AddrOf(l, s) = PAGE_SIZE + PageAt(s) + l[s].off
    BY <1>1, <1>6
  <2> HIDE DEF AddrOf, PageAt, MaxLen
  <2> QED  BY <1>2, <1>3, <1>4, <1>6, <2>1
<1>8. Start(l, t) - Start(l, s) <= vm_end
  <2>1. Start(l, t) \in Nat /\ Start(l, s) \in Nat /\ Bytes(l) \in Nat
    BY <1>1, <1>2
  <2>2. Bytes(l) <= MaxLen + 1
    OBVIOUS
  <2> HIDE DEF Start, Bytes, MaxLen
  <2> QED  BY <1>3, <1>5, <1>6, <2>1, <2>2
<1> QED  BY <1>7, <1>8

LEMMA NextList ==
  ASSUME MapInv, ListOK, ~stale, ~stale', [Next]_vars
  PROVE  ListOK'
<1>1. CASE MapSegment
  <2> DEFINE l == request.segs
             n == list_entry_index
             s == l[user_page_num + 1]
  <2>1. AddToList(s) /\ request' = request /\ l \in Layouts /\ n \in Nat /\ user_page_num \in Nat /\ n <= user_page_num
    BY <1>1, NextSegment
  <2>2. /\ list_entry_index' \in Nat /\ list_entry_index' > 0
    BY <1>1, MapSegmentList
  <2>3. PICK g \in Splittings' : Splits(g, user_page_num)'
    BY <1>1, MapSegmentList
  <2>4. ASSUME NEW e \in 0 .. list_entry_index' - 1
        PROVE  mapping_list'[2 * e] <= vm_end /\ mapping_list'[2 * e + 1] <= vm_end
    <3>1. Entry(e, g[e], g[e + 1])'
      BY <2>3 DEF Splits
    <3>2. /\ Run(l, g[e], g[e + 1]) /\ mapping_list'[2 * e] = AddrOf(l, g[e])
          /\ mapping_list'[2 * e + 1] = Start(l, g[e + 1]) - Start(l, g[e])
      BY <2>1, <3>1 DEF Entry, Run, Start, Bytes, AddrOf, Base
    <3>3. Bytes(l) <= MaxLen + 1
      <4>1. request.pos + Bytes(l) <= MaxLen + 1 /\ request.pos \in Nat
        BY <1>1 DEF MapSegment, MapInv, RequestOK, TypeOK
      <4>2. Bytes(l) \in Nat /\ MaxLen \in Nat
        BY <2>1, StartIs, Sizes
      <4> QED  BY <4>1, <4>2
    <3> QED  BY <2>1, <3>2, <3>3, EntryBound
  <2>5. ASSUME NEW j \in ListIndex, j >= 2 * list_entry_index'
        PROVE  mapping_list'[j] = mapping_list[j] /\ (j \in unset => j \in unset')
    <3>1. j \in Nat /\ mapping_list \in [ListIndex -> Nat]
      BY Sizes DEF ListIndex, MapInv, TypeOK
    <3>2. CASE Opens(s)
      <4>1. /\ list_entry_index' = n + 1 /\ unset' = unset \ {2 * n, 2 * n + 1}
            /\ mapping_list' = [mapping_list EXCEPT ![2 * n] = vm_start + user_page_num * PAGE_SIZE + s.off,
                                                    ![2 * n + 1] = s.len]
        BY <2>1, <3>2 DEF AddToList
      <4>2. j # 2 * n /\ j # 2 * n + 1
        BY <2>1, <2>5, <3>1, <4>1
      <4> QED  BY <3>1, <4>1, <4>2
    <3>3. CASE ~Opens(s)
      <4>1. /\ list_entry_index' = n /\ unset' = unset
            /\ mapping_list' = [mapping_list EXCEPT ![2 * n - 1] = @ + s.len]
        BY <2>1, <3>3 DEF AddToList
      <4>2. j # 2 * n - 1
        BY <2>1, <2>5, <3>1, <4>1
      <4> QED  BY <3>1, <4>1, <4>2
    <3> QED  BY <3>2, <3>3
  <2>6. ASSUME NEW j \in ListIndex, j \notin unset'
        PROVE  mapping_list'[j] <= vm_end
    <3>1. j \in Nat
      BY Sizes DEF ListIndex
    <3>2. CASE j >= 2 * list_entry_index'
      <4>1. mapping_list'[j] = mapping_list[j] /\ j \notin unset
        BY <2>5, <2>6, <3>2
      <4> QED  BY <4>1 DEF ListOK
    <3>3. CASE j < 2 * list_entry_index'
      <4>1. \E e \in Nat : j = 2 * e \/ j = 2 * e + 1
        <5>1. j = 2 * (j \div 2) \/ j = 2 * (j \div 2) + 1
          BY <3>1
        <5> QED  BY <3>1, <5>1
      <4>2. PICK e \in Nat : j = 2 * e \/ j = 2 * e + 1
        BY <4>1
      <4>3. ASSUME NEW m \in Nat, j < 2 * m
            PROVE  e \in 0 .. m - 1
        BY <4>2, <4>3
      <4>4. e \in 0 .. list_entry_index' - 1
        BY <2>2, <3>3, <4>3
      <4> QED  BY <2>4, <4>2, <4>4
    <3>4. \A m \in Nat : j >= 2 * m \/ j < 2 * m
      BY <3>1
    <3> QED  BY <2>2, <3>2, <3>3, <3>4
  <2> QED  BY <2>6 DEF ListOK, ListIndex, vm_end, vm_start, MaxLen
<1>2. CASE MapDone
  <2>1. /\ mapping_list' = IF several THEN EndList(mapping_list, list_entry_index) ELSE mapping_list
        /\ unset' = IF several THEN unset \ {2 * list_entry_index, 2 * list_entry_index + 1} ELSE unset
    BY <1>2 DEF MapDone, EndMapping
  <2>2. mapping_list \in [ListIndex -> Nat] /\ vm_end \in Nat
    BY Sizes DEF MapInv, TypeOK, vm_end, vm_start
  <2>3. CASE ~several
    BY <2>1, <2>3 DEF ListOK
  <2>4. CASE several
    <3>1. ASSUME NEW j \in ListIndex, j \notin unset'
          PROVE  mapping_list'[j] <= vm_end
      <4>1. mapping_list' = [mapping_list EXCEPT ![2 * list_entry_index] = 0, ![2 * list_entry_index + 1] = 0]
        BY <2>1, <2>4 DEF EndList
      <4>2. CASE j \in {2 * list_entry_index, 2 * list_entry_index + 1}
        <5>1. mapping_list'[j] = 0
          BY <2>2, <4>1, <4>2
        <5> QED  BY <2>2, <5>1
      <4>3. CASE j \notin {2 * list_entry_index, 2 * list_entry_index + 1}
        <5>1. mapping_list'[j] = mapping_list[j] /\ j \notin unset
          BY <2>1, <2>2, <2>4, <3>1, <4>1, <4>3
        <5> QED  BY <5>1 DEF ListOK
      <4> QED  BY <4>2, <4>3
    <3> QED  BY <3>1 DEF ListOK
  <2> QED  BY <2>3, <2>4
<1>3. CASE UNCHANGED <<mapping_list, unset>>
  BY <1>3 DEF ListOK
<1>4. ~SendCommandFailed /\ ~ReplyRefused
  BY DEF SendCommandFailed, ReplyRefused
<1>5. \/ MapSegment \/ MapDone \/ UNCHANGED <<mapping_list, unset>>
  BY <1>4 DEF Next, Submit, bius_dev_read, handle_blk_command, handle_blk_command_with_datamap_list, CallbackFails,
              bius_dev_write, CopyEntry, bius_unmap_data, vars, driver, window
<1> QED  BY <1>1, <1>2, <1>3, <1>5

\* The library does not get back to an up to date header.
LEMMA StaleStays ==
  ASSUME stale, [Next]_vars
  PROVE  stale'
BY DEF Next, Submit, bius_dev_read, MapSegment, MapDone, SendCommandFailed, handle_blk_command,
       handle_blk_command_with_datamap_list, CallbackFails, bius_dev_write, ReplyRefused, CopyEntry,
       bius_unmap_data, vars, driver, history

LEMMA NextStale ==
  ASSUME DataMapInv, stale', [Next]_vars
  PROVE  StaleOK'
<1>1. CASE stale
  <2>1. stale /\ pc \in {"handle", "replying", "exited"} /\ (pc = "exited" => \A u \in UserPage : ptes[u] = ZeroPage)
    BY <1>1 DEF DataMapInv, StaleOK
  <2>2. CASE handle_blk_command \/ handle_blk_command_with_datamap_list \/ CallbackFails
    <3>1. pc' \in {"handle", "replying"}
      BY <2>2 DEF handle_blk_command, handle_blk_command_with_datamap_list, CallbackFails
    <3> QED  BY <3>1 DEF StaleOK
  <2>3. CASE ReplyRefused
    BY <2>3 DEF ReplyRefused, StaleOK
  <2>4. CASE UNCHANGED vars
    BY <2>1, <2>4 DEF vars, window, StaleOK
  <2> QED  BY <2>1, <2>2, <2>3, <2>4 DEF Next, Submit, bius_dev_read, MapSegment, MapDone, EndMapping,
             SendCommandFailed, bius_dev_write, CopyEntry, bius_unmap_data
<1>2. CASE ~stale
  <2>1. SendCommandFailed
    BY <1>2 DEF Next, Submit, bius_dev_read, MapSegment, MapDone, handle_blk_command,
         handle_blk_command_with_datamap_list, CallbackFails, bius_dev_write, ReplyRefused, CopyEntry,
         bius_unmap_data, vars, driver, history
  <2> QED  BY <2>1 DEF SendCommandFailed, StaleOK
<1> QED  BY <1>1, <1>2

LEMMA NextDataMap ==
  ASSUME DataMapInv, [Next]_vars
  PROVE  DataMapInv'
<1>1. CASE stale'
  BY <1>1, NextStale DEF DataMapInv
<1>2. CASE ~stale'
  <2>1. ~stale
    BY <1>2, StaleStays
  <2>2. MapInv /\ ListOK
    BY <2>1 DEF DataMapInv, StaleOK
  <2>3. MapInv' /\ ListOK'
    BY <1>2, <2>1, <2>2, NextMap, NextList
  <2> QED  BY <1>2, <2>3 DEF DataMapInv
<1> QED  BY <1>1, <1>2

\* The window, the lists, the reserved pages and the data correspond at every step, until a header cannot be
\* copied out: then the server takes nothing else before it is gone, and the window with it.
THEOREM DataMapInvariant == Spec => []DataMapInv
<1>1. Init => DataMapInv
  BY InitMap
<1>2. DataMapInv /\ [Next]_vars => DataMapInv'
  BY NextDataMap
<1> QED  BY <1>1, <1>2, PTL DEF Spec

-----------------------------------------------------------------------------
(* What it says of a request                                               *)

LEMMA PlaceIs ==
  ASSUME MapInv, request.segs \in Layouts, NEW s \in 1 .. Len(request.segs), NEW p \in Pos
  PROVE  Place(request.segs[s], p) = request.pos + ByteNo(request.segs, s, p)
<1> DEFINE o == request.segs[s].off
           a == request.segs[s].at
           b == request.pos
<1>1. o \in Nat /\ a \in Nat /\ b \in Nat /\ p \in Nat
  BY LayoutIs, Sizes DEF MapInv, TypeOK, Pos
<1>2. Place(request.segs[s], p) = b + a + p - o /\ ByteNo(request.segs, s, p) = a + p - o
  BY DEF Place, ByteNo
<1> HIDE DEF o, a, b
<1>3. b + a + p - o = b + (a + p - o)
  BY <1>1
<1> QED  BY <1>2, <1>3 DEF b

\* Every byte of a request comes before its end.
LEMMA WithinBytes ==
  ASSUME NEW l \in Layouts, NEW s \in 1 .. Len(l), NEW p \in Pos, Covers(l[s], p)
  PROVE  ByteNo(l, s, p) \in Nat /\ ByteNo(l, s, p) < Bytes(l)
<1>1. ByteNo(l, s, p) \in Nat /\ ByteNo(l, s, p) < Start(l, s + 1)
  BY CoversIs
<1>2. Len(l) \in Nat /\ Start(l, Len(l) + 1) = Bytes(l) /\ Bytes(l) \in Nat
  BY LayoutIs, StartIs
<1>3. s + 1 \in 1 .. Len(l) + 1 /\ Len(l) + 1 \in 1 .. Len(l) + 1 /\ (s + 1 < Len(l) + 1 \/ s + 1 = Len(l) + 1)
  BY <1>2
<1>4. Start(l, s + 1) \in Nat /\ Start(l, s + 1) <= Bytes(l)
  BY <1>2, <1>3, StartIs, StartGrows
<1> QED  BY <1>1, <1>2, <1>4

LEMMA MapClears == DataMapInv => WindowCleared
<1> SUFFICES ASSUME MapInv, pc \in {"idle", "queued"}
             PROVE  \A u \in UserPage : ptes[u] = ZeroPage
  BY DEF DataMapInv, StaleOK, MapInv, TypeOK, Serving, WindowCleared
<1>1. InUse = 0
  BY DEF InUse, Serving
<1>2. \A u \in UserPage : u >= 0
  BY Sizes DEF UserPage
<1> QED  BY <1>1, <1>2 DEF MapInv, WindowOK

\* bius_unmap_data takes everything out of the window that bius_map_data has put there, the page
\* of the list included: the window shows the zero page only before the next request is mapped. A request
\* whose header could not be copied out is ended without it, and its pages stay in the window until the
\* server, refused its next reply, is gone: no request is mapped in between.
THEOREM WindowIsCleared == Spec => []WindowCleared
BY DataMapInvariant, MapClears, PTL

LEMMA MapShows == DataMapInv => NothingElseShown
<1> SUFFICES ASSUME MapInv, NEW u \in UserPage
             PROVE  /\ ptes[u].kind = "data" => \A p \in Pos : Owns(ptes[u].n, p)
                    /\ ptes[u].kind = "reserved" => \A p \in Pos : reserved[ptes[u].n][p] # 0 =>
                         Owns(reserve_mapping_list[ptes[u].n], p)
  BY DEF DataMapInv, ListOK, StaleOK, NothingElseShown
<1> DEFINE l == request.segs
<1>0. u \in Nat /\ user_page_num \in Nat
  BY Sizes DEF UserPage, MapInv, TypeOK
<1>1. CASE ptes[u] = ZeroPage \/ ptes[u] = ListPage
  BY <1>1 DEF ZeroPage, ListPage, Frame
<1>2. CASE (pc = "mapping" \/ pc \in Serving) /\ u < user_page_num
  <2>1. pc # "idle"
    BY <1>2 DEF Serving
  <2>2. l \in Layouts
    BY <2>1 DEF MapInv, RequestOK
  <2>3. Shown(user_page_num) /\ user_page_num <= Len(l)
    BY <1>0, <1>2 DEF MapInv, MappingOK, MappedOK
  <2>4. u + 1 \in 1 .. user_page_num /\ u + 1 \in 1 .. Len(l) /\ (u + 1) - 1 = u
    BY <1>0, <1>2, <2>2, <2>3, LayoutIs
  <2>5. l[u + 1] \in Segment
    BY <2>4 DEF Segment
  <2>6. CASE WholeSeg(u + 1)
    <3>1. ptes[u] = Frame("data", l[u + 1].pg)
      BY <2>3, <2>4, <2>6 DEF Shown
    <3>2. \A p \in Pos : Covers(l[u + 1], p)
      <4>1. /\ l[u + 1].off \in Nat /\ l[u + 1].len = PAGE_SIZE /\ l[u + 1].off + l[u + 1].len <= PAGE_SIZE
            /\ PAGE_SIZE \in Nat
        BY <2>2, <2>4, <2>6, LayoutIs, Sizes DEF WholeSeg, Whole
      <4>2. l[u + 1].off = 0
        BY <4>1
      <4> QED  BY <4>1, <4>2 DEF Covers, Pos
    <3> QED  BY <2>5, <3>1, <3>2 DEF Owns, Frame
  <2>7. CASE ~WholeSeg(u + 1)
    <3>1. /\ ptes[u] = Frame("reserved", R(u + 1)) /\ reserve_mapping_list[R(u + 1)] = l[u + 1].pg
          /\ \A p \in Pos : ~Covers(l[u + 1], p) => reserved[R(u + 1)][p] = 0
      BY <2>3, <2>4, <2>7 DEF Shown
    <3> QED  BY <2>5, <3>1 DEF Owns, Frame
  <2> QED  BY <2>6, <2>7
<1>3. CASE ~((pc = "mapping" \/ pc \in Serving) /\ u < user_page_num)
  <2>1. CASE pc \in Serving /\ several /\ u = user_page_num
    BY <1>1, <2>1 DEF MapInv, MappedOK
  <2>2. CASE ~(pc \in Serving /\ several /\ u = user_page_num)
    <3>1. InUse \in Nat /\ u >= InUse
      BY <1>0, <1>3, <2>2 DEF InUse
    <3> QED  BY <1>1, <3>1 DEF MapInv, WindowOK
  <2> QED  BY <2>1, <2>2
<1> QED  BY <1>2, <1>3

\* A page that the request covers in part is never mapped itself, and the reserved page that stands for
\* it has no byte of an earlier request: while the server has the header of the request, the data pages
\* of its window show that request only. What is stored in the list's page are numbers of the window;
\* the part of that page no list has reached shows what kmalloc left there, and is not covered.
THEOREM WindowShowsRequest == Spec => []NothingElseShown
BY DataMapInvariant, MapShows, PTL

LEMMA MapWrites == DataMapInv => WrittenInOrder
<1> SUFFICES ASSUME MapInv, pc = "idle", request.dir = "WRITE", reply = "OK"
             PROVE  /\ \A s \in Segment, p \in Pos : Covers(s, p) => disk[Place(s, p)] = before.mem[s.pg][p]
                    /\ \A d \in Disk : d \notin request.pos .. request.pos + Bytes(request.segs) - 1 =>
                         disk[d] = before.disk[d]
  BY DEF DataMapInv, StaleOK, WrittenInOrder, Completed
<1> DEFINE l == request.segs
<1>1. Written(Bytes(l)) /\ l \in Layouts
  BY DEF MapInv, WriteOK, RequestOK
<1>2. ASSUME NEW s \in 1 .. Len(l), NEW p \in Pos, Covers(l[s], p)
      PROVE  disk[Place(l[s], p)] = before.mem[l[s].pg][p]
  <2>1. ByteNo(l, s, p) < Bytes(l)
    BY <1>1, <1>2, WithinBytes
  <2>2. Place(l[s], p) = request.pos + ByteNo(l, s, p)
    BY <1>1, PlaceIs
  <2> QED  BY <1>1, <1>2, <2>1, <2>2 DEF Written
<1> QED  BY <1>1, <1>2 DEF Segment, Written

\* Through one entry or many, with pages of its own or reserved ones: a write that succeeds has all its
\* bytes on the disk, in order, and nothing else on it has changed.
THEOREM WritesInOrder == Spec => []WrittenInOrder
BY DataMapInvariant, MapWrites, PTL

\* Neither the server nor the copy of a simple map touches a byte of the kernel's pages that is not part
\* of the request, and a write touches none, as long as the server works on the header of the request.
THEOREM OthersAreKept == Spec => []OthersKept
<1>1. DataMapInv => OthersKept
  BY DEF DataMapInv, StaleOK, MapInv, KeptOK, OthersKept
<1> QED  BY <1>1, DataMapInvariant, PTL

-----------------------------------------------------------------------------
(* A read through a simple map                                             *)

\* A call of the server for a read puts the disk's bytes where the window shows the segments.
LEMMA ReadDelivers ==
  ASSUME SegmentsApart, MapInv, request.segs \in Layouts, request.pos + Bytes(request.segs) <= MaxLen + 1,
         k2u.dir # "WRITE", Shown(Len(request.segs)), Numbered(Len(request.segs)),
         NEW s, NEW t, Run(request.segs, s, t),
         Callback(AddrOf(request.segs, s), Start(request.segs, t) - Start(request.segs, s),
                  request.pos + Start(request.segs, s)),
         NEW y \in s .. t - 1, NEW p \in Pos, Covers(request.segs[y], p)
  PROVE  (IF WholeSeg(y) THEN mem'[request.segs[y].pg][p] ELSE reserved'[R(y)][p])
           = disk[request.pos + ByteNo(request.segs, y, p)]
<1> DEFINE l == request.segs
           a == AddrOf(l, s)
           n == Start(l, t) - Start(l, s)
           off == request.pos + Start(l, s)
           at == request.pos + ByteNo(l, y, p)
           kind == IF WholeSeg(y) THEN "data" ELSE "reserved"
           pg == IF WholeSeg(y) THEN l[y].pg ELSE R(y)
           j0 == ByteNo(l, y, p) - Start(l, s)
<1>1. /\ mem' = Stored(mem, "data", a, n, off) /\ reserved' = Stored(reserved, "reserved", a, n, off)
      /\ DOMAIN mem = Page /\ DOMAIN reserved = Reserved
  BY DEF Callback, MapInv, TypeOK
<1>2. y \in 1 .. Len(l) /\ Len(l) \in Nat /\ Start(l, s) \in Nat
  BY RunIs, LayoutIs
<1>3. /\ ByteNo(l, y, p) \in Nat /\ at \in Disk /\ off + j0 = at
  <2>1. ByteNo(l, y, p) \in Nat /\ ByteNo(l, y, p) < Bytes(l) /\ Bytes(l) \in Nat
    BY <1>2, WithinBytes, StartIs
  <2>2. request.pos \in Nat /\ MaxLen \in Nat
    BY Sizes DEF MapInv, TypeOK
  <2> DEFINE b == ByteNo(l, y, p)
             st == Start(l, s)
             q == request.pos
  <2>3. b \in Nat /\ b < Bytes(l) /\ Bytes(l) \in Nat /\ q \in Nat /\ st \in Nat /\ q + Bytes(l) <= MaxLen + 1
    BY <1>2, <2>1, <2>2
  <2> HIDE DEF b, st, q
  <2>4. q + b \in 0 .. MaxLen /\ (q + st) + (b - st) = q + b
    BY <2>2, <2>3
  <2> QED  BY <2>1, <2>4 DEF b, st, q, Disk
<1>4. /\ j0 \in 0 .. n - 1 /\ At(a + j0) = Frame(kind, pg) /\ (a + j0) % PAGE_SIZE = p
      /\ (WholeSeg(y) => pg \in Page) /\ (~WholeSeg(y) => pg \in Reserved)
  <2>1. j0 \in 0 .. n - 1 /\ At(a + j0) = ptes[y - 1] /\ (a + j0) % PAGE_SIZE = p
    BY Located
  <2>2. ptes[y - 1] = Frame(kind, pg) /\ (~WholeSeg(y) => pg \in Reserved)
    BY <1>2 DEF Shown
  <2>3. WholeSeg(y) => pg \in Page
    BY <1>2, LayoutIs
  <2> QED  BY <2>1, <2>2, <2>3
<1>5. ASSUME NEW j \in 0 .. n - 1, At(a + j) = Frame(kind, pg), (a + j) % PAGE_SIZE = p
      PROVE  j = j0
  <2>1. PICK x \in s .. t - 1, q \in Pos :
          /\ x \in 1 .. Len(l) /\ Covers(l[x], q) /\ j = ByteNo(l, x, q) - Start(l, s)
          /\ (a + j) % PAGE_SIZE = q
          /\ At(a + j) = IF WholeSeg(x) THEN Frame("data", l[x].pg) ELSE Frame("reserved", R(x))
    BY CallByte
  <2>2. q = p /\ Covers(l[x], p)
    BY <1>5, <2>1
  <2>3. x = y
    <3>1. CASE WholeSeg(y)
      <4>1. l[x].pg = l[y].pg
        BY <1>5, <2>1, <3>1 DEF Frame
      <4> QED  BY <1>2, <2>1, <2>2, <4>1 DEF SegmentsApart
    <3>2. CASE ~WholeSeg(y)
      <4>1. ~WholeSeg(x) /\ R(x) = R(y)
        BY <1>5, <2>1, <3>2 DEF Frame
      <4> QED  BY <1>2, <2>1, <3>2, <4>1, ReservedApart
    <3> QED  BY <3>1, <3>2
  <2> QED  BY <2>1, <2>2, <2>3
<1>6. DiskAt(off + j0) = disk[at]
  BY <1>3 DEF DiskAt
<1>7. CASE WholeSeg(y)
  <2>1. kind = "data" /\ pg = l[y].pg
    BY <1>7
  <2> HIDE DEF a, n, off, at, j0
  <2>2. mem'[pg][p] = DiskAt(off + j0)
    BY <1>1, <1>4, <1>5, <1>7, <2>1, StoredIs
  <2> QED  BY <1>6, <1>7, <2>1, <2>2 DEF at
<1>8. CASE ~WholeSeg(y)
  <2>1. kind = "reserved" /\ pg = R(y)
    BY <1>8
  <2> HIDE DEF a, n, off, at, j0
  <2>2. reserved'[pg][p] = DiskAt(off + j0)
    BY <1>1, <1>4, <1>5, <1>8, <2>1, StoredIs
  <2> QED  BY <1>6, <1>8, <2>1, <2>2 DEF at
<1> QED  BY <1>7, <1>8

LEMMA CopiedAt ==
  ASSUME SegmentsApart, TypeOK, request.segs \in Layouts, Shown(Len(request.segs)),
         NEW m \in [Page -> [Pos -> Nat]], NEW s \in 1 .. Len(request.segs), NEW y \in 1 .. Len(request.segs),
         NEW p \in Pos, Covers(request.segs[y], p)
  PROVE  /\ Copied(m, s) \in [Page -> [Pos -> Nat]]
         /\ Copied(m, s)[request.segs[y].pg][p] = IF s = y /\ ~WholeSeg(y) THEN reserved[R(y)][p]
                                                  ELSE m[request.segs[y].pg][p]
<1> DEFINE l == request.segs
<1>1. l[y].pg \in Page
  BY LayoutIs
<1>2. /\ Copied(m, s) \in [Page -> [Pos -> Nat]]
      /\ Copied(m, s)[l[y].pg][p] = IF ~WholeSeg(s) /\ l[y].pg = l[s].pg /\ Covers(l[s], p)
                                    THEN reserved[R(s)][p] ELSE m[l[y].pg][p]
  BY <1>1, CopiedIs
<1>3. l[y].pg = l[s].pg /\ Covers(l[s], p) => s = y
  BY DEF SegmentsApart
<1> QED  BY <1>2, <1>3

\* The copy of a simple map puts the rest of the data in place.
LEMMA CopyDelivers ==
  ASSUME SegmentsApart, MapInv, CopyEntry, request.type = "SIMPLE", Fetched(user_page_num)
  PROVE  i' = 1 /\ InPlace'
<1> DEFINE l == request.segs
           L == Len(l)
<1>1. pc \in Serving /\ TypeOK
  BY DEF CopyEntry, Serving, MapInv
<1>2. l \in Layouts /\ L \in Nat /\ L >= 1 /\ Run(l, 1, L + 1) /\ Shown(L) /\ user_page_num = L
  BY <1>1, SimpleIs
<1>3. i = 0 /\ mem' = IF L = 1 THEN Copied(mem, 1) ELSE Copied(Copied(mem, 1), L)
  BY CopySimple
<1>4. i' = i + 1 /\ request' = request /\ disk' = disk
  BY DEF CopyEntry
<1>5. ASSUME NEW y \in 1 .. L, NEW p \in Pos, Covers(l[y], p)
      PROVE  mem'[l[y].pg][p] = disk[request.pos + ByteNo(l, y, p)]
  <2>1. mem \in [Page -> [Pos -> Nat]] /\ 1 \in 1 .. L /\ L \in 1 .. L
    BY <1>1, <1>2 DEF TypeOK
  <2> DEFINE g == l[y].pg
             res == reserved[R(y)][p]
             m1 == Copied(mem, 1)
  <2>2. m1 \in [Page -> [Pos -> Nat]] /\ m1[g][p] = IF 1 = y /\ ~WholeSeg(y) THEN res ELSE mem[g][p]
    BY <1>1, <1>2, <1>5, <2>1, CopiedAt
  <2>3. Copied(m1, L)[g][p] = IF L = y /\ ~WholeSeg(y) THEN res ELSE m1[g][p]
    <3> HIDE DEF m1
    <3> QED  BY <1>1, <1>2, <1>5, <2>1, <2>2, CopiedAt
  <2>4. y = 1 \/ y = L \/ WholeSeg(y)
    <3>1. y = 1 \/ y = L \/ y \in 2 .. L - 1
      BY <1>2
    <3> QED  BY <1>2, <3>1, RunEdges DEF WholeSeg
  <2>5. (IF WholeSeg(y) THEN mem[g][p] ELSE res) = disk[request.pos + ByteNo(l, y, p)]
    BY <1>2, <1>5 DEF Fetched
  <2> HIDE DEF g, res, m1
  <2>6. mem'[g][p] = IF WholeSeg(y) THEN mem[g][p] ELSE res
    BY <1>3, <2>2, <2>3, <2>4 DEF m1
  <2> QED  BY <2>5, <2>6 DEF g
<1> QED  BY <1>3, <1>4, <1>5 DEF InPlace, ByteNo

LEMMA NextRead ==
  ASSUME SegmentsApart, MapInv, ReadOK, ~stale, ~stale', [Next]_vars
  PROVE  ReadOK'
<1>1. CASE \/ \E dir \in {"READ", "WRITE"}, segs \in Layouts, pos \in Positions : Submit(dir, segs, pos)
           \/ bius_dev_read \/ MapSegment \/ MapDone
  <2>1. pc' \in {"queued", "mapping", "handle"}
    BY <1>1 DEF Submit, bius_dev_read, MapSegment, MapDone, EndMapping
  <2> QED  BY <2>1 DEF ReadOK
<1>2. CASE handle_blk_command
  <2> DEFINE l == request.segs
  <2>1. /\ pc = "handle" /\ pc' = "replying" /\ k2u.type = "SIMPLE" /\ Callback(vm_start + k2u.data, k2u.len, offset)
        /\ UNCHANGED <<ptes, request, user_page_num, k2u, reply>>
    BY <1>2 DEF handle_blk_command, driver, window, mapLoop, server
  <2>2. SUFFICES ASSUME request.dir = "READ"
                 PROVE  Fetched(user_page_num)'
    BY <2>1 DEF ReadOK
  <2>3. /\ pc \in Serving /\ request.type = "SIMPLE" /\ k2u.data = request.data /\ k2u.dir = request.dir
        /\ k2u.len = Bytes(l)
    BY <2>1 DEF Serving, MapInv, MappedOK
  <2>4. /\ l \in Layouts /\ Len(l) \in Nat /\ Len(l) >= 1 /\ Run(l, 1, Len(l) + 1) /\ request.data = l[1].off
        /\ user_page_num = Len(l) /\ Shown(Len(l)) /\ Numbered(Len(l))
    BY <2>3, SimpleIs
  <2>5. request.pos + Bytes(l) <= MaxLen + 1 /\ request.pos \in Nat
    BY <2>2 DEF MapInv, RequestOK, TypeOK
  <2>6. ~several
    BY <2>3 DEF MapInv, MappedOK
  <2>7. PICK f \in Splittings : Splits(f, user_page_num) /\ entry = 0 /\ offset = request.pos + Start(l, f[entry])
    BY <2>1, <2>3, <2>6 DEF MapInv, MappedOK
  <2>8. offset = request.pos + Start(l, 1)
    BY <2>7 DEF Splits
  <2>9. AddrOf(l, 1) = vm_start + k2u.data /\ Start(l, Len(l) + 1) - Start(l, 1) = Bytes(l)
    <3>1. AddrOf(l, 1) = vm_start + PageAt(1) + l[1].off /\ l[1].off \in Nat
      <4>1. 1 \in 1 .. Len(l)
        BY <2>4
      <4> QED  BY <2>4, <4>1, RunIs, LayoutIs
    <3>2. PageAt(1) = 0 /\ PAGE_SIZE \in Nat
      BY Sizes DEF PageAt
    <3>3. Start(l, 1) = 0 /\ Start(l, Len(l) + 1) = Bytes(l) /\ Bytes(l) \in Nat
      BY <2>4, StartIs
    <3> QED  BY <2>3, <2>4, <3>1, <3>2, <3>3 DEF vm_start
  <2>10. Callback(AddrOf(l, 1), Start(l, Len(l) + 1) - Start(l, 1), request.pos + Start(l, 1))
    BY <2>1, <2>3, <2>8, <2>9
  <2>11. disk' = disk
    BY <2>2, <2>3, <2>10 DEF Callback
  <2>12. ASSUME NEW y \in 1 .. Len(l), NEW p \in Pos, Covers(l[y], p)
         PROVE  (IF WholeSeg(y) THEN mem'[l[y].pg][p] ELSE reserved'[R(y)][p]) = disk[request.pos + ByteNo(l, y, p)]
    <3>1. y \in 1 .. (Len(l) + 1) - 1 /\ k2u.dir # "WRITE"
      BY <2>2, <2>3, <2>4
    <3> QED  BY <2>4, <2>5, <2>10, <2>12, <3>1, ReadDelivers
  <2> QED  BY <2>1, <2>4, <2>11, <2>12 DEF Fetched, WholeSeg, R, ByteNo
<1>3. CASE handle_blk_command_with_datamap_list
  <2>1. k2u.type = "LIST" /\ k2u' = k2u
    BY <1>3 DEF handle_blk_command_with_datamap_list, driver
  <2> QED  BY <2>1 DEF ReadOK
<1>4. CASE CallbackFails
  <2>1. reply' = "IOERR"
    BY <1>4 DEF CallbackFails
  <2> QED  BY <2>1 DEF ReadOK
<1>5. CASE bius_dev_write
  <2>1. /\ pc = "replying" /\ i' = 0 /\ pc' = (IF reply = "OK" /\ request.dir = "READ" THEN "copying" ELSE "unmapping")
        /\ UNCHANGED <<mem, ptes, reserved, request, user_page_num, k2u, reply, disk>>
    BY <1>5 DEF bius_dev_write, window, mapLoop, server
  <2> QED  BY <2>1 DEF ReadOK, Fetched, WholeSeg, R
<1>6. CASE CopyEntry
  <2>1. pc = "copying" /\ pc' = "copying" /\ UNCHANGED <<request, k2u, reply>>
    BY <1>6 DEF CopyEntry, server
  <2>2. SUFFICES ASSUME request.dir = "READ", reply = "OK", k2u.type = "SIMPLE"
                 PROVE  i' = 1 /\ InPlace'
    BY <2>1 DEF ReadOK
  <2>3. request.type = "SIMPLE"
    BY <2>1, <2>2 DEF MapInv, MappedOK, Serving
  <2>4. i = 0
    BY <1>6, <2>3, CopySimple
  <2>5. Fetched(user_page_num)
    BY <2>1, <2>2, <2>4 DEF ReadOK
  <2> QED  BY <1>6, <2>3, <2>5, CopyDelivers
<1>7. CASE bius_unmap_data
  <2>1. /\ pc = "unmapping" \/ (pc = "copying" /\ CopyList(2 * i) = 0)
        /\ pc' = "idle" /\ request' = [request EXCEPT !.type = "UNMAPPED"]
        /\ UNCHANGED <<mem, k2u, reply, disk>>
    BY <1>7 DEF bius_unmap_data, server
  <2>2. request'.segs = request.segs /\ request'.dir = request.dir /\ request'.pos = request.pos
    BY <2>1 DEF MapInv, TypeOK
  <2>3. SUFFICES ASSUME request.dir = "READ", reply = "OK", k2u.type = "SIMPLE"
                 PROVE  InPlace'
    BY <2>1, <2>2 DEF ReadOK
  <2>4. pc = "copying" /\ CopyList(2 * i) = 0
    BY <2>1, <2>3 DEF ReadOK
  <2>5. pc \in Serving /\ request.type = "SIMPLE"
    BY <2>3, <2>4 DEF MapInv, MappedOK, Serving
  <2>6. i # 0
    <3> SUFFICES ASSUME i = 0 PROVE FALSE
      OBVIOUS
    <3>1. CopyList(0) = vm_start + request.data
      BY <2>5 DEF CopyList
    <3>2. request.data \in Nat /\ PAGE_SIZE \in Nat /\ PAGE_SIZE > 0
      BY Sizes DEF MapInv, TypeOK
    <3> QED  BY <2>4, <3>1, <3>2 DEF vm_start
  <2>7. InPlace
    BY <2>3, <2>4, <2>6 DEF ReadOK
  <2> QED  BY <2>1, <2>2, <2>7 DEF InPlace, ByteNo
<1>8. CASE UNCHANGED vars
  <2>1. UNCHANGED <<mem, ptes, reserved, request, user_page_num, i, k2u, pc, reply, disk>>
    BY <1>8 DEF vars, window, mapLoop, copyLoop, server
  <2> QED  BY <2>1 DEF ReadOK, Fetched, InPlace, WholeSeg, R
<1>9. ~SendCommandFailed /\ ~ReplyRefused
  BY DEF SendCommandFailed, ReplyRefused
<1> QED  BY <1>1, <1>2, <1>3, <1>4, <1>5, <1>6, <1>7, <1>8, <1>9 DEF Next

LEMMA ReadIsDelivered == MapInv /\ ReadOK => SimpleReadsDelivered
<1> SUFFICES ASSUME MapInv, ReadOK, pc = "idle", request.dir = "READ", reply = "OK", k2u.type = "SIMPLE"
             PROVE  Delivered
  BY DEF SimpleReadsDelivered, Completed
<1> DEFINE l == request.segs
<1>1. l \in Layouts /\ InPlace
  BY DEF MapInv, RequestOK, ReadOK
<1>2. ASSUME NEW s \in 1 .. Len(l), NEW p \in Pos, Covers(l[s], p)
      PROVE  mem[l[s].pg][p] = disk[Place(l[s], p)]
  BY <1>1, <1>2, PlaceIs DEF InPlace
<1> QED  BY <1>2 DEF Delivered, Segment

\* When the segments of no request overlap: a read through a simple map that succeeds has the disk's bytes
\* in its pages, those that the server wrote itself and those that bius_copy_in_misaligned_pages copied at
\* the front and at the end.
THEOREM SimpleReadsAreDelivered ==
  ASSUME SegmentsApart
  PROVE  Spec => []SimpleReadsDelivered
<1> DEFINE I == DataMapInv /\ (~stale => ReadOK)
<1>1. Init => I
  <2>1. Init => ReadOK
    BY DEF Init, ReadOK, Idle
  <2> QED  BY <2>1, InitMap
<1>2. I /\ [Next]_vars => I'
  <2> SUFFICES ASSUME I, [Next]_vars
               PROVE  I'
    OBVIOUS
  <2>1. DataMapInv'
    BY NextDataMap
  <2>2. ASSUME ~stale'
        PROVE  ReadOK'
    <3>1. ~stale
      BY <2>2, StaleStays
    <3>2. MapInv /\ ReadOK
      BY <3>1 DEF DataMapInv, StaleOK
    <3> QED  BY <2>2, <3>1, <3>2, NextRead
  <2> QED  BY <2>1, <2>2
<1>3. I => SimpleReadsDelivered
  <2>1. StaleOK => SimpleReadsDelivered
    BY DEF StaleOK, SimpleReadsDelivered, Completed
  <2> QED  BY <2>1, ReadIsDelivered DEF DataMapInv
<1> HIDE DEF I
<1> QED  BY <1>1, <1>2, <1>3, PTL DEF Spec
=============================================================================
