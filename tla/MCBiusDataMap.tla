--------------------------- MODULE MCBiusDataMap ---------------------------
(***************************************************************************)
(* BiusDataMap for TLC: every way to lay one or two segments over pages of *)
(* three sectors, without overlap, and three segments on a page each of    *)
(* which the middle one fills its page and the outer ones reach an edge.   *)
(***************************************************************************)
EXTENDS BiusDataMap, SequencesExt

Segments == {s \in [pg : 1 .. 3, off : 0 .. 2, len : 1 .. 3] : s.off + s.len <= 3}
Apart(s, t) == s.pg # t.pg \/ s.off + s.len <= t.off \/ t.off + t.len <= s.off
LayoutsOf(n) == {l \in [1 .. n -> Segments] :
  /\ \A j \in 1 .. n : l[j].pg <= j
  /\ \A j, k \in 1 .. n : j # k => Apart(l[j], l[k])}

UpToTwo == LayoutsOf(1) \cup LayoutsOf(2)
AroundAPage == {l \in LayoutsOf(3) :
  /\ l[2].len = 3 /\ \A j \in 1 .. 3 : l[j].pg = j
  /\ \A j \in {1, 3} : l[j].off = 0 \/ l[j].off + l[j].len = 3}

\* A layout with the place of each segment in the request.
Placed(l) == [j \in DOMAIN l |->
  [pg |-> l[j].pg, off |-> l[j].off, len |-> l[j].len,
   at |-> FoldLeft(LAMBDA n, s : n + s.len, 0, SubSeq(l, 1, j - 1))]]
AllLayouts == {Placed(l) : l \in UpToTwo \cup AroundAPage}

\* Reserved pages and lists that hold zeros, or ones and addresses.
ZerosOrOnes == {[reserved |-> [k \in Reserved |-> [p \in Pos |-> junk]],
                 list |-> [j \in ListIndex |-> junk * vm_start]] : junk \in {0, 1}}
=============================================================================
