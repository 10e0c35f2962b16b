--------------------------- MODULE MCZonedCommon ---------------------------
(***************************************************************************)
(* ZonedCommon for TLC. Threads are interchangeable.                       *)
(***************************************************************************)
EXTENDS ZonedCommon, TLC

Symmetry == Permutations(Thread)
=============================================================================
