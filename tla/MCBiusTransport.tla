-------------------------- MODULE MCBiusTransport --------------------------
(***************************************************************************)
(* BiusTransport for TLC. Tags are interchangeable; connections are not,   *)
(* because one of them is the creator. The runs with liveness properties   *)
(* do without symmetry.                                                    *)
(***************************************************************************)
EXTENDS BiusTransport, TLC

Symmetry == Permutations(Slot)
=============================================================================
