--------------------------- MODULE MCBiusTeardown ---------------------------
(***************************************************************************)
(* BiusTeardown for TLC. Tags and connections are model values without     *)
(* symmetry, which a liveness property does not allow.                     *)
(***************************************************************************)
EXTENDS BiusTeardown
=============================================================================
