---------------------------- MODULE MCZonedServer ----------------------------
(***************************************************************************)
(* ZonedServer for TLC. The threads are model values without symmetry,     *)
(* which a liveness property does not allow.                               *)
(***************************************************************************)
EXTENDS ZonedServer
=============================================================================
