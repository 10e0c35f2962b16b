--------------------------- MODULE MCBiusRegistry ---------------------------
(***************************************************************************)
(* BiusRegistry for TLC: servers a and b share a name, server c has its    *)
(* own.                                                                    *)
(***************************************************************************)
EXTENDS BiusRegistry

SharedNames == [s \in Server |-> IF s \in {"a", "b"} THEN "disk1" ELSE "disk2"]
=============================================================================
