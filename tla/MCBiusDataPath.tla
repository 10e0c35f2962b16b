--------------------------- MODULE MCBiusDataPath ---------------------------
(***************************************************************************)
(* BiusDataPath for TLC: every way to split a chunk of Chunk bytes into    *)
(* segments, and these into bios.                                          *)
(***************************************************************************)
EXTENDS BiusDataPath

AllLayouts ==
  {l \in [segs : SUBSET Index, bios : SUBSET Index] :
     l.bios \subseteq l.segs /\ Chunk \in l.bios}
=============================================================================
