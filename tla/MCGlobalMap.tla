----------------------------- MODULE MCGlobalMap -----------------------------
(***************************************************************************)
(* GlobalMap with three chunks, one of them at negative positions.         *)
(***************************************************************************)
EXTENDS GlobalMap

MCCells == -2 .. 2
=============================================================================
