---------------------------- MODULE MCFatOverlap ----------------------------
(* FatOverlap on the volume diskfs.c formats, its first 1018 clusters used. *)
EXTENDS FatOverlap
=============================================================================
