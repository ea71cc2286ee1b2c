---------------------------- MODULE MCDedupBlocks ----------------------------
(* Blocks of two sectors: with five sectors a call fills up blocks, ends    *)
(* inside one and resumes it later.                                         *)
EXTENDS DedupBlocks, TLC

MCBlocks == 1 .. 4
MCSymmetry == Permutations(Sectors) \cup Permutations(Handles)
=============================================================================
