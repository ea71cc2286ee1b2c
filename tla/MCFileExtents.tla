---------------------------- MODULE MCFileExtents ----------------------------
(* Groups of two blocks, one or two extents in an inode: files of three     *)
(* blocks then have full and partial groups, plain extents that cross group *)
(* boundaries, and extents in the overflow tree.                            *)
EXTENDS FileExtents

MCSymmetry == Permutations(Files)
=============================================================================
