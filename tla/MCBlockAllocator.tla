-------------------------- MODULE MCBlockAllocator --------------------------
(* Words of three bits, so that runs cross word boundaries, and disk blocks *)
(* of three bits, so that a bitmap takes two writes.                        *)
EXTENDS BlockAllocator
=============================================================================
