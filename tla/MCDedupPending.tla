--------------------------- MODULE MCDedupPending ---------------------------
(* Three hashes, of one sector size or of two; batches of one or two. *)
EXTENDS DedupPending

MCHashes  == 1 .. 3
MCOneSize == [h \in MCHashes |-> 512]
MCTwoSizes == [h \in MCHashes |-> IF h = 2 THEN 2048 ELSE 512]
=============================================================================
