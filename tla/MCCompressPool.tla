--------------------------- MODULE MCCompressPool ---------------------------
(* Two workers and one submitter; what the batches are is the question each *)
(* run asks.                                                                *)
EXTENDS CompressPool

MCOneBatch    == <<2>>
MCTwoBatches  == <<1, 1>>
MCShortThenLong == <<1, 3>>
=============================================================================
