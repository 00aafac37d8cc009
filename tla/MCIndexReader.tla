--------------------------- MODULE MCIndexReader ---------------------------
(***************************************************************************)
(* Instances of IndexReader for TLC: a page of three entries, batches of   *)
(* four, at most three entries of one timestamp.                           *)
(***************************************************************************)
EXTENDS IndexReader
=============================================================================
