--------------------------- MODULE MCBatchIndexer ----------------------------
(* BatchIndexer on a small instance. *)
EXTENDS BatchIndexer

CONSTANT p1

OnePartition == {p1}
==============================================================================
