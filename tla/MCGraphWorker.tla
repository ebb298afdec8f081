---------------------------- MODULE MCGraphWorker ----------------------------
(* GraphWorker on small instances. *)
EXTENDS GraphWorker

CONSTANTS e1, d1   \* an Entity-Entity relationship and a Document-Entity one

TwoRelationships == {e1, d1}
Documents == {d1}

FewDocumentWrites == [p \in TwoRelationships |-> IF p = d1 THEN 1 ELSE 3]
==============================================================================
