------------------------- MODULE MCDeadLetterWorker --------------------------
(* DeadLetterWorker on a small instance. *)
EXTENDS DeadLetterWorker

CONSTANT p1

OnePartition == {p1}
==============================================================================
