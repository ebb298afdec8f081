----------------------------- MODULE MCJobService ----------------------------
(* JobService on small instances.  Operators differ only by their name. *)
EXTENDS JobService, TLC

CONSTANTS j1, o1, o2, w

OneExport == {j1}
TwoOperators == {o1, o2}
OperatorSymmetry == Permutations(TwoOperators)

\* POST /jobs/{id}/transition takes any status.
AnyRequest == Statuses \cup {"retry", "dispatch"}
==============================================================================
