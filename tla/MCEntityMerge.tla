---------------------------- MODULE MCEntityMerge ----------------------------
(* EntityMerge on a small instance: a, b and c all relate to x, and a to b. *)
EXTENDS EntityMerge, TLC

CONSTANTS a, b, c, x, ax, bx, cx, ab, q1, q2

FourEntities == {a, b, c, x}
Edge(s, d) == [src |-> s, dst |-> d, count |-> 1]

\* Evidence ids are the ids of the relationships they were written for; every
\* entity but x has an alias with its own name.
WithLoop == {ax, bx, cx, ab}
WithLoopRel == [i \in WithLoop |->
  CASE i = ax -> Edge(a, x) [] i = bx -> Edge(b, x) [] i = cx -> Edge(c, x) [] OTHER -> Edge(a, b)]
Self(S) == [i \in S |-> i]
WithLoopEvidence == Self(WithLoop)

Aliases == {a, b, c}
AliasOwner == Self(Aliases)

\* Requests differ only by their names.
TwoRequests == {q1, q2}
RequestSymmetry == Permutations(TwoRequests)
==============================================================================
