---------------------------- MODULE MCAutoApproval ----------------------------
(* 1 and 2 match by domain, with a high score, and by alias; 1 and 3 by alias,    *)
(* middling; 2 and 4, of another type, by name.  An import brings 2 and 1, the     *)
(* API resolves 1.                                                          *)
EXTENDS AutoApproval

CONSTANTS stix, api, null

MCEntityIds == 1 .. 4
MCTypeOf == [e \in MCEntityIds |-> IF e = 4 THEN "domain" ELSE "person"]
MCMatches == {[pair |-> {1, 2}, method |-> "domain", score |-> 9],
              [pair |-> {1, 2}, method |-> "alias", score |-> 3],
              [pair |-> {1, 3}, method |-> "alias", score |-> 6],
              [pair |-> {2, 4}, method |-> "name", score |-> 9]}
MCSessions == {stix, api}
MCImports == {stix}
MCTodo == [s \in MCSessions |-> IF s = stix THEN <<2, 1>> ELSE <<1>>]
==============================================================================
