----------------------------- MODULE MCAiGateway -----------------------------
(* A caller of P0 and P1 calls and a background caller, P3, of one run; one      *)
(* permit of each kind.                                                     *)
EXTENDS AiGateway

CONSTANTS a, b, run, system

MCSlots == {a, b}
MCPrios == [x \in MCSlots |-> IF x = a THEN {0, 1} ELSE {3}]
MCRuns == {run}
MCAccounts == [x \in MCSlots |-> IF x = a THEN {run, system} ELSE {run}]
MCRatio == [s \in Signals |-> [v \in 1 .. 3 |-> 25 * v]]
MCQueueAt == [v \in 1 .. 3 |-> v + 1]
MCOutcomes == {[status |-> "ok", latency |-> 0], [status |-> "429", latency |-> 0]}
==============================================================================
