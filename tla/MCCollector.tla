----------------------------- MODULE MCCollector -----------------------------
(* Two feeds on one host and a connector whose schedule does not parse.         *)
EXTENDS Collector

CONSTANTS feed, news, broken, host

Feeds == {feed, news}
Broken == {broken}
Serves == [c \in Feeds |-> IF c = feed THEN 2 ELSE 1]
Hosts == [c \in Feeds \cup Broken |-> host]
==============================================================================
