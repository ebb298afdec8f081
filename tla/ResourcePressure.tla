--------------------------- MODULE ResourcePressure ---------------------------
(***************************************************************************)
(* ObservedPressure (ai-gateway/src/pressure.rs): a window of the last        *)
(* attempts' classes and latencies and the depth of the admission queue give   *)
(* a level, which rises at once and falls one step per cooldown.              *)
(*                                                                         *)
(* A sample's latency is the severity of the thresholds it meets, 0 to 3; as   *)
(* the thresholds ascend, the 95th percentile of the severities is the         *)
(* severity of the 95th percentile.  Times are ages, so that time is unbounded   *)
(* and the state is not.                                                    *)
(***************************************************************************)
EXTENDS Integers, Sequences, FiniteSets

CONSTANTS Window,      \* thresholds.window
          Cooldown,    \* thresholds.cooldown
          MinSamples,  \* thresholds.min_samples
          MaxSamples,  \* MAX_SAMPLES
          Ratio,       \* class -> severity -> percent of the samples
          QueueAt      \* severity -> depth of the queue

Severity == 0 .. 3
Normal == 0
Classes == {"ok", "rate_limited", "timeout", "server_error", "other"}
Signals == {"rate_limited", "timeout", "server_error"}

ASSUME PressureAssumption ==
  /\ Window \in Nat /\ Cooldown \in Nat
  /\ MinSamples \in Nat \ {0} /\ MaxSamples \in Nat \ {0}
  /\ Ratio \in [Signals -> [1 .. 3 -> 1 .. 100]]
  /\ QueueAt \in [1 .. 3 -> Nat]

VARIABLES samples,     \* age, latency, class, oldest first
          level,
          since        \* time since last_change, as far as the cooldown looks

pressure == <<samples, level, since>>

Quiet ==
  /\ samples = << >>
  /\ level = Normal
  /\ since = 0

Sample == [age : 0 .. Window, latency : Severity, class : Classes]

\* percentile95: index ceil(0.95 n) of the sorted latencies.
Percentile95(S) ==
  LET n == Len(S)
      index == (95 * n + 99) \div 100
      below(v) == {i \in 1 .. n : S[i].latency <= v}
  IN CHOOSE v \in Severity :
       /\ Cardinality(below(v)) >= index
       /\ v > 0 => Cardinality(below(v - 1)) < index

Meets(S, queue, v) ==
  \/ Percentile95(S) >= v
  \/ \E c \in Signals :
       100 * Cardinality({i \in DOMAIN S : S[i].class = c}) >= Ratio[c][v] * Len(S)
  \/ queue >= QueueAt[v]

\* raw_level: the highest level one of whose thresholds is met.
RawLevel(S, queue) ==
  LET met == {v \in 1 .. 3 : Len(S) >= MinSamples /\ Meets(S, queue, v)}
  IN CHOOSE v \in met \cup {Normal} : \A w \in met : w <= v

\* record
Record(class, latency) ==
  LET all == Append(samples, [age |-> 0, latency |-> latency, class |-> class])
  IN samples' = SubSeq(all, IF Len(all) > MaxSamples THEN Len(all) - MaxSamples + 1 ELSE 1, Len(all))


\* apply_hysteresis, step_down
Hysteresis(raw) ==
  \/ /\ raw > level
     /\ level' = raw /\ since' = 0
  \/ /\ raw < level /\ since >= Cooldown
     /\ level' = level - 1 /\ since' = 0
  \/ /\ ~(raw > level) /\ ~(raw < level /\ since >= Cooldown)
     /\ UNCHANGED <<level, since>>

\* Time passes.  prune, which every reader of the samples calls first, is done
\* here.
Pass ==
  /\ samples' = LET live == {i \in DOMAIN samples : samples[i].age < Window}
                    first == IF live = {} THEN Len(samples) + 1 ELSE CHOOSE i \in live : \A j \in live : i <= j
                IN [i \in 1 .. (Len(samples) + 1 - first) |->
                      [samples[i + first - 1] EXCEPT !.age = @ + 1]]
  /\ since' = IF since < Cooldown THEN since + 1 ELSE since
  /\ UNCHANGED level
==============================================================================
