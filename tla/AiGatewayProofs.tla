--------------------------- MODULE AiGatewayProofs ---------------------------
(***************************************************************************)
(* The quota and the semaphores of the AI gateway, for any number of       *)
(* callers, runs and permits.  Everything that is counted is counted       *)
(* against where the calls are: a step moves one call, so that every set   *)
(* of calls the counters are compared with gains or loses at most that     *)
(* one.                                                                    *)
(***************************************************************************)
EXTENDS AiGateway, FiniteSetTheorems, WellFoundedInduction, TLAPS

Payers == Runs \cup {System}
Waits == {"up", "admit", "queued", "leave"}
N == Cardinality(Slots)

\* What a call holds where it is.
Entering == [pc : {"up", "admit", "queued"}, prio : 1 .. 4, run : Payers, n : 0 .. N]
Departing == [pc : {"leave", "down"}, prio : 1 .. 4, run : Payers, go : {"idle", "limits"}, n : 0 .. N]
Admitted == [pc : Past, prio : 0 .. 4, run : Payers, attempt : Nat]
Calls == {Idle} \cup Entering \cup Departing \cup Admitted

CallInv ==
  /\ call \in [Slots -> Calls]
  /\ \A c \in Slots : call[c].pc = "daily" => call[c].run \in Runs

\* q is the members of S, each once.
IsQueue(q, S) ==
  /\ q \in Seq(Slots)
  /\ \A i, j \in DOMAIN q : q[i] = q[j] => i = j
  /\ {q[i] : i \in DOMAIN q} = S

QueueInv == IsQueue(sharedQ, At({"queued"})) /\ IsQueue(httpQ, At({"send"}))

PermitInv ==
  /\ Cardinality(P0Held) <= P0Capacity
  /\ Cardinality(SharedHeld) <= SharedCapacity
  /\ Cardinality(HttpHeld) <= MaxConcurrent

WaiterInv == waiters = Cardinality(At(Waits)) /\ depth \in 0 .. N

\* prune stops at the first sample it keeps: it may, because none after it is older.
OldestFirst(S) == \A i, j \in 1 .. Len(S) : i <= j => S[j].age <= S[i].age

PressureInv ==
  /\ samples \in Seq(Sample) /\ Len(samples) <= MaxSamples
  /\ OldestFirst(samples)
  /\ level \in Severity
  /\ since \in 0 .. Cooldown

\* The calls of run r that try_consume is deciding.
Deciding(r) == {c \in At({"daily"}) : call[c].run = r}

QuotaInv ==
  /\ perRun \in [Runs -> Nat] /\ granted \in [Runs -> Nat] /\ leaked \in [Runs -> Nat]
  /\ used \in Nat /\ today \in Nat /\ lost \in Nat
  /\ \A r \in Runs : /\ perRun[r] = granted[r] + leaked[r] + Cardinality(Deciding(r))
                     /\ perRun[r] <= MaxPerRun
  /\ used <= DailyBudget
  /\ used = today + lost

IInv == CallInv /\ QueueInv /\ PermitInv /\ WaiterInv /\ PressureInv /\ QuotaInv

------------------------------------------------------------------------------
(* Queues. *)

\* Someone new lines up at the end.
LEMMA QueueAppend ==
  ASSUME NEW q, NEW S, IsQueue(q, S), NEW c \in Slots, c \notin S
  PROVE  IsQueue(Append(q, c), S \cup {c})
<1>1. q \in Seq(Slots) /\ Len(q) \in Nat /\ DOMAIN q = 1 .. Len(q)
  BY DEF IsQueue
<1>2. /\ Append(q, c) \in Seq(Slots)
      /\ DOMAIN Append(q, c) = 1 .. Len(q) + 1
      /\ \A i \in 1 .. Len(q) : Append(q, c)[i] = q[i]
      /\ Append(q, c)[Len(q) + 1] = c
  BY <1>1
<1>3. \A i \in 1 .. Len(q) : q[i] \in S
  BY <1>1 DEF IsQueue
<1>4. \A i, j \in DOMAIN Append(q, c) : Append(q, c)[i] = Append(q, c)[j] => i = j
  BY <1>1, <1>2, <1>3 DEF IsQueue
<1>5. \A x \in S : \E i \in 1 .. Len(q) : q[i] = x
  BY <1>1 DEF IsQueue
<1>6. {Append(q, c)[i] : i \in DOMAIN Append(q, c)} = S \cup {c}
  BY <1>1, <1>2, <1>3, <1>5
<1> QED BY <1>2, <1>4, <1>6 DEF IsQueue

\* The first in line is served.
LEMMA QueueTail ==
  ASSUME NEW q, NEW S, IsQueue(q, S), NEW c \in S, c = Head(q)
  PROVE  IsQueue(Tail(q), S \ {c})
<1>1. q \in Seq(Slots) /\ Len(q) \in Nat /\ DOMAIN q = 1 .. Len(q)
  BY DEF IsQueue
<1>2. Len(q) > 0
  BY <1>1 DEF IsQueue
<1>3. /\ Tail(q) \in Seq(Slots)
      /\ DOMAIN Tail(q) = 1 .. Len(q) - 1
      /\ \A i \in 1 .. Len(q) - 1 : Tail(q)[i] = q[i + 1]
      /\ c = q[1]
  BY <1>1, <1>2
<1>4. \A i, j \in DOMAIN q : q[i] = q[j] => i = j
  BY DEF IsQueue
<1>5. \A i, j \in DOMAIN Tail(q) : Tail(q)[i] = Tail(q)[j] => i = j
  <2> SUFFICES ASSUME NEW i \in 1 .. Len(q) - 1, NEW j \in 1 .. Len(q) - 1, q[i + 1] = q[j + 1]
               PROVE  i = j
    BY <1>3
  <2>1. i + 1 \in DOMAIN q /\ j + 1 \in DOMAIN q
    BY <1>1
  <2>2. i + 1 = j + 1
    BY <1>4, <2>1
  <2> QED BY <2>2
<1>6. \A x \in S : \E i \in 1 .. Len(q) : q[i] = x
  BY <1>1 DEF IsQueue
<1>7. \A i \in 1 .. Len(q) : q[i] \in S
  BY <1>1 DEF IsQueue
<1>8. ASSUME NEW x \in S \ {c} PROVE \E i \in DOMAIN Tail(q) : Tail(q)[i] = x
  <2>1. PICK i \in 1 .. Len(q) : q[i] = x
    BY <1>6
  <2>2. i # 1
    BY <1>3, <2>1
  <2>3. i - 1 \in 1 .. Len(q) - 1 /\ Tail(q)[i - 1] = q[(i - 1) + 1] /\ (i - 1) + 1 = i
    BY <1>1, <1>3, <2>2
  <2> QED BY <1>3, <2>1, <2>3
<1>9. ASSUME NEW i \in DOMAIN Tail(q) PROVE Tail(q)[i] \in S \ {c}
  <2>1. i + 1 \in DOMAIN q /\ 1 \in DOMAIN q /\ i + 1 # 1
    BY <1>1, <1>2, <1>3
  <2>2. q[i + 1] # c
    BY <1>3, <1>4, <2>1
  <2> QED BY <1>1, <1>3, <1>7, <2>1, <2>2
<1>10. {Tail(q)[i] : i \in DOMAIN Tail(q)} = S \ {c}
  BY <1>8, <1>9
<1> QED BY <1>3, <1>5, <1>10 DEF IsQueue

\* Someone drops out, wherever they stood.
LEMMA QueueWithout ==
  ASSUME NEW q, NEW S, IsQueue(q, S), NEW c
  PROVE  IsQueue(Without(q, c), S \ {c})
<1>1. q \in Seq(Slots) /\ Len(q) \in Nat /\ DOMAIN q = 1 .. Len(q)
  BY DEF IsQueue
<1>2. \A i, j \in DOMAIN q : q[i] = q[j] => i = j
  BY DEF IsQueue
<1>3. \A i \in DOMAIN q : q[i] \in S /\ q[i] \in Slots
  BY <1>1 DEF IsQueue
<1>4. \A x \in S : \E i \in DOMAIN q : q[i] = x
  BY DEF IsQueue
<1>5. CASE ~\E i \in DOMAIN q : q[i] = c
  <2>1. c \notin S /\ Without(q, c) = q
    BY <1>4, <1>5 DEF Without
  <2>2. S \ {c} = S
    BY <2>1
  <2> QED BY <2>1, <2>2
<1>6. CASE \E i \in DOMAIN q : q[i] = c
  <2>1. PICK at : at = CHOOSE i \in DOMAIN q : q[i] = c
    OBVIOUS
  <2>2. at \in DOMAIN q /\ q[at] = c
    BY <1>6, <2>1
  <2> DEFINE w == Without(q, c)
  <2>3. w = [i \in 1 .. Len(q) - 1 |-> IF i < at THEN q[i] ELSE q[i + 1]]
    BY <1>6, <2>1 DEF Without
  <2>4. at \in 1 .. Len(q) /\ Len(q) - 1 \in Nat
    BY <1>1, <2>2
  <2> HIDE DEF w
  <2>5. /\ DOMAIN w = 1 .. Len(q) - 1
        /\ \A i \in 1 .. Len(q) - 1 : w[i] = IF i < at THEN q[i] ELSE q[i + 1]
    BY <2>3
  <2>6. \A i \in 1 .. Len(q) - 1 : i \in DOMAIN q /\ i + 1 \in DOMAIN q
    BY <1>1
  <2>7. \A i \in 1 .. Len(q) - 1 : w[i] \in S \ {c} /\ w[i] \in Slots
    BY <1>2, <1>3, <2>2, <2>4, <2>5, <2>6
  <2>8. w \in Seq(Slots)
    <3>1. w \in [1 .. Len(q) - 1 -> Slots]
      BY <2>3, <2>5, <2>7
    <3> QED BY <2>4, <3>1
  <2>9. ASSUME NEW i \in DOMAIN w, NEW j \in DOMAIN w, w[i] = w[j] PROVE i = j
    <3>1. PICK a \in DOMAIN q : a = (IF i < at THEN i ELSE i + 1) /\ w[i] = q[a]
      BY <2>5, <2>6
    <3>2. PICK b \in DOMAIN q : b = (IF j < at THEN j ELSE j + 1) /\ w[j] = q[b]
      BY <2>5, <2>6
    <3>3. a = b
      BY <1>2, <2>9, <3>1, <3>2
    <3> QED BY <2>4, <2>5, <3>1, <3>2, <3>3
  <2>10. ASSUME NEW x \in S \ {c} PROVE \E i \in DOMAIN w : w[i] = x
    <3>1. PICK a \in DOMAIN q : q[a] = x
      BY <1>4
    <3>2. a # at /\ a \in 1 .. Len(q)
      BY <1>1, <2>2, <3>1
    <3>3. CASE a < at
      BY <2>4, <2>5, <3>1, <3>2, <3>3
    <3>4. CASE a > at
      <4>1. a - 1 \in 1 .. Len(q) - 1 /\ ~(a - 1 < at) /\ (a - 1) + 1 = a
        BY <1>1, <2>4, <3>2, <3>4
      <4>2. w[a - 1] = q[(a - 1) + 1]
        BY <2>5, <4>1
      <4> QED BY <2>5, <3>1, <4>1, <4>2
    <3> QED BY <2>4, <3>2, <3>3, <3>4
  <2>11. {w[i] : i \in DOMAIN w} = S \ {c}
    BY <2>5, <2>7, <2>10
  <2> QED BY <2>8, <2>9, <2>11 DEF IsQueue, w
<1> QED BY <1>5, <1>6

------------------------------------------------------------------------------
(* What moving one call does to the sets that are counted. *)

HoldsP0(x) == x.pc \in Past /\ x.prio = 0
HoldsShared(x) == (x.pc \in {"leave", "down"} /\ x.go # "idle") \/ (x.pc \in Past /\ x.prio > 0)
Decides(x, r) == x.pc = "daily" /\ x.run = r

\* Every such set gains or loses the call that moved, and nothing else.
LEMMA Moved ==
  ASSUME CallInv, NEW c \in Slots, NEW x, call' = [call EXCEPT ![c] = x]
  PROVE  /\ \A P : At(P)' = IF x.pc \in P THEN At(P) \cup {c} ELSE At(P) \ {c}
         /\ P0Held' = IF HoldsP0(x) THEN P0Held \cup {c} ELSE P0Held \ {c}
         /\ SharedHeld' = IF HoldsShared(x) THEN SharedHeld \cup {c} ELSE SharedHeld \ {c}
         /\ \A r : Deciding(r)' = IF Decides(x, r) THEN Deciding(r) \cup {c} ELSE Deciding(r) \ {c}
<1>1. call'[c] = x /\ \A d \in Slots : d # c => call'[d] = call[d]
  BY DEF CallInv
<1>2. ASSUME NEW P
      PROVE  At(P)' = IF x.pc \in P THEN At(P) \cup {c} ELSE At(P) \ {c}
  BY <1>1 DEF At
<1>3. P0Held' = IF HoldsP0(x) THEN P0Held \cup {c} ELSE P0Held \ {c}
  BY <1>1 DEF P0Held, HoldsP0, At
<1>4. SharedHeld' = IF HoldsShared(x) THEN SharedHeld \cup {c} ELSE SharedHeld \ {c}
  BY <1>1 DEF SharedHeld, HoldsShared, Leaving
<1>5. ASSUME NEW r
      PROVE  Deciding(r)' = IF Decides(x, r) THEN Deciding(r) \cup {c} ELSE Deciding(r) \ {c}
  BY <1>1 DEF Deciding, Decides, At
<1> QED BY <1>2, <1>3, <1>4, <1>5

\* Counting a set follows one member that comes or goes.
Counted(S, c) ==
  /\ Cardinality(S) \in Nat /\ Cardinality(S) <= N /\ N \in Nat
  /\ c \in S => /\ Cardinality(S) > 0
                /\ Cardinality(S \cup {c}) = Cardinality(S)
                /\ Cardinality(S \ {c}) = Cardinality(S) - 1
  /\ c \notin S => /\ Cardinality(S) < N
                   /\ Cardinality(S \cup {c}) = Cardinality(S) + 1
                   /\ Cardinality(S \ {c}) = Cardinality(S)

\* So it is for sets of slots.
LEMMA Counting ==
  ASSUME NEW S \in SUBSET Slots, NEW c \in Slots
  PROVE  Counted(S, c)
<1>1. IsFiniteSet(Slots) /\ N \in Nat
  BY GatewayAssumption, FS_CardinalityType DEF N
<1>2. IsFiniteSet(S) /\ Cardinality(S) \in Nat /\ Cardinality(S) <= N
  BY <1>1, FS_Subset, FS_CardinalityType DEF N
<1>3. Cardinality(S \cup {c}) = IF c \in S THEN Cardinality(S) ELSE Cardinality(S) + 1
  BY <1>2, FS_AddElement
<1>4. Cardinality(S \ {c}) = IF c \in S THEN Cardinality(S) - 1 ELSE Cardinality(S)
  BY <1>2, FS_RemoveElement
<1>5. c \in S => Cardinality(S) > 0
  BY <1>2, FS_EmptySet
<1>6. c \notin S => Cardinality(S) < N
  BY <1>1, <1>2, FS_Subset DEF N
<1> QED BY <1>1, <1>2, <1>3, <1>4, <1>5, <1>6 DEF Counted

\* The sets the counters are compared with.
LEMMA Subsets ==
  /\ \A P : At(P) \in SUBSET Slots
  /\ P0Held \in SUBSET Slots /\ SharedHeld \in SUBSET Slots /\ HttpHeld \in SUBSET Slots
  /\ \A r : Deciding(r) \in SUBSET Slots
BY DEF At, P0Held, SharedHeld, HttpHeld, Deciding

\* No semaphore is oversubscribed if the call that moved takes a permit only while
\* one is free.
LEMMA PermitStep ==
  ASSUME CallInv, PermitInv, NEW c \in Slots, NEW x, call' = [call EXCEPT ![c] = x],
         HoldsP0(x) => HoldsP0(call[c]) \/ Cardinality(P0Held) < P0Capacity,
         HoldsShared(x) => HoldsShared(call[c]) \/ Cardinality(SharedHeld) < SharedCapacity,
         x.pc = "http" => Cardinality(HttpHeld) < MaxConcurrent
  PROVE  PermitInv'
<1>c. P0Capacity \in Nat /\ SharedCapacity \in Nat /\ MaxConcurrent \in Nat
  BY GatewayAssumption
<1>1. HoldsP0(call[c]) => c \in P0Held
  BY DEF HoldsP0, P0Held, At
<1>2. HoldsShared(call[c]) => c \in SharedHeld
  BY DEF HoldsShared, SharedHeld, Leaving
<1>3. Cardinality(P0Held') <= P0Capacity
  <2>1. P0Held' = IF HoldsP0(x) THEN P0Held \cup {c} ELSE P0Held \ {c}
    BY Moved
  <2>2. Counted(P0Held, c)
    BY Subsets, Counting
  <2> QED BY <1>c, <1>1, <2>1, <2>2 DEF PermitInv, Counted
<1>4. Cardinality(SharedHeld') <= SharedCapacity
  <2>1. SharedHeld' = IF HoldsShared(x) THEN SharedHeld \cup {c} ELSE SharedHeld \ {c}
    BY Moved
  <2>2. Counted(SharedHeld, c)
    BY Subsets, Counting
  <2> QED BY <1>c, <1>2, <2>1, <2>2 DEF PermitInv, Counted
<1>5. Cardinality(HttpHeld') <= MaxConcurrent
  <2>1. HttpHeld' = IF x.pc \in {"http"} THEN HttpHeld \cup {c} ELSE HttpHeld \ {c}
    BY Moved DEF HttpHeld
  <2>2. Counted(HttpHeld, c)
    BY Subsets, Counting
  <2> QED BY <1>c, <2>1, <2>2 DEF PermitInv, Counted
<1> QED BY <1>3, <1>4, <1>5 DEF PermitInv

\* admission_waiters follows the call that moved.
LEMMA WaiterStep ==
  ASSUME CallInv, WaiterInv, NEW c \in Slots, NEW x, call' = [call EXCEPT ![c] = x],
         waiters' = waiters + (IF x.pc \in Waits THEN 1 ELSE 0) - (IF call[c].pc \in Waits THEN 1 ELSE 0),
         depth' \in 0 .. N
  PROVE  WaiterInv'
<1>1. At(Waits)' = IF x.pc \in Waits THEN At(Waits) \cup {c} ELSE At(Waits) \ {c}
  BY Moved
<1>2. c \in At(Waits) <=> call[c].pc \in Waits
  BY DEF At
<1>3. At(Waits) \in SUBSET Slots
  BY Subsets
<1>4. waiters' = Cardinality(At(Waits)')
  <2>1. Counted(At(Waits), c)
    BY <1>3, Counting
  <2> QED BY <1>1, <1>2, <2>1 DEF WaiterInv, Counted
<1> QED BY <1>4 DEF WaiterInv, Waits, At

\* A step elsewhere leaves the accounts alone.
LEMMA QuotaStep ==
  ASSUME CallInv, QuotaInv, NEW c \in Slots, NEW x, call' = [call EXCEPT ![c] = x],
         x.pc # "daily", call[c].pc # "daily", UNCHANGED quota
  PROVE  QuotaInv'
<1>1. ASSUME NEW r \in Runs PROVE Deciding(r)' = Deciding(r)
  <2>1. Deciding(r)' = Deciding(r) \ {c}
    BY Moved DEF Decides
  <2>2. c \notin Deciding(r)
    BY DEF Deciding, At
  <2> QED BY <2>1, <2>2
<1>2. \A r \in Runs : perRun'[r] = granted'[r] + leaked'[r] + Cardinality(Deciding(r)')
  BY <1>1 DEF quota, QuotaInv
<1>3. \A r \in Runs : (Cardinality(Deciding(r)))' = Cardinality(Deciding(r)')
  OBVIOUS
<1> QED BY <1>2, <1>3 DEF quota, QuotaInv

------------------------------------------------------------------------------
(* The pressure. *)

\* raw_level is a level.
LEMMA RawSeverity ==
  ASSUME NEW S, NEW d
  PROVE  RawLevel(S, d) \in Severity
<1> DEFINE met == {v \in 1 .. 3 : Len(S) >= MinSamples /\ Meets(S, d, v)}
<1>1. RawLevel(S, d) = CHOOSE v \in met \cup {Normal} : \A w \in met : w <= v
  BY DEF RawLevel
<1>2. \A w \in met : w \in 1 .. 3
  OBVIOUS
<1> HIDE DEF met
<1>3. \E v \in met \cup {Normal} : \A w \in met : w <= v
  <2>1. CASE 3 \in met
    BY <1>2, <2>1
  <2>2. CASE 3 \notin met /\ 2 \in met
    BY <1>2, <2>2
  <2>3. CASE 3 \notin met /\ 2 \notin met /\ 1 \in met
    BY <1>2, <2>3
  <2>4. CASE 3 \notin met /\ 2 \notin met /\ 1 \notin met
    BY <1>2, <2>4
  <2> QED BY <2>1, <2>2, <2>3, <2>4
<1>4. RawLevel(S, d) \in met \cup {Normal}
  BY <1>1, <1>3
<1> QED BY <1>2, <1>4 DEF Severity, Normal

\* apply_hysteresis stays between the lowest and the highest level.
LEMMA HysteresisStep ==
  ASSUME level \in Severity, since \in 0 .. Cooldown, NEW raw \in Severity, Hysteresis(raw)
  PROVE  level' \in Severity /\ since' \in 0 .. Cooldown
BY PressureAssumption DEF Hysteresis, Severity

\* record keeps at most MAX_SAMPLES samples, the new one last.
LEMMA RecordStep ==
  ASSUME samples \in Seq(Sample), Len(samples) <= MaxSamples, OldestFirst(samples),
         NEW class \in Classes, NEW latency \in Severity, Record(class, latency)
  PROVE  samples' \in Seq(Sample) /\ Len(samples') <= MaxSamples /\ OldestFirst(samples')
<1> DEFINE new == [age |-> 0, latency |-> latency, class |-> class]
           all == Append(samples, new)
           first == IF Len(all) > MaxSamples THEN Len(all) - MaxSamples + 1 ELSE 1
<1>1. new \in Sample /\ new.age = 0
  BY PressureAssumption DEF Sample
<1> HIDE DEF new
<1>2. all \in Seq(Sample) /\ Len(all) = Len(samples) + 1 /\ Len(samples) \in Nat
  BY <1>1
<1>3. samples' = SubSeq(all, first, Len(all))
  BY DEF Record, new
<1>a. \A i \in 1 .. Len(samples) : samples[i].age \in Nat
  <2>1. \A i \in 1 .. Len(samples) : samples[i] \in Sample
    OBVIOUS
  <2> QED BY <2>1, PressureAssumption DEF Sample
<1>b. \A i \in 1 .. Len(samples) : all[i] = samples[i]
  BY <1>2
<1>c. all[Len(samples) + 1] = new
  BY <1>2
<1> HIDE DEF all
<1>d. OldestFirst(all)
  BY <1>1, <1>2, <1>a, <1>b, <1>c DEF OldestFirst
<1>4. first \in 1 .. Len(all) /\ Len(all) - first + 1 <= MaxSamples /\ MaxSamples \in Nat
  BY <1>2, PressureAssumption
<1> HIDE DEF first
<1> DEFINE kept == SubSeq(all, first, Len(all))
<1>5. /\ kept \in Seq(Sample)
      /\ Len(kept) = Len(all) - first + 1
      /\ \A i \in 1 .. Len(kept) : kept[i] = all[first + i - 1]
  BY <1>2, <1>4
<1> HIDE DEF kept
<1>6. OldestFirst(kept)
  <2> SUFFICES ASSUME NEW i \in 1 .. Len(kept), NEW j \in 1 .. Len(kept), i <= j
               PROVE  kept[j].age <= kept[i].age
    BY DEF OldestFirst
  <2>1. /\ first + i - 1 \in 1 .. Len(all) /\ first + j - 1 \in 1 .. Len(all)
        /\ first + i - 1 <= first + j - 1
    BY <1>2, <1>4, <1>5
  <2> QED BY <1>d, <1>5, <2>1 DEF OldestFirst
<1> QED BY <1>3, <1>4, <1>5, <1>6 DEF kept

\* A set of naturals has a smallest member.
LEMMA Smallest ==
  ASSUME NEW S \in SUBSET Nat, S # {}
  PROVE  \E m \in S : \A k \in S : m <= k
<1> DEFINE R == {p \in Nat \X Nat : p[1] < p[2]}
<1>1. IsWellFoundedOn(R, Nat)
  BY NatLessThanWellFounded DEF OpToRel
<1> HIDE DEF R
<1>2. PICK m \in S : \A k \in S : ~(<<k, m>> \in R)
  BY <1>1, WFMin
<1>3. \A k \in S : k < m => <<k, m>> \in R
  BY DEF R
<1>4. \A k \in S : k \in Nat /\ m \in Nat
  OBVIOUS
<1>5. \A k \in S : ~(k < m)
  BY <1>2, <1>3
<1>6. \A k \in S : m <= k
  BY <1>4, <1>5
<1> QED BY <1>6

\* Time passing ages the samples and drops those that leave the window.
LEMMA PassStep ==
  ASSUME PressureInv, Pass
  PROVE  PressureInv'
<1> DEFINE live == {i \in DOMAIN samples : samples[i].age < Window}
           first == IF live = {} THEN Len(samples) + 1 ELSE CHOOSE i \in live : \A j \in live : i <= j
           older(s) == [s EXCEPT !.age = @ + 1]
<1>1. samples \in Seq(Sample) /\ Len(samples) \in Nat /\ DOMAIN samples = 1 .. Len(samples)
  BY DEF PressureInv
<1>2. samples' = [i \in 1 .. (Len(samples) + 1 - first) |-> older(samples[i + first - 1])]
  BY DEF Pass
<1>3. first \in 1 .. Len(samples) + 1 /\ (first <= Len(samples) => samples[first].age < Window)
  <2>1. CASE live = {}
    BY <1>1, <2>1
  <2>2. CASE live # {}
    <3>1. live \in SUBSET Nat
      BY <1>1
    <3>2. \E i \in live : \A j \in live : i <= j
      BY <2>2, <3>1, Smallest
    <3>3. first \in live
      BY <2>2, <3>2
    <3> QED BY <1>1, <3>3
  <2> QED BY <2>1, <2>2
<1> HIDE DEF first
<1>4. \A i \in 1 .. Len(samples) : samples[i] \in Sample
  BY <1>1
<1>5. \A s \in Sample : older(s).age = s.age + 1 /\ s.age \in Nat
                        /\ (s.age < Window => older(s) \in Sample)
  BY PressureAssumption DEF Sample
<1> HIDE DEF older
<1>6. PICK n \in Nat : n = Len(samples) + 1 - first /\ n <= Len(samples)
  BY <1>1, <1>3
<1>7. \A i \in 1 .. n : i + first - 1 \in 1 .. Len(samples) /\ first <= i + first - 1 /\ first \in 1 .. Len(samples)
  BY <1>1, <1>3, <1>6
<1>8. \A i \in 1 .. n : samples'[i] = older(samples[i + first - 1])
  BY <1>2, <1>6
<1>9. ASSUME NEW i \in 1 .. n PROVE samples'[i] \in Sample
  <2>1. samples[i + first - 1].age <= samples[first].age /\ samples[first].age < Window
    BY <1>3, <1>7 DEF PressureInv, OldestFirst
  <2>2. samples[i + first - 1] \in Sample /\ samples[first] \in Sample
    BY <1>4, <1>7
  <2>3. samples[i + first - 1].age < Window
    BY <1>5, <2>1, <2>2, PressureAssumption
  <2> QED BY <1>5, <1>8, <2>2, <2>3
<1>10. samples' \in Seq(Sample) /\ Len(samples') = n
  <2>1. samples' \in [1 .. n -> Sample]
    BY <1>2, <1>6, <1>9
  <2> QED BY <2>1
<1>11. OldestFirst(samples')
  <2> SUFFICES ASSUME NEW i \in 1 .. n, NEW j \in 1 .. n, i <= j
               PROVE  samples'[j].age <= samples'[i].age
    BY <1>10 DEF OldestFirst
  <2>1. samples[j + first - 1].age <= samples[i + first - 1].age
    BY <1>1, <1>3, <1>7 DEF PressureInv, OldestFirst
  <2>2. samples[i + first - 1] \in Sample /\ samples[j + first - 1] \in Sample
    BY <1>4, <1>7
  <2> QED BY <1>5, <1>8, <2>1, <2>2
<1>12. n <= MaxSamples /\ MaxSamples \in Nat
  BY <1>1, <1>6, PressureAssumption DEF PressureInv
<1>13. level' \in Severity /\ since' \in 0 .. Cooldown
  BY PressureAssumption DEF Pass, PressureInv
<1> QED BY <1>10, <1>11, <1>12, <1>13 DEF PressureInv

------------------------------------------------------------------------------
(* The steps of a call. *)

\* Where a call is tells what it holds.
LEMMA Shape ==
  ASSUME CallInv, NEW c \in Slots
  PROVE  /\ call[c] \in Calls
         /\ call[c].pc \in {"up", "admit", "queued"} => call[c] \in Entering
         /\ call[c].pc \in {"leave", "down"} => call[c] \in Departing
         /\ call[c].pc \in Past => call[c] \in Admitted
BY DEF CallInv, Calls, Idle, Entering, Departing, Admitted, Past

\* A call that only moves on keeps the rest.
LEMMA GoOnEntering ==
  ASSUME CallInv, NEW c \in Slots, call[c] \in Entering, NEW pc \in {"up", "admit", "queued"}, Goto(c, pc)
  PROVE  \E x \in Entering : /\ call' = [call EXCEPT ![c] = x]
                             /\ x.pc = pc /\ x.prio = call[c].prio /\ x.run = call[c].run
<1> DEFINE x == [call[c] EXCEPT !.pc = pc]
<1>1. x \in Entering /\ x.pc = pc /\ x.prio = call[c].prio /\ x.run = call[c].run
  BY DEF Entering
<1>2. call' = [call EXCEPT ![c] = x]
  BY DEF Goto, CallInv
<1> QED BY <1>1, <1>2

\* So does one that was admitted.
LEMMA GoOnAdmitted ==
  ASSUME CallInv, NEW c \in Slots, call[c] \in Admitted, NEW pc \in Past, Goto(c, pc)
  PROVE  \E x \in Admitted : /\ call' = [call EXCEPT ![c] = x]
                             /\ x.pc = pc /\ x.prio = call[c].prio /\ x.run = call[c].run
<1> DEFINE x == [call[c] EXCEPT !.pc = pc]
<1>1. x \in Admitted /\ x.pc = pc /\ x.prio = call[c].prio /\ x.run = call[c].run
  BY DEF Admitted, Past
<1>2. call' = [call EXCEPT ![c] = x]
  BY DEF Goto, CallInv
<1> QED BY <1>1, <1>2

\* A queue of those at p stays one while nobody comes to p or leaves it.
LEMMA QueueStay ==
  ASSUME CallInv, NEW c \in Slots, NEW x, call' = [call EXCEPT ![c] = x],
         NEW p, x.pc = p <=> call[c].pc = p, NEW q, IsQueue(q, At({p}))
  PROVE  IsQueue(q, At({p})')
<1>1. At({p})' = IF x.pc \in {p} THEN At({p}) \cup {c} ELSE At({p}) \ {c}
  BY Moved
<1>2. c \in At({p}) <=> call[c].pc = p
  BY DEF At
<1>3. At({p})' = At({p})
  BY <1>1, <1>2
<1> QED BY <1>3

\* The pressure is observed elsewhere.
LEMMA PressureStay ==
  ASSUME PressureInv, UNCHANGED pressure
  PROVE  PressureInv'
BY DEF PressureInv, pressure, OldestFirst

\* c may become x: the permits x holds are c's or free.
Permitted(c, x) ==
  /\ x.pc = "daily" => x.run \in Runs
  /\ HoldsP0(x) => HoldsP0(call[c]) \/ Cardinality(P0Held) < P0Capacity
  /\ HoldsShared(x) => HoldsShared(call[c]) \/ Cardinality(SharedHeld) < SharedCapacity
  /\ x.pc = "http" => Cardinality(HttpHeld) < MaxConcurrent

\* admission_waiters goes up when c starts to wait and down when it stops.
Followed(c, x) ==
  waiters' = waiters + (IF x.pc \in Waits THEN 1 ELSE 0) - (IF call[c].pc \in Waits THEN 1 ELSE 0)

\* What a step that moves one call has to respect.
LEMMA CallStep ==
  ASSUME IInv, NEW c \in Slots, NEW x \in Calls, call' = [call EXCEPT ![c] = x],
         Permitted(c, x), Followed(c, x), depth' \in 0 .. N, QueueInv', PressureInv', QuotaInv'
  PROVE  IInv'
<1>1. CallInv'
  BY DEF IInv, CallInv, Permitted
<1>2. PermitInv'
  BY PermitStep DEF IInv, Permitted
<1>3. WaiterInv'
  BY WaiterStep DEF IInv, Followed
<1> QED BY <1>1, <1>2, <1>3 DEF IInv

\* waiters is a number no larger than the slots.
LEMMA WaitersBounded ==
  ASSUME WaiterInv, NEW c \in Slots
  PROVE  /\ waiters \in 0 .. N /\ N \in Nat
         /\ call[c].pc \notin Waits => waiters < N
         /\ call[c].pc \in Waits => waiters > 0
<1>1. Counted(At(Waits), c)
  BY Subsets, Counting
<1>2. c \in At(Waits) <=> call[c].pc \in Waits
  BY DEF At
<1> QED BY <1>1, <1>2 DEF WaiterInv, Counted

\* Facts about the constants, one at a time.
LEMMA Constants ==
  /\ \A c \in Slots : Prios[c] \in SUBSET (0 .. 4) /\ Accounts[c] \in SUBSET Payers
  /\ System \notin Runs
  /\ MaxPerRun \in Nat /\ DailyBudget \in Nat /\ MaxRetries \in Nat
BY GatewayAssumption DEF Payers

\* try_admit_p0 takes a permit that is free.
LEMMA StepAdmitP0 ==
  ASSUME IInv, NEW c \in Slots, NEW r, AdmitP0(c, r)
  PROVE  IInv'
<1> DEFINE x == [pc |-> "limits", prio |-> 0, run |-> r, attempt |-> 0]
<1>1. /\ CallInv /\ QueueInv /\ WaiterInv /\ PressureInv /\ QuotaInv
      /\ call[c] = Idle /\ call' = [call EXCEPT ![c] = x] /\ Cardinality(P0Held) < P0Capacity
      /\ UNCHANGED <<pressure, sharedQ, httpQ, waiters, depth>> /\ UNCHANGED quota
  BY DEF IInv, AdmitP0, queue
<1>2. call[c].pc = "idle"
  BY <1>1 DEF Idle
<1>3. x \in Calls /\ x.pc = "limits" /\ x.prio = 0
  BY Constants DEF AdmitP0, Calls, Admitted, Past
<1> HIDE DEF x
<1>4. QueueInv'
  BY <1>1, <1>2, <1>3, QueueStay DEF QueueInv
<1>5. PressureInv'
  BY <1>1, PressureStay
<1>6. QuotaInv'
  BY <1>1, <1>2, <1>3, QuotaStep
<1>7. Permitted(c, x)
  BY <1>1, <1>3 DEF Permitted, HoldsShared
<1>8. waiters \in Nat /\ depth' \in 0 .. N
  BY <1>1, WaitersBounded DEF WaiterInv
<1>9. Followed(c, x)
  BY <1>1, <1>2, <1>3, <1>8 DEF Followed, Waits
<1> QED BY <1>1, <1>3, <1>4, <1>5, <1>6, <1>7, <1>8, <1>9, CallStep

\* A call that queues is counted as a waiter at once ...
LEMMA StepArrive ==
  ASSUME IInv, NEW c \in Slots, NEW p, NEW r, Arrive(c, p, r)
  PROVE  IInv'
<1> DEFINE x == [pc |-> "up", prio |-> p, run |-> r, n |-> waiters + 1]
<1>1. /\ CallInv /\ QueueInv /\ WaiterInv /\ PressureInv /\ QuotaInv
      /\ call[c] = Idle /\ call' = [call EXCEPT ![c] = x] /\ waiters' = waiters + 1
      /\ UNCHANGED <<pressure, sharedQ, httpQ, depth>> /\ UNCHANGED quota
  BY DEF IInv, Arrive
<1>2. call[c].pc = "idle"
  BY <1>1 DEF Idle
<1>w. waiters \in 0 .. N /\ N \in Nat /\ waiters < N /\ depth' \in 0 .. N
  BY <1>1, <1>2, WaitersBounded DEF WaiterInv, Waits
<1>3. x \in Calls /\ x.pc = "up"
  <2>1. waiters + 1 \in 0 .. N
    BY <1>w
  <2>2. p \in 1 .. 4 /\ r \in Payers
    BY Constants DEF Arrive
  <2> QED BY <2>1, <2>2 DEF Calls, Entering
<1> HIDE DEF x
<1>4. QueueInv'
  BY <1>1, <1>2, <1>3, QueueStay DEF QueueInv
<1>5. PressureInv'
  BY <1>1, PressureStay
<1>6. QuotaInv'
  BY <1>1, <1>2, <1>3, QuotaStep
<1>7. Permitted(c, x)
  BY <1>3 DEF Permitted, HoldsShared, HoldsP0, Past
<1>8. Followed(c, x)
  BY <1>1, <1>2, <1>3, <1>w DEF Followed, Waits
<1> QED BY <1>1, <1>3, <1>4, <1>5, <1>6, <1>7, <1>8, <1>w, CallStep

\* ... and shows in the depth later.
LEMMA StepSetDepthUp ==
  ASSUME IInv, NEW c \in Slots, SetDepthUp(c)
  PROVE  IInv'
<1>1. /\ CallInv /\ QueueInv /\ WaiterInv /\ PressureInv /\ QuotaInv
      /\ call[c].pc = "up" /\ Goto(c, "admit") /\ depth' = call[c].n
      /\ UNCHANGED <<pressure, sharedQ, httpQ, waiters>> /\ UNCHANGED quota
  BY DEF IInv, SetDepthUp
<1>2. call[c] \in Entering
  BY <1>1, Shape
<1>3. PICK x \in Entering : call' = [call EXCEPT ![c] = x] /\ x.pc = "admit"
  BY <1>1, <1>2, GoOnEntering
<1>4. QueueInv'
  BY <1>1, <1>3, QueueStay DEF QueueInv
<1>5. PressureInv'
  BY <1>1, PressureStay
<1>6. QuotaInv'
  BY <1>1, <1>3, QuotaStep
<1>7. Permitted(c, x)
  BY <1>3 DEF Permitted, HoldsShared, HoldsP0, Past
<1>8. depth' \in 0 .. N /\ x \in Calls
  BY <1>1, <1>2 DEF Entering, Calls
<1>9. Followed(c, x)
  BY <1>1, <1>3, WaitersBounded DEF Followed, Waits
<1> QED BY <1>3, <1>4, <1>5, <1>6, <1>7, <1>8, <1>9, CallStep

\* admit: refused under pressure, or in line for a shared permit.
LEMMA StepAdmit ==
  ASSUME IInv, NEW c \in Slots, Admit(c)
  PROVE  IInv'
<1>1. /\ CallInv /\ QueueInv /\ WaiterInv /\ PressureInv /\ QuotaInv
      /\ call[c].pc = "admit" /\ Hysteresis(RawLevel(samples, depth))
      /\ UNCHANGED <<samples, httpQ, waiters, depth>> /\ UNCHANGED quota
  BY DEF IInv, Admit, queue
<1>2. call[c] \in Entering
  BY <1>1, Shape
<1>3. PressureInv'
  <2>1. level' \in Severity /\ since' \in 0 .. Cooldown
    BY <1>1, RawSeverity, HysteresisStep DEF PressureInv
  <2> QED BY <1>1, <2>1 DEF PressureInv, OldestFirst
<1>4. waiters \in Nat /\ N \in Nat /\ depth' \in 0 .. N
  BY <1>1, WaitersBounded DEF WaiterInv
<1>5. CASE Blocked(call[c].prio, level')
  <2> DEFINE x == [pc |-> "leave", prio |-> call[c].prio, run |-> call[c].run, go |-> "idle", n |-> 0]
  <2>1. call' = [call EXCEPT ![c] = x] /\ UNCHANGED sharedQ
    BY <1>5 DEF Admit
  <2>2. x \in Calls /\ x.pc = "leave" /\ x.go = "idle"
    BY <1>2, <1>4 DEF Entering, Calls, Departing
  <2> HIDE DEF x
  <2>3. QueueInv'
    BY <1>1, <2>1, <2>2, QueueStay DEF QueueInv
  <2>4. QuotaInv'
    BY <1>1, <2>1, <2>2, QuotaStep
  <2>5. Permitted(c, x)
    BY <2>2 DEF Permitted, HoldsShared, HoldsP0, Past
  <2>6. Followed(c, x)
    BY <1>1, <1>4, <2>2 DEF Followed, Waits
  <2> QED BY <1>3, <1>4, <2>1, <2>2, <2>3, <2>4, <2>5, <2>6, CallStep
<1>6. CASE ~Blocked(call[c].prio, level')
  <2>1. Goto(c, "queued") /\ sharedQ' = Append(sharedQ, c)
    BY <1>6 DEF Admit
  <2>2. PICK x \in Entering : call' = [call EXCEPT ![c] = x] /\ x.pc = "queued"
    BY <1>1, <1>2, <2>1, GoOnEntering
  <2>3. QueueInv'
    <3>1. IsQueue(httpQ', At({"send"})')
      BY <1>1, <2>2, QueueStay DEF QueueInv
    <3>2. c \notin At({"queued"})
      BY <1>1 DEF At
    <3>3. IsQueue(sharedQ', At({"queued"}) \cup {c})
      BY <1>1, <2>1, <3>2, QueueAppend DEF QueueInv
    <3>4. At({"queued"})' = At({"queued"}) \cup {c}
      BY <1>1, <2>2, Moved
    <3> QED BY <3>1, <3>3, <3>4 DEF QueueInv
  <2>4. QuotaInv'
    BY <1>1, <2>2, QuotaStep
  <2>5. Permitted(c, x)
    BY <2>2 DEF Permitted, HoldsShared, HoldsP0, Past
  <2>6. Followed(c, x)
    BY <1>1, <1>4, <2>2 DEF Followed, Waits
  <2>7. x \in Calls
    BY DEF Calls
  <2> QED BY <1>3, <1>4, <2>2, <2>3, <2>4, <2>5, <2>6, <2>7, CallStep
<1> QED BY <1>5, <1>6

\* The first in line takes a shared permit.
LEMMA StepAcquireShared ==
  ASSUME IInv, NEW c \in Slots, AcquireShared(c)
  PROVE  IInv'
<1> DEFINE x == [pc |-> "leave", prio |-> call[c].prio, run |-> call[c].run, go |-> "limits", n |-> 0]
<1>1. /\ CallInv /\ QueueInv /\ WaiterInv /\ PressureInv /\ QuotaInv
      /\ call[c].pc = "queued" /\ c = Head(sharedQ) /\ sharedQ' = Tail(sharedQ)
      /\ Cardinality(SharedHeld) < SharedCapacity /\ call' = [call EXCEPT ![c] = x]
      /\ UNCHANGED <<pressure, httpQ, waiters, depth>> /\ UNCHANGED quota
  BY DEF IInv, AcquireShared, queue
<1>2. call[c] \in Entering
  BY <1>1, Shape
<1>4. waiters \in Nat /\ N \in Nat /\ depth' \in 0 .. N
  BY <1>1, WaitersBounded DEF WaiterInv
<1>5. x \in Calls /\ x.pc = "leave"
  BY <1>2, <1>4 DEF Entering, Calls, Departing
<1> HIDE DEF x
<1>6. QueueInv'
  <2>1. IsQueue(httpQ', At({"send"})')
    BY <1>1, <1>5, QueueStay DEF QueueInv
  <2>2. c \in At({"queued"})
    BY <1>1 DEF At
  <2>3. IsQueue(sharedQ', At({"queued"}) \ {c})
    BY <1>1, <2>2, QueueTail DEF QueueInv
  <2>4. At({"queued"})' = At({"queued"}) \ {c}
    BY <1>1, <1>5, Moved
  <2> QED BY <2>1, <2>3, <2>4 DEF QueueInv
<1>7. PressureInv'
  BY <1>1, PressureStay
<1>8. QuotaInv'
  BY <1>1, <1>5, QuotaStep
<1>9. Permitted(c, x)
  BY <1>1, <1>5 DEF Permitted, HoldsP0, Past
<1>10. Followed(c, x)
  BY <1>1, <1>4, <1>5 DEF Followed, Waits
<1> QED BY <1>1, <1>4, <1>5, <1>6, <1>7, <1>8, <1>9, <1>10, CallStep

\* WaiterGuard counts the waiter out ...
LEMMA StepLeave ==
  ASSUME IInv, NEW c \in Slots, Leave(c)
  PROVE  IInv'
<1> DEFINE x == [call[c] EXCEPT !.pc = "down", !.n = waiters - 1]
<1>1. /\ CallInv /\ QueueInv /\ WaiterInv /\ PressureInv /\ QuotaInv
      /\ call[c].pc = "leave" /\ waiters' = waiters - 1 /\ call' = [call EXCEPT ![c] = x]
      /\ UNCHANGED <<pressure, sharedQ, httpQ, depth>> /\ UNCHANGED quota
  BY DEF IInv, Leave
<1>2. call[c] \in Departing
  BY <1>1, Shape
<1>4. waiters \in 0 .. N /\ waiters > 0 /\ N \in Nat /\ depth' \in 0 .. N
  BY <1>1, WaitersBounded DEF WaiterInv, Waits
<1>5. x \in Departing /\ x.pc = "down" /\ x.go = call[c].go
  <2>1. waiters - 1 \in 0 .. N
    BY <1>4
  <2> QED BY <1>2, <2>1 DEF Departing
<1> HIDE DEF x
<1>6. QueueInv'
  BY <1>1, <1>5, QueueStay DEF QueueInv
<1>7. PressureInv'
  BY <1>1, PressureStay
<1>8. QuotaInv'
  BY <1>1, <1>5, QuotaStep
<1>9. Permitted(c, x)
  BY <1>1, <1>5 DEF Permitted, HoldsP0, HoldsShared, Past
<1>10. Followed(c, x)
  BY <1>1, <1>4, <1>5 DEF Followed, Waits
<1>11. x \in Calls
  BY <1>5 DEF Calls
<1> QED BY <1>1, <1>4, <1>6, <1>7, <1>8, <1>9, <1>10, <1>11, CallStep

\* ... and the call goes on with its permit or ends.
LEMMA StepSetDepthDown ==
  ASSUME IInv, NEW c \in Slots, SetDepthDown(c)
  PROVE  IInv'
<1>1. /\ CallInv /\ QueueInv /\ WaiterInv /\ PressureInv /\ QuotaInv
      /\ call[c].pc = "down" /\ depth' = call[c].n
      /\ UNCHANGED <<pressure, sharedQ, httpQ, waiters>> /\ UNCHANGED quota
  BY DEF IInv, SetDepthDown
<1>2. call[c] \in Departing
  BY <1>1, Shape
<1>3. PICK x \in Calls : /\ call' = [call EXCEPT ![c] = x]
                         /\ \/ x = Idle
                            \/ x \in Admitted /\ x.pc = "limits" /\ x.prio > 0 /\ call[c].go # "idle"
  <2>1. CASE call[c].go = "idle"
    BY <2>1 DEF SetDepthDown, Calls
  <2>2. CASE call[c].go # "idle"
    <3> DEFINE y == [pc |-> call[c].go, prio |-> call[c].prio, run |-> call[c].run, attempt |-> 0]
    <3>1. call' = [call EXCEPT ![c] = y]
      BY <2>2 DEF SetDepthDown
    <3>2. y \in Admitted /\ y.pc = "limits" /\ y.prio > 0
      BY <1>2, <2>2 DEF Departing, Admitted, Past
    <3> QED BY <2>2, <3>1, <3>2 DEF Calls
  <2> QED BY <2>1, <2>2
<1>4. waiters \in Nat /\ depth' \in 0 .. N
  BY <1>1, <1>2, WaitersBounded DEF Departing
<1>5. x.pc \in {"idle", "limits"}
  BY <1>3 DEF Idle
<1>6. QueueInv'
  BY <1>1, <1>3, <1>5, QueueStay DEF QueueInv
<1>7. PressureInv'
  BY <1>1, PressureStay
<1>8. QuotaInv'
  BY <1>1, <1>3, <1>5, QuotaStep
<1>9. Permitted(c, x)
  BY <1>1, <1>3 DEF Permitted, HoldsP0, HoldsShared, Past, Idle
<1>10. Followed(c, x)
  BY <1>1, <1>4, <1>5 DEF Followed, Waits
<1> QED BY <1>3, <1>4, <1>6, <1>7, <1>8, <1>9, <1>10, CallStep

------------------------------------------------------------------------------
(* The quota. *)

\* A call that was admitted and goes on keeps the permits it has.
LEMMA KeepsPermits ==
  ASSUME NEW c, call[c] \in Admitted, NEW x \in Admitted, x.prio = call[c].prio,
         x.pc = "daily" => x.run \in Runs, x.pc = "http" => Cardinality(HttpHeld) < MaxConcurrent
  PROVE  Permitted(c, x)
BY DEF Permitted, HoldsP0, HoldsShared, Admitted, Past

\* A call that is over holds nothing.
LEMMA Ended ==
  ASSUME CallInv, NEW c \in Slots, Finish(c)
  PROVE  Idle \in Calls /\ Idle.pc = "idle" /\ Permitted(c, Idle) /\ call' = [call EXCEPT ![c] = Idle]
BY DEF Calls, Idle, Permitted, HoldsP0, HoldsShared, Past, Finish

\* A call in try_consume is counted as such until it is decided.
LEMMA Decision ==
  ASSUME CallInv, NEW c \in Slots, NEW x, call' = [call EXCEPT ![c] = x], NEW r \in Runs
  PROVE  /\ Cardinality(Deciding(r)) \in Nat
         /\ Decides(call[c], r) => Cardinality(Deciding(r)) > 0
         /\ (Cardinality(Deciding(r)))' = Cardinality(Deciding(r)) + (IF Decides(x, r) THEN 1 ELSE 0)
                                                       - (IF Decides(call[c], r) THEN 1 ELSE 0)
<1>1. Deciding(r)' = IF Decides(x, r) THEN Deciding(r) \cup {c} ELSE Deciding(r) \ {c}
  BY Moved
<1>2. c \in Deciding(r) <=> Decides(call[c], r)
  BY DEF Deciding, Decides, At
<1>3. Counted(Deciding(r), c)
  BY Subsets, Counting
<1>4. (Cardinality(Deciding(r)))' = Cardinality(Deciding(r)')
  OBVIOUS
<1> QED BY <1>1, <1>2, <1>3, <1>4 DEF Counted

\* Unlimited: no quota applies to the system account.
LEMMA StepUnlimited ==
  ASSUME IInv, NEW c \in Slots, Unlimited(c)
  PROVE  IInv'
<1>1. /\ CallInv /\ QueueInv /\ WaiterInv /\ PressureInv /\ QuotaInv
      /\ call[c].pc = "limits" /\ Goto(c, "send") /\ httpQ' = Append(httpQ, c)
      /\ UNCHANGED <<pressure, sharedQ, waiters, depth>> /\ UNCHANGED quota
  BY DEF IInv, Unlimited, queue
<1>2. call[c] \in Admitted
  BY <1>1, Shape DEF Past
<1>3. PICK x \in Admitted : call' = [call EXCEPT ![c] = x] /\ x.pc = "send" /\ x.prio = call[c].prio
  BY <1>1, <1>2, GoOnAdmitted DEF Past
<1>4. QueueInv'
  <2>1. IsQueue(sharedQ', At({"queued"})')
    BY <1>1, <1>3, QueueStay DEF QueueInv
  <2>2. c \notin At({"send"})
    BY <1>1 DEF At
  <2>3. IsQueue(httpQ', At({"send"}) \cup {c})
    BY <1>1, <2>2, QueueAppend DEF QueueInv
  <2>4. At({"send"})' = At({"send"}) \cup {c}
    BY <1>1, <1>3, Moved
  <2> QED BY <2>1, <2>3, <2>4 DEF QueueInv
<1>5. PressureInv'
  BY <1>1, PressureStay
<1>6. QuotaInv'
  BY <1>1, <1>3, QuotaStep
<1>7. Permitted(c, x)
  BY <1>2, <1>3, KeepsPermits
<1>8. depth' \in 0 .. N /\ x \in Calls /\ waiters \in Nat
  BY <1>1, WaitersBounded DEF WaiterInv, Calls
<1>9. Followed(c, x)
  BY <1>1, <1>3, <1>8 DEF Followed, Waits
<1> QED BY <1>3, <1>4, <1>5, <1>6, <1>7, <1>8, <1>9, CallStep

\* try_reserve_run: a run below its limit is charged and its call decided next.
LEMMA StepLoadLimits ==
  ASSUME IInv, NEW c \in Slots, LoadLimits(c)
  PROVE  IInv'
<1>1. /\ CallInv /\ QueueInv /\ WaiterInv /\ PressureInv /\ QuotaInv
      /\ call[c].pc = "limits" /\ call[c].run # System
      /\ UNCHANGED <<pressure, sharedQ, httpQ, waiters, depth>>
      /\ UNCHANGED <<used, granted, today, leaked, lost>>
  BY DEF IInv, LoadLimits, queue
<1>2. call[c] \in Admitted
  BY <1>1, Shape DEF Past
<1>3. call[c].run \in Runs
  BY <1>1, <1>2 DEF Admitted, Payers
<1>4. PressureInv'
  BY <1>1, PressureStay
<1>5. depth' \in 0 .. N /\ waiters \in Nat
  BY <1>1, WaitersBounded DEF WaiterInv
<1>6. CASE perRun[call[c].run] >= MaxPerRun
  <2>1. Finish(c) /\ UNCHANGED quota
    BY <1>1, <1>6 DEF LoadLimits, quota
  <2>2. Idle \in Calls /\ Idle.pc = "idle" /\ Permitted(c, Idle) /\ call' = [call EXCEPT ![c] = Idle]
    BY <1>1, <2>1, Ended
  <2>3. QueueInv'
    BY <1>1, <2>2, QueueStay DEF QueueInv
  <2>4. QuotaInv'
    BY <1>1, <2>1, <2>2, QuotaStep
  <2>5. Followed(c, Idle)
    BY <1>1, <1>5, <2>2 DEF Followed, Waits
  <2> QED BY <1>4, <1>5, <2>2, <2>3, <2>4, <2>5, CallStep
<1>7. CASE ~(perRun[call[c].run] >= MaxPerRun)
  <2>1. Goto(c, "daily") /\ perRun' = [perRun EXCEPT ![call[c].run] = @ + 1]
    BY <1>7 DEF LoadLimits
  <2>2. PICK x \in Admitted : /\ call' = [call EXCEPT ![c] = x]
                              /\ x.pc = "daily" /\ x.prio = call[c].prio /\ x.run = call[c].run
    BY <1>1, <1>2, <2>1, GoOnAdmitted DEF Past
  <2>3. QueueInv'
    BY <1>1, <2>2, QueueStay DEF QueueInv
  <2>4. QuotaInv'
    <3>1. ASSUME NEW r \in Runs
          PROVE  /\ perRun'[r] = granted'[r] + leaked'[r] + (Cardinality(Deciding(r)))'
                 /\ perRun'[r] <= MaxPerRun
      <4>1. (Cardinality(Deciding(r)))' = Cardinality(Deciding(r)) + (IF r = call[c].run THEN 1 ELSE 0)
        <5>1. /\ Cardinality(Deciding(r)) \in Nat
              /\ (Cardinality(Deciding(r)))' = Cardinality(Deciding(r)) + (IF Decides(x, r) THEN 1 ELSE 0)
                                                            - (IF Decides(call[c], r) THEN 1 ELSE 0)
          BY <1>1, <2>2, Decision
        <5>2. ~Decides(call[c], r) /\ (Decides(x, r) <=> r = call[c].run)
          BY <1>1, <2>2 DEF Decides
        <5> QED BY <5>1, <5>2
      <4>2. Cardinality(Deciding(r)) \in Nat
        BY <1>1, <2>2, Decision
      <4>3. perRun'[r] = perRun[r] + (IF r = call[c].run THEN 1 ELSE 0)
        BY <1>1, <2>1 DEF QuotaInv
      <4> QED BY <1>1, <1>7, <4>1, <4>2, <4>3, Constants DEF QuotaInv
    <3>2. perRun' \in [Runs -> Nat]
      BY <1>1, <1>3, <2>1 DEF QuotaInv
    <3> QED BY <1>1, <3>1, <3>2 DEF QuotaInv
  <2>5. Permitted(c, x)
    BY <1>2, <1>3, <2>2, KeepsPermits
  <2>6. Followed(c, x)
    BY <1>1, <1>5, <2>2 DEF Followed, Waits
  <2>7. x \in Calls
    BY DEF Calls
  <2> QED BY <1>4, <1>5, <2>2, <2>3, <2>4, <2>5, <2>6, <2>7, CallStep
<1> QED BY <1>6, <1>7

\* An error before anything is reserved.
LEMMA StepLoadLimitsErr ==
  ASSUME IInv, NEW c \in Slots, LoadLimitsErr(c)
  PROVE  IInv'
<1>1. /\ CallInv /\ QueueInv /\ WaiterInv /\ PressureInv /\ QuotaInv
      /\ call[c].pc = "limits" /\ Finish(c)
      /\ UNCHANGED <<pressure, sharedQ, httpQ, waiters, depth>> /\ UNCHANGED quota
  BY DEF IInv, LoadLimitsErr, queue
<1>2. Idle \in Calls /\ Idle.pc = "idle" /\ Permitted(c, Idle) /\ call' = [call EXCEPT ![c] = Idle]
  BY <1>1, Ended
<1>3. QueueInv'
  BY <1>1, <1>2, QueueStay DEF QueueInv
<1>4. PressureInv'
  BY <1>1, PressureStay
<1>5. depth' \in 0 .. N /\ waiters \in Nat
  BY <1>1, WaitersBounded DEF WaiterInv
<1>6. QuotaInv'
  BY <1>1, <1>2, QuotaStep
<1>7. Followed(c, Idle)
  BY <1>1, <1>2, <1>5 DEF Followed, Waits
<1> QED BY <1>2, <1>3, <1>4, <1>5, <1>6, <1>7, CallStep

\* A call that leaves try_consume is no longer being decided.
LEMMA Settled ==
  ASSUME CallInv, NEW c \in Slots, NEW x, call' = [call EXCEPT ![c] = x],
         call[c].pc = "daily", x.pc # "daily", NEW r \in Runs
  PROVE  /\ Cardinality(Deciding(r)) \in Nat
         /\ r = call[c].run => Cardinality(Deciding(r)) > 0
         /\ (Cardinality(Deciding(r)))' = Cardinality(Deciding(r)) - (IF r = call[c].run THEN 1 ELSE 0)
<1>1. /\ Cardinality(Deciding(r)) \in Nat
      /\ Decides(call[c], r) => Cardinality(Deciding(r)) > 0
      /\ (Cardinality(Deciding(r)))' = Cardinality(Deciding(r)) + (IF Decides(x, r) THEN 1 ELSE 0)
                                                    - (IF Decides(call[c], r) THEN 1 ELSE 0)
  BY Decision
<1>2. ~Decides(x, r) /\ (Decides(call[c], r) <=> r = call[c].run)
  BY DEF Decides
<1> QED BY <1>1, <1>2

\* try_consume_daily: the call is let through and counted.
LEMMA StepConsumeDaily ==
  ASSUME IInv, NEW c \in Slots, ConsumeDaily(c)
  PROVE  IInv'
<1>1. /\ CallInv /\ QueueInv /\ WaiterInv /\ PressureInv /\ QuotaInv
      /\ call[c].pc = "daily" /\ Goto(c, "send") /\ httpQ' = Append(httpQ, c)
      /\ used < DailyBudget /\ used' = used + 1 /\ today' = today + 1
      /\ granted' = [granted EXCEPT ![call[c].run] = @ + 1]
      /\ UNCHANGED <<pressure, sharedQ, waiters, depth>> /\ UNCHANGED <<perRun, leaked, lost>>
  BY DEF IInv, ConsumeDaily, queue
<1>2. call[c] \in Admitted /\ call[c].run \in Runs
  BY <1>1, Shape DEF Past, CallInv
<1>3. PICK x \in Admitted : call' = [call EXCEPT ![c] = x] /\ x.pc = "send" /\ x.prio = call[c].prio
  BY <1>1, <1>2, GoOnAdmitted DEF Past
<1>4. QueueInv'
  <2>1. IsQueue(sharedQ', At({"queued"})')
    BY <1>1, <1>3, QueueStay DEF QueueInv
  <2>2. c \notin At({"send"})
    BY <1>1 DEF At
  <2>3. IsQueue(httpQ', At({"send"}) \cup {c})
    BY <1>1, <2>2, QueueAppend DEF QueueInv
  <2>4. At({"send"})' = At({"send"}) \cup {c}
    BY <1>1, <1>3, Moved
  <2> QED BY <2>1, <2>3, <2>4 DEF QueueInv
<1>5. PressureInv'
  BY <1>1, PressureStay
<1>6. QuotaInv'
  <2>1. ASSUME NEW r \in Runs
        PROVE  perRun'[r] = granted'[r] + leaked'[r] + (Cardinality(Deciding(r)))'
    <3>1. /\ Cardinality(Deciding(r)) \in Nat
          /\ (Cardinality(Deciding(r)))' = Cardinality(Deciding(r)) - (IF r = call[c].run THEN 1 ELSE 0)
      BY <1>1, <1>3, Settled
    <3>2. granted'[r] = granted[r] + (IF r = call[c].run THEN 1 ELSE 0)
      BY <1>1 DEF QuotaInv
    <3>3. /\ perRun[r] = granted[r] + leaked[r] + Cardinality(Deciding(r))
          /\ granted[r] \in Nat /\ leaked[r] \in Nat
      BY <1>1 DEF QuotaInv
    <3>4. perRun'[r] = perRun[r] /\ leaked'[r] = leaked[r]
      BY <1>1
    <3> QED BY ONLY <3>1, <3>2, <3>3, <3>4
  <2>2. granted' \in [Runs -> Nat]
    <3>1. granted \in [Runs -> Nat]
      BY <1>1 DEF QuotaInv
    <3>2. granted[call[c].run] + 1 \in Nat
      BY <1>2, <3>1
    <3> QED BY <1>1, <1>2, <3>1, <3>2
  <2>3. used' \in Nat /\ today' \in Nat /\ used' <= DailyBudget /\ used' = today' + lost'
    BY <1>1, Constants DEF QuotaInv
  <2> QED BY <1>1, <2>1, <2>2, <2>3 DEF QuotaInv
<1>7. Permitted(c, x)
  BY <1>2, <1>3, KeepsPermits
<1>8. depth' \in 0 .. N /\ x \in Calls /\ waiters \in Nat
  BY <1>1, WaitersBounded DEF WaiterInv, Calls
<1>9. Followed(c, x)
  BY <1>1, <1>3, <1>8 DEF Followed, Waits
<1> QED BY <1>3, <1>4, <1>5, <1>6, <1>7, <1>8, <1>9, CallStep

\* A call refused or failed in try_consume gives its reservation back.
LEMMA GivenBack ==
  ASSUME CallInv, QuotaInv, NEW c \in Slots, call[c].pc = "daily", call' = [call EXCEPT ![c] = Idle],
         Release(call[c].run), UNCHANGED <<granted, leaked, today>>,
         \/ UNCHANGED <<used, lost>>
         \/ used < DailyBudget /\ used' = used + 1 /\ lost' = lost + 1
  PROVE  QuotaInv'
<1>1. call[c].run \in Runs /\ Idle.pc # "daily"
  BY DEF CallInv, Idle
<1>2. ASSUME NEW r \in Runs
      PROVE  perRun'[r] = granted'[r] + leaked'[r] + (Cardinality(Deciding(r)))' /\ perRun'[r] <= MaxPerRun
             /\ perRun'[r] \in Nat
  <2>1. /\ Cardinality(Deciding(r)) \in Nat
        /\ r = call[c].run => Cardinality(Deciding(r)) > 0
        /\ (Cardinality(Deciding(r)))' = Cardinality(Deciding(r)) - (IF r = call[c].run THEN 1 ELSE 0)
    BY <1>1, Settled
  <2>2. /\ perRun[r] = granted[r] + leaked[r] + Cardinality(Deciding(r))
        /\ perRun[r] <= MaxPerRun
        /\ perRun[r] \in Nat /\ granted[r] \in Nat /\ leaked[r] \in Nat /\ MaxPerRun \in Nat
    BY Constants DEF QuotaInv
  <2>3. r = call[c].run => perRun[r] > 0
    BY <2>1, <2>2
  <2>4. perRun'[r] = perRun[r] - (IF r = call[c].run THEN 1 ELSE 0)
    BY <2>2, <2>3 DEF Release, QuotaInv
  <2> QED BY <2>1, <2>2, <2>3, <2>4
<1>3. perRun' \in [Runs -> Nat]
  BY <1>1, <1>2 DEF Release, QuotaInv
<1>4. used' \in Nat /\ lost' \in Nat /\ used' <= DailyBudget /\ used' = today' + lost'
  <2>1. used \in Nat /\ lost \in Nat /\ today \in Nat /\ used <= DailyBudget /\ used = today + lost /\ today' = today
    BY DEF QuotaInv
  <2>2. DailyBudget \in Nat
    BY Constants
  <2>3. CASE UNCHANGED <<used, lost>>
    BY <2>1, <2>3
  <2>4. CASE used < DailyBudget /\ used' = used + 1 /\ lost' = lost + 1
    BY <2>1, <2>2, <2>4
  <2> QED BY <2>3, <2>4
<1> QED BY <1>2, <1>3, <1>4 DEF QuotaInv

\* A call that ends in try_consume, its reservation given back or not.
LEMMA EndsDeciding ==
  ASSUME IInv, NEW c \in Slots, call[c].pc = "daily", Finish(c), QuotaInv',
         UNCHANGED <<pressure, sharedQ, httpQ, waiters, depth>>
  PROVE  IInv'
<1>1. CallInv /\ QueueInv /\ WaiterInv /\ PressureInv
  BY DEF IInv
<1>2. Idle \in Calls /\ Idle.pc = "idle" /\ Permitted(c, Idle) /\ call' = [call EXCEPT ![c] = Idle]
  BY <1>1, Ended
<1>3. QueueInv'
  BY <1>1, <1>2, QueueStay DEF QueueInv
<1>4. PressureInv'
  BY <1>1, PressureStay
<1>5. depth' \in 0 .. N /\ waiters \in Nat
  BY <1>1, WaitersBounded DEF WaiterInv
<1>6. Followed(c, Idle)
  BY <1>2, <1>5 DEF Followed, Waits
<1> QED BY <1>2, <1>3, <1>4, <1>5, <1>6, CallStep

\* The day's budget is used up.
LEMMA StepDailyRefused ==
  ASSUME IInv, NEW c \in Slots, DailyRefused(c)
  PROVE  IInv'
<1>1. /\ CallInv /\ QuotaInv /\ call[c].pc = "daily" /\ Release(call[c].run) /\ Finish(c)
      /\ UNCHANGED <<pressure, sharedQ, httpQ, waiters, depth>>
      /\ UNCHANGED <<used, granted, today, leaked, lost>>
  BY DEF IInv, DailyRefused, queue
<1>2. QuotaInv'
  BY <1>1, GivenBack DEF Finish
<1> QED BY <1>1, <1>2, EndsDeciding

\* The database did not answer, whether or not the update was applied.
LEMMA StepDailyErr ==
  ASSUME IInv, NEW c \in Slots, DailyErr(c)
  PROVE  IInv'
<1>1. /\ CallInv /\ QuotaInv /\ call[c].pc = "daily" /\ Release(call[c].run) /\ Finish(c) /\ Unknown
      /\ UNCHANGED <<pressure, sharedQ, httpQ, waiters, depth>>
      /\ UNCHANGED <<granted, today, leaked>>
  BY DEF IInv, DailyErr, queue
<1>2. QuotaInv'
  BY <1>1, GivenBack DEF Finish, Unknown
<1> QED BY <1>1, <1>2, EndsDeciding

------------------------------------------------------------------------------
(* The attempts, and what ends them. *)

\* The first in line sends its request.
LEMMA StepAcquireHttp ==
  ASSUME IInv, NEW c \in Slots, AcquireHttp(c)
  PROVE  IInv'
<1>1. /\ CallInv /\ QueueInv /\ WaiterInv /\ PressureInv /\ QuotaInv
      /\ call[c].pc = "send" /\ Goto(c, "http") /\ c = Head(httpQ) /\ httpQ' = Tail(httpQ)
      /\ Cardinality(HttpHeld) < MaxConcurrent
      /\ UNCHANGED <<pressure, sharedQ, waiters, depth>> /\ UNCHANGED quota
  BY DEF IInv, AcquireHttp, queue
<1>2. call[c] \in Admitted
  BY <1>1, Shape DEF Past
<1>3. PICK x \in Admitted : call' = [call EXCEPT ![c] = x] /\ x.pc = "http" /\ x.prio = call[c].prio
  BY <1>1, <1>2, GoOnAdmitted DEF Past
<1>4. QueueInv'
  <2>1. IsQueue(sharedQ', At({"queued"})')
    BY <1>1, <1>3, QueueStay DEF QueueInv
  <2>2. c \in At({"send"})
    BY <1>1 DEF At
  <2>3. IsQueue(httpQ', At({"send"}) \ {c})
    BY <1>1, <2>2, QueueTail DEF QueueInv
  <2>4. At({"send"})' = At({"send"}) \ {c}
    BY <1>1, <1>3, Moved
  <2> QED BY <2>1, <2>3, <2>4 DEF QueueInv
<1>5. PressureInv'
  BY <1>1, PressureStay
<1>6. QuotaInv'
  BY <1>1, <1>3, QuotaStep
<1>7. Permitted(c, x)
  BY <1>1, <1>2, <1>3, KeepsPermits
<1>8. depth' \in 0 .. N /\ x \in Calls /\ waiters \in Nat
  BY <1>1, WaitersBounded DEF WaiterInv, Calls
<1>9. Followed(c, x)
  BY <1>1, <1>3, <1>8 DEF Followed, Waits
<1> QED BY <1>3, <1>4, <1>5, <1>6, <1>7, <1>8, <1>9, CallStep

\* An answer is observed; the call ends or backs off.
LEMMA StepAnswer ==
  ASSUME IInv, NEW c \in Slots, NEW o \in Outcomes, Answer(c, o)
  PROVE  IInv'
<1>1. /\ CallInv /\ QueueInv /\ WaiterInv /\ PressureInv /\ QuotaInv
      /\ call[c].pc = "http" /\ Record(ClassOf(o.status), o.latency)
      /\ UNCHANGED <<level, since>>
      /\ UNCHANGED <<sharedQ, httpQ, waiters, depth>> /\ UNCHANGED quota
  BY DEF IInv, Answer, queue
<1>2. call[c] \in Admitted
  BY <1>1, Shape DEF Past
<1>3. PICK x \in Calls : /\ call' = [call EXCEPT ![c] = x]
                         /\ \/ x = Idle
                            \/ x \in Admitted /\ x.pc = "backoff" /\ x.prio = call[c].prio
  <2>1. CASE Finish(c)
    BY <2>1 DEF Finish, Calls
  <2>2. CASE ~Finish(c)
    <3> DEFINE y == [call[c] EXCEPT !.pc = "backoff", !.attempt = @ + 1]
    <3>1. call' = [call EXCEPT ![c] = y]
      BY <1>1, <2>2 DEF Answer, CallInv
    <3>2. y \in Admitted /\ y.pc = "backoff" /\ y.prio = call[c].prio
      <4>1. call[c].attempt + 1 \in Nat
        BY <1>2 DEF Admitted
      <4> QED BY <1>2, <4>1 DEF Admitted, Past
    <3> QED BY <3>1, <3>2 DEF Calls
  <2> QED BY <2>1, <2>2
<1>4. x.pc \in {"idle", "backoff"}
  BY <1>3 DEF Idle
<1>5. QueueInv'
  BY <1>1, <1>3, <1>4, QueueStay DEF QueueInv
<1>6. PressureInv'
  <2>1. o.latency \in Severity /\ ClassOf(o.status) \in Classes
    BY GatewayAssumption DEF ClassOf, Classes
  <2>2. samples' \in Seq(Sample) /\ Len(samples') <= MaxSamples /\ OldestFirst(samples')
    BY <1>1, <2>1, RecordStep DEF PressureInv
  <2> QED BY <1>1, <2>2 DEF PressureInv
<1>7. QuotaInv'
  BY <1>1, <1>3, <1>4, QuotaStep
<1>8. Permitted(c, x)
  <2>1. CASE x = Idle
    BY <2>1 DEF Permitted, HoldsP0, HoldsShared, Past, Idle
  <2>2. CASE x \in Admitted /\ x.pc = "backoff" /\ x.prio = call[c].prio
    BY <1>2, <2>2, KeepsPermits
  <2> QED BY <1>3, <2>1, <2>2
<1>9. depth' \in 0 .. N /\ waiters \in Nat
  BY <1>1, WaitersBounded DEF WaiterInv
<1>10. Followed(c, x)
  BY <1>1, <1>4, <1>9 DEF Followed, Waits
<1> QED BY <1>3, <1>5, <1>6, <1>7, <1>8, <1>9, <1>10, CallStep

\* The next attempt lines up again.
LEMMA StepAgain ==
  ASSUME IInv, NEW c \in Slots, Again(c)
  PROVE  IInv'
<1>1. /\ CallInv /\ QueueInv /\ WaiterInv /\ PressureInv /\ QuotaInv
      /\ call[c].pc = "backoff" /\ Goto(c, "send") /\ httpQ' = Append(httpQ, c)
      /\ UNCHANGED <<pressure, sharedQ, waiters, depth>> /\ UNCHANGED quota
  BY DEF IInv, Again, queue
<1>2. call[c] \in Admitted
  BY <1>1, Shape DEF Past
<1>3. PICK x \in Admitted : call' = [call EXCEPT ![c] = x] /\ x.pc = "send" /\ x.prio = call[c].prio
  BY <1>1, <1>2, GoOnAdmitted DEF Past
<1>4. QueueInv'
  <2>1. IsQueue(sharedQ', At({"queued"})')
    BY <1>1, <1>3, QueueStay DEF QueueInv
  <2>2. c \notin At({"send"})
    BY <1>1 DEF At
  <2>3. IsQueue(httpQ', At({"send"}) \cup {c})
    BY <1>1, <2>2, QueueAppend DEF QueueInv
  <2>4. At({"send"})' = At({"send"}) \cup {c}
    BY <1>1, <1>3, Moved
  <2> QED BY <2>1, <2>3, <2>4 DEF QueueInv
<1>5. PressureInv'
  BY <1>1, PressureStay
<1>6. QuotaInv'
  BY <1>1, <1>3, QuotaStep
<1>7. Permitted(c, x)
  BY <1>2, <1>3, KeepsPermits
<1>8. depth' \in 0 .. N /\ x \in Calls /\ waiters \in Nat
  BY <1>1, WaitersBounded DEF WaiterInv, Calls
<1>9. Followed(c, x)
  BY <1>1, <1>3, <1>8 DEF Followed, Waits
<1> QED BY <1>3, <1>4, <1>5, <1>6, <1>7, <1>8, <1>9, CallStep

\* A call dropped in try_consume leaves its reservation behind.
LEMMA LeftBehind ==
  ASSUME CallInv, QuotaInv, NEW c \in Slots, call[c].pc = "daily", call' = [call EXCEPT ![c] = Idle],
         leaked' = [leaked EXCEPT ![call[c].run] = @ + 1], UNCHANGED <<perRun, granted, today>>,
         \/ UNCHANGED <<used, lost>>
         \/ used < DailyBudget /\ used' = used + 1 /\ lost' = lost + 1
  PROVE  QuotaInv'
<1>1. call[c].run \in Runs /\ Idle.pc # "daily"
  BY DEF CallInv, Idle
<1>2. ASSUME NEW r \in Runs
      PROVE  perRun'[r] = granted'[r] + leaked'[r] + (Cardinality(Deciding(r)))'
  <2>1. /\ Cardinality(Deciding(r)) \in Nat
        /\ (Cardinality(Deciding(r)))' = Cardinality(Deciding(r)) - (IF r = call[c].run THEN 1 ELSE 0)
    BY <1>1, Settled
  <2>2. leaked'[r] = leaked[r] + (IF r = call[c].run THEN 1 ELSE 0)
    BY DEF QuotaInv
  <2> QED BY <2>1, <2>2 DEF QuotaInv
<1>3. leaked' \in [Runs -> Nat]
  BY <1>1 DEF QuotaInv
<1>4. used' \in Nat /\ lost' \in Nat /\ used' <= DailyBudget /\ used' = today' + lost'
  <2>1. used \in Nat /\ lost \in Nat /\ today \in Nat /\ used <= DailyBudget /\ used = today + lost /\ today' = today
    BY DEF QuotaInv
  <2>2. DailyBudget \in Nat
    BY Constants
  <2>3. CASE UNCHANGED <<used, lost>>
    BY <2>1, <2>3
  <2>4. CASE used < DailyBudget /\ used' = used + 1 /\ lost' = lost + 1
    BY <2>1, <2>2, <2>4
  <2> QED BY <2>3, <2>4
<1> QED BY <1>2, <1>3, <1>4 DEF QuotaInv

\* A dropped call gives its permits and its places in the queues back.
LEMMA StepCancel ==
  ASSUME IInv, NEW c \in Slots, Cancel(c)
  PROVE  IInv'
<1>1. /\ CallInv /\ QueueInv /\ WaiterInv /\ PressureInv /\ QuotaInv
      /\ call[c].pc \in {"queued", "limits", "daily", "send", "http", "backoff"}
      /\ sharedQ' = Without(sharedQ, c) /\ httpQ' = Without(httpQ, c)
      /\ UNCHANGED <<pressure, waiters, depth>> /\ UNCHANGED <<perRun, granted, today>>
  BY DEF IInv, Cancel, queue
<1>2. PICK x \in Calls : /\ call' = [call EXCEPT ![c] = x]
                         /\ \/ call[c].pc # "queued" /\ x = Idle
                            \/ call[c].pc = "queued" /\ x.pc = "leave" /\ x.go = "idle"
  <2>1. CASE call[c].pc # "queued"
    BY <2>1 DEF Cancel, Finish, Calls
  <2>2. CASE call[c].pc = "queued"
    <3> DEFINE y == [pc |-> "leave", prio |-> call[c].prio, run |-> call[c].run, go |-> "idle", n |-> 0]
    <3>1. call[c] \in Entering /\ N \in Nat
      BY <1>1, <2>2, Shape, WaitersBounded
    <3>2. y \in Calls
      BY <3>1 DEF Calls, Entering, Departing
    <3>3. call' = [call EXCEPT ![c] = y]
      BY <2>2 DEF Cancel
    <3> QED BY <2>2, <3>2, <3>3
  <2> QED BY <2>1, <2>2
<1>3. x.pc \in {"idle", "leave"}
  BY <1>2 DEF Idle
<1>4. QueueInv'
  <2>1. IsQueue(sharedQ', At({"queued"}) \ {c}) /\ IsQueue(httpQ', At({"send"}) \ {c})
    BY <1>1, QueueWithout DEF QueueInv
  <2>2. At({"queued"})' = At({"queued"}) \ {c} /\ At({"send"})' = At({"send"}) \ {c}
    BY <1>1, <1>2, <1>3, Moved
  <2> QED BY <2>1, <2>2 DEF QueueInv
<1>5. PressureInv'
  BY <1>1, PressureStay
<1>6. QuotaInv'
  <2>1. CASE call[c].pc = "daily"
    <3>1. call' = [call EXCEPT ![c] = Idle] /\ leaked' = [leaked EXCEPT ![call[c].run] = @ + 1] /\ Unknown
      BY <2>1 DEF Cancel, Finish
    <3> QED BY <1>1, <2>1, <3>1, LeftBehind DEF Unknown
  <2>2. CASE call[c].pc # "daily"
    <3>1. UNCHANGED quota
      BY <1>1, <2>2 DEF Cancel, quota
    <3> QED BY <1>1, <1>2, <1>3, <2>2, <3>1, QuotaStep
  <2> QED BY <2>1, <2>2
<1>7. Permitted(c, x)
  BY <1>2 DEF Permitted, HoldsP0, HoldsShared, Past, Idle
<1>8. depth' \in 0 .. N /\ waiters \in Nat
  BY <1>1, WaitersBounded DEF WaiterInv
<1>9. Followed(c, x)
  BY <1>1, <1>2, <1>3, <1>8 DEF Followed, Waits, Idle
<1> QED BY <1>2, <1>4, <1>5, <1>6, <1>7, <1>8, <1>9, CallStep

------------------------------------------------------------------------------
(* Around the calls. *)

Blank ==
  /\ call = [c \in Slots |-> Idle]
  /\ sharedQ = << >> /\ httpQ = << >>
  /\ waiters = 0 /\ depth = 0

Free ==
  /\ CallInv /\ QueueInv /\ PermitInv /\ WaiterInv
  /\ \A r \in Runs : Cardinality(Deciding(r)) = 0

\* With every call idle nothing is held, queued or counted.
LEMMA NothingHeld == Blank => Free
<1> SUFFICES ASSUME Blank PROVE Free
  OBVIOUS
<1> USE DEF Blank, Free
<1>1. \A c \in Slots : call[c] = Idle /\ call[c].pc = "idle"
  BY DEF Idle
<1>2. CallInv
  BY <1>1 DEF CallInv, Calls
<1>3. At({"queued"}) = {} /\ At({"send"}) = {} /\ At(Waits) = {}
  BY <1>1 DEF At, Waits
<1>4. P0Held = {} /\ SharedHeld = {} /\ HttpHeld = {}
  BY <1>1 DEF P0Held, SharedHeld, HttpHeld, At, Past, Leaving
<1>5. \A r \in Runs : Deciding(r) = {}
  BY <1>1 DEF Deciding, At
<1>6. Cardinality({}) = 0
  BY FS_EmptySet
<1>7. IsQueue(<< >>, {})
  BY DEF IsQueue
<1>8. QueueInv
  BY <1>3, <1>7 DEF QueueInv
<1>9. PermitInv
  BY <1>4, <1>6, GatewayAssumption DEF PermitInv
<1>10. WaiterInv
  <2>1. N \in Nat
    BY GatewayAssumption, FS_CardinalityType DEF N
  <2> QED BY <1>3, <1>6, <2>1 DEF WaiterInv
<1> QED BY <1>2, <1>5, <1>6, <1>8, <1>9, <1>10

\* Nothing is measured.
LEMMA QuietPressure ==
  ASSUME samples = << >>, level = Normal, since = 0
  PROVE  PressureInv
BY PressureAssumption DEF PressureInv, OldestFirst, Severity, Normal

\* The gateway starts with everything free.
LEMMA InitIInv == Init => IInv
<1> SUFFICES ASSUME Init PROVE IInv
  OBVIOUS
<1>1. CallInv /\ QueueInv /\ PermitInv /\ WaiterInv /\ \A r \in Runs : Cardinality(Deciding(r)) = 0
  BY NothingHeld DEF Init, Blank, Free
<1>2. PressureInv
  BY QuietPressure DEF Init, Quiet
<1>3. QuotaInv
  BY <1>1, Constants DEF Init, QuotaInv
<1> QED BY <1>1, <1>2, <1>3 DEF IInv

\* A restart keeps only the row of the day.
LEMMA StepRestart ==
  ASSUME IInv, Restart
  PROVE  IInv'
<1>1. (CallInv /\ QueueInv /\ PermitInv /\ WaiterInv /\ \A r \in Runs : Cardinality(Deciding(r)) = 0)'
  <2>1. Blank'
    BY DEF Restart, Blank
  <2>2. Free'
    BY <2>1, NothingHeld, PTL
  <2> QED BY <2>2 DEF Free
<1>2. PressureInv'
  BY PressureAssumption DEF Restart, PressureInv, OldestFirst, Severity, Normal
<1>3. QuotaInv'
  BY <1>1, Constants DEF Restart, QuotaInv, IInv
<1> QED BY <1>1, <1>2, <1>3 DEF IInv

\* A new date starts with an unused budget.
LEMMA StepNextDay ==
  ASSUME IInv, NextDay
  PROVE  IInv'
<1>1. /\ UNCHANGED <<call, sharedQ, httpQ, waiters, depth>> /\ UNCHANGED pressure
      /\ UNCHANGED <<perRun, granted, leaked>> /\ used' = 0 /\ today' = 0 /\ lost' = 0
  BY DEF NextDay, queue
<1>2. CallInv' /\ QueueInv' /\ PermitInv' /\ WaiterInv'
  BY <1>1 DEF IInv, CallInv, QueueInv, IsQueue, PermitInv, WaiterInv, At, P0Held, SharedHeld, HttpHeld, Leaving
<1>3. PressureInv'
  BY <1>1, PressureStay DEF IInv
<1>4. QuotaInv'
  <2>1. ASSUME NEW r \in Runs PROVE (Cardinality(Deciding(r)))' = Cardinality(Deciding(r))
    BY <1>1 DEF Deciding, At
  <2>2. DailyBudget \in Nat
    BY Constants
  <2> QED BY <1>1, <2>1, <2>2 DEF IInv, QuotaInv
<1> QED BY <1>2, <1>3, <1>4 DEF IInv

\* Time passes for the samples only.
LEMMA StepTick ==
  ASSUME IInv, Tick
  PROVE  IInv'
<1>1. UNCHANGED <<call, sharedQ, httpQ, waiters, depth>> /\ UNCHANGED quota /\ Pass
  BY DEF Tick, queue
<1>2. CallInv' /\ QueueInv' /\ PermitInv' /\ WaiterInv'
  BY <1>1 DEF IInv, CallInv, QueueInv, IsQueue, PermitInv, WaiterInv, At, P0Held, SharedHeld, HttpHeld, Leaving
<1>3. PressureInv'
  BY <1>1, PassStep DEF IInv
<1>4. QuotaInv'
  BY <1>1 DEF IInv, QuotaInv, Deciding, At, quota
<1> QED BY <1>2, <1>3, <1>4 DEF IInv

\* Every step of the gateway keeps the invariant.
LEMMA NextIInv == IInv /\ [Next]_vars => IInv'
<1> SUFFICES ASSUME IInv, [Next]_vars PROVE IInv'
  OBVIOUS
<1>1. CASE UNCHANGED vars
  <2>1. /\ UNCHANGED <<call, sharedQ, httpQ, waiters, depth>> /\ UNCHANGED quota /\ UNCHANGED pressure
    BY <1>1 DEF vars, quota
  <2>2. CallInv' /\ QueueInv' /\ PermitInv' /\ WaiterInv'
    BY <2>1 DEF IInv, CallInv, QueueInv, IsQueue, PermitInv, WaiterInv, At, P0Held, SharedHeld, HttpHeld, Leaving
  <2>3. PressureInv'
    BY <2>1, PressureStay DEF IInv
  <2>4. QuotaInv'
    BY <2>1 DEF IInv, QuotaInv, Deciding, At, quota
  <2> QED BY <2>2, <2>3, <2>4 DEF IInv
<1>2. ASSUME NEW c \in Slots, Step(c) PROVE IInv'
  <2>1. CASE SetDepthUp(c) \/ Admit(c) \/ AcquireShared(c) \/ Leave(c) \/ SetDepthDown(c)
    BY <2>1, StepSetDepthUp, StepAdmit, StepAcquireShared, StepLeave, StepSetDepthDown
  <2>2. CASE Unlimited(c) \/ LoadLimits(c) \/ ConsumeDaily(c) \/ DailyRefused(c)
    BY <2>2, StepUnlimited, StepLoadLimits, StepConsumeDaily, StepDailyRefused
  <2>3. CASE AcquireHttp(c) \/ (\E o \in Outcomes : Answer(c, o)) \/ Again(c)
    BY <2>3, StepAcquireHttp, StepAnswer, StepAgain
  <2> QED BY <1>2, <2>1, <2>2, <2>3 DEF Step
<1>3. ASSUME NEW c \in Slots, Begin(c) PROVE IInv'
  BY <1>3, StepAdmitP0, StepArrive DEF Begin
<1>4. ASSUME NEW c \in Slots, LoadLimitsErr(c) \/ DailyErr(c) \/ Cancel(c) PROVE IInv'
  BY <1>4, StepLoadLimitsErr, StepDailyErr, StepCancel
<1>5. CASE Restart \/ NextDay \/ Tick
  BY <1>5, StepRestart, StepNextDay, StepTick
<1> QED BY <1>1, <1>2, <1>3, <1>4, <1>5 DEF Next

\* The inductive invariant holds in every state.
LEMMA Invariant == Spec => []IInv
<1>1. Init => IInv
  BY InitIInv
<1>2. IInv /\ [Next]_vars => IInv'
  BY NextIInv
<1> QED BY <1>1, <1>2, PTL DEF Spec

\* The quota keeps its promises (ai_quota.rs): however many callers and runs there
\* are, no run gets more than max_ai_calls_per_run calls out of one process, the
\* day's counter never passes the daily budget, and it counts every call that was
\* let through.  A call reserves before it is decided, and the count of its run
\* covers what is reserved: two callers that check at once cannot both get the
\* last call.
THEOREM BudgetsAlwaysHold == Spec => []BudgetsHold
<1>1. IInv => BudgetsHold
  <2> SUFFICES ASSUME IInv PROVE BudgetsHold
    OBVIOUS
  <2>1. QuotaInv /\ MaxPerRun \in Nat
    BY Constants DEF IInv
  <2>2. ASSUME NEW r \in Runs PROVE granted[r] <= MaxPerRun
    <3>1. Cardinality(Deciding(r)) \in Nat
      <4>1. IsFiniteSet(Deciding(r))
        BY Subsets, GatewayAssumption, FS_Subset
      <4> QED BY <4>1, FS_CardinalityType
    <3> QED BY <2>1, <3>1 DEF QuotaInv
  <2> QED BY <2>1, <2>2 DEF QuotaInv, BudgetsHold
<1> QED BY <1>1, Invariant, PTL

\* Permits, waiters and reservations always account for each other (admission.rs,
\* ai_quota.rs): no semaphore is oversubscribed, its queue holds exactly those who
\* wait, admission_waiters counts them, also after refusals and dropped calls, and
\* a run's count is the calls let through, those being decided and those whose
\* caller went away in between.
THEOREM ReservationsAlwaysAccounted == Spec => []ReservationsAccounted
<1>1. IInv => ReservationsAccounted
  <2> SUFFICES ASSUME IInv PROVE ReservationsAccounted
    OBVIOUS
  <2>1. TypeOK
    BY DEF IInv, QueueInv, IsQueue, PermitInv, WaiterInv, PressureInv, TypeOK, N, Waits
  <2> QED BY <2>1 DEF IInv, QuotaInv, ReservationsAccounted, Deciding
<1> QED BY <1>1, Invariant, PTL
==============================================================================
