------------------------------ MODULE AiGateway ------------------------------
(***************************************************************************)
(* chat_completion (ai-gateway/src/openai.rs) with its admission controller    *)
(* (admission.rs), its quota (quota.rs and resolver/src/ai_quota.rs over        *)
(* try_consume_daily_usage) and the pressure it observes (ResourcePressure).     *)
(*                                                                         *)
(* A slot is a caller that makes one call after another.  The tasks interleave   *)
(* at every await and, being threads, at every atomic operation.  Semaphores     *)
(* are tokio's: first come, first served, and a permit goes back when its        *)
(* guard is dropped, so who holds one follows from where the calls are.          *)
(***************************************************************************)
EXTENDS ResourcePressure

CONSTANTS Slots,
          Prios,           \* slot -> priorities of its calls: 0 (P0) .. 4 (P4)
          Runs,            \* runs of the collection
          System,          \* AiAccount::System, which no quota applies to
          Accounts,        \* slot -> accounts of its calls: runs or System
          P0Capacity, SharedCapacity, MaxConcurrent,
          MaxRetries,
          MaxPerRun,       \* max_ai_calls_per_run
          DailyBudget,     \* daily_ai_budget
          Outcomes,        \* what an attempt may meet: status, latency
          MaxFaults        \* bound: quota errors, cancelled calls, restarts, changes of date

Statuses == {"ok", "unreadable", "400", "429", "500", "502", "503", "timeout", "no_connection", "broken"}

Background == {c \in Slots : 0 \notin Prios[c]}

ASSUME GatewayAssumption ==
  /\ IsFiniteSet(Slots)
  /\ Prios \in [Slots -> SUBSET (0 .. 4)]
  /\ System \notin Runs
  /\ Accounts \in [Slots -> SUBSET (Runs \cup {System})]
  /\ {P0Capacity, SharedCapacity, MaxConcurrent} \subseteq Nat \ {0}
  /\ {MaxRetries, MaxPerRun, DailyBudget, MaxFaults} \subseteq Nat
  /\ Outcomes \subseteq [status : Statuses, latency : Severity]

VARIABLES call,      \* where each slot's call is
          sharedQ,   \* waiting for the shared semaphore
          httpQ,     \* waiting for the HTTP semaphore
          waiters,   \* admission_waiters
          depth,     \* queue_depth, as the pressure sees it
          perRun,    \* StoreAiQuota.per_run
          used,      \* ai_calls_used of today
          granted,   \* calls the quota let through, by run, since the start: history
          today,     \* calls it let through today: history
          leaked,    \* reservations of calls cancelled in try_consume_daily: history
          lost,      \* units taken today for a call that did not get through: history
          faults

quota == <<perRun, used, granted, today, leaked, lost>>
queue == <<waiters, depth>>
vars == <<pressure, call, sharedQ, httpQ, waiters, depth, perRun, used, granted, today,
          leaked, lost, faults>>

Idle == [pc |-> "idle"]

Init ==
  /\ Quiet
  /\ call = [c \in Slots |-> Idle]
  /\ sharedQ = << >>
  /\ httpQ = << >>
  /\ waiters = 0
  /\ depth = 0
  /\ perRun = [r \in Runs |-> 0]
  /\ used = 0
  /\ granted = [r \in Runs |-> 0]
  /\ today = 0
  /\ leaked = [r \in Runs |-> 0]
  /\ lost = 0
  /\ faults = 0

Fault == faults < MaxFaults /\ faults' = faults + 1

At(pcs) == {c \in Slots : call[c].pc \in pcs}
Goto(c, pc) == call' = [call EXCEPT ![c].pc = pc]

------------------------------------------------------------------------------
(* Permits. *)

Past == {"limits", "daily", "send", "http", "backoff"}
Leaving(c) == call[c].pc \in {"leave", "down"} /\ call[c].go # "idle"

P0Held == {c \in At(Past) : call[c].prio = 0}
SharedHeld == {c \in Slots : Leaving(c) \/ (call[c].pc \in Past /\ call[c].prio > 0)}
HttpHeld == At({"http"})

\* A waiter that is dropped is taken out of the queue.
Without(q, c) ==
  IF \E i \in DOMAIN q : q[i] = c
    THEN LET at == CHOOSE i \in DOMAIN q : q[i] = c
         IN [i \in 1 .. Len(q) - 1 |-> IF i < at THEN q[i] ELSE q[i + 1]]
    ELSE q

------------------------------------------------------------------------------
(* Admission *)

\* try_admit_p0: a permit now; P0Busy leaves no trace.
AdmitP0(c, r) ==
  /\ 0 \in Prios[c]
  /\ r \in Accounts[c]
  /\ call[c] = Idle
  /\ Cardinality(P0Held) < P0Capacity
  /\ call' = [call EXCEPT ![c] = [pc |-> "limits", prio |-> 0, run |-> r, attempt |-> 0]]
  /\ UNCHANGED <<pressure, sharedQ, httpQ, queue, quota, faults>>

\* admission_waiters.fetch_add ...
Arrive(c, p, r) ==
  /\ p \in Prios[c] \ {0}
  /\ r \in Accounts[c]
  /\ call[c] = Idle
  /\ waiters' = waiters + 1
  /\ call' = [call EXCEPT ![c] = [pc |-> "up", prio |-> p, run |-> r, n |-> waiters + 1]]
  /\ UNCHANGED <<pressure, sharedQ, httpQ, depth, quota, faults>>

\* ... and set_queue_depth.
SetDepthUp(c) ==
  /\ call[c].pc = "up"
  /\ depth' = call[c].n
  /\ Goto(c, "admit")
  /\ UNCHANGED <<pressure, sharedQ, httpQ, waiters, quota, faults>>

Blocked(p, v) ==
  CASE v = 0 -> FALSE
    [] v = 1 -> p = 4
    [] v = 2 -> p >= 2
    [] v = 3 -> p >= 1

\* admit: the pressure is read once, before the wait.
Admit(c) ==
  /\ call[c].pc = "admit"
  /\ Hysteresis(RawLevel(samples, depth))
  /\ IF Blocked(call[c].prio, level')
       THEN /\ call' = [call EXCEPT ![c] = [pc |-> "leave", prio |-> call[c].prio, run |-> call[c].run, go |-> "idle", n |-> 0]]
            /\ UNCHANGED sharedQ
       ELSE /\ sharedQ' = Append(sharedQ, c)
            /\ Goto(c, "queued")
  /\ UNCHANGED <<samples, httpQ, queue, quota, faults>>

AcquireShared(c) ==
  /\ call[c].pc = "queued"
  /\ c = Head(sharedQ)
  /\ Cardinality(SharedHeld) < SharedCapacity
  /\ sharedQ' = Tail(sharedQ)
  /\ call' = [call EXCEPT ![c] = [pc |-> "leave", prio |-> call[c].prio, run |-> call[c].run, go |-> "limits", n |-> 0]]
  /\ UNCHANGED <<pressure, httpQ, queue, quota, faults>>

\* WaiterGuard::drop: fetch_sub ...
Leave(c) ==
  /\ call[c].pc = "leave"
  /\ waiters' = waiters - 1
  /\ call' = [call EXCEPT ![c] = [call[c] EXCEPT !.pc = "down", !.n = waiters - 1]]
  /\ UNCHANGED <<pressure, sharedQ, httpQ, depth, quota, faults>>

\* ... and set_queue_depth.
SetDepthDown(c) ==
  /\ call[c].pc = "down"
  /\ depth' = call[c].n
  /\ call' = [call EXCEPT ![c] =
       IF call[c].go = "idle" THEN Idle ELSE [pc |-> call[c].go, prio |-> call[c].prio, run |-> call[c].run,
                                            attempt |-> 0]]
  /\ UNCHANGED <<pressure, sharedQ, httpQ, waiters, quota, faults>>

------------------------------------------------------------------------------
(* Quota: StoreAiQuota::try_consume *)

Finish(c) == call' = [call EXCEPT ![c] = Idle]

Unlimited(c) ==
  /\ call[c].pc = "limits"
  /\ call[c].run = System
  /\ httpQ' = Append(httpQ, c)
  /\ Goto(c, "send")
  /\ UNCHANGED <<pressure, sharedQ, queue, quota, faults>>

\* Faulty variant: one call too many.
LoadLimitsLax(c) ==
  /\ call[c].pc = "limits"
  /\ call[c].run # System
  /\ IF perRun[call[c].run] > MaxPerRun
       THEN Finish(c) /\ UNCHANGED perRun
       ELSE Goto(c, "daily") /\ perRun' = [perRun EXCEPT ![call[c].run] = @ + 1]
  /\ UNCHANGED <<pressure, sharedQ, httpQ, queue, used, granted, today, leaked, lost, faults>>

\* load_limits, then try_reserve_run under the lock.
LoadLimits(c) ==
  /\ call[c].pc = "limits"
  /\ call[c].run # System
  /\ IF perRun[call[c].run] >= MaxPerRun
       THEN Finish(c) /\ UNCHANGED perRun
       ELSE Goto(c, "daily") /\ perRun' = [perRun EXCEPT ![call[c].run] = @ + 1]
  /\ UNCHANGED <<pressure, sharedQ, httpQ, queue, used, granted, today, leaked, lost, faults>>

\* QuotaUnavailable before anything is reserved.
LoadLimitsErr(c) ==
  /\ call[c].pc = "limits"
  /\ call[c].run # System
  /\ Fault
  /\ Finish(c)
  /\ UNCHANGED <<pressure, sharedQ, httpQ, queue, quota>>

Release(r) == perRun' = [perRun EXCEPT ![r] = IF @ > 0 THEN @ - 1 ELSE 0]

\* try_consume_daily: one UPDATE ... WHERE used + 1 <= budget.
ConsumeDaily(c) ==
  /\ call[c].pc = "daily"
  /\ used < DailyBudget
  /\ used' = used + 1
  /\ granted' = [granted EXCEPT ![call[c].run] = @ + 1]
  /\ today' = today + 1
  /\ httpQ' = Append(httpQ, c)
  /\ Goto(c, "send")
  /\ UNCHANGED <<pressure, sharedQ, queue, perRun, leaked, lost, faults>>

\* Faulty variant: what was reserved stays so.
DailyRefusedKeeps(c) ==
  /\ call[c].pc = "daily"
  /\ used >= DailyBudget
  /\ Finish(c)
  /\ UNCHANGED <<pressure, sharedQ, httpQ, queue, quota, faults>>

DailyRefused(c) ==
  /\ call[c].pc = "daily"
  /\ used >= DailyBudget
  /\ Release(call[c].run)
  /\ Finish(c)
  /\ UNCHANGED <<pressure, sharedQ, httpQ, queue, used, granted, today, leaked, lost, faults>>

\* The update may have been applied before the connection went.
Unknown ==
  \/ UNCHANGED <<used, lost>>
  \/ used < DailyBudget /\ used' = used + 1 /\ lost' = lost + 1

\* QuotaUnavailable: fail closed.
DailyErr(c) ==
  /\ call[c].pc = "daily"
  /\ Fault
  /\ Unknown
  /\ Release(call[c].run)
  /\ Finish(c)
  /\ UNCHANGED <<pressure, sharedQ, httpQ, queue, granted, today, leaked>>

------------------------------------------------------------------------------
(* The attempts *)

\* dispatch: the HTTP semaphore, for every priority, and the rate limiter, which
\* delays only.
AcquireHttp(c) ==
  /\ call[c].pc = "send"
  /\ c = Head(httpQ)
  /\ Cardinality(HttpHeld) < MaxConcurrent
  /\ httpQ' = Tail(httpQ)
  /\ Goto(c, "http")
  /\ UNCHANGED <<pressure, sharedQ, queue, quota, faults>>

\* classify_http, classify_reqwest: AiGatewayError::Transient.
Transient(status) == status \in {"429", "502", "503", "timeout", "no_connection"}

\* attempt_class_from_error, which reads it off the message.
ClassOf(status) ==
  CASE status = "ok" -> "ok"
    [] status = "429" -> "rate_limited"
    [] status = "timeout" -> "timeout"
    [] status \in {"500", "502", "503"} -> "server_error"
    [] OTHER -> "other"

\* Faulty variant: attempts are not counted.
AnswerForever(c, o) ==
  /\ call[c].pc = "http"
  /\ Record(ClassOf(o.status), o.latency)
  /\ IF Transient(o.status) THEN Goto(c, "backoff") ELSE Finish(c)
  /\ UNCHANGED <<level, since, sharedQ, httpQ, queue, quota, faults>>

\* send_once: the answer, or the client's timeout, is observed; a transient error
\* is tried again.
Answer(c, o) ==
  /\ call[c].pc = "http"
  /\ Record(ClassOf(o.status), o.latency)
  /\ IF Transient(o.status) /\ call[c].attempt < MaxRetries
       THEN call' = [call EXCEPT ![c].pc = "backoff", ![c].attempt = @ + 1]
       ELSE Finish(c)
  /\ UNCHANGED <<level, since, sharedQ, httpQ, queue, quota, faults>>

\* The backoff is over.
Again(c) ==
  /\ call[c].pc = "backoff"
  /\ httpQ' = Append(httpQ, c)
  /\ Goto(c, "send")
  /\ UNCHANGED <<pressure, sharedQ, queue, quota, faults>>

------------------------------------------------------------------------------
(* Around the calls. *)

\* The caller drops the future at an await (the HTTP client of the API is gone):
\* guards are dropped, the reservation, which has none, stays.
Cancel(c) ==
  /\ call[c].pc \in {"queued", "limits", "daily", "send", "http", "backoff"}
  /\ Fault
  /\ sharedQ' = Without(sharedQ, c)
  /\ httpQ' = Without(httpQ, c)
  /\ IF call[c].pc = "queued"
       THEN call' = [call EXCEPT ![c] = [pc |-> "leave", prio |-> call[c].prio, run |-> call[c].run, go |-> "idle", n |-> 0]] ELSE Finish(c)
  /\ IF call[c].pc = "daily"
       THEN leaked' = [leaked EXCEPT ![call[c].run] = @ + 1] /\ Unknown
       ELSE UNCHANGED <<leaked, used, lost>>
  /\ UNCHANGED <<pressure, queue, perRun, granted, today>>

\* Everything but the database is gone; the runs are counted anew.
Restart ==
  /\ Fault
  /\ call' = [c \in Slots |-> Idle]
  /\ sharedQ' = << >>
  /\ httpQ' = << >>
  /\ waiters' = 0
  /\ depth' = 0
  /\ perRun' = [r \in Runs |-> 0]
  /\ granted' = [r \in Runs |-> 0]
  /\ leaked' = [r \in Runs |-> 0]
  /\ samples' = << >>
  /\ level' = Normal
  /\ since' = 0
  /\ UNCHANGED <<used, today, lost>>

\* The UTC date changes: another row of discovery_daily_usage.
NextDay ==
  /\ Fault
  /\ used' = 0
  /\ today' = 0
  /\ lost' = 0
  /\ UNCHANGED <<pressure, call, sharedQ, httpQ, queue, perRun, granted, leaked>>

Tick ==
  /\ Pass
  /\ UNCHANGED <<call, sharedQ, httpQ, queue, quota, faults>>

Step(c) ==
  \/ SetDepthUp(c) \/ Admit(c) \/ AcquireShared(c) \/ Leave(c) \/ SetDepthDown(c)
  \/ Unlimited(c) \/ LoadLimits(c) \/ ConsumeDaily(c) \/ DailyRefused(c)
  \/ AcquireHttp(c) \/ (\E o \in Outcomes : Answer(c, o)) \/ Again(c)

Begin(c) ==
  \E r \in Accounts[c] : AdmitP0(c, r) \/ \E p \in Prios[c] : Arrive(c, p, r)

Next ==
  \/ \E c \in Slots : Step(c) \/ Begin(c) \/ LoadLimitsErr(c) \/ DailyErr(c) \/ Cancel(c)
  \/ Restart \/ NextDay \/ Tick

\* A call goes on, callers without P0 calls keep calling, as a job queue is worked
\* off, and time passes.  Nobody has to make a P0 call.
Fairness ==
  /\ \A c \in Slots : WF_vars(Step(c))
  /\ \A c \in Background : WF_vars(Begin(c))
  /\ WF_vars(Tick)

Spec == Init /\ [][Next]_vars /\ Fairness

------------------------------------------------------------------------------
(* Properties. *)

\* The state has its types, the semaphores are never oversubscribed, the queues
\* hold who waits, and admission_waiters counts them, also after refusals and
\* cancelled calls.
TypeOK ==
  /\ samples \in Seq(Sample) /\ Len(samples) <= MaxSamples
  /\ level \in Severity
  /\ since \in 0 .. Cooldown
  /\ depth \in 0 .. Cardinality(Slots)
  /\ Cardinality(P0Held) <= P0Capacity
  /\ Cardinality(SharedHeld) <= SharedCapacity
  /\ Cardinality(HttpHeld) <= MaxConcurrent
  /\ {sharedQ[i] : i \in DOMAIN sharedQ} = At({"queued"})
  /\ {httpQ[i] : i \in DOMAIN httpQ} = At({"send"})
  /\ waiters = Cardinality(At({"up", "admit", "queued", "leave"}))

\* No run gets more than max_ai_calls_per_run calls out of one process and no day
\* more than the daily budget, however the calls interleave and fail.  Today's
\* counter is exactly the calls let through today, retries not counted, and those
\* whose answer was lost: no call is sent uncounted, and none that admission
\* refuses is counted.
BudgetsHold ==
  /\ \A r \in Runs : granted[r] <= MaxPerRun
  /\ used <= DailyBudget
  /\ used = today + lost

\* A run's count is its calls that were let through and those being decided: what
\* is refused or fails in try_consume is given back, and only a call that is
\* cancelled there loses its reservation.  (TypeOK rides along.)
ReservationsAccounted ==
  /\ TypeOK
  /\ \A r \in Runs :
       perRun[r] = granted[r] + leaked[r] + Cardinality({c \in At({"daily"}) : call[c].run = r})

\* Every call ends: with first-come semaphores, a bounded number of attempts and
\* the client's timeout nobody waits for ever, P0 neither.
CallsEnd == \A c \in Slots : call[c] # Idle ~> call[c] = Idle

Healthy == \A i \in DOMAIN samples : samples[i].class = "ok" /\ samples[i].latency = 0

==============================================================================
