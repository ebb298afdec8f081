------------------------------ MODULE Collector ------------------------------
(***************************************************************************)
(* The collector (collector/src/runner.rs, main.rs): every tick lists the    *)
(* connectors, picks the ones that are due, orders them fairly, creates a    *)
(* collect job for each and runs at most dispatch_cap of them as tasks, each *)
(* under a global and a per-domain permit.  A task fetches conditionally,    *)
(* saves the checkpoint, stores the body and the evidence row, marks the     *)
(* connector and publishes raw.collected.  On shutdown the tick drains, and  *)
(* aborts what is left at the deadline; at startup running rows left by a    *)
(* kill are reclaimed.                                                      *)
(*                                                                         *)
(* Time is left out: which connectors are due, and not backing off, is       *)
(* chosen freely at each tick (a cron that parses and last_run, error_count  *)
(* decide it).  Of the jobs of a connector the newest is kept; older ones     *)
(* only when they never ended.                                              *)
(***************************************************************************)
EXTENDS Integers, Sequences, FiniteSets

CONSTANTS Connectors,   \* enabled connectors of a known type with a valid schedule
          Invalid,      \* enabled, but unknown type or schedule that does not parse
          Domain,       \* host of each connector's source
          GlobalLimit,  \* global_inflight
          DomainLimit,  \* per_domain_inflight
          MaxRetry,     \* max_retry_per_tick
          ThrottleLag, PauseLag,
          Latest,       \* bound: the last version each source will serve
          MaxFaults,    \* bound: errors
          MaxStops      \* bound: kills and shutdowns

\* No job, or one that completed, failed or was cancelled.
Over == "over"
NoTask == [pc |-> "none"]
Versions == {0} \cup UNION {1 .. Latest[c] : c \in Connectors}

ASSUME CollectorAssumption ==
  /\ IsFiniteSet(Connectors)
  /\ GlobalLimit \in Nat \ {0}
  /\ DomainLimit \in Nat \ {0}
  /\ MaxRetry \in Nat \ {0}
  /\ ThrottleLag \in Nat /\ PauseLag \in Nat /\ ThrottleLag <= PauseLag
  /\ Latest \in [Connectors -> Nat \ {0}]
  /\ MaxFaults \in Nat
  /\ MaxStops \in Nat
  /\ Invalid \cap Connectors = {}
  /\ Connectors \cup Invalid \subseteq DOMAIN Domain

VARIABLES proc,      \* "down", "sleep", or in a tick: "tick", "spawn", "abort"
          draining,  \* the shutdown token is cancelled
          queue,     \* connectors still to dispatch
          cap,       \* dispatch_cap of this tick
          conn,      \* connectors: status, error_count and the checkpoint's etag
          job,       \* newest collect job of each connector
          stuck,     \* older jobs that did not end
          inflight,  \* connectors with a task that was not joined
          task,      \* the task of each connector
          content,   \* what the sources serve: external
          object,    \* bodies in object storage
          stored,    \* raw_evidence rows
          announced, \* raw.collected
          skippedOver, \* versions the checkpoint moved past unstored: history
          unannounced, \* versions stored whose announcement was lost: history
          unwritten, \* connectors a row of which kept an old status, the write
                     \* having failed, since this process started: history
          faults, stops

procVars == <<proc, draining, queue, cap>>
rowVars == <<conn, job, stuck>>
dataVars == <<object, stored, announced>>
history == <<skippedOver, unannounced, unwritten>>
counters == <<faults, stops>>
vars == <<proc, draining, queue, cap, conn, job, stuck, inflight, task, content,
          object, stored, announced, skippedOver, unannounced, unwritten, faults, stops>>

Listed == Connectors \cup Invalid

Init ==
  /\ proc = "down"
  /\ draining = FALSE
  /\ queue = << >>
  /\ cap = 0
  /\ conn = [c \in Listed |-> [status |-> "idle", errors |-> 0, etag |-> 0]]
  /\ job = [c \in Connectors |-> Over]
  /\ stuck = {}
  /\ inflight = {}
  /\ task = [c \in Connectors |-> NoTask]
  /\ content = [c \in Connectors |-> 1]
  /\ object = [c \in Connectors |-> {}]
  /\ stored = [c \in Connectors |-> {}]
  /\ announced = [c \in Connectors |-> {}]
  /\ skippedOver = [c \in Connectors |-> {}]
  /\ unannounced = [c \in Connectors |-> {}]
  /\ unwritten = {}
  /\ faults = 0
  /\ stops = 0

Fault == faults < MaxFaults /\ faults' = faults + 1 /\ UNCHANGED stops

Stop == stops < MaxStops /\ stops' = stops + 1 /\ UNCHANGED faults

------------------------------------------------------------------------------
(* Rows. *)

\* JobStatus::can_transition for the transitions the collector asks for; a
\* refused one is logged.
JobAfter(from, to) ==
  CASE <<from, to>> = <<"queued", "running">> -> "running"
    [] <<from, to>> = <<"queued", "cancelled">> -> Over
    [] from = "running" /\ to # "running" -> Over
    [] OTHER -> from

\* mark_failure reads error_count again before it writes.
MarkFailure(row) == [row EXCEPT !.status = "error", !.errors = @ + 1]

\* mark_success
MarkSuccess(row) == [row EXCEPT !.status = "idle", !.errors = 0]

\* persist_skip_error: once, until something else is recorded.
SkipError(row) == IF row.status = "error" THEN row ELSE MarkFailure(row)

------------------------------------------------------------------------------
(* The scheduler. *)

\* main: reclaim_orphan_collect_runs, then the loop.
Startup ==
  /\ proc = "down"
  /\ proc' = "sleep"
  /\ job' = [c \in Connectors |-> IF job[c] = "running" THEN Over ELSE job[c]]
  /\ stuck' = {s \in stuck : s[2] # "running"}
  /\ conn' = [c \in Listed |->
                IF conn[c].status = "running" THEN [conn[c] EXCEPT !.status = "idle"] ELSE conn[c]]
  /\ unwritten' = {}
  /\ UNCHANGED <<draining, queue, cap, inflight, task, content, dataVars, skippedOver,
                 unannounced, counters>>

\* BackpressureState::from_lag; a probe that fails opens the gate.
FromLag(lag) ==
  IF lag >= PauseLag THEN "pause" ELSE IF lag >= ThrottleLag THEN "throttle" ELSE "normal"

States == {FromLag(lag) : lag \in {0, ThrottleLag, PauseLag}}

\* BackpressureState::dispatch_cap
DispatchCap(state) ==
  CASE state = "pause" -> 0 [] state = "throttle" -> 1 [] OTHER -> GlobalLimit

\* fair_order: fewer errors first; last_success and id, which break ties, are
\* left open.
FairOrders(due) ==
  {s \in [1 .. Cardinality(due) -> due] :
     /\ \A i, j \in DOMAIN s : i # j => s[i] # s[j]
     /\ \A i, j \in DOMAIN s : i < j => conn[s[i]].errors <= conn[s[j]].errors}

Retries(s, i) == Cardinality({j \in 1 .. i : conn[s[j]].errors > 0})

\* Faulty variant: connectors that failed are never dispatched again.
TakeFairDispatchNoRetry(s) == SelectSeq(s, LAMBDA c : conn[c].errors = 0)

\* take_fair_dispatch: at most MaxRetry connectors that failed last time; they
\* come last, so the rest are a prefix.
TakeFairDispatch(s) ==
  SubSeq(s, 1, Cardinality({i \in DOMAIN s : Retries(s, i) <= MaxRetry}))

\* tick_connectors up to the dispatch loop.
BeginTick(due, state) ==
  /\ proc = "sleep"
  /\ ~draining
  /\ \E s \in FairOrders(due) : queue' = IF state = "pause" THEN << >> ELSE TakeFairDispatch(s)
  /\ cap' = DispatchCap(state)
  /\ conn' = [c \in Listed |-> IF c \in Invalid THEN SkipError(conn[c]) ELSE conn[c]]
  /\ proc' = "tick"
  /\ UNCHANGED <<draining, job, stuck, inflight, task, content, dataVars, history, counters>>

Running == {c \in Connectors : task[c] # NoTask}

MayDispatch == ~draining /\ queue # << >> /\ Cardinality(Running) < cap

\* jobs.create
CreateJob ==
  /\ proc = "tick"
  /\ MayDispatch
  /\ LET c == Head(queue)
     IN /\ stuck' = IF job[c] \in {"queued", "running"} THEN stuck \cup {<<c, job[c]>>} ELSE stuck
        /\ job' = [job EXCEPT ![c] = "queued"]
  /\ proc' = "spawn"
  /\ UNCHANGED <<draining, queue, cap, conn, inflight, task, content, dataVars, history, counters>>

\* Logged; the connector waits for another tick.
CreateJobErr ==
  /\ proc = "tick"
  /\ MayDispatch
  /\ Fault
  /\ queue' = Tail(queue)
  /\ UNCHANGED <<proc, draining, cap, rowVars, inflight, task, content, dataVars, history>>

\* The job becomes running (an error is logged and it stays queued) and the
\* task is spawned with the connector as it was listed.
SpawnTask(ok) ==
  /\ proc = "spawn"
  /\ LET c == Head(queue)
     IN /\ IF ok THEN job' = [job EXCEPT ![c] = JobAfter(@, "running")] /\ UNCHANGED counters
                 ELSE Fault /\ UNCHANGED job
        /\ inflight' = inflight \cup {c}
        /\ task' = [task EXCEPT ![c] = [pc |-> "source", etag |-> conn[c].etag, got |-> 0]]
  /\ queue' = Tail(queue)
  /\ proc' = "tick"
  /\ UNCHANGED <<draining, cap, conn, stuck, content, dataVars, history>>

\* Every task is joined and no connector is left.
EndTick ==
  /\ proc = "tick"
  /\ Running = {}
  /\ ~MayDispatch
  /\ proc' = IF draining THEN "abort" ELSE "sleep"
  /\ queue' = << >>
  /\ cap' = 0
  /\ UNCHANGED <<draining, rowVars, inflight, task, content, dataVars, history, counters>>

\* SIGTERM or SIGINT
Shutdown ==
  /\ proc # "down"
  /\ ~draining
  /\ Stop
  /\ draining' = TRUE
  /\ UNCHANGED <<proc, queue, cap, rowVars, inflight, task, content, dataVars, history>>

\* What an interrupted task leaves behind.
Passed(c) == IF task[c].pc \in {"object", "row"} THEN {task[c].got} ELSE {}

Untold(c) == IF task[c].pc \in {"success", "publish"} THEN {task[c].got} \ {0} ELSE {}

Interrupt(S) ==
  /\ task' = [c \in Connectors |-> IF c \in S THEN NoTask ELSE task[c]]
  /\ skippedOver' = [c \in Connectors |->
       IF c \in S THEN skippedOver[c] \cup Passed(c) ELSE skippedOver[c]]
  /\ unannounced' = [c \in Connectors |->
       IF c \in S THEN unannounced[c] \cup Untold(c) ELSE unannounced[c]]

\* The drain deadline: abort_all, wherever the tasks are.
AbortAll ==
  /\ proc = "tick"
  /\ draining
  /\ Running # {}
  /\ Interrupt(Running)
  /\ proc' = "abort"
  /\ queue' = << >>
  /\ cap' = 0
  /\ UNCHANGED <<draining, rowVars, inflight, content, dataVars, unwritten, counters>>

\* Faulty variant: the connector is left as the task had it.
FinishAbortedJobOnly(c) ==
  /\ proc = "abort"
  /\ c \in inflight
  /\ job' = [job EXCEPT ![c] = JobAfter(@, "cancelled")]
  /\ inflight' = inflight \ {c}
  /\ UNCHANGED <<procVars, conn, stuck, task, content, dataVars, history, counters>>

\* finish_aborted: the job is cancelled, the connector idle, error_count as it was.
FinishAborted(c) ==
  /\ proc = "abort"
  /\ c \in inflight
  /\ job' = [job EXCEPT ![c] = JobAfter(@, "cancelled")]
  /\ conn' = [conn EXCEPT ![c].status = "idle"]
  /\ inflight' = inflight \ {c}
  /\ UNCHANGED <<procVars, stuck, task, content, dataVars, history, counters>>

\* One of its two writes fails, which is logged.
FinishAbortedErr(c) ==
  /\ proc = "abort"
  /\ c \in inflight
  /\ Fault
  /\ \/ job' = [job EXCEPT ![c] = JobAfter(@, "cancelled")] /\ UNCHANGED conn
     \/ conn' = [conn EXCEPT ![c].status = "idle"] /\ UNCHANGED job
  /\ inflight' = inflight \ {c}
  /\ unwritten' = unwritten \cup {c}
  /\ UNCHANGED <<procVars, stuck, task, content, dataVars, skippedOver, unannounced>>

Exit ==
  /\ draining
  /\ proc = "sleep" \/ (proc = "abort" /\ inflight = {})
  /\ proc' = "down"
  /\ draining' = FALSE
  /\ UNCHANGED <<queue, cap, rowVars, inflight, task, content, dataVars, history, counters>>

\* SIGKILL, power loss.
Kill ==
  /\ proc # "down"
  /\ Stop
  /\ Interrupt(Connectors)
  /\ proc' = "down"
  /\ draining' = FALSE
  /\ queue' = << >>
  /\ cap' = 0
  /\ inflight' = {}
  /\ UNCHANGED <<rowVars, content, dataVars, unwritten>>

------------------------------------------------------------------------------
(* One task: execute_collect. *)

Goto(c, pc) == task' = [task EXCEPT ![c].pc = pc]

\* record_join: the task is taken out of the set, its permits are dropped.
Join(c) ==
  /\ task' = [task EXCEPT ![c] = NoTask]
  /\ inflight' = inflight \ {c}

HasGlobal == {c \in Connectors : task[c].pc \notin {"none", "source", "give up"}}

HasDomain(d) == {c \in HasGlobal : Domain[c] = d /\ task[c].pc # "domain"}

\* resolve_source fails: mark_failure, then the job, without a permit.
SourceErr(c) ==
  /\ task[c].pc = "source"
  /\ Fault
  /\ conn' = [conn EXCEPT ![c] = MarkFailure(@)]
  /\ Goto(c, "give up")
  /\ UNCHANGED <<procVars, job, stuck, inflight, content, dataVars, history>>

GiveUp(c) ==
  /\ task[c].pc = "give up"
  /\ job' = [job EXCEPT ![c] = JobAfter(@, "failed")]
  /\ Join(c)
  /\ UNCHANGED <<procVars, conn, stuck, content, dataVars, history, counters>>

\* resolve_source, then RunBounds::acquire, global first ...
AcquireGlobal(c) ==
  /\ task[c].pc = "source"
  /\ Cardinality(HasGlobal) < GlobalLimit
  /\ Goto(c, "domain")
  /\ UNCHANGED <<procVars, rowVars, inflight, content, dataVars, history, counters>>

\* ... then the domain's, with the global permit in hand.
AcquireDomain(c) ==
  /\ task[c].pc = "domain"
  /\ Cardinality(HasDomain(Domain[c])) < DomainLimit
  /\ Goto(c, "mark")
  /\ UNCHANGED <<procVars, rowVars, inflight, content, dataVars, history, counters>>

MarkRunning(c) ==
  /\ task[c].pc = "mark"
  /\ conn' = [conn EXCEPT ![c].status = "running"]
  /\ Goto(c, "fetch")
  /\ UNCHANGED <<procVars, job, stuck, inflight, content, dataVars, history, counters>>

\* collect: If-None-Match with the etag the connector was listed with; 0 stands
\* for 304 Not Modified.
Fetch(c) ==
  /\ task[c].pc = "fetch"
  /\ task' = [task EXCEPT ![c].pc = "save",
                          ![c].got = IF task[c].etag = content[c] THEN 0 ELSE content[c]]
  /\ UNCHANGED <<procVars, rowVars, inflight, content, dataVars, history, counters>>

\* Faulty variant: the etag saved is not the one of the body in hand.
SaveCheckpointNow(c) ==
  /\ task[c].pc = "save"
  /\ conn' = IF task[c].got = 0 THEN conn ELSE [conn EXCEPT ![c].etag = content[c]]
  /\ Goto(c, IF task[c].got = 0 THEN "success" ELSE "object")
  /\ UNCHANGED <<procVars, job, stuck, inflight, content, dataVars, history, counters>>

\* update_checkpoint, before anything is stored.
SaveCheckpoint(c) ==
  /\ task[c].pc = "save"
  /\ conn' = IF task[c].got = 0 THEN conn ELSE [conn EXCEPT ![c].etag = task[c].got]
  /\ Goto(c, IF task[c].got = 0 THEN "success" ELSE "object")
  /\ UNCHANGED <<procVars, job, stuck, inflight, content, dataVars, history, counters>>

\* Faulty variant: the row is written first.
PutObjectLate(c) ==
  /\ task[c].pc = "object"
  /\ stored' = [stored EXCEPT ![c] = @ \cup {task[c].got}]
  /\ Goto(c, "row")
  /\ UNCHANGED <<procVars, rowVars, inflight, content, object, announced, history, counters>>

\* StoreEvidenceSink::persist: the body ...
PutObject(c) ==
  /\ task[c].pc = "object"
  /\ object' = [object EXCEPT ![c] = @ \cup {task[c].got}]
  /\ Goto(c, "row")
  /\ UNCHANGED <<procVars, rowVars, inflight, content, stored, announced, history, counters>>

\* ... and the evidence row.
InsertRawEvidence(c) ==
  /\ task[c].pc = "row"
  /\ stored' = [stored EXCEPT ![c] = @ \cup {task[c].got}]
  /\ Goto(c, "success")
  /\ UNCHANGED <<procVars, rowVars, inflight, content, object, announced, history, counters>>

Succeed(c) ==
  /\ task[c].pc = "success"
  /\ conn' = [conn EXCEPT ![c] = MarkSuccess(@)]
  /\ Goto(c, IF task[c].got = 0 THEN "complete" ELSE "publish")
  /\ UNCHANGED <<procVars, job, stuck, inflight, content, dataVars, history, counters>>

PublishCollected(c) ==
  /\ task[c].pc = "publish"
  /\ announced' = [announced EXCEPT ![c] = @ \cup {task[c].got}]
  /\ Goto(c, "complete")
  /\ UNCHANGED <<procVars, rowVars, inflight, content, object, stored, history, counters>>

Complete(c) ==
  /\ task[c].pc = "complete"
  /\ job' = [job EXCEPT ![c] = JobAfter(@, "completed")]
  /\ Join(c)
  /\ UNCHANGED <<procVars, conn, stuck, content, dataVars, history, counters>>

\* Any `?` of collect_known and finish_collect; a failed row insert takes the
\* body away again.
CollectErr(c) ==
  /\ task[c].pc \in {"mark", "fetch", "save", "object", "row", "success", "publish"}
  /\ Fault
  /\ object' = IF task[c].pc = "row" THEN [object EXCEPT ![c] = @ \ ({task[c].got} \ stored[c])] ELSE object
  /\ skippedOver' = [skippedOver EXCEPT ![c] = @ \cup Passed(c)]
  /\ unannounced' = [unannounced EXCEPT ![c] = @ \cup Untold(c)]
  /\ Goto(c, "fail")
  /\ UNCHANGED <<procVars, rowVars, inflight, content, stored, announced, unwritten>>

\* The job fails, then mark_failure and raw.failed.
FailJob(c) ==
  /\ task[c].pc = "fail"
  /\ job' = [job EXCEPT ![c] = JobAfter(@, "failed")]
  /\ Goto(c, "count")
  /\ UNCHANGED <<procVars, conn, stuck, inflight, content, dataVars, history, counters>>

CountFailure(c) ==
  /\ task[c].pc = "count"
  /\ conn' = [conn EXCEPT ![c] = MarkFailure(@)]
  /\ Join(c)
  /\ UNCHANGED <<procVars, job, stuck, content, dataVars, history, counters>>

\* The last write of a task fails, which is logged; the task goes on.
LastWriteErr(c) ==
  /\ task[c].pc \in {"give up", "complete", "fail", "count"}
  /\ Fault
  /\ unwritten' = unwritten \cup {c}
  /\ IF task[c].pc = "fail" THEN Goto(c, "count") /\ UNCHANGED inflight ELSE Join(c)
  /\ UNCHANGED <<procVars, rowVars, content, dataVars, skippedOver, unannounced>>

\* External: the source serves something new.
Change(c) ==
  /\ content[c] < Latest[c]
  /\ content' = [content EXCEPT ![c] = @ + 1]
  /\ UNCHANGED <<procVars, rowVars, inflight, task, dataVars, history, counters>>

TaskStep(c) ==
  \/ GiveUp(c) \/ AcquireGlobal(c) \/ AcquireDomain(c) \/ MarkRunning(c)
  \/ Fetch(c) \/ SaveCheckpoint(c) \/ PutObject(c) \/ InsertRawEvidence(c) \/ Succeed(c)
  \/ PublishCollected(c) \/ Complete(c) \/ FailJob(c) \/ CountFailure(c)

LoopStep ==
  \/ Startup \/ CreateJob \/ SpawnTask(TRUE) \/ EndTick \/ Exit
  \/ \E c \in Connectors : FinishAborted(c)

Next ==
  \/ LoopStep
  \/ \E due \in SUBSET Connectors, state \in States : BeginTick(due, state)
  \/ CreateJobErr \/ SpawnTask(FALSE) \/ Shutdown \/ AbortAll \/ Kill
  \/ \E c \in Connectors : TaskStep(c) \/ SourceErr(c) \/ CollectErr(c) \/ LastWriteErr(c) \/ Change(c)
  \/ \E c \in Connectors : FinishAbortedErr(c)

\* Tokio runs every task that is ready and its semaphores are fair; the process
\* is restarted; a connector comes due again and again, with the downstream
\* lag low.
Fairness ==
  /\ \A c \in Connectors : SF_vars(TaskStep(c))
  /\ WF_vars(LoopStep)
  /\ SF_vars(BeginTick(Connectors, "normal"))

Spec == Init /\ [][Next]_vars /\ Fairness

------------------------------------------------------------------------------
(* Properties. *)

TypeOK ==
  /\ proc \in {"down", "sleep", "tick", "spawn", "abort"}
  /\ draining \in BOOLEAN
  /\ queue \in Seq(Connectors)
  /\ cap \in 0 .. GlobalLimit
  /\ conn \in [Listed -> [status : {"idle", "running", "error"}, errors : Nat, etag : Versions]]
  /\ job \in [Connectors -> {Over, "queued", "running"}]
  /\ stuck \subseteq Connectors \X {"queued", "running"}
  /\ inflight \subseteq Connectors
  /\ \A c \in Connectors : task[c] # NoTask => task[c].got \in Versions
  /\ Cardinality(Running) <= GlobalLimit
  /\ object \in [Connectors -> SUBSET Versions]
  /\ stored \in [Connectors -> SUBSET Versions]
  /\ announced \in [Connectors -> SUBSET Versions]
  /\ unwritten \subseteq Connectors
  /\ faults \in 0 .. MaxFaults
  /\ stops \in 0 .. MaxStops

\* An evidence row has its body in object storage and was announced in
\* raw.collected, wherever a task was cut off and whatever was stored or taken
\* back before; without its announcement only while its task is about to make it,
\* or where it was interrupted, or failed, before it could.  (TypeOK rides along.)
EvidenceComplete ==
  /\ TypeOK
  /\ \A c \in Connectors :
       stored[c] \subseteq object[c] \cap (announced[c] \cup unannounced[c] \cup Untold(c))

\* The checkpoint makes the next fetch answer 304 only for content that is
\* stored, or about to be, unless a run was interrupted, or failed, between
\* update_checkpoint and the evidence row: that content is not fetched again.
CheckpointCovered ==
  \A c \in Connectors :
    \/ conn[c].etag \in {0} \cup stored[c] \cup skippedOver[c]
    \/ task[c].pc \in {"object", "row"} /\ task[c].got = conn[c].etag

\* No connector and no job looks as if it were running, unless the write that
\* would have ended it failed.
Clean ==
  /\ \A c \in Listed \ unwritten : conn[c].status # "running"
  /\ \A c \in Connectors \ unwritten : job[c] # "running"
  /\ \A s \in stuck : s[1] \notin unwritten => s[2] # "running"

\* Nothing looks running once a tick is over or a process that was asked to stop
\* has ended, although tasks were aborted in the middle of their writes, and
\* whatever an earlier process left behind; only a kill leaves something.
CleanWhenDone ==
  [][proc' = "sleep" \/ (proc # "down" /\ proc' = "down" /\ stops' = stops) => Clean']_vars

\* The content a source ends up with is collected, through errors, backpressure,
\* shutdowns and kills, unless the checkpoint moved past it.
EventuallyCollected ==
  \A c \in Connectors : <>[](content[c] \in stored[c] \cup skippedOver[c])
==============================================================================
