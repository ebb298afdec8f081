----------------------------- MODULE JobService ------------------------------
(***************************************************************************)
(* Jobs (core-jobs/src/service.rs, transition.rs) with the actors that      *)
(* drive them: API requests of operators (core-api/src/jobs.rs) and a       *)
(* worker that runs dispatched jobs (graph-worker, stix-worker and          *)
(* discovery-worker).  A transition reads the row, checks the state machine *)
(* and writes the whole row back; nothing ties the write to the row that    *)
(* was read.                                                                *)
(***************************************************************************)
EXTENDS Integers, FiniteSets

CONSTANTS Jobs,
          ExportJobs,   \* jobs of type stix_export: the worker adds a result key
          Operators,    \* API requests that may be under way at a time
          Worker,       \* the consumer of job.dispatched
          Requests,     \* what operators ask for besides creating jobs
          Faults,       \* storage errors, broker errors and crashes happen
          MaxRetries,   \* bound: retry_count stops counting here
          MaxDispatch   \* bound: unread job.dispatched messages of a job

Statuses == {"queued", "running", "completed", "failed", "retrying", "cancelled"}
Actors   == Operators \cup {Worker}

ASSUME JobAssumption ==
  /\ ExportJobs \subseteq Jobs
  /\ Worker \notin Operators
  /\ Requests \subseteq Statuses \cup {"retry", "dispatch"}
  /\ Faults \in BOOLEAN
  /\ MaxRetries \in Nat \ {0}
  /\ MaxDispatch \in Nat \ {0}

VARIABLES row,        \* the jobs table; status "none" before the insert
          dispatched, \* job.dispatched messages the worker has not committed
          pc,         \* control state of each actor
          job,        \* job it works on
          goal,       \* status it is moving the job to
          seen,       \* row it read, changed and is about to write
          next,       \* where it goes on after the write
          forced      \* history, read by no guard: jobs an operator's write left
                      \* running or completed without a result key

vars == <<row, dispatched, pc, job, goal, seen, next, forced>>

\* started, completed: started_at, completed_at are set; error: error is set;
\* result: parameters holds result_object_key.
Rows == [status : Statuses \cup {"none"}, started : BOOLEAN, completed : BOOLEAN,
         retries : 0 .. MaxRetries, error : BOOLEAN, result : BOOLEAN]

PcStates == {"idle", "check", "get", "put", "dispatch", "publish",
             "work", "merge", "merge_put", "commit"}

NewRow(s) == [status |-> s, started |-> FALSE, completed |-> FALSE,
              retries |-> 0, error |-> FALSE, result |-> FALSE]

TypeOK ==
  /\ row \in [Jobs -> Rows]
  /\ dispatched \in [Jobs -> 0 .. MaxDispatch]
  /\ pc \in [Actors -> PcStates]
  /\ job \in [Actors -> Jobs]
  /\ goal \in [Actors -> Statuses]
  /\ seen \in [Actors -> Rows]
  /\ next \in [Actors -> {"idle", "dispatch", "work", "commit"}]
  /\ forced \subseteq Jobs

Init ==
  /\ row = [j \in Jobs |-> NewRow("none")]
  /\ dispatched = [j \in Jobs |-> 0]
  /\ pc = [a \in Actors |-> "idle"]
  /\ job \in [Actors -> Jobs]
  /\ goal = [a \in Actors |-> "queued"]
  /\ seen = [a \in Actors |-> NewRow("none")]
  /\ next = [a \in Actors |-> "idle"]
  /\ forced = {}

------------------------------------------------------------------------------
(* The state machine. *)

CanTransition(from, to) ==
  <<from, to>> \in
    ({"queued"} \X {"running", "cancelled"})
      \cup ({"running"} \X {"completed", "failed", "retrying", "cancelled"})
      \cup ({"retrying"} \X {"running", "failed", "cancelled"})
      \cup ({"failed"} \X {"retrying", "cancelled"})

Ended == {"completed", "failed", "cancelled"}

\* Faulty variant: completed_at survives a retry.
ApplyTransitionKeepsEnd(r, to) ==
  [r EXCEPT !.status = to,
            !.started = @ \/ to = "running",
            !.completed = @ \/ to \in Ended,
            !.retries = IF to = "retrying" /\ @ < MaxRetries THEN @ + 1 ELSE @,
            !.error = IF to \in {"failed", "cancelled"} THEN TRUE
                      ELSE IF to \in {"completed", "running"} THEN FALSE ELSE @]

\* apply_transition; a cancelled job may come without an error text, which
\* makes no difference here.
ApplyTransition(r, to) ==
  [r EXCEPT !.status = to,
            !.started = @ \/ to = "running",
            !.completed = (@ \/ to \in Ended) /\ to # "retrying",
            !.retries = IF to = "retrying" /\ @ < MaxRetries THEN @ + 1 ELSE @,
            !.error = IF to \in {"failed", "cancelled"} THEN TRUE
                      ELSE IF to \in {"completed", "running"} THEN FALSE ELSE @]

------------------------------------------------------------------------------
(* JobService::transition: get_job, apply_transition, put_job. *)

Goto(a, place) == pc' = [pc EXCEPT ![a] = place]

\* A transition is over: what was read for it is forgotten.
Leave(a, place) ==
  /\ Goto(a, place)
  /\ goal' = [goal EXCEPT ![a] = "queued"]
  /\ seen' = [seen EXCEPT ![a] = NewRow("none")]
  /\ next' = [next EXCEPT ![a] = "idle"]

\* What an actor does when its transition is refused or fails: the request
\* ends with an error, the worker logs and commits the offset.
GiveUp(a) == Leave(a, IF a = Worker THEN "commit" ELSE "idle")

\* Begin transition(j, to), going on at `then` after the write.
BeginTransition(a, j, to, then) ==
  /\ job' = [job EXCEPT ![a] = j]
  /\ goal' = [goal EXCEPT ![a] = to]
  /\ next' = [next EXCEPT ![a] = then]
  /\ seen' = [seen EXCEPT ![a] = NewRow("none")]
  /\ Goto(a, "get")

\* Faulty variant: the state machine is not asked.
GetJobUnchecked(a) ==
  /\ pc[a] = "get"
  /\ seen' = [seen EXCEPT ![a] = ApplyTransition(row[job[a]], goal[a])]
  /\ Goto(a, "put")
  /\ UNCHANGED <<row, dispatched, job, goal, next, forced>>

GetJob(a) ==
  /\ pc[a] = "get"
  /\ CanTransition(row[job[a]].status, goal[a])
  /\ seen' = [seen EXCEPT ![a] = ApplyTransition(row[job[a]], goal[a])]
  /\ Goto(a, "put")
  /\ UNCHANGED <<row, dispatched, job, goal, next, forced>>

\* JobError::from_status
Refused(a) ==
  /\ pc[a] = "get"
  /\ ~CanTransition(row[job[a]].status, goal[a])
  /\ GiveUp(a)
  /\ UNCHANGED <<row, dispatched, job, forced>>

\* put_job: INSERT .. ON CONFLICT (id) DO UPDATE of every column.
Write(a) ==
  /\ row' = [row EXCEPT ![job[a]] = seen[a]]
  /\ forced' = IF a # Worker /\ seen[a].status \in {"running", "completed"} /\ ~seen[a].result
               THEN forced \cup {job[a]} ELSE forced

PutJob(a) ==
  /\ pc[a] = "put"
  /\ Write(a)
  /\ Leave(a, next[a])
  /\ UNCHANGED <<dispatched, job>>

\* get_job fails, or put_job does and the write may have got through.
StorageError(a) ==
  /\ Faults
  /\ pc[a] \in {"check", "get", "put", "dispatch"}
  /\ \/ UNCHANGED <<row, forced>>
     \/ pc[a] = "put" /\ Write(a)
  /\ GiveUp(a)
  /\ UNCHANGED <<dispatched, job>>

------------------------------------------------------------------------------
(* Operators: create_job, transition_job, dispatch_job, retry_job. *)

\* create, or the first half of create_and_dispatch.
CreateJob(o, j, dispatch) ==
  /\ pc[o] = "idle"
  /\ row[j].status = "none"
  /\ row' = [row EXCEPT ![j] = NewRow("queued")]
  /\ job' = [job EXCEPT ![o] = j]
  /\ Goto(o, IF dispatch THEN "dispatch" ELSE "idle")
  /\ UNCHANGED <<dispatched, goal, seen, next, forced>>

RequestTransition(o, j, to) ==
  /\ pc[o] = "idle"
  /\ to \in Requests \cap Statuses
  /\ row[j].status # "none"
  /\ BeginTransition(o, j, to, "idle")
  /\ UNCHANGED <<row, dispatched, forced>>

RequestRetry(o, j) ==
  /\ pc[o] = "idle"
  /\ "retry" \in Requests
  /\ job' = [job EXCEPT ![o] = j]
  /\ Goto(o, "check")
  /\ UNCHANGED <<row, dispatched, goal, seen, next, forced>>

\* retry: the status is read once to see that it is failed, and again by
\* the transition.
CheckRetry(o) ==
  /\ pc[o] = "check"
  /\ IF row[job[o]].status = "failed"
       THEN BeginTransition(o, job[o], "retrying", "dispatch")
       ELSE Goto(o, "idle") /\ UNCHANGED <<job, goal, seen, next>>
  /\ UNCHANGED <<row, dispatched, forced>>

RequestDispatch(o, j) ==
  /\ pc[o] = "idle"
  /\ "dispatch" \in Requests
  /\ job' = [job EXCEPT ![o] = j]
  /\ Goto(o, "dispatch")
  /\ UNCHANGED <<row, dispatched, goal, seen, next, forced>>

\* dispatch refuses (NotDispatchable) unless the job is queued or retrying.
CheckDispatch(o) ==
  /\ pc[o] = "dispatch"
  /\ Goto(o, IF row[job[o]].status \in {"queued", "retrying"} THEN "publish" ELSE "idle")
  /\ UNCHANGED <<row, dispatched, job, goal, seen, next, forced>>

Publish(o) ==
  /\ pc[o] = "publish"
  /\ dispatched[job[o]] < MaxDispatch
  /\ dispatched' = [dispatched EXCEPT ![job[o]] = @ + 1]
  /\ Goto(o, "idle")
  /\ UNCHANGED <<row, job, goal, seen, next, forced>>

\* The job stays as it is, without a message for the worker.
PublishErr(o) ==
  /\ Faults
  /\ pc[o] = "publish"
  /\ Goto(o, "idle")
  /\ UNCHANGED <<row, dispatched, job, goal, seen, next, forced>>

------------------------------------------------------------------------------
(* The worker: process_dispatched_job. *)

Take(j) ==
  /\ pc[Worker] = "idle"
  /\ dispatched[j] > 0
  /\ BeginTransition(Worker, j, "running", "work")
  /\ UNCHANGED <<row, dispatched, forced>>

WorkErr ==
  /\ pc[Worker] = "work"
  /\ BeginTransition(Worker, job[Worker], "failed", "commit")
  /\ UNCHANGED <<row, dispatched, forced>>

\* Faulty variant: the job is completed before its result key is stored.
WorkOkCompletesFirst ==
  /\ pc[Worker] = "work"
  /\ BeginTransition(Worker, job[Worker], "completed", "commit")
  /\ UNCHANGED <<row, dispatched, forced>>

WorkOk ==
  /\ pc[Worker] = "work"
  /\ IF job[Worker] \in ExportJobs
       THEN Goto(Worker, "merge") /\ UNCHANGED <<job, goal, seen, next>>
       ELSE BeginTransition(Worker, job[Worker], "completed", "commit")
  /\ UNCHANGED <<row, dispatched, forced>>

\* merge_parameters reads the whole row ...
MergeGet ==
  /\ pc[Worker] = "merge"
  /\ seen' = [seen EXCEPT ![Worker] = [row[job[Worker]] EXCEPT !.result = TRUE]]
  /\ Goto(Worker, "merge_put")
  /\ UNCHANGED <<row, dispatched, job, goal, next, forced>>

\* ... and writes the whole row.
MergePut ==
  /\ pc[Worker] = "merge_put"
  /\ Write(Worker)
  /\ BeginTransition(Worker, job[Worker], "completed", "commit")
  /\ UNCHANGED dispatched

\* merge_parameters fails: the job is marked failed.
MergeErr ==
  /\ Faults
  /\ pc[Worker] \in {"merge", "merge_put"}
  /\ \/ UNCHANGED <<row, forced>>
     \/ pc[Worker] = "merge_put" /\ Write(Worker)
  /\ BeginTransition(Worker, job[Worker], "failed", "commit")
  /\ UNCHANGED dispatched

\* The offset is committed whatever became of the job.
CommitOffset ==
  /\ pc[Worker] = "commit"
  /\ dispatched' = [dispatched EXCEPT ![job[Worker]] = @ - 1]
  /\ Goto(Worker, "idle")
  /\ UNCHANGED <<row, job, goal, seen, next, forced>>

\* The process dies; a worker's message will be delivered again.
Crash(a) ==
  /\ Faults
  /\ pc[a] # "idle"
  /\ Leave(a, "idle")
  /\ UNCHANGED <<row, dispatched, job, forced>>

WorkerStep ==
  \/ \E j \in Jobs : Take(j)
  \/ GetJob(Worker) \/ Refused(Worker) \/ PutJob(Worker)
  \/ WorkOk \/ WorkErr \/ MergeGet \/ MergePut \/ CommitOffset

NewRequest(o) ==
  \E j \in Jobs :
    \/ \E dispatch \in BOOLEAN : CreateJob(o, j, dispatch)
    \/ \E to \in Statuses : RequestTransition(o, j, to)
    \/ RequestRetry(o, j) \/ RequestDispatch(o, j)

RequestStep(o) ==
  \/ GetJob(o) \/ Refused(o) \/ PutJob(o)
  \/ CheckRetry(o) \/ CheckDispatch(o) \/ Publish(o)

Next ==
  \/ WorkerStep
  \/ \E o \in Operators : NewRequest(o) \/ RequestStep(o) \/ PublishErr(o)
  \/ \E a \in Actors : StorageError(a) \/ Crash(a)
  \/ MergeErr

Spec == Init /\ [][Next]_vars

------------------------------------------------------------------------------
(* Properties. *)

\* completed_at is set exactly on ended jobs and started_at on every job that
\* has run, although rows are overwritten with stale copies: purge_jobs relies
\* on the first when it looks for completed_at IS NOT NULL.
Consistent(r) ==
  /\ r.completed <=> r.status \in Ended
  /\ r.status \in {"running", "completed", "failed", "retrying"} => r.started
  /\ r.retries > 0 => r.started

TimestampsMatchStatus == \A j \in Jobs : Consistent(row[j])

\* A completed export has its result key, which the worker stores before it completes
\* the job: otherwise GET /jobs/{id}/result answers 500.  Except a job that an
\* operator's POST /jobs/{id}/transition started or completed without a key, which
\* the API allows (transition_job asks the state machine only).
CompletedExportHasResult ==
  \A j \in ExportJobs \ forced : row[j].status = "completed" => row[j].result

\* The job has ended and no write under way would give it another status.
Settled(j) ==
  /\ row[j].status \in {"completed", "cancelled"}
  /\ \A a \in Actors :
       job[a] = j /\ pc[a] \in {"put", "merge_put"} => seen[a].status = row[j].status

\* What is left of "terminal states: completed, cancelled" (transition.rs) when
\* actors race: once a job has ended and the writes already under way are over, neither a redelivered or duplicated
\* job.dispatched nor any request ever starts it again.
SettledIsFinal ==
  [][\A j \in Jobs : Settled(j) => row'[j].status = row[j].status /\ Settled(j)']_vars
==============================================================================
