--------------------------- MODULE JobServiceProofs --------------------------
(***************************************************************************)
(* Proofs about JobService for any number of jobs and concurrent requests. *)
(* TimestampsMatchStatus is not inductive: PutJob writes the copy of the   *)
(* row an actor made earlier.  The copies have to be consistent as well,   *)
(* and they are, because apply_transition maps a consistent row to a       *)
(* consistent row along every edge of the state machine.                   *)
(***************************************************************************)
EXTENDS JobService, TLAPS

\* The table and every copy of a row are consistent.
Data ==
  /\ TypeOK
  /\ \A j \in Jobs : Consistent(row[j])
  /\ \A a \in Actors : Consistent(seen[a])

\* The message a busy worker was given is still there to be committed.
Held == pc[Worker] # "idle" => dispatched[job[Worker]] > 0

\* The inductive invariant.
IInv == Data /\ Held

\* A new row, and the placeholder for no row, are rows and consistent.
LEMMA NewRowConsistent ==
  ASSUME NEW s \in {"none", "queued"}
  PROVE  NewRow(s) \in Rows /\ Consistent(NewRow(s))
BY JobAssumption DEF NewRow, Rows, Statuses, Consistent, Ended

\* apply_transition along an edge of can_transition keeps a row consistent.
LEMMA ApplyTransitionConsistent ==
  ASSUME NEW r \in Rows, NEW to \in Statuses,
         Consistent(r), CanTransition(r.status, to)
  PROVE  ApplyTransition(r, to) \in Rows /\ Consistent(ApplyTransition(r, to))
<1> DEFINE q == ApplyTransition(r, to)
<1>1. /\ q.status = to
      /\ q.started = (r.started \/ to = "running")
      /\ q.completed = ((r.completed \/ to \in Ended) /\ to # "retrying")
      /\ q.retries = IF to = "retrying" /\ r.retries < MaxRetries
                     THEN r.retries + 1 ELSE r.retries
  BY DEF ApplyTransition, Rows
<1>2. q \in Rows
  <2>1. /\ (r.started \/ to = "running") \in BOOLEAN
        /\ ((r.completed \/ to \in Ended) /\ to # "retrying") \in BOOLEAN
        /\ to \in Statuses \cup {"none"}
        /\ r.error \in BOOLEAN
    BY DEF Rows
  <2>2. (IF to = "retrying" /\ r.retries < MaxRetries THEN r.retries + 1 ELSE r.retries)
          \in 0 .. MaxRetries
    BY JobAssumption DEF Rows
  <2> QED BY <2>1, <2>2 DEF ApplyTransition, Rows
<1>3. Consistent(q)
  <2>1. q.completed <=> q.status \in Ended
    BY <1>1 DEF Consistent, CanTransition, Ended, Rows, Statuses
  <2>2. q.status \in {"running", "completed", "failed", "retrying"} => q.started
    BY <1>1 DEF Consistent, CanTransition, Rows, Statuses
  <2>3. q.retries > 0 => q.started
    BY <1>1, JobAssumption DEF Consistent, CanTransition, Rows, Statuses
  <2> QED BY <2>1, <2>2, <2>3 DEF Consistent
<1> QED BY <1>2, <1>3

\* Storing the result key changes none of the columns Consistent speaks of.
LEMMA ResultKeyConsistent ==
  ASSUME NEW r \in Rows, Consistent(r)
  PROVE  /\ [r EXCEPT !.result = TRUE] \in Rows
         /\ Consistent([r EXCEPT !.result = TRUE])
BY DEF Rows, Consistent

\* Initially there is no job and no copy of one.
LEMMA InitInv == Init => IInv
BY NewRowConsistent, JobAssumption
   DEF Init, IInv, Data, Held, TypeOK, Actors, PcStates, Statuses

\* Leaving a transition forgets the copy.
LEMMA LeaveInv ==
  ASSUME Data, NEW a \in Actors, NEW place \in PcStates, Leave(a, place)
  PROVE  /\ pc' \in [Actors -> PcStates]
         /\ goal' \in [Actors -> Statuses]
         /\ seen' \in [Actors -> Rows]
         /\ next' \in [Actors -> {"idle", "dispatch", "work", "commit"}]
         /\ \A b \in Actors : Consistent(seen'[b])
BY NewRowConsistent DEF Data, TypeOK, Leave, Goto, Statuses

\* So does beginning one.
LEMMA BeginInv ==
  ASSUME Data, NEW a \in Actors, NEW j \in Jobs, NEW to \in Statuses,
         NEW then \in {"idle", "dispatch", "work", "commit"},
         BeginTransition(a, j, to, then)
  PROVE  /\ pc' \in [Actors -> PcStates]
         /\ job' \in [Actors -> Jobs]
         /\ goal' \in [Actors -> Statuses]
         /\ seen' \in [Actors -> Rows]
         /\ next' \in [Actors -> {"idle", "dispatch", "work", "commit"}]
         /\ \A b \in Actors : Consistent(seen'[b])
BY NewRowConsistent DEF Data, TypeOK, BeginTransition, Goto, PcStates

\* Writing a copy that is consistent keeps the table consistent.
LEMMA WriteInv ==
  ASSUME Data, NEW a \in Actors, UNCHANGED <<row, forced>> \/ Write(a)
  PROVE  /\ row' \in [Jobs -> Rows] /\ \A k \in Jobs : Consistent(row'[k])
         /\ forced' \subseteq Jobs
BY DEF Write, Data, TypeOK

\* A request or a worker that only moves on keeps the invariant.
LEMMA GotoInv ==
  ASSUME Data, NEW a \in Actors, NEW place \in PcStates, Goto(a, place),
         job' \in [Actors -> Jobs], UNCHANGED <<row, dispatched, goal, seen, next, forced>>
  PROVE  Data'
BY DEF Data, TypeOK, Goto, Consistent

\* Every step keeps the rows and their copies consistent.
LEMMA NextData == IInv /\ [Next]_vars => Data'
<1> SUFFICES ASSUME Data, Held, [Next]_vars PROVE Data'
  BY DEF IInv
<1> USE JobAssumption
<1>w. Worker \in Actors
  BY DEF Actors
<1>o. \A o \in Operators : o \in Actors
  BY DEF Actors
<1>1. ASSUME NEW a \in Actors, GetJob(a) PROVE Data'
  <2>1. ApplyTransition(row[job[a]], goal[a]) \in Rows
        /\ Consistent(ApplyTransition(row[job[a]], goal[a]))
    BY <1>1, ApplyTransitionConsistent DEF GetJob, Data, TypeOK
  <2> QED BY <1>1, <2>1 DEF GetJob, Goto, Data, TypeOK, PcStates
<1>2. ASSUME NEW a \in Actors, Refused(a) PROVE Data'
  <2>1. PICK place \in PcStates : Leave(a, place)
    BY <1>2 DEF Refused, GiveUp, PcStates
  <2> QED BY <1>2, <2>1, LeaveInv DEF Refused, Data, TypeOK
<1>3. ASSUME NEW a \in Actors, PutJob(a) PROVE Data'
  <2>1. next[a] \in PcStates /\ Leave(a, next[a])
    BY <1>3 DEF PutJob, Data, TypeOK, PcStates
  <2>2. row' \in [Jobs -> Rows] /\ \A k \in Jobs : Consistent(row'[k]) /\ forced' \subseteq Jobs
    BY <1>3, WriteInv DEF PutJob
  <2> QED BY <1>3, <2>1, <2>2, LeaveInv DEF PutJob, Data, TypeOK
<1>4. ASSUME NEW a \in Actors, StorageError(a) PROVE Data'
  <2>1. PICK place \in PcStates : Leave(a, place)
    BY <1>4 DEF StorageError, GiveUp, PcStates
  <2>2. row' \in [Jobs -> Rows] /\ \A k \in Jobs : Consistent(row'[k]) /\ forced' \subseteq Jobs
    BY <1>4, WriteInv DEF StorageError
  <2> QED BY <1>4, <2>1, <2>2, LeaveInv DEF StorageError, Data, TypeOK
<1>5. ASSUME NEW a \in Actors, Crash(a) PROVE Data'
  <2>1. "idle" \in PcStates /\ Leave(a, "idle")
    BY <1>5 DEF Crash, PcStates
  <2> QED BY <1>5, <2>1, LeaveInv DEF Crash, Data, TypeOK
<1>6. ASSUME NEW o \in Operators, NewRequest(o) PROVE Data'
  <2>1. ASSUME NEW j \in Jobs, NEW d \in BOOLEAN, CreateJob(o, j, d) PROVE Data'
    <3>1. NewRow("queued") \in Rows /\ Consistent(NewRow("queued"))
      BY NewRowConsistent
    <3> QED BY <2>1, <3>1, <1>o DEF CreateJob, Goto, Data, TypeOK, PcStates
  <2>2. ASSUME NEW j \in Jobs, NEW to \in Statuses, RequestTransition(o, j, to)
        PROVE Data'
    BY <2>2, <1>o, BeginInv DEF RequestTransition, Data, TypeOK
  <2>3. ASSUME NEW j \in Jobs, RequestRetry(o, j) PROVE Data'
    BY <2>3, <1>o, GotoInv DEF RequestRetry, Data, TypeOK, PcStates
  <2>4. ASSUME NEW j \in Jobs, RequestDispatch(o, j) PROVE Data'
    BY <2>4, <1>o, GotoInv DEF RequestDispatch, Data, TypeOK, PcStates
  <2> QED BY <1>6, <2>1, <2>2, <2>3, <2>4 DEF NewRequest
<1>7. ASSUME NEW o \in Operators, RequestStep(o) \/ PublishErr(o) PROVE Data'
  <2>1. ASSUME CheckRetry(o) PROVE Data'
    <3>1. CASE row[job[o]].status = "failed"
      BY <2>1, <3>1, <1>o, BeginInv DEF CheckRetry, Data, TypeOK, Statuses
    <3>2. CASE row[job[o]].status # "failed"
      BY <2>1, <3>2, <1>o, GotoInv DEF CheckRetry, Data, TypeOK, PcStates
    <3> QED BY <3>1, <3>2
  <2>2. ASSUME CheckDispatch(o) PROVE Data'
    BY <2>2, <1>o, GotoInv DEF CheckDispatch, Data, TypeOK, PcStates
  <2>3. ASSUME Publish(o) PROVE Data'
    BY <2>3, <1>o DEF Publish, Goto, Data, TypeOK, PcStates
  <2>4. ASSUME PublishErr(o) PROVE Data'
    BY <2>4, <1>o, GotoInv DEF PublishErr, Data, TypeOK, PcStates
  <2> QED BY <1>7, <1>1, <1>2, <1>3, <1>o, <2>1, <2>2, <2>3, <2>4 DEF RequestStep
<1>8. ASSUME WorkerStep PROVE Data'
  <2>1. ASSUME NEW j \in Jobs, Take(j) PROVE Data'
    BY <2>1, <1>w, BeginInv DEF Take, Data, TypeOK, Statuses
  <2>2. ASSUME WorkOk PROVE Data'
    <3>1. CASE job[Worker] \in ExportJobs
      BY <2>2, <3>1, <1>w, GotoInv DEF WorkOk, Data, TypeOK, PcStates
    <3>2. CASE job[Worker] \notin ExportJobs
      BY <2>2, <3>2, <1>w, BeginInv DEF WorkOk, Data, TypeOK, Statuses
    <3> QED BY <3>1, <3>2
  <2>3. ASSUME WorkErr PROVE Data'
    BY <2>3, <1>w, BeginInv DEF WorkErr, Data, TypeOK, Statuses
  <2>4. ASSUME MergeGet PROVE Data'
    <3>1. [row[job[Worker]] EXCEPT !.result = TRUE] \in Rows
          /\ Consistent([row[job[Worker]] EXCEPT !.result = TRUE])
      BY <1>w, ResultKeyConsistent DEF Data, TypeOK
    <3> QED BY <2>4, <3>1, <1>w DEF MergeGet, Goto, Data, TypeOK, PcStates
  <2>5. ASSUME MergePut PROVE Data'
    <3>1. row' \in [Jobs -> Rows] /\ \A k \in Jobs : Consistent(row'[k]) /\ forced' \subseteq Jobs
      BY <2>5, <1>w, WriteInv DEF MergePut
    <3> QED BY <2>5, <3>1, <1>w, BeginInv DEF MergePut, Data, TypeOK, Statuses
  <2>6. ASSUME CommitOffset PROVE Data'
    BY <2>6, <1>w DEF CommitOffset, Goto, Data, Held, TypeOK, PcStates
  <2> QED BY <1>8, <1>w, <1>1, <1>2, <1>3, <2>1, <2>2, <2>3, <2>4, <2>5, <2>6
          DEF WorkerStep
<1>9. ASSUME MergeErr PROVE Data'
  <2>1. row' \in [Jobs -> Rows] /\ \A k \in Jobs : Consistent(row'[k]) /\ forced' \subseteq Jobs
    BY <1>9, <1>w, WriteInv DEF MergeErr
  <2> QED BY <1>9, <2>1, <1>w, BeginInv DEF MergeErr, Data, TypeOK, Statuses
<1>10. CASE UNCHANGED vars
  BY <1>10 DEF vars, Data, TypeOK, Consistent
<1> QED BY <1>1, <1>2, <1>3, <1>4, <1>5, <1>6, <1>7, <1>8, <1>9, <1>10 DEF Next

\* Only the worker takes messages away, when it becomes idle.
LEMMA NextHeld == IInv /\ [Next]_vars => Held'
<1> SUFFICES ASSUME Data, Held, [Next]_vars PROVE Held'
  BY DEF IInv
<1> USE JobAssumption DEF Held
<1>w. Worker \in Actors /\ Worker \notin Operators
  BY DEF Actors
<1>t. dispatched \in [Jobs -> 0 .. MaxDispatch] /\ pc \in [Actors -> PcStates]
      /\ job \in [Actors -> Jobs]
  BY DEF Data, TypeOK
<1>1. ASSUME NEW a \in Actors, GetJob(a) \/ Refused(a) \/ PutJob(a) \/ StorageError(a) \/ Crash(a)
      PROVE  Held'
  BY <1>1, <1>w, <1>t DEF GetJob, Refused, PutJob, StorageError, Crash, Leave, GiveUp, Goto
<1>2. ASSUME NEW o \in Operators, NewRequest(o) PROVE Held'
  BY <1>2, <1>w, <1>t DEF NewRequest, CreateJob, RequestTransition, RequestRetry,
        RequestDispatch, BeginTransition, Goto, Actors
<1>3. ASSUME NEW o \in Operators, RequestStep(o) \/ PublishErr(o) PROVE Held'
  <2>1. o \in Actors /\ o # Worker
    BY DEF Actors
  <2>2. ASSUME CheckRetry(o) PROVE Held'
    BY <2>1, <2>2, <1>w, <1>t DEF CheckRetry, BeginTransition, Goto
  <2>3. ASSUME CheckDispatch(o) \/ PublishErr(o) PROVE Held'
    BY <2>1, <2>3, <1>w, <1>t DEF CheckDispatch, PublishErr, Goto
  <2>4. ASSUME Publish(o) PROVE Held'
    BY <2>1, <2>4, <1>w, <1>t DEF Publish, Goto
  <2> QED BY <1>3, <2>1, <1>1, <2>2, <2>3, <2>4 DEF RequestStep
<1>4. ASSUME WorkerStep PROVE Held'
  <2>1. ASSUME NEW j \in Jobs, Take(j) PROVE Held'
    BY <2>1, <1>w, <1>t DEF Take, BeginTransition, Goto
  <2>2. ASSUME WorkOk \/ WorkErr PROVE Held'
    BY <2>2, <1>w, <1>t DEF WorkOk, WorkErr, BeginTransition, Goto
  <2>3. ASSUME MergeGet \/ MergePut PROVE Held'
    BY <2>3, <1>w, <1>t DEF MergeGet, MergePut, BeginTransition, Goto
  <2>4. ASSUME CommitOffset PROVE Held'
    BY <2>4, <1>w, <1>t DEF CommitOffset, Goto
  <2> QED BY <1>4, <1>w, <1>1, <2>1, <2>2, <2>3, <2>4 DEF WorkerStep
<1>5. ASSUME MergeErr PROVE Held'
  BY <1>5, <1>w, <1>t DEF MergeErr, BeginTransition, Goto
<1>6. CASE UNCHANGED vars
  BY <1>6 DEF vars
<1> QED BY <1>1, <1>2, <1>3, <1>4, <1>5, <1>6 DEF Next

\* The invariant holds in every state of every behaviour.
THEOREM Invariance == Spec => []IInv
<1>1. IInv /\ [Next]_vars => IInv'
  BY NextData, NextHeld DEF IInv
<1> QED BY InitInv, <1>1, PTL DEF Spec

\* Rows, copies and control states keep their types.
THEOREM TypeCorrect == Spec => []TypeOK
<1>1. IInv => TypeOK
  BY DEF IInv, Data
<1> QED BY <1>1, Invariance, PTL

\* However many requests and workers overwrite a job with stale copies,
\* completed_at is set exactly on ended jobs and started_at on those that ran.
THEOREM TimestampsAlwaysMatch == Spec => []TimestampsMatchStatus
<1>1. IInv => TimestampsMatchStatus
  BY DEF IInv, Data, TimestampsMatchStatus
<1> QED BY <1>1, Invariance, PTL

------------------------------------------------------------------------------
(* A job that has ended and that no actor is about to overwrite stays      *)
(* ended. Settled is a guarantee about copies as much as about the row:    *)
(* can_transition refuses a new copy with another status, and the copies   *)
(* there are agree.                                                        *)

\* Actor b has the copy in hand that it had before the step.
SameCopy(b) ==
  /\ pc[b] \in {"put", "merge_put"}
  /\ job'[b] = job[b]
  /\ seen'[b] = seen[b]

\* No edge of the state machine leaves completed or cancelled.
LEMMA EndIsFinal ==
  ASSUME NEW from \in {"completed", "cancelled"}, NEW to
  PROVE  ~CanTransition(from, to)
BY DEF CanTransition

\* A step keeps a job settled if it keeps its status and every actor that is about
\* to write holds an old copy, or one with that status.
LEMMA KeepsSettled ==
  ASSUME NEW j \in Jobs, Settled(j), row'[j].status = row[j].status,
         \A b \in Actors : job'[b] = j /\ pc'[b] \in {"put", "merge_put"} =>
           SameCopy(b) \/ seen'[b].status = row[j].status
  PROVE  Settled(j)'
BY DEF Settled, SameCopy

\* Every step keeps a settled job settled: get_job cannot make a copy of it, so the
\* copies that will be written are the ones that were there.
LEMMA SettledStep ==
  ASSUME TypeOK, [Next]_vars, NEW j \in Jobs, Settled(j)
  PROVE  row'[j].status = row[j].status /\ Settled(j)'
<1> USE JobAssumption
<1> DEFINE Writes == {"put", "merge_put"}
           Kept == row'[j].status = row[j].status
           Copies == \A b \in Actors : job'[b] = j /\ pc'[b] \in Writes =>
                       SameCopy(b) \/ seen'[b].status = row[j].status
<1> SUFFICES Kept /\ Copies
  BY KeepsSettled
<1>w. Worker \in Actors /\ Worker \notin Operators /\ \A o \in Operators : o \in Actors
  BY DEF Actors
<1>t. /\ row \in [Jobs -> Rows] /\ pc \in [Actors -> PcStates] /\ job \in [Actors -> Jobs]
      /\ seen \in [Actors -> Rows]
      /\ next \in [Actors -> {"idle", "dispatch", "work", "commit"}]
  BY DEF TypeOK
<1>put. ASSUME NEW a \in Actors, pc[a] \in Writes,
               UNCHANGED <<row, forced>> \/ Write(a)
        PROVE  Kept
  BY <1>put, <1>t DEF Settled, Write
<1>leave. ASSUME NEW a \in Actors, NEW place, place \notin Writes, Leave(a, place), UNCHANGED job
          PROVE  Copies
  BY <1>leave, <1>t DEF Leave, Goto, SameCopy
<1>begin. ASSUME NEW a \in Actors, NEW k \in Jobs, NEW to, NEW then, BeginTransition(a, k, to, then)
          PROVE  Copies
  BY <1>begin, <1>t DEF BeginTransition, Goto, SameCopy
<1>goto. ASSUME NEW a \in Actors, NEW place, place \notin Writes, Goto(a, place), UNCHANGED seen,
                NEW k \in Jobs, job' = [job EXCEPT ![a] = k] \/ UNCHANGED job
         PROVE  Copies
  BY <1>goto, <1>t DEF Goto, SameCopy
<1>1. ASSUME NEW a \in Actors, GetJob(a) PROVE Kept /\ Copies
  <2>1. job[a] # j
    BY <1>1, <1>t, EndIsFinal DEF GetJob, Settled
  <2> QED BY <1>1, <2>1, <1>t DEF GetJob, Goto, SameCopy
<1>2. ASSUME NEW a \in Actors, Refused(a) PROVE Kept /\ Copies
  BY <1>2, <1>leave DEF Refused, GiveUp
<1>3. ASSUME NEW a \in Actors, PutJob(a) PROVE Kept /\ Copies
  BY <1>3, <1>t, <1>put, <1>leave DEF PutJob
<1>4. ASSUME NEW a \in Actors, StorageError(a) PROVE Kept /\ Copies
  <2>1. Kept
    BY <1>4, <1>t, <1>put DEF StorageError
  <2> QED BY <1>4, <2>1, <1>leave DEF StorageError, GiveUp
<1>5. ASSUME NEW a \in Actors, Crash(a) PROVE Kept /\ Copies
  BY <1>5, <1>leave DEF Crash
<1>6. ASSUME NEW o \in Operators, NewRequest(o) PROVE Kept /\ Copies
  <2>1. ASSUME NEW k \in Jobs, NEW d \in BOOLEAN, CreateJob(o, k, d) PROVE Kept /\ Copies
    <3>1. k # j
      BY <2>1 DEF CreateJob, Settled
    <3> QED BY <2>1, <3>1, <1>t, <1>w, <1>goto DEF CreateJob
  <2>2. ASSUME NEW k \in Jobs, NEW to \in Statuses, RequestTransition(o, k, to) PROVE Kept /\ Copies
    BY <2>2, <1>w, <1>begin DEF RequestTransition
  <2>3. ASSUME NEW k \in Jobs, RequestRetry(o, k) \/ RequestDispatch(o, k) PROVE Kept /\ Copies
    BY <2>3, <1>w, <1>goto DEF RequestRetry, RequestDispatch
  <2> QED BY <1>6, <2>1, <2>2, <2>3 DEF NewRequest
<1>7. ASSUME NEW o \in Operators, RequestStep(o) \/ PublishErr(o) PROVE Kept /\ Copies
  <2>1. ASSUME CheckRetry(o) PROVE Kept /\ Copies
    BY <2>1, <1>t, <1>w, <1>goto, <1>begin DEF CheckRetry
  <2>2. ASSUME CheckDispatch(o) \/ Publish(o) \/ PublishErr(o) PROVE Kept /\ Copies
    BY <2>2, <1>w, <1>goto DEF CheckDispatch, Publish, PublishErr
  <2> QED BY <1>7, <1>1, <1>2, <1>3, <1>w, <2>1, <2>2 DEF RequestStep
<1>8. ASSUME WorkerStep PROVE Kept /\ Copies
  <2>1. ASSUME NEW k \in Jobs, Take(k) PROVE Kept /\ Copies
    BY <2>1, <1>w, <1>begin DEF Take
  <2>2. ASSUME WorkOk \/ WorkErr PROVE Kept /\ Copies
    BY <2>2, <1>t, <1>w, <1>begin, <1>goto DEF WorkOk, WorkErr
  <2>3. ASSUME MergeGet PROVE Kept /\ Copies
    BY <2>3, <1>t, <1>w DEF MergeGet, Goto, SameCopy, Rows
  <2>4. ASSUME MergePut PROVE Kept /\ Copies
    <3>1. Kept
      BY <2>4, <1>w, <1>put DEF MergePut
    <3> QED BY <2>4, <3>1, <1>t, <1>w, <1>begin DEF MergePut
  <2>5. ASSUME CommitOffset PROVE Kept /\ Copies
    BY <2>5, <1>w, <1>goto DEF CommitOffset
  <2> QED BY <1>8, <1>w, <1>1, <1>2, <1>3, <2>1, <2>2, <2>3, <2>4, <2>5 DEF WorkerStep
<1>9. ASSUME MergeErr PROVE Kept /\ Copies
  <2>1. Kept
    BY <1>9, <1>w, <1>put DEF MergeErr
  <2> QED BY <1>9, <2>1, <1>t, <1>w, <1>begin DEF MergeErr
<1>10. CASE UNCHANGED vars
  BY <1>10 DEF vars, SameCopy
<1> HIDE DEF Kept, Copies
<1> QED BY <1>1, <1>2, <1>3, <1>4, <1>5, <1>6, <1>7, <1>8, <1>9, <1>10 DEF Next

\* Once a job has ended and no write under way would change that, no request, no
\* redelivered message and no stale copy starts it again, for any number of jobs
\* and actors.
THEOREM EndedJobsStayEnded == Spec => SettledIsFinal
<1>1. TypeOK /\ [Next]_vars =>
        [\A j \in Jobs : Settled(j) => row'[j].status = row[j].status /\ Settled(j)']_vars
  BY SettledStep
<1> QED BY <1>1, TypeCorrect, PTL DEF Spec, SettledIsFinal

------------------------------------------------------------------------------
(* A completed export has its result key, unless an operator started or     *)
(* completed the job without one (POST /jobs/{id}/transition would let      *)
(* them).  Of such a job only the worker makes the row running or completed  *)
(* without a key, so that what it stored with merge_parameters is there when *)
(* it reads the row to complete the job, or the job is no longer running     *)
(* and it is refused.                                                       *)

ByWorker == {"running", "completed"}

\* What the worker holds and is about to find has the result key.
ResultInHand ==
  job[Worker] \in ExportJobs \ forced =>
    /\ seen[Worker].status = "completed" => seen[Worker].result
    /\ pc[Worker] = "merge_put" => seen[Worker].result
    /\ pc[Worker] = "get" /\ goal[Worker] = "completed" /\ row[job[Worker]].status = "running"
         => row[job[Worker]].result

\* The inductive invariant of exports.
ExportInv == ResultInHand /\ CompletedExportHasResult

\* What a step of an operator does to the rows and to the history.
OperatorWrites(o) ==
  \/ UNCHANGED <<row, forced>>
  \/ Write(o)
  \/ UNCHANGED forced /\ \E j \in Jobs : row' = [row EXCEPT ![j] = NewRow("queued")]

\* A step of an operator that leaves the worker alone keeps the export invariant if
\* it writes at most the operator's copy.
LEMMA OperatorExport ==
  ASSUME TypeOK, ExportInv, NEW o \in Operators, OperatorWrites(o),
         /\ pc'[Worker] = pc[Worker] /\ job'[Worker] = job[Worker]
         /\ goal'[Worker] = goal[Worker] /\ seen'[Worker] = seen[Worker]
  PROVE  ExportInv'
<1> USE JobAssumption
<1>1. /\ Worker \in Actors /\ o \in Actors /\ o # Worker
      /\ job[Worker] \in Jobs /\ job[o] \in Jobs /\ row \in [Jobs -> Rows]
  BY DEF Actors, TypeOK
<1>2. /\ forced \subseteq forced'
      /\ \A j \in Jobs \ forced' :
           row'[j] = row[j] \/ row'[j].status \notin ByWorker \/ row'[j].result
  BY <1>1 DEF OperatorWrites, Write, NewRow, ByWorker
<1>3. CompletedExportHasResult'
  BY <1>2 DEF CompletedExportHasResult, ExportInv, ByWorker
<1>4. ResultInHand'
  BY <1>1, <1>2 DEF ResultInHand, ExportInv, ByWorker
<1> QED BY <1>3, <1>4 DEF ExportInv

\* A write of the worker is no operator's.
LEMMA WorkerWrite ==
  ASSUME Write(Worker)
  PROVE  row' = [row EXCEPT ![job[Worker]] = seen[Worker]] /\ UNCHANGED forced
BY DEF Write

\* Writing what the worker holds stores no completed export without its result.
LEMMA WorkerWrites ==
  ASSUME TypeOK, ExportInv, UNCHANGED row \/ Write(Worker), UNCHANGED forced
  PROVE  CompletedExportHasResult'
BY WorkerWrite, JobAssumption DEF CompletedExportHasResult, ExportInv, ResultInHand, TypeOK, Actors

\* Every step keeps the export invariant.
LEMMA NextExport ==
  ASSUME TypeOK, ExportInv, [Next]_vars
  PROVE  ExportInv'
<1> USE JobAssumption
<1>w. Worker \in Actors /\ Worker \notin Operators /\ \A o \in Operators : o \in Actors
  BY DEF Actors
<1>t. /\ row \in [Jobs -> Rows] /\ pc \in [Actors -> PcStates] /\ job \in [Actors -> Jobs]
      /\ goal \in [Actors -> Statuses] /\ seen \in [Actors -> Rows]
      /\ next \in [Actors -> {"idle", "dispatch", "work", "commit"}]
  BY DEF TypeOK
<1>k. ResultInHand /\ CompletedExportHasResult
  BY DEF ExportInv
<1>n. NewRow("none").status = "none"
  BY DEF NewRow
<1>a. \A r \in Rows, to \in Statuses :
        ApplyTransition(r, to).status = to /\ ApplyTransition(r, to).result = r.result
  BY DEF ApplyTransition, Rows
<1>ww. Write(Worker) => UNCHANGED forced
  BY WorkerWrite
\* Leaving a transition, for an operator and for the worker.
<1>lo. ASSUME NEW o \in Operators, NEW place, Leave(o, place), UNCHANGED job,
              UNCHANGED <<row, forced>> \/ Write(o)
       PROVE  ExportInv'
  BY <1>lo, <1>w, <1>t, OperatorExport DEF Leave, Goto, OperatorWrites
<1>lw. ASSUME NEW place \in {"idle", "dispatch", "work", "commit"}, Leave(Worker, place),
              UNCHANGED job, UNCHANGED <<row, forced>> \/ Write(Worker)
       PROVE  ExportInv'
  <2>1. ResultInHand'
    BY <1>lw, <1>w, <1>t, <1>n DEF Leave, Goto, ResultInHand
  <2> QED BY <1>lw, <1>ww, <2>1, WorkerWrites DEF ExportInv
\* Beginning one.
<1>bo. ASSUME NEW o \in Operators, NEW j \in Jobs, NEW to, NEW then,
              BeginTransition(o, j, to, then), UNCHANGED <<row, forced>>
       PROVE  ExportInv'
  BY <1>bo, <1>w, <1>t, OperatorExport DEF BeginTransition, Goto, OperatorWrites
<1>bw. ASSUME NEW j \in Jobs, NEW to, NEW then, BeginTransition(Worker, j, to, then),
              UNCHANGED <<row, forced>> \/ Write(Worker),
              to = "completed" /\ j \in ExportJobs \ forced => row'[j].result
       PROVE  ExportInv'
  <2>1. UNCHANGED forced
    BY <1>bw, <1>ww
  <2>2. ResultInHand'
    BY <1>bw, <1>w, <1>t, <1>n, <2>1 DEF BeginTransition, Goto, ResultInHand
  <2> QED BY <1>bw, <2>1, <2>2, WorkerWrites DEF ExportInv
\* Moving on.
<1>go. ASSUME NEW o \in Operators, NEW place, Goto(o, place), UNCHANGED <<goal, seen, forced>>,
              \/ row' = row
              \/ \E j \in Jobs : row' = [row EXCEPT ![j] = NewRow("queued")],
              UNCHANGED job \/ \E k \in Jobs : job' = [job EXCEPT ![o] = k]
       PROVE  ExportInv'
  <2>1. pc'[Worker] = pc[Worker] /\ job'[Worker] = job[Worker]
    BY <1>go, <1>w, <1>t DEF Goto
  <2> QED BY <1>go, <2>1, OperatorExport DEF OperatorWrites
<1>gw. ASSUME NEW place \in {"idle", "merge"}, Goto(Worker, place),
              UNCHANGED <<row, job, goal, seen, forced>>
       PROVE  ExportInv'
  BY <1>gw, <1>k, <1>w, <1>t DEF Goto, ExportInv, ResultInHand, CompletedExportHasResult
\* The actions.
<1>1. ASSUME NEW o \in Operators, GetJob(o) PROVE ExportInv'
  BY <1>1, <1>t, <1>w, OperatorExport DEF GetJob, Goto, OperatorWrites
<1>2. ASSUME GetJob(Worker) PROVE ExportInv'
  <2>2. seen'[Worker].status = goal[Worker] /\ seen'[Worker].result = row[job[Worker]].result
    BY <1>2, <1>t, <1>w, <1>a DEF GetJob
  <2>3. goal[Worker] = "completed" => row[job[Worker]].status = "running"
    BY <1>2 DEF GetJob, CanTransition
  <2>4. ResultInHand'
    BY <1>2, <1>t, <1>w, <1>k, <2>2, <2>3 DEF GetJob, Goto, ResultInHand
  <2> QED BY <1>2, <1>k, <2>4 DEF GetJob, ExportInv, CompletedExportHasResult
<1>3. ASSUME NEW a \in Actors, Refused(a) \/ PutJob(a) \/ StorageError(a) \/ Crash(a)
      PROVE  ExportInv'
  <2>1. UNCHANGED <<row, forced>> \/ Write(a)
    BY <1>3 DEF Refused, PutJob, StorageError, Crash
  <2>2. PICK place \in {"idle", "dispatch", "work", "commit"} : Leave(a, place)
    BY <1>3, <1>t DEF Refused, PutJob, StorageError, Crash, GiveUp
  <2>3. UNCHANGED job
    BY <1>3 DEF Refused, PutJob, StorageError, Crash
  <2> QED BY <2>1, <2>2, <2>3, <1>lo, <1>lw DEF Actors
<1>4. ASSUME NEW o \in Operators, NewRequest(o) PROVE ExportInv'
  <2>1. ASSUME NEW j \in Jobs, NEW d \in BOOLEAN, CreateJob(o, j, d) PROVE ExportInv'
    BY <2>1, <1>go DEF CreateJob
  <2>2. ASSUME NEW j \in Jobs, NEW to \in Statuses, RequestTransition(o, j, to) PROVE ExportInv'
    BY <2>2, <1>bo DEF RequestTransition
  <2>3. ASSUME NEW j \in Jobs, RequestRetry(o, j) \/ RequestDispatch(o, j) PROVE ExportInv'
    BY <2>3, <1>go DEF RequestRetry, RequestDispatch
  <2> QED BY <1>4, <2>1, <2>2, <2>3 DEF NewRequest
<1>5. ASSUME NEW o \in Operators, RequestStep(o) \/ PublishErr(o) PROVE ExportInv'
  <2>1. ASSUME CheckRetry(o) PROVE ExportInv'
    BY <2>1, <1>w, <1>t, <1>go, <1>bo DEF CheckRetry
  <2>2. ASSUME CheckDispatch(o) \/ Publish(o) \/ PublishErr(o) PROVE ExportInv'
    BY <2>2, <1>go DEF CheckDispatch, Publish, PublishErr
  <2> QED BY <1>5, <1>1, <1>3, <1>w, <2>1, <2>2 DEF RequestStep
<1>6. ASSUME WorkerStep PROVE ExportInv'
  <2>1. ASSUME NEW j \in Jobs, Take(j) PROVE ExportInv'
    BY <2>1, <1>bw DEF Take
  <2>2. ASSUME WorkErr PROVE ExportInv'
    BY <2>2, <1>w, <1>t, <1>bw DEF WorkErr
  <2>3. ASSUME WorkOk PROVE ExportInv'
    BY <2>3, <1>w, <1>t, <1>bw, <1>gw DEF WorkOk
  <2>4. ASSUME MergeGet PROVE ExportInv'
    <3>1. seen'[Worker].result
      BY <2>4, <1>w, <1>t DEF MergeGet, Rows
    <3>3. ResultInHand'
      BY <2>4, <1>w, <1>t, <3>1 DEF MergeGet, Goto, ResultInHand
    <3> QED BY <2>4, <1>k, <3>3 DEF MergeGet, ExportInv, CompletedExportHasResult
  <2>5. ASSUME MergePut PROVE ExportInv'
    <3>1. job[Worker] \in ExportJobs \ forced => row'[job[Worker]].result
      BY <2>5, <1>w, <1>t, <1>k, WorkerWrite DEF MergePut, ResultInHand
    <3> QED BY <2>5, <1>w, <1>t, <3>1, <1>bw DEF MergePut
  <2>6. ASSUME CommitOffset PROVE ExportInv'
    BY <2>6, <1>gw DEF CommitOffset
  <2> QED BY <1>6, <1>w, <1>2, <1>3, <2>1, <2>2, <2>3, <2>4, <2>5, <2>6 DEF WorkerStep
<1>7. ASSUME MergeErr PROVE ExportInv'
  BY <1>7, <1>w, <1>t, <1>bw DEF MergeErr
<1>8. CASE UNCHANGED vars
  BY <1>8, <1>k DEF vars, ExportInv, ResultInHand, CompletedExportHasResult
<1> QED BY <1>3, <1>4, <1>5, <1>6, <1>7, <1>8 DEF Next

\* For any number of jobs and any requests, GET /jobs/{id}/result finds the result key
\* of every completed export that no operator started or completed without one,
\* although merge_parameters and transition overwrite the row with copies that other
\* requests may have outdated.
THEOREM CompletedExportsHaveResults == Spec => []CompletedExportHasResult
<1>1. Init => ExportInv
  BY JobAssumption DEF Init, ExportInv, ResultInHand, CompletedExportHasResult, NewRow, Actors
<1>2. TypeOK /\ ExportInv /\ [Next]_vars => ExportInv'
  BY NextExport
<1>3. ExportInv => CompletedExportHasResult
  BY DEF ExportInv
<1> QED BY <1>1, <1>2, <1>3, TypeCorrect, PTL DEF Spec
==============================================================================
