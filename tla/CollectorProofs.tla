--------------------------- MODULE CollectorProofs ---------------------------
(***************************************************************************)
(* The collector, for any set of connectors, limits, versions and faults:  *)
(* what a task may leave behind wherever it is cut off.                    *)
(*                                                                         *)
(* Tasks of different connectors touch different rows, so the invariant is *)
(* one formula per connector and one about the tick that runs the tasks:   *)
(* whoever is in the queue is not running, so that no task is ever         *)
(* replaced by another.                                                    *)
(***************************************************************************)
EXTENDS Collector, FiniteSetTheorems, TLAPS

Stages == {"source", "give up", "domain", "mark", "fetch", "save", "object", "row",
           "success", "publish", "complete", "fail", "count"}
Task == [pc : Stages, etag : Versions, got : Versions]
Row == [status : {"idle", "running", "error"}, errors : Nat, etag : Versions]

RowsTyped ==
  /\ conn \in [Listed -> Row]
  /\ job \in [Connectors -> {Over, "queued", "running"}]
  /\ stuck \subseteq Connectors \X {"queued", "running"}
  /\ task \in [Connectors -> Task \cup {NoTask}]
  /\ \A c \in Invalid : conn[c].status # "running"

DataTyped ==
  /\ content \in [Connectors -> Nat]
  /\ \A c \in Connectors : content[c] \in 1 .. Latest[c]
  /\ object \in [Connectors -> SUBSET Versions]
  /\ stored \in [Connectors -> SUBSET Versions]
  /\ announced \in [Connectors -> SUBSET Versions]
  /\ skippedOver \in [Connectors -> SUBSET Versions]
  /\ unannounced \in [Connectors -> SUBSET Versions]
  /\ unwritten \subseteq Connectors
  /\ faults \in 0 .. MaxFaults
  /\ stops \in 0 .. MaxStops

\* The tick: who waits does not run, and the task about to be spawned has room.
LoopInv ==
  /\ proc \in {"down", "sleep", "tick", "spawn", "abort"}
  /\ draining \in BOOLEAN
  /\ queue \in Seq(Connectors)
  /\ \A i, j \in DOMAIN queue : queue[i] = queue[j] => i = j
  /\ \A i \in DOMAIN queue : task[queue[i]] = NoTask
  /\ cap \in 0 .. GlobalLimit
  /\ inflight \subseteq Connectors
  /\ Cardinality(Running) <= GlobalLimit
  /\ proc \in {"tick", "spawn"} => inflight = Running
  /\ proc \notin {"tick", "spawn"} => Running = {}
  /\ proc \in {"sleep", "down"} => inflight = {}
  /\ proc = "spawn" => queue # << >> /\ Cardinality(Running) < cap

\* What is stored of connector c, and what its checkpoint says.
DataOf(c) ==
  /\ task[c].pc \in {"object", "row", "publish"} => task[c].got # 0
  /\ task[c].pc = "row" => task[c].got \in object[c]
  /\ stored[c] \subseteq object[c] \cap (announced[c] \cup unannounced[c] \cup Untold(c))
  /\ \/ conn[c].etag \in {0} \cup stored[c] \cup skippedOver[c]
     \/ task[c].pc \in {"object", "row"} /\ task[c].got = conn[c].etag

\* Only a task that can still end it, or an abort, keeps a row running.
StatusRuns(c) == c \in inflight /\ task[c].pc \in {"none", "fetch", "save", "object", "row", "success", "fail", "count"}
JobRuns(c) == c \in inflight /\ task[c].pc # "count"
CleanOf(c) ==
  proc # "down" /\ c \notin unwritten => /\ conn[c].status = "running" => StatusRuns(c)
                                         /\ job[c] = "running" => JobRuns(c)

StuckInv == proc # "down" => \A s \in stuck : s[1] \notin unwritten => s[2] # "running"

IInv ==
  /\ RowsTyped /\ DataTyped /\ LoopInv /\ StuckInv
  /\ \A c \in Connectors : DataOf(c) /\ CleanOf(c)

------------------------------------------------------------------------------
(* Steps of one task. *)

JobStates == {Over, "queued", "running"}

\* Facts about the constants.
LEMMA Constants ==
  /\ GlobalLimit \in Nat /\ MaxFaults \in Nat /\ MaxStops \in Nat
  /\ Connectors \subseteq Listed /\ Invalid \subseteq Listed /\ Invalid \cap Connectors = {}
  /\ IsFiniteSet(Connectors)
  /\ 0 \in Versions /\ \A c \in Connectors : 1 .. Latest[c] \subseteq Versions /\ Latest[c] \in Nat
<1>1. \A c \in Connectors : 1 .. Latest[c] \subseteq Versions /\ Latest[c] \in Nat
  BY CollectorAssumption DEF Versions
<1> QED BY <1>1, CollectorAssumption DEF Listed, Versions

\* Nothing of connector d changes.
Frame(d) ==
  /\ conn'[d] = conn[d] /\ job'[d] = job[d] /\ task'[d] = task[d]
  /\ object'[d] = object[d] /\ stored'[d] = stored[d] /\ announced'[d] = announced[d]
  /\ skippedOver'[d] = skippedOver[d] /\ unannounced'[d] = unannounced[d]
  /\ d \in inflight' <=> d \in inflight
  /\ d \in unwritten' <=> d \in unwritten

\* Then what holds of it still does.
LEMMA FrameKeeps ==
  ASSUME NEW d \in Connectors, DataOf(d), CleanOf(d), Frame(d), proc' # "down" => proc # "down"
  PROVE  DataOf(d)' /\ CleanOf(d)'
<1>1. DataOf(d)'
  BY DEF DataOf, Frame, Untold
<1>2. CleanOf(d)'
  BY DEF CleanOf, Frame, StatusRuns, JobRuns
<1> QED BY <1>1, <1>2

\* A task and the lack of one are told apart by where the task is.
LEMMA TaskOrNone ==
  ASSUME RowsTyped, NEW c \in Connectors
  PROVE  /\ task[c].pc # "none" <=> task[c] \in Task
         /\ task[c] # NoTask <=> task[c] \in Task
         /\ \A x \in Task : x # NoTask
<1>1. NoTask.pc = "none"
  BY DEF NoTask
<1>2. \A x \in Task : x.pc # "none"
  BY DEF Task, Stages
<1>3. task[c] \in Task \/ task[c] = NoTask
  BY DEF RowsTyped
<1> QED BY <1>1, <1>2, <1>3

\* The task that moves leaves the tick as it is, or makes room in it.
LEMMA TickKeeps ==
  ASSUME RowsTyped, LoopInv, NEW c \in Connectors, task[c] \in Task,
         NEW x \in Task \cup {NoTask}, task' = [task EXCEPT ![c] = x], UNCHANGED procVars,
         inflight' = IF x = NoTask THEN inflight \ {c} ELSE inflight
  PROVE  LoopInv'
<1>1. /\ UNCHANGED <<proc, draining, queue, cap>>
      /\ \A d \in Connectors : task'[d] = IF d = c THEN x ELSE task[d]
  BY DEF procVars, RowsTyped
<1>2. task[c] # NoTask /\ c \in Running
  BY TaskOrNone DEF Running
<1>3. proc \in {"tick", "spawn"} /\ inflight = Running
  BY <1>2 DEF LoopInv
<1>4. Running' = IF x = NoTask THEN Running \ {c} ELSE Running
  BY <1>1, <1>2 DEF Running
<1>5. Cardinality(Running') <= Cardinality(Running) /\ Cardinality(Running) \in Nat /\ Cardinality(Running') \in Nat
  <2>1. IsFiniteSet(Running)
    BY Constants, FS_Subset DEF Running
  <2>2. Running' \subseteq Running
    BY <1>4
  <2>3. Cardinality(Running') <= Cardinality(Running) /\ IsFiniteSet(Running')
    BY <2>1, <2>2, FS_Subset
  <2> QED BY <2>1, <2>3, FS_CardinalityType
<1>6. \A i \in DOMAIN queue : queue[i] \in Connectors /\ queue[i] # c
  BY <1>2 DEF LoopInv
<1>7. \A i \in DOMAIN queue' : task'[queue'[i]] = NoTask
  BY <1>1, <1>6 DEF LoopInv
<1>8. inflight' = Running'
  BY <1>3, <1>4
<1>9. Cardinality(Running)' <= GlobalLimit /\ (proc' = "spawn" => queue' # << >> /\ Cardinality(Running)' < cap')
  <2>1. Cardinality(Running)' = Cardinality(Running')
    OBVIOUS
  <2>2. Cardinality(Running) <= GlobalLimit /\ cap \in Nat /\ GlobalLimit \in Nat
    BY Constants DEF LoopInv
  <2>3. Cardinality(Running') <= GlobalLimit
    BY <1>5, <2>2
  <2>4. ASSUME proc = "spawn" PROVE queue # << >> /\ Cardinality(Running') < cap
    BY <1>5, <2>2, <2>4 DEF LoopInv
  <2> QED BY <1>1, <2>1, <2>3, <2>4
<1>10. inflight' \subseteq Connectors
  BY <1>8 DEF Running
<1> QED BY <1>1, <1>3, <1>7, <1>8, <1>9, <1>10 DEF LoopInv

\* What a step of one task has to respect.
LEMMA TaskKeeps ==
  ASSUME IInv, NEW c \in Connectors, task[c] \in Task,
         NEW x \in Task \cup {NoTask}, task' = [task EXCEPT ![c] = x], UNCHANGED procVars,
         inflight' = IF x = NoTask THEN inflight \ {c} ELSE inflight,
         stuck' = stuck, unwritten' \in {unwritten, unwritten \cup {c}},
         \A d \in Connectors \ {c} : Frame(d),
         RowsTyped', DataTyped', DataOf(c)', CleanOf(c)'
  PROVE  IInv'
<1>1. LoopInv'
  BY TickKeeps DEF IInv
<1>2. proc' = proc
  BY DEF procVars
<1>3. StuckInv'
  BY <1>2 DEF IInv, StuckInv
<1>4. ASSUME NEW d \in Connectors PROVE DataOf(d)' /\ CleanOf(d)'
  <2>1. CASE d = c
    BY <2>1
  <2>2. CASE d # c
    BY <1>2, <2>2, FrameKeeps DEF IInv
  <2> QED BY <2>1, <2>2
<1> QED BY <1>1, <1>3, <1>4 DEF IInv

\* A step of one task that changes rows of its connector only.
LEMMA RowStep ==
  ASSUME IInv, NEW c \in Connectors, task[c] \in Task,
         NEW x \in Task \cup {NoTask}, task' = [task EXCEPT ![c] = x],
         NEW r \in Row, conn' = [conn EXCEPT ![c] = r],
         NEW j \in JobStates, job' = [job EXCEPT ![c] = j],
         UNCHANGED procVars, UNCHANGED <<stuck, content, skippedOver, unannounced>>, UNCHANGED dataVars,
         inflight' = IF x = NoTask THEN inflight \ {c} ELSE inflight,
         unwritten' \in {unwritten, unwritten \cup {c}},
         faults' \in 0 .. MaxFaults, stops' \in 0 .. MaxStops,
         DataOf(c)', CleanOf(c)'
  PROVE  IInv'
<1>1. RowsTyped'
  BY Constants DEF IInv, RowsTyped, JobStates
<1>2. DataTyped'
  BY DEF IInv, DataTyped, dataVars
<1>3. ASSUME NEW d \in Connectors \ {c} PROVE Frame(d)
  BY Constants DEF Frame, IInv, RowsTyped, dataVars
<1> QED BY <1>1, <1>2, <1>3, TaskKeeps

\* A task that moves on keeps what it has fetched.
LEMMA GoOn ==
  ASSUME RowsTyped, NEW c \in Connectors, task[c] \in Task, NEW pc \in Stages, Goto(c, pc)
  PROVE  \E x \in Task : /\ task' = [task EXCEPT ![c] = x] /\ task'[c] = x /\ x # NoTask
                         /\ x.pc = pc /\ x.got = task[c].got
<1> DEFINE x == [task[c] EXCEPT !.pc = pc]
<1>1. x \in Task /\ x.pc = pc /\ x.got = task[c].got
  BY DEF Task
<1>2. task' = [task EXCEPT ![c] = x] /\ task'[c] = x
  BY DEF Goto, RowsTyped
<1> QED BY <1>1, <1>2, TaskOrNone

\* What the rows of a connector are.
LEMMA Rows ==
  ASSUME IInv, NEW c \in Connectors
  PROVE  /\ RowsTyped /\ DataOf(c) /\ CleanOf(c)
         /\ conn[c] \in Row /\ conn = [conn EXCEPT ![c] = conn[c]]
         /\ job[c] \in JobStates /\ job = [job EXCEPT ![c] = job[c]]
         /\ faults \in 0 .. MaxFaults /\ stops \in 0 .. MaxStops
         /\ MarkFailure(conn[c]) \in Row /\ MarkFailure(conn[c]).status = "error"
         /\ MarkFailure(conn[c]).etag = conn[c].etag
         /\ MarkSuccess(conn[c]) \in Row /\ MarkSuccess(conn[c]).status = "idle"
         /\ MarkSuccess(conn[c]).etag = conn[c].etag
         /\ \A to : JobAfter(job[c], to) \in JobStates
<1>1. RowsTyped /\ DataOf(c) /\ CleanOf(c) /\ faults \in 0 .. MaxFaults /\ stops \in 0 .. MaxStops
  BY DEF IInv, DataTyped
<1>2. conn[c] \in Row /\ conn = [conn EXCEPT ![c] = conn[c]]
  BY <1>1, Constants DEF RowsTyped
<1>3. job[c] \in JobStates /\ job = [job EXCEPT ![c] = job[c]]
  BY <1>1 DEF RowsTyped, JobStates
<1>4. conn[c].errors + 1 \in Nat
  BY <1>2 DEF Row
<1>5. /\ MarkFailure(conn[c]) \in Row /\ MarkFailure(conn[c]).status = "error"
      /\ MarkFailure(conn[c]).etag = conn[c].etag
  BY <1>2, <1>4 DEF MarkFailure, Row
<1>6. /\ MarkSuccess(conn[c]) \in Row /\ MarkSuccess(conn[c]).status = "idle"
      /\ MarkSuccess(conn[c]).etag = conn[c].etag
  BY <1>2 DEF MarkSuccess, Row
<1>7. \A to : JobAfter(job[c], to) \in JobStates
  BY <1>3 DEF JobAfter, JobStates, Over
<1> QED BY <1>1, <1>2, <1>3, <1>5, <1>6, <1>7

\* A counted fault stays within its bound.
LEMMA FaultBounded ==
  ASSUME faults \in 0 .. MaxFaults, stops \in 0 .. MaxStops, Fault
  PROVE  faults' \in 0 .. MaxFaults /\ stops' \in 0 .. MaxStops
BY Constants DEF Fault

\* Before it saves the checkpoint and after it published, a task has nothing to lose.
LEMMA DataStays ==
  ASSUME NEW c \in Connectors, DataOf(c), task[c].pc \notin {"object", "row", "success", "publish"},
         task'[c].pc \notin {"object", "row", "publish"}, conn'[c].etag = conn[c].etag,
         UNCHANGED dataVars, UNCHANGED <<skippedOver, unannounced>>
  PROVE  DataOf(c)'
<1>1. Untold(c) = {}
  BY DEF Untold
<1>2. UNCHANGED <<object, stored, announced, skippedOver, unannounced>>
  BY DEF dataVars
<1>3. stored'[c] \subseteq object'[c] \cap (announced'[c] \cup unannounced'[c] \cup Untold(c)')
  BY <1>1, <1>2 DEF DataOf
<1>4. conn'[c].etag \in {0} \cup stored'[c] \cup skippedOver'[c]
  BY <1>2 DEF DataOf
<1> QED BY <1>3, <1>4 DEF DataOf

\* A task is in flight as long as it has not been joined.
LEMMA InFlight ==
  ASSUME IInv, NEW c \in Connectors, task[c] \in Task
  PROVE  c \in inflight /\ proc \in {"tick", "spawn"}
<1>1. c \in Running
  BY TaskOrNone DEF Running, IInv
<1> QED BY <1>1 DEF IInv, LoopInv

\* A job that is ended is not running.
LEMMA JobEnds ==
  ASSUME NEW j \in JobStates, NEW to \in {"failed", "cancelled", "completed"}
  PROVE  JobAfter(j, to) \in JobStates /\ JobAfter(j, to) # "running"
BY DEF JobAfter, JobStates, Over

\* resolve_source fails: the connector is marked before the job is.
LEMMA StepSourceErr ==
  ASSUME IInv, NEW c \in Connectors, SourceErr(c)
  PROVE  IInv'
<1>1. /\ task[c].pc = "source" /\ Fault
      /\ conn' = [conn EXCEPT ![c] = MarkFailure(conn[c])] /\ job' = job
      /\ Goto(c, "give up") /\ inflight' = inflight /\ unwritten' = unwritten
      /\ UNCHANGED procVars /\ UNCHANGED <<stuck, content, skippedOver, unannounced>> /\ UNCHANGED dataVars
  BY DEF SourceErr, history
<1>2. /\ RowsTyped /\ DataOf(c) /\ CleanOf(c)
      /\ conn[c] \in Row /\ conn = [conn EXCEPT ![c] = conn[c]]
      /\ job[c] \in JobStates /\ job = [job EXCEPT ![c] = job[c]]
      /\ MarkFailure(conn[c]) \in Row /\ MarkFailure(conn[c]).status = "error"
      /\ MarkFailure(conn[c]).etag = conn[c].etag
  BY Rows
<1>3. task[c] \in Task /\ c \in inflight
  BY <1>1, <1>2, TaskOrNone, InFlight
<1>4. PICK x \in Task : /\ task' = [task EXCEPT ![c] = x] /\ task'[c] = x /\ x # NoTask
                        /\ x.pc = "give up" /\ x.got = task[c].got
  BY <1>1, <1>2, <1>3, GoOn DEF Stages
<1>5. conn'[c] = MarkFailure(conn[c]) /\ job'[c] = job[c]
  BY <1>1, <1>2, Constants DEF RowsTyped
<1>6. DataOf(c)'
  BY <1>1, <1>2, <1>4, <1>5, DataStays
<1>7. CleanOf(c)'
  BY <1>1, <1>2, <1>3, <1>4, <1>5 DEF CleanOf, StatusRuns, JobRuns, procVars
<1>8. faults' \in 0 .. MaxFaults /\ stops' \in 0 .. MaxStops
  BY <1>1, Rows, FaultBounded
<1> QED BY <1>1, <1>2, <1>3, <1>4, <1>5, <1>6, <1>7, <1>8, RowStep

\* The job of a task that never got a permit fails.
LEMMA StepGiveUp ==
  ASSUME IInv, NEW c \in Connectors, GiveUp(c)
  PROVE  IInv'
<1>1. /\ task[c].pc = "give up" /\ UNCHANGED counters
      /\ conn' = conn /\ job' = [job EXCEPT ![c] = JobAfter(job[c], "failed")]
      /\ task' = [task EXCEPT ![c] = NoTask] /\ inflight' = inflight \ {c} /\ unwritten' = unwritten
      /\ UNCHANGED procVars /\ UNCHANGED <<stuck, content, skippedOver, unannounced>> /\ UNCHANGED dataVars
  BY DEF GiveUp, history, Join
<1>2. /\ RowsTyped /\ DataOf(c) /\ CleanOf(c)
      /\ conn[c] \in Row /\ conn = [conn EXCEPT ![c] = conn[c]]
      /\ job[c] \in JobStates /\ job = [job EXCEPT ![c] = job[c]]
  BY Rows
<1>3. task[c] \in Task /\ c \in inflight
  BY <1>1, <1>2, TaskOrNone, InFlight
<1>4. task'[c] = NoTask /\ NoTask.pc = "none"
  BY <1>1, <1>2 DEF RowsTyped, NoTask
<1>5. conn'[c] = conn[c] /\ job'[c] = JobAfter(job[c], "failed") /\ JobAfter(job[c], "failed") \in JobStates /\ JobAfter(job[c], "failed") # "running"
  BY <1>1, <1>2, Constants, JobEnds DEF RowsTyped
<1>6. DataOf(c)'
  BY <1>1, <1>2, <1>4, <1>5, DataStays
<1>7. CleanOf(c)'
  BY <1>1, <1>2, <1>3, <1>4, <1>5 DEF CleanOf, StatusRuns, JobRuns, procVars
<1>8. faults' \in 0 .. MaxFaults /\ stops' \in 0 .. MaxStops
  BY <1>1, Rows DEF counters
<1> QED BY <1>1, <1>2, <1>3, <1>4, <1>5, <1>6, <1>7, <1>8, RowStep

\* A permit changes nothing but where the task is.
LEMMA StepAcquireGlobal ==
  ASSUME IInv, NEW c \in Connectors, AcquireGlobal(c)
  PROVE  IInv'
<1>1. /\ task[c].pc = "source" /\ UNCHANGED counters
      /\ conn' = conn /\ job' = job
      /\ Goto(c, "domain") /\ inflight' = inflight /\ unwritten' = unwritten
      /\ UNCHANGED procVars /\ UNCHANGED <<stuck, content, skippedOver, unannounced>> /\ UNCHANGED dataVars
  BY DEF AcquireGlobal, history, rowVars
<1>2. /\ RowsTyped /\ DataOf(c) /\ CleanOf(c)
      /\ conn[c] \in Row /\ conn = [conn EXCEPT ![c] = conn[c]]
      /\ job[c] \in JobStates /\ job = [job EXCEPT ![c] = job[c]]
  BY Rows
<1>3. task[c] \in Task /\ c \in inflight
  BY <1>1, <1>2, TaskOrNone, InFlight
<1>4. PICK x \in Task : /\ task' = [task EXCEPT ![c] = x] /\ task'[c] = x /\ x # NoTask
                        /\ x.pc = "domain" /\ x.got = task[c].got
  BY <1>1, <1>2, <1>3, GoOn DEF Stages
<1>5. conn'[c] = conn[c] /\ job'[c] = job[c]
  BY <1>1, <1>2, Constants DEF RowsTyped
<1>6. DataOf(c)'
  BY <1>1, <1>2, <1>4, <1>5, DataStays
<1>7. CleanOf(c)'
  BY <1>1, <1>2, <1>3, <1>4, <1>5 DEF CleanOf, StatusRuns, JobRuns, procVars
<1>8. faults' \in 0 .. MaxFaults /\ stops' \in 0 .. MaxStops
  BY <1>1, Rows DEF counters
<1> QED BY <1>1, <1>2, <1>3, <1>4, <1>5, <1>6, <1>7, <1>8, RowStep

\* Nor does the second.
LEMMA StepAcquireDomain ==
  ASSUME IInv, NEW c \in Connectors, AcquireDomain(c)
  PROVE  IInv'
<1>1. /\ task[c].pc = "domain" /\ UNCHANGED counters
      /\ conn' = conn /\ job' = job
      /\ Goto(c, "mark") /\ inflight' = inflight /\ unwritten' = unwritten
      /\ UNCHANGED procVars /\ UNCHANGED <<stuck, content, skippedOver, unannounced>> /\ UNCHANGED dataVars
  BY DEF AcquireDomain, history, rowVars
<1>2. /\ RowsTyped /\ DataOf(c) /\ CleanOf(c)
      /\ conn[c] \in Row /\ conn = [conn EXCEPT ![c] = conn[c]]
      /\ job[c] \in JobStates /\ job = [job EXCEPT ![c] = job[c]]
  BY Rows
<1>3. task[c] \in Task /\ c \in inflight
  BY <1>1, <1>2, TaskOrNone, InFlight
<1>4. PICK x \in Task : /\ task' = [task EXCEPT ![c] = x] /\ task'[c] = x /\ x # NoTask
                        /\ x.pc = "mark" /\ x.got = task[c].got
  BY <1>1, <1>2, <1>3, GoOn DEF Stages
<1>5. conn'[c] = conn[c] /\ job'[c] = job[c]
  BY <1>1, <1>2, Constants DEF RowsTyped
<1>6. DataOf(c)'
  BY <1>1, <1>2, <1>4, <1>5, DataStays
<1>7. CleanOf(c)'
  BY <1>1, <1>2, <1>3, <1>4, <1>5 DEF CleanOf, StatusRuns, JobRuns, procVars
<1>8. faults' \in 0 .. MaxFaults /\ stops' \in 0 .. MaxStops
  BY <1>1, Rows DEF counters
<1> QED BY <1>1, <1>2, <1>3, <1>4, <1>5, <1>6, <1>7, <1>8, RowStep

\* The job completes and the task is joined.
LEMMA StepComplete ==
  ASSUME IInv, NEW c \in Connectors, Complete(c)
  PROVE  IInv'
<1>1. /\ task[c].pc = "complete" /\ UNCHANGED counters
      /\ conn' = conn /\ job' = [job EXCEPT ![c] = JobAfter(job[c], "completed")]
      /\ task' = [task EXCEPT ![c] = NoTask] /\ inflight' = inflight \ {c} /\ unwritten' = unwritten
      /\ UNCHANGED procVars /\ UNCHANGED <<stuck, content, skippedOver, unannounced>> /\ UNCHANGED dataVars
  BY DEF Complete, history, Join
<1>2. /\ RowsTyped /\ DataOf(c) /\ CleanOf(c)
      /\ conn[c] \in Row /\ conn = [conn EXCEPT ![c] = conn[c]]
      /\ job[c] \in JobStates /\ job = [job EXCEPT ![c] = job[c]]
  BY Rows
<1>3. task[c] \in Task /\ c \in inflight
  BY <1>1, <1>2, TaskOrNone, InFlight
<1>4. task'[c] = NoTask /\ NoTask.pc = "none"
  BY <1>1, <1>2 DEF RowsTyped, NoTask
<1>5. conn'[c] = conn[c] /\ job'[c] = JobAfter(job[c], "completed") /\ JobAfter(job[c], "completed") \in JobStates /\ JobAfter(job[c], "completed") # "running"
  BY <1>1, <1>2, Constants, JobEnds DEF RowsTyped
<1>6. DataOf(c)'
  BY <1>1, <1>2, <1>4, <1>5, DataStays
<1>7. CleanOf(c)'
  BY <1>1, <1>2, <1>3, <1>4, <1>5 DEF CleanOf, StatusRuns, JobRuns, procVars
<1>8. faults' \in 0 .. MaxFaults /\ stops' \in 0 .. MaxStops
  BY <1>1, Rows DEF counters
<1> QED BY <1>1, <1>2, <1>3, <1>4, <1>5, <1>6, <1>7, <1>8, RowStep

\* The job fails before the connector is marked.
LEMMA StepFailJob ==
  ASSUME IInv, NEW c \in Connectors, FailJob(c)
  PROVE  IInv'
<1>1. /\ task[c].pc = "fail" /\ UNCHANGED counters
      /\ conn' = conn /\ job' = [job EXCEPT ![c] = JobAfter(job[c], "failed")]
      /\ Goto(c, "count") /\ inflight' = inflight /\ unwritten' = unwritten
      /\ UNCHANGED procVars /\ UNCHANGED <<stuck, content, skippedOver, unannounced>> /\ UNCHANGED dataVars
  BY DEF FailJob, history
<1>2. /\ RowsTyped /\ DataOf(c) /\ CleanOf(c)
      /\ conn[c] \in Row /\ conn = [conn EXCEPT ![c] = conn[c]]
      /\ job[c] \in JobStates /\ job = [job EXCEPT ![c] = job[c]]
  BY Rows
<1>3. task[c] \in Task /\ c \in inflight
  BY <1>1, <1>2, TaskOrNone, InFlight
<1>4. PICK x \in Task : /\ task' = [task EXCEPT ![c] = x] /\ task'[c] = x /\ x # NoTask
                        /\ x.pc = "count" /\ x.got = task[c].got
  BY <1>1, <1>2, <1>3, GoOn DEF Stages
<1>5. conn'[c] = conn[c] /\ job'[c] = JobAfter(job[c], "failed") /\ JobAfter(job[c], "failed") \in JobStates /\ JobAfter(job[c], "failed") # "running"
  BY <1>1, <1>2, Constants, JobEnds DEF RowsTyped
<1>6. DataOf(c)'
  BY <1>1, <1>2, <1>4, <1>5, DataStays
<1>7. CleanOf(c)'
  BY <1>1, <1>2, <1>3, <1>4, <1>5 DEF CleanOf, StatusRuns, JobRuns, procVars
<1>8. faults' \in 0 .. MaxFaults /\ stops' \in 0 .. MaxStops
  BY <1>1, Rows DEF counters
<1> QED BY <1>1, <1>2, <1>3, <1>4, <1>5, <1>6, <1>7, <1>8, RowStep

\* The connector is marked and the task is joined.
LEMMA StepCountFailure ==
  ASSUME IInv, NEW c \in Connectors, CountFailure(c)
  PROVE  IInv'
<1>1. /\ task[c].pc = "count" /\ UNCHANGED counters
      /\ conn' = [conn EXCEPT ![c] = MarkFailure(conn[c])] /\ job' = job
      /\ task' = [task EXCEPT ![c] = NoTask] /\ inflight' = inflight \ {c} /\ unwritten' = unwritten
      /\ UNCHANGED procVars /\ UNCHANGED <<stuck, content, skippedOver, unannounced>> /\ UNCHANGED dataVars
  BY DEF CountFailure, history, Join
<1>2. /\ RowsTyped /\ DataOf(c) /\ CleanOf(c)
      /\ conn[c] \in Row /\ conn = [conn EXCEPT ![c] = conn[c]]
      /\ job[c] \in JobStates /\ job = [job EXCEPT ![c] = job[c]]
      /\ MarkFailure(conn[c]) \in Row /\ MarkFailure(conn[c]).status = "error"
      /\ MarkFailure(conn[c]).etag = conn[c].etag
  BY Rows
<1>3. task[c] \in Task /\ c \in inflight
  BY <1>1, <1>2, TaskOrNone, InFlight
<1>4. task'[c] = NoTask /\ NoTask.pc = "none"
  BY <1>1, <1>2 DEF RowsTyped, NoTask
<1>5. conn'[c] = MarkFailure(conn[c]) /\ job'[c] = job[c]
  BY <1>1, <1>2, Constants DEF RowsTyped
<1>6. DataOf(c)'
  BY <1>1, <1>2, <1>4, <1>5, DataStays
<1>7. CleanOf(c)'
  BY <1>1, <1>2, <1>3, <1>4, <1>5 DEF CleanOf, StatusRuns, JobRuns, procVars
<1>8. faults' \in 0 .. MaxFaults /\ stops' \in 0 .. MaxStops
  BY <1>1, Rows DEF counters
<1> QED BY <1>1, <1>2, <1>3, <1>4, <1>5, <1>6, <1>7, <1>8, RowStep

\* The connector looks running only while its task can end that.
LEMMA StepMarkRunning ==
  ASSUME IInv, NEW c \in Connectors, MarkRunning(c)
  PROVE  IInv'
<1> DEFINE r == [conn[c] EXCEPT !.status = "running"]
<1>1. /\ task[c].pc = "mark" /\ UNCHANGED counters /\ job' = job
      /\ conn' = [conn EXCEPT ![c].status = "running"]
      /\ Goto(c, "fetch") /\ inflight' = inflight /\ unwritten' = unwritten
      /\ UNCHANGED procVars /\ UNCHANGED <<stuck, content, skippedOver, unannounced>> /\ UNCHANGED dataVars
  BY DEF MarkRunning, history
<1>2. /\ RowsTyped /\ DataOf(c) /\ CleanOf(c) /\ conn[c] \in Row
      /\ job[c] \in JobStates /\ job = [job EXCEPT ![c] = job[c]]
  BY Rows
<1>3. task[c] \in Task /\ c \in inflight
  BY <1>1, <1>2, TaskOrNone, InFlight
<1>4. PICK x \in Task : /\ task' = [task EXCEPT ![c] = x] /\ task'[c] = x /\ x # NoTask
                        /\ x.pc = "fetch" /\ x.got = task[c].got
  BY <1>1, <1>2, <1>3, GoOn DEF Stages
<1>5. r \in Row /\ r.etag = conn[c].etag
  BY <1>2 DEF Row
<1>6. conn' = [conn EXCEPT ![c] = r] /\ conn'[c] = r /\ job'[c] = job[c]
  BY <1>1, <1>2, Constants DEF RowsTyped
<1> HIDE DEF r
<1>7. DataOf(c)'
  BY <1>1, <1>2, <1>4, <1>5, <1>6, DataStays
<1>8. CleanOf(c)'
  BY <1>1, <1>2, <1>3, <1>4, <1>6 DEF CleanOf, StatusRuns, JobRuns, procVars
<1>9. faults' \in 0 .. MaxFaults /\ stops' \in 0 .. MaxStops
  BY <1>1, Rows DEF counters
<1> QED BY <1>1, <1>2, <1>3, <1>4, <1>5, <1>6, <1>7, <1>8, <1>9, RowStep

\* A fetch changes nothing but the task.
LEMMA StepFetch ==
  ASSUME IInv, NEW c \in Connectors, Fetch(c)
  PROVE  IInv'
<1> DEFINE got == IF task[c].etag = content[c] THEN 0 ELSE content[c]
           x == [task[c] EXCEPT !.pc = "save", !.got = got]
<1>1. /\ task[c].pc = "fetch" /\ UNCHANGED counters /\ conn' = conn /\ job' = job
      /\ task' = [task EXCEPT ![c].pc = "save", ![c].got = got]
      /\ inflight' = inflight /\ unwritten' = unwritten
      /\ UNCHANGED procVars /\ UNCHANGED <<stuck, content, skippedOver, unannounced>> /\ UNCHANGED dataVars
  BY DEF Fetch, history, rowVars
<1>2. /\ RowsTyped /\ DataOf(c) /\ CleanOf(c)
      /\ conn[c] \in Row /\ conn = [conn EXCEPT ![c] = conn[c]]
      /\ job[c] \in JobStates /\ job = [job EXCEPT ![c] = job[c]]
  BY Rows
<1>3. task[c] \in Task /\ c \in inflight
  BY <1>1, <1>2, TaskOrNone, InFlight
<1>4. got \in Versions
  BY Constants DEF IInv, DataTyped
<1> HIDE DEF got
<1>5. x \in Task /\ x.pc = "save"
  BY <1>3, <1>4 DEF Task, Stages
<1>6. task' = [task EXCEPT ![c] = x] /\ task'[c] = x /\ x # NoTask
  BY <1>1, <1>2, <1>5, TaskOrNone DEF RowsTyped
<1> HIDE DEF x
<1>7. DataOf(c)'
  BY <1>1, <1>2, <1>5, <1>6, DataStays
<1>8. CleanOf(c)'
  BY <1>1, <1>2, <1>3, <1>5, <1>6 DEF CleanOf, StatusRuns, JobRuns, procVars
<1>9. faults' \in 0 .. MaxFaults /\ stops' \in 0 .. MaxStops
  BY <1>1, Rows DEF counters
<1> QED BY <1>1, <1>2, <1>3, <1>5, <1>6, <1>7, <1>8, <1>9, RowStep

\* The checkpoint moves to the version in hand, which is stored next.
LEMMA StepSaveCheckpoint ==
  ASSUME IInv, NEW c \in Connectors, SaveCheckpoint(c)
  PROVE  IInv'
<1> DEFINE r == IF task[c].got = 0 THEN conn[c] ELSE [conn[c] EXCEPT !.etag = task[c].got]
           pc == IF task[c].got = 0 THEN "success" ELSE "object"
<1>1. /\ task[c].pc = "save" /\ UNCHANGED counters /\ job' = job
      /\ conn' = IF task[c].got = 0 THEN conn ELSE [conn EXCEPT ![c].etag = task[c].got]
      /\ Goto(c, pc) /\ inflight' = inflight /\ unwritten' = unwritten
      /\ UNCHANGED procVars /\ UNCHANGED <<stuck, content, skippedOver, unannounced>> /\ UNCHANGED dataVars
  BY DEF SaveCheckpoint, history
<1>2. /\ RowsTyped /\ DataOf(c) /\ CleanOf(c)
      /\ conn[c] \in Row /\ conn = [conn EXCEPT ![c] = conn[c]]
      /\ job[c] \in JobStates /\ job = [job EXCEPT ![c] = job[c]]
  BY Rows
<1>3. task[c] \in Task /\ c \in inflight
  BY <1>1, <1>2, TaskOrNone, InFlight
<1>4. PICK x \in Task : /\ task' = [task EXCEPT ![c] = x] /\ task'[c] = x /\ x # NoTask
                        /\ x.pc = pc /\ x.got = task[c].got
  <2>1. pc \in Stages
    BY DEF Stages
  <2> HIDE DEF pc
  <2> QED BY <1>1, <1>2, <1>3, <2>1, GoOn
<1>5. r \in Row /\ r.status = conn[c].status /\ r.etag = IF task[c].got = 0 THEN conn[c].etag ELSE task[c].got
  BY <1>2, <1>3 DEF Row, Task
<1>6. conn' = [conn EXCEPT ![c] = r] /\ conn'[c] = r /\ job'[c] = job[c]
  BY <1>1, <1>2, Constants DEF RowsTyped
<1> HIDE DEF r
<1>7. DataOf(c)'
  <2>1. CASE task[c].got = 0
    BY <1>1, <1>2, <1>4, <1>5, <1>6, <2>1, DataStays
  <2>2. CASE task[c].got # 0
    <3>1. Untold(c) = {} /\ x.pc = "object" /\ conn'[c].etag = x.got /\ x.got # 0
      BY <1>1, <1>4, <1>5, <1>6, <2>2 DEF Untold
    <3>2. UNCHANGED <<object, stored, announced, skippedOver, unannounced>>
      BY <1>1 DEF dataVars
    <3>3. stored'[c] \subseteq object'[c] \cap (announced'[c] \cup unannounced'[c] \cup Untold(c)')
      BY <1>2, <3>1, <3>2 DEF DataOf
    <3> QED BY <1>4, <3>1, <3>3 DEF DataOf
  <2> QED BY <2>1, <2>2
<1>8. CleanOf(c)'
  BY <1>1, <1>2, <1>3, <1>4, <1>5, <1>6 DEF CleanOf, StatusRuns, JobRuns, procVars
<1>9. faults' \in 0 .. MaxFaults /\ stops' \in 0 .. MaxStops
  BY <1>1, Rows DEF counters
<1> QED BY <1>1, <1>2, <1>3, <1>4, <1>5, <1>6, <1>7, <1>8, <1>9, RowStep

\* mark_success: what is stored is announced next.
LEMMA StepSucceed ==
  ASSUME IInv, NEW c \in Connectors, Succeed(c)
  PROVE  IInv'
<1> DEFINE pc == IF task[c].got = 0 THEN "complete" ELSE "publish"
<1>1. /\ task[c].pc = "success" /\ UNCHANGED counters /\ job' = job
      /\ conn' = [conn EXCEPT ![c] = MarkSuccess(conn[c])]
      /\ Goto(c, pc) /\ inflight' = inflight /\ unwritten' = unwritten
      /\ UNCHANGED procVars /\ UNCHANGED <<stuck, content, skippedOver, unannounced>> /\ UNCHANGED dataVars
  BY DEF Succeed, history
<1>2. /\ RowsTyped /\ DataOf(c) /\ CleanOf(c)
      /\ job[c] \in JobStates /\ job = [job EXCEPT ![c] = job[c]]
      /\ MarkSuccess(conn[c]) \in Row /\ MarkSuccess(conn[c]).status = "idle"
      /\ MarkSuccess(conn[c]).etag = conn[c].etag
  BY Rows
<1>3. task[c] \in Task /\ c \in inflight
  BY <1>1, <1>2, TaskOrNone, InFlight
<1>4. PICK x \in Task : /\ task' = [task EXCEPT ![c] = x] /\ task'[c] = x /\ x # NoTask
                        /\ x.pc = pc /\ x.got = task[c].got
  <2>1. pc \in Stages
    BY DEF Stages
  <2> HIDE DEF pc
  <2> QED BY <1>1, <1>2, <1>3, <2>1, GoOn
<1>5. conn'[c] = MarkSuccess(conn[c]) /\ job'[c] = job[c]
  BY <1>1, <1>2, Constants DEF RowsTyped
<1>6. DataOf(c)'
  <2>1. UNCHANGED <<object, stored, announced, skippedOver, unannounced>>
    BY <1>1 DEF dataVars
  <2>2. Untold(c)' = Untold(c)
    BY <1>1, <1>4 DEF Untold
  <2>3. stored'[c] \subseteq object'[c] \cap (announced'[c] \cup unannounced'[c] \cup Untold(c)')
    BY <1>2, <2>1, <2>2 DEF DataOf
  <2>4. conn'[c].etag \in {0} \cup stored'[c] \cup skippedOver'[c]
    BY <1>1, <1>2, <1>5, <2>1 DEF DataOf
  <2> QED BY <1>4, <2>3, <2>4 DEF DataOf
<1>7. CleanOf(c)'
  BY <1>1, <1>2, <1>3, <1>4, <1>5 DEF CleanOf, StatusRuns, JobRuns, procVars
<1>8. faults' \in 0 .. MaxFaults /\ stops' \in 0 .. MaxStops
  BY <1>1, Rows DEF counters
<1> QED BY <1>1, <1>2, <1>3, <1>4, <1>6, <1>7, <1>8, RowStep

\* A last write that fails is remembered, and the task is over.
LEMMA StepLastWriteErr ==
  ASSUME IInv, NEW c \in Connectors, LastWriteErr(c)
  PROVE  IInv'
<1>1. /\ task[c].pc \in {"give up", "complete", "fail", "count"} /\ Fault /\ conn' = conn /\ job' = job
      /\ unwritten' = unwritten \cup {c}
      /\ UNCHANGED procVars /\ UNCHANGED <<stuck, content, skippedOver, unannounced>> /\ UNCHANGED dataVars
  BY DEF LastWriteErr, rowVars
<1>2. /\ RowsTyped /\ DataOf(c) /\ CleanOf(c)
      /\ conn[c] \in Row /\ conn = [conn EXCEPT ![c] = conn[c]]
      /\ job[c] \in JobStates /\ job = [job EXCEPT ![c] = job[c]]
  BY Rows
<1>3. task[c] \in Task
  BY <1>1, <1>2, TaskOrNone
<1>4. PICK x \in Task \cup {NoTask} :
        /\ task' = [task EXCEPT ![c] = x] /\ task'[c] = x /\ x.pc \in {"none", "count"}
        /\ inflight' = IF x = NoTask THEN inflight \ {c} ELSE inflight
  <2>1. CASE task[c].pc = "fail"
    <3>1. Goto(c, "count") /\ inflight' = inflight
      BY <2>1 DEF LastWriteErr
    <3>2. "count" \in Stages
      BY DEF Stages
    <3>3. PICK x \in Task : task' = [task EXCEPT ![c] = x] /\ task'[c] = x /\ x # NoTask /\ x.pc = "count"
      BY <1>2, <1>3, <3>1, <3>2, GoOn
    <3> QED BY <3>1, <3>3
  <2>2. CASE task[c].pc # "fail"
    <3>1. task' = [task EXCEPT ![c] = NoTask] /\ inflight' = inflight \ {c}
      BY <2>2 DEF LastWriteErr, Join
    <3>2. task'[c] = NoTask /\ NoTask.pc = "none"
      BY <1>2, <3>1 DEF RowsTyped, NoTask
    <3> QED BY <3>1, <3>2
  <2> QED BY <2>1, <2>2
<1>5. DataOf(c)'
  BY <1>1, <1>2, <1>4, DataStays
<1>6. CleanOf(c)'
  BY <1>1 DEF CleanOf
<1>7. faults' \in 0 .. MaxFaults /\ stops' \in 0 .. MaxStops
  BY <1>1, Rows, FaultBounded
<1> QED BY <1>1, <1>2, <1>3, <1>4, <1>5, <1>6, <1>7, RowStep

------------------------------------------------------------------------------
(* What the tasks store. *)

\* A step of one task that changes what is stored of its connector only.
LEMMA DataStep ==
  ASSUME IInv, NEW c \in Connectors, task[c] \in Task,
         NEW x \in Task, task' = [task EXCEPT ![c] = x],
         NEW o \in SUBSET Versions, object' = [object EXCEPT ![c] = o],
         NEW s \in SUBSET Versions, stored' = [stored EXCEPT ![c] = s],
         NEW a \in SUBSET Versions, announced' = [announced EXCEPT ![c] = a],
         NEW k \in SUBSET Versions, skippedOver' = [skippedOver EXCEPT ![c] = k],
         NEW u \in SUBSET Versions, unannounced' = [unannounced EXCEPT ![c] = u],
         UNCHANGED procVars, UNCHANGED rowVars, UNCHANGED <<inflight, content, unwritten>>,
         faults' \in 0 .. MaxFaults, stops' \in 0 .. MaxStops,
         DataOf(c)', CleanOf(c)'
  PROVE  IInv'
<1>1. x # NoTask
  BY TaskOrNone DEF IInv
<1>2. RowsTyped'
  BY DEF IInv, RowsTyped, rowVars
<1>3. DataTyped'
  BY DEF IInv, DataTyped
<1>4. ASSUME NEW d \in Connectors \ {c} PROVE Frame(d)
  BY DEF Frame, IInv, RowsTyped, DataTyped, rowVars
<1> QED BY <1>1, <1>2, <1>3, <1>4, TaskKeeps DEF rowVars

\* What is stored of a connector.
LEMMA Stored ==
  ASSUME IInv, NEW c \in Connectors
  PROVE  /\ object[c] \in SUBSET Versions /\ object = [object EXCEPT ![c] = object[c]]
         /\ stored[c] \in SUBSET Versions /\ stored = [stored EXCEPT ![c] = stored[c]]
         /\ announced[c] \in SUBSET Versions /\ announced = [announced EXCEPT ![c] = announced[c]]
         /\ skippedOver[c] \in SUBSET Versions /\ skippedOver = [skippedOver EXCEPT ![c] = skippedOver[c]]
         /\ unannounced[c] \in SUBSET Versions /\ unannounced = [unannounced EXCEPT ![c] = unannounced[c]]
         /\ \A v \in SUBSET Versions :
              /\ [object EXCEPT ![c] = v][c] = v /\ [stored EXCEPT ![c] = v][c] = v
              /\ [announced EXCEPT ![c] = v][c] = v /\ [skippedOver EXCEPT ![c] = v][c] = v
              /\ [unannounced EXCEPT ![c] = v][c] = v
BY DEF IInv, DataTyped

\* A task on its way from the fetch to raw.collected leaves its rows alone.
LEMMA CleanStays ==
  ASSUME NEW c \in Connectors, CleanOf(c), c \in inflight,
         task'[c].pc \in {"row", "success", "fail"}
         \/ (task'[c].pc = "complete" /\ task[c].pc = "publish"),
         UNCHANGED procVars, UNCHANGED rowVars, UNCHANGED <<inflight, unwritten>>
  PROVE  CleanOf(c)'
BY DEF CleanOf, StatusRuns, JobRuns, procVars, rowVars

\* The body is stored before the row.
LEMMA StepPutObject ==
  ASSUME IInv, NEW c \in Connectors, PutObject(c)
  PROVE  IInv'
<1> DEFINE o == object[c] \cup {task[c].got}
<1>1. /\ task[c].pc = "object" /\ UNCHANGED counters /\ Goto(c, "row")
      /\ object' = [object EXCEPT ![c] = o]
      /\ UNCHANGED <<stored, announced, skippedOver, unannounced>>
      /\ UNCHANGED procVars /\ UNCHANGED rowVars /\ UNCHANGED <<inflight, content, unwritten>>
  BY DEF PutObject, history
<1>2. RowsTyped /\ DataOf(c) /\ CleanOf(c)
  BY Rows
<1>3. task[c] \in Task /\ c \in inflight
  BY <1>1, <1>2, TaskOrNone, InFlight
<1>4. PICK x \in Task : /\ task' = [task EXCEPT ![c] = x] /\ task'[c] = x /\ x # NoTask
                        /\ x.pc = "row" /\ x.got = task[c].got
  BY <1>1, <1>2, <1>3, GoOn DEF Stages
<1>5. o \in SUBSET Versions
  BY <1>3, Stored DEF Task
<1>6. object'[c] = o
  BY <1>1, <1>5, Stored
<1>7. DataOf(c)'
  <2>1. Untold(c) = {} /\ conn'[c] = conn[c]
    BY <1>1 DEF Untold, rowVars
  <2>2. stored'[c] \subseteq object'[c] \cap (announced'[c] \cup unannounced'[c] \cup Untold(c)')
    BY <1>1, <1>2, <1>6, <2>1 DEF DataOf
  <2>3. x.got # 0 /\ x.got \in object'[c]
    BY <1>1, <1>2, <1>4, <1>6 DEF DataOf
  <2> QED BY <1>1, <1>2, <1>4, <2>1, <2>2, <2>3 DEF DataOf
<1>8. CleanOf(c)'
  BY <1>1, <1>2, <1>3, <1>4, CleanStays
<1>9. faults' \in 0 .. MaxFaults /\ stops' \in 0 .. MaxStops
  BY <1>1, Rows DEF counters
<1>10. /\ stored[c] \in SUBSET Versions /\ stored' = [stored EXCEPT ![c] = stored[c]]
       /\ announced[c] \in SUBSET Versions /\ announced' = [announced EXCEPT ![c] = announced[c]]
       /\ skippedOver[c] \in SUBSET Versions /\ skippedOver' = [skippedOver EXCEPT ![c] = skippedOver[c]]
       /\ unannounced[c] \in SUBSET Versions /\ unannounced' = [unannounced EXCEPT ![c] = unannounced[c]]
  BY <1>1, Stored
<1> HIDE DEF o
<1> QED BY <1>1, <1>3, <1>4, <1>5, <1>7, <1>8, <1>9, <1>10, DataStep

\* The row, whose announcement is due from now on.
LEMMA StepInsertRawEvidence ==
  ASSUME IInv, NEW c \in Connectors, InsertRawEvidence(c)
  PROVE  IInv'
<1> DEFINE s == stored[c] \cup {task[c].got}
<1>1. /\ task[c].pc = "row" /\ UNCHANGED counters /\ Goto(c, "success")
      /\ stored' = [stored EXCEPT ![c] = s]
      /\ UNCHANGED <<object, announced, skippedOver, unannounced>>
      /\ UNCHANGED procVars /\ UNCHANGED rowVars /\ UNCHANGED <<inflight, content, unwritten>>
  BY DEF InsertRawEvidence, history
<1>2. RowsTyped /\ DataOf(c) /\ CleanOf(c)
  BY Rows
<1>3. task[c] \in Task /\ c \in inflight
  BY <1>1, <1>2, TaskOrNone, InFlight
<1>4. PICK x \in Task : /\ task' = [task EXCEPT ![c] = x] /\ task'[c] = x /\ x # NoTask
                        /\ x.pc = "success" /\ x.got = task[c].got
  BY <1>1, <1>2, <1>3, GoOn DEF Stages
<1>5. s \in SUBSET Versions
  BY <1>3, Stored DEF Task
<1>6. stored'[c] = s
  BY <1>1, <1>5, Stored
<1>7. DataOf(c)'
  <2>1. Untold(c) = {} /\ Untold(c)' = {task[c].got} /\ conn'[c] = conn[c]
    BY <1>1, <1>2, <1>4 DEF Untold, rowVars, DataOf
  <2>2. stored'[c] \subseteq object'[c] \cap (announced'[c] \cup unannounced'[c] \cup Untold(c)')
    BY <1>1, <1>2, <1>6, <2>1 DEF DataOf
  <2>3. conn'[c].etag \in {0} \cup stored'[c] \cup skippedOver'[c]
    BY <1>1, <1>2, <1>6, <2>1 DEF DataOf
  <2> QED BY <1>4, <2>2, <2>3 DEF DataOf
<1>8. CleanOf(c)'
  BY <1>1, <1>2, <1>3, <1>4, CleanStays
<1>9. faults' \in 0 .. MaxFaults /\ stops' \in 0 .. MaxStops
  BY <1>1, Rows DEF counters
<1>10. /\ object[c] \in SUBSET Versions /\ object' = [object EXCEPT ![c] = object[c]]
       /\ announced[c] \in SUBSET Versions /\ announced' = [announced EXCEPT ![c] = announced[c]]
       /\ skippedOver[c] \in SUBSET Versions /\ skippedOver' = [skippedOver EXCEPT ![c] = skippedOver[c]]
       /\ unannounced[c] \in SUBSET Versions /\ unannounced' = [unannounced EXCEPT ![c] = unannounced[c]]
  BY <1>1, Stored
<1> HIDE DEF s
<1> QED BY <1>1, <1>3, <1>4, <1>5, <1>7, <1>8, <1>9, <1>10, DataStep

\* raw.collected.
LEMMA StepPublishCollected ==
  ASSUME IInv, NEW c \in Connectors, PublishCollected(c)
  PROVE  IInv'
<1> DEFINE a == announced[c] \cup {task[c].got}
<1>1. /\ task[c].pc = "publish" /\ UNCHANGED counters /\ Goto(c, "complete")
      /\ announced' = [announced EXCEPT ![c] = a]
      /\ UNCHANGED <<object, stored, skippedOver, unannounced>>
      /\ UNCHANGED procVars /\ UNCHANGED rowVars /\ UNCHANGED <<inflight, content, unwritten>>
  BY DEF PublishCollected, history
<1>2. RowsTyped /\ DataOf(c) /\ CleanOf(c)
  BY Rows
<1>3. task[c] \in Task /\ c \in inflight
  BY <1>1, <1>2, TaskOrNone, InFlight
<1>4. PICK x \in Task : /\ task' = [task EXCEPT ![c] = x] /\ task'[c] = x /\ x # NoTask
                        /\ x.pc = "complete" /\ x.got = task[c].got
  BY <1>1, <1>2, <1>3, GoOn DEF Stages
<1>5. a \in SUBSET Versions
  BY <1>3, Stored DEF Task
<1>6. announced'[c] = a
  BY <1>1, <1>5, Stored
<1>7. DataOf(c)'
  <2>1. Untold(c) \subseteq {task[c].got} /\ conn'[c] = conn[c]
    BY <1>1 DEF Untold, rowVars
  <2>2. stored'[c] \subseteq object'[c] \cap (announced'[c] \cup unannounced'[c] \cup Untold(c)')
    BY <1>1, <1>2, <1>6, <2>1 DEF DataOf
  <2>3. conn'[c].etag \in {0} \cup stored'[c] \cup skippedOver'[c]
    BY <1>1, <1>2, <2>1 DEF DataOf
  <2> QED BY <1>4, <2>2, <2>3 DEF DataOf
<1>8. CleanOf(c)'
  BY <1>1, <1>2, <1>3, <1>4, CleanStays
<1>9. faults' \in 0 .. MaxFaults /\ stops' \in 0 .. MaxStops
  BY <1>1, Rows DEF counters
<1>10. /\ object[c] \in SUBSET Versions /\ object' = [object EXCEPT ![c] = object[c]]
       /\ stored[c] \in SUBSET Versions /\ stored' = [stored EXCEPT ![c] = stored[c]]
       /\ skippedOver[c] \in SUBSET Versions /\ skippedOver' = [skippedOver EXCEPT ![c] = skippedOver[c]]
       /\ unannounced[c] \in SUBSET Versions /\ unannounced' = [unannounced EXCEPT ![c] = unannounced[c]]
  BY <1>1, Stored
<1> HIDE DEF a
<1> QED BY <1>1, <1>3, <1>4, <1>5, <1>7, <1>8, <1>9, <1>10, DataStep

\* An error anywhere in between: what it costs is in the history.
LEMMA StepCollectErr ==
  ASSUME IInv, NEW c \in Connectors, CollectErr(c)
  PROVE  IInv'
<1> DEFINE o == IF task[c].pc = "row" THEN object[c] \ ({task[c].got} \ stored[c]) ELSE object[c]
           k == skippedOver[c] \cup Passed(c)
           u == unannounced[c] \cup Untold(c)
<1>1. /\ task[c].pc \in {"mark", "fetch", "save", "object", "row", "success", "publish"}
      /\ Fault /\ Goto(c, "fail")
      /\ object' = IF task[c].pc = "row" THEN [object EXCEPT ![c] = @ \ ({task[c].got} \ stored[c])] ELSE object
      /\ skippedOver' = [skippedOver EXCEPT ![c] = k] /\ unannounced' = [unannounced EXCEPT ![c] = u]
      /\ UNCHANGED <<stored, announced>>
      /\ UNCHANGED procVars /\ UNCHANGED rowVars /\ UNCHANGED <<inflight, content, unwritten>>
  BY DEF CollectErr
<1>2. RowsTyped /\ DataOf(c) /\ CleanOf(c)
  BY Rows
<1>3. task[c] \in Task /\ c \in inflight
  BY <1>1, <1>2, TaskOrNone, InFlight
<1>4. PICK x \in Task : /\ task' = [task EXCEPT ![c] = x] /\ task'[c] = x /\ x # NoTask
                        /\ x.pc = "fail" /\ x.got = task[c].got
  BY <1>1, <1>2, <1>3, GoOn DEF Stages
<1>o. object' = [object EXCEPT ![c] = o]
  BY <1>1, Stored
<1>5. o \in SUBSET Versions /\ k \in SUBSET Versions /\ u \in SUBSET Versions
  <2>1. object[c] \in SUBSET Versions /\ skippedOver[c] \in SUBSET Versions /\ unannounced[c] \in SUBSET Versions
    BY Stored
  <2>2. Passed(c) \in SUBSET Versions /\ Untold(c) \in SUBSET Versions
    BY <1>3 DEF Passed, Untold, Task
  <2> QED BY <2>1, <2>2
<1>6. object'[c] = o /\ skippedOver'[c] = k /\ unannounced'[c] = u
  <2>1. skippedOver' = [skippedOver EXCEPT ![c] = k] /\ unannounced' = [unannounced EXCEPT ![c] = u]
    BY <1>1
  <2>2. c \in DOMAIN object /\ c \in DOMAIN skippedOver /\ c \in DOMAIN unannounced
    BY DEF IInv, DataTyped
  <2> HIDE DEF o, k, u
  <2> QED BY <1>o, <2>1, <2>2
<1>7. DataOf(c)'
  <2>1. conn'[c] = conn[c]
    BY <1>1 DEF rowVars
  <2>2. stored'[c] \subseteq object'[c] \cap (announced'[c] \cup unannounced'[c] \cup Untold(c)')
    BY <1>1, <1>2, <1>6 DEF DataOf
  <2>3. conn'[c].etag \in {0} \cup stored'[c] \cup skippedOver'[c]
    BY <1>1, <1>2, <1>6, <2>1 DEF DataOf, Passed
  <2> QED BY <1>4, <2>2, <2>3 DEF DataOf
<1>8. CleanOf(c)'
  BY <1>1, <1>2, <1>3, <1>4, CleanStays
<1>9. faults' \in 0 .. MaxFaults /\ stops' \in 0 .. MaxStops
  BY <1>1, Rows, FaultBounded
<1>10. /\ stored[c] \in SUBSET Versions /\ stored' = [stored EXCEPT ![c] = stored[c]]
       /\ announced[c] \in SUBSET Versions /\ announced' = [announced EXCEPT ![c] = announced[c]]
  BY <1>1, Stored
<1> HIDE DEF o, k, u
<1> QED BY <1>1, <1>3, <1>4, <1>o, <1>5, <1>7, <1>8, <1>9, <1>10, DataStep

------------------------------------------------------------------------------
(* The tick. *)

\* Whoever fair_order and take_fair_dispatch pick is queued once.
LEMMA Dispatched ==
  ASSUME NEW due \in SUBSET Connectors, NEW s \in FairOrders(due)
  PROVE  /\ TakeFairDispatch(s) \in Seq(Connectors)
         /\ \A i, j \in DOMAIN TakeFairDispatch(s) : TakeFairDispatch(s)[i] = TakeFairDispatch(s)[j] => i = j
<1> DEFINE n == Cardinality(due)
           few == {i \in DOMAIN s : Retries(s, i) <= MaxRetry}
           m == Cardinality(few)
<1>1. n \in Nat
  BY Constants, FS_Subset, FS_CardinalityType
<1>2. s \in [1 .. n -> due] /\ \A i, j \in DOMAIN s : i # j => s[i] # s[j]
  BY DEF FairOrders
<1>3. few \subseteq 1 .. n
  BY <1>2
<1> HIDE DEF n, few
<1>4. m \in Nat /\ m <= n
  <2>1. IsFiniteSet(1 .. n) /\ Cardinality(1 .. n) = n
    BY <1>1, FS_Interval
  <2>2. IsFiniteSet(few) /\ Cardinality(few) <= Cardinality(1 .. n)
    BY <1>3, <2>1, FS_Subset
  <2> QED BY <2>1, <2>2, FS_CardinalityType
<1>5. TakeFairDispatch(s) = SubSeq(s, 1, m)
  BY DEF TakeFairDispatch, few
<1> HIDE DEF m
<1>6. s \in Seq(Connectors) /\ Len(s) = n
  BY <1>1, <1>2
<1>7. /\ SubSeq(s, 1, m) \in Seq(Connectors) /\ Len(SubSeq(s, 1, m)) = m
      /\ \A i \in 1 .. m : SubSeq(s, 1, m)[i] = s[i]
  BY <1>1, <1>4, <1>6
<1>8. ASSUME NEW i \in 1 .. m, NEW j \in 1 .. m, SubSeq(s, 1, m)[i] = SubSeq(s, 1, m)[j] PROVE i = j
  <2>1. i \in DOMAIN s /\ j \in DOMAIN s
    BY <1>1, <1>2, <1>4
  <2> QED BY <1>2, <1>7, <1>8, <2>1
<1>9. DOMAIN SubSeq(s, 1, m) = 1 .. m
  BY <1>7
<1> QED BY <1>5, <1>7, <1>8, <1>9

\* A tick begins with nothing in flight.
LEMMA StepBeginTick ==
  ASSUME IInv, NEW due \in SUBSET Connectors, NEW state, BeginTick(due, state)
  PROVE  IInv'
<1>1. /\ proc = "sleep" /\ proc' = "tick" /\ cap' = DispatchCap(state)
      /\ \E s \in FairOrders(due) : queue' = IF state = "pause" THEN << >> ELSE TakeFairDispatch(s)
      /\ conn' = [c \in Listed |-> IF c \in Invalid THEN SkipError(conn[c]) ELSE conn[c]]
      /\ UNCHANGED <<draining, job, stuck, inflight, task, content, object, stored, announced,
                     skippedOver, unannounced, unwritten, faults, stops>>
  BY DEF BeginTick, dataVars, history, counters
<1>2. RowsTyped /\ DataTyped /\ LoopInv /\ StuckInv /\ Running = {} /\ inflight = {}
  BY <1>1 DEF IInv, LoopInv
<1>3. RowsTyped'
  <2>1. ASSUME NEW c \in Listed
        PROVE  (SkipError(conn[c]) \in Row /\ SkipError(conn[c]).status # "running") \/ conn[c].status = "running"
    <3>1. conn[c] \in Row /\ conn[c].errors + 1 \in Nat
      BY <1>2 DEF RowsTyped, Row
    <3>2. MarkFailure(conn[c]) \in Row /\ MarkFailure(conn[c]).status = "error"
      BY <3>1 DEF MarkFailure, Row
    <3> QED BY <3>1, <3>2 DEF SkipError
  <2>2. \A c \in Listed : conn[c] \in Row
    BY <1>2 DEF RowsTyped
  <2>3. \A c \in Invalid : c \in Listed /\ conn[c].status # "running"
    BY <1>2, Constants DEF RowsTyped
  <2>4. conn' \in [Listed -> Row]
    BY <1>1, <2>1, <2>2, <2>3
  <2>5. \A c \in Invalid : conn'[c].status # "running"
    BY <1>1, <2>1, <2>3
  <2> QED BY <1>1, <1>2, <2>4, <2>5 DEF RowsTyped
<1>4. DataTyped'
  BY <1>1, <1>2 DEF DataTyped
<1>5. StuckInv'
  BY <1>1, <1>2 DEF StuckInv
<1>6. LoopInv'
  <2>1. queue' \in Seq(Connectors) /\ \A i, j \in DOMAIN queue' : queue'[i] = queue'[j] => i = j
    <3>1. PICK s \in FairOrders(due) : queue' = IF state = "pause" THEN << >> ELSE TakeFairDispatch(s)
      BY <1>1
    <3>2. CASE state = "pause"
      BY <3>1, <3>2
    <3>3. CASE state # "pause"
      BY <3>1, <3>3, Dispatched
    <3> QED BY <3>2, <3>3
  <2>2. Running' = Running
    BY <1>1 DEF Running
  <2>3. \A i \in DOMAIN queue' : task'[queue'[i]] = NoTask
    <3>1. \A i \in DOMAIN queue' : queue'[i] \in Connectors
      BY <2>1
    <3>2. \A c \in Connectors : task'[c] = NoTask
      BY <1>2, <2>2 DEF Running
    <3> QED BY <3>1, <3>2
  <2>4. cap' \in 0 .. GlobalLimit
    BY <1>1, CollectorAssumption DEF DispatchCap
  <2>5. (Cardinality(Running))' = Cardinality(Running)
    BY <2>2
  <2> QED BY <1>1, <1>2, <2>1, <2>2, <2>3, <2>4, <2>5 DEF LoopInv
<1>7. ASSUME NEW c \in Connectors PROVE DataOf(c)' /\ CleanOf(c)'
  <2>1. conn'[c] = conn[c]
    BY <1>1, Constants
  <2>2. Frame(c)
    BY <1>1, <2>1 DEF Frame
  <2> QED BY <1>1, <2>2, FrameKeeps DEF IInv
<1> QED BY <1>3, <1>4, <1>5, <1>6, <1>7 DEF IInv

\* The next in the queue has no task.
LEMMA NextInQueue ==
  ASSUME RowsTyped, LoopInv, queue # << >>
  PROVE  /\ Head(queue) \in Connectors /\ task[Head(queue)] = NoTask
         /\ Tail(queue) \in Seq(Connectors)
         /\ \A i, j \in DOMAIN Tail(queue) : Tail(queue)[i] = Tail(queue)[j] => i = j
         /\ \A i \in DOMAIN Tail(queue) : Tail(queue)[i] \in Connectors /\ Tail(queue)[i] # Head(queue)
                                          /\ task[Tail(queue)[i]] = NoTask
<1>1. /\ queue \in Seq(Connectors) /\ Len(queue) \in Nat /\ Len(queue) > 0
      /\ DOMAIN queue = 1 .. Len(queue) /\ Head(queue) = queue[1]
  BY DEF LoopInv
<1>2. /\ Tail(queue) \in Seq(Connectors) /\ DOMAIN Tail(queue) = 1 .. Len(queue) - 1
      /\ \A i \in 1 .. Len(queue) - 1 : Tail(queue)[i] = queue[i + 1]
  BY <1>1
<1>3. \A i \in 1 .. Len(queue) - 1 : i + 1 \in DOMAIN queue /\ i + 1 # 1
  BY <1>1
<1>4. 1 \in DOMAIN queue
  BY <1>1
<1>5. /\ \A i, j \in DOMAIN queue : queue[i] = queue[j] => i = j
      /\ \A i \in DOMAIN queue : task[queue[i]] = NoTask
  BY DEF LoopInv
<1>6. ASSUME NEW i \in DOMAIN Tail(queue), NEW j \in DOMAIN Tail(queue), Tail(queue)[i] = Tail(queue)[j] PROVE i = j
  <2>1. i \in 1 .. Len(queue) - 1 /\ j \in 1 .. Len(queue) - 1 /\ i + 1 = j + 1
    BY <1>2, <1>3, <1>5, <1>6
  <2> QED BY <2>1
<1>7. ASSUME NEW i \in DOMAIN Tail(queue)
      PROVE  Tail(queue)[i] \in Connectors /\ Tail(queue)[i] # Head(queue) /\ task[Tail(queue)[i]] = NoTask
  BY <1>1, <1>2, <1>3, <1>4, <1>5
<1> QED BY <1>1, <1>2, <1>4, <1>5, <1>6, <1>7

\* A connector in the queue is not in flight.
LEMMA NotInFlight ==
  ASSUME IInv, proc \in {"tick", "spawn"}, NEW c \in Connectors, task[c] = NoTask
  PROVE  c \notin inflight
BY DEF IInv, LoopInv, Running

\* jobs.create: an older job that looks running is one whose last write failed.
LEMMA StepCreateJob ==
  ASSUME IInv, CreateJob
  PROVE  IInv'
<1> DEFINE c == Head(queue)
<1>1. /\ proc = "tick" /\ proc' = "spawn" /\ queue # << >> /\ Cardinality(Running) < cap
      /\ stuck' = IF job[c] \in {"queued", "running"} THEN stuck \cup {<<c, job[c]>>} ELSE stuck
      /\ job' = [job EXCEPT ![c] = "queued"]
      /\ UNCHANGED <<draining, queue, cap, conn, inflight, task, content, object, stored, announced,
                     skippedOver, unannounced, unwritten, faults, stops>>
  BY DEF CreateJob, MayDispatch, dataVars, history, counters
<1>2. RowsTyped /\ DataTyped /\ LoopInv /\ StuckInv
  BY DEF IInv
<1>3. c \in Connectors /\ task[c] = NoTask
  BY <1>1, <1>2, NextInQueue
<1> HIDE DEF c
<1>4. c \notin inflight /\ CleanOf(c)
  BY <1>1, <1>3, NotInFlight DEF IInv
<1>5. RowsTyped' /\ DataTyped'
  BY <1>1, <1>2, <1>3 DEF RowsTyped, DataTyped
<1>6. LoopInv'
  BY <1>1, <1>2 DEF LoopInv, Running
<1>7. StuckInv'
  <2>1. job[c] = "running" => c \in unwritten
    BY <1>1, <1>4 DEF CleanOf, JobRuns
  <2> QED BY <1>1, <1>2, <2>1 DEF StuckInv
<1>8. ASSUME NEW d \in Connectors PROVE DataOf(d)' /\ CleanOf(d)'
  <2>1. DataOf(d) /\ CleanOf(d)
    BY DEF IInv
  <2>2. DataOf(d)'
    BY <1>1, <2>1 DEF DataOf, Untold
  <2>3. CleanOf(d)'
    BY <1>1, <1>2, <2>1 DEF CleanOf, StatusRuns, JobRuns, RowsTyped
  <2> QED BY <2>2, <2>3
<1> QED BY <1>5, <1>6, <1>7, <1>8 DEF IInv

\* The connector is left out of this tick.
LEMMA StepCreateJobErr ==
  ASSUME IInv, CreateJobErr
  PROVE  IInv'
<1>1. /\ proc = "tick" /\ queue # << >> /\ queue' = Tail(queue) /\ Fault
      /\ UNCHANGED <<proc, draining, cap, conn, job, stuck, inflight, task, content, object, stored, announced,
                     skippedOver, unannounced, unwritten>>
  BY DEF CreateJobErr, MayDispatch, dataVars, history, rowVars
<1>2. RowsTyped /\ DataTyped /\ LoopInv /\ StuckInv
  BY DEF IInv
<1>3. /\ queue' \in Seq(Connectors) /\ \A i, j \in DOMAIN queue' : queue'[i] = queue'[j] => i = j
      /\ \A i \in DOMAIN queue' : task'[queue'[i]] = NoTask
  BY <1>1, <1>2, NextInQueue
<1>4. faults' \in 0 .. MaxFaults /\ stops' \in 0 .. MaxStops
  BY <1>1, <1>2, FaultBounded DEF DataTyped
<1>5. RowsTyped' /\ DataTyped'
  BY <1>1, <1>2, <1>4 DEF RowsTyped, DataTyped
<1>6. LoopInv'
  BY <1>1, <1>2, <1>3 DEF LoopInv, Running
<1>7. StuckInv'
  BY <1>1, <1>2 DEF StuckInv
<1>8. ASSUME NEW d \in Connectors PROVE DataOf(d)' /\ CleanOf(d)'
  <2>1. Frame(d)
    BY <1>1 DEF Frame
  <2> QED BY <1>1, <2>1, FrameKeeps DEF IInv
<1> QED BY <1>5, <1>6, <1>7, <1>8 DEF IInv

\* The task that is spawned has room and replaces none.
LEMMA StepSpawnTask ==
  ASSUME IInv, NEW ok \in BOOLEAN, SpawnTask(ok)
  PROVE  IInv'
<1>c. PICK c : c = Head(queue)
  OBVIOUS
<1> DEFINE x == [pc |-> "source", etag |-> conn[c].etag, got |-> 0]
<1>1. /\ proc = "spawn" /\ proc' = "tick" /\ queue' = Tail(queue)
      /\ (job' = [job EXCEPT ![c] = JobAfter(job[c], "running")] /\ UNCHANGED counters) \/ (Fault /\ job' = job)
      /\ inflight' = inflight \cup {c} /\ task' = [task EXCEPT ![c] = x]
      /\ UNCHANGED <<draining, cap, conn, stuck, content, object, stored, announced,
                     skippedOver, unannounced, unwritten>> /\ UNCHANGED dataVars
  BY <1>c DEF SpawnTask, dataVars, history
<1>2. /\ RowsTyped /\ DataTyped /\ LoopInv /\ StuckInv /\ queue # << >>
      /\ Cardinality(Running) < cap /\ inflight = Running
  BY <1>1 DEF IInv, LoopInv
<1>3. c \in Connectors /\ task[c] = NoTask
  BY <1>c, <1>2, NextInQueue
<1>q. /\ queue' \in Seq(Connectors) /\ \A i, j \in DOMAIN queue' : queue'[i] = queue'[j] => i = j
      /\ \A i \in DOMAIN queue' : queue'[i] \in Connectors /\ queue'[i] # c /\ task[queue'[i]] = NoTask
  BY <1>c, <1>1, <1>2, NextInQueue
<1>4. c \notin inflight /\ CleanOf(c) /\ DataOf(c) /\ conn[c] \in Row /\ \A to : JobAfter(job[c], to) \in JobStates
  BY <1>1, <1>3, NotInFlight, Rows
<1>5. x \in Task /\ x.pc = "source" /\ x # NoTask
  <2>1. x \in Task /\ x.pc = "source"
    BY <1>4, Constants DEF Task, Row, Stages
  <2> QED BY <1>2, <1>3, <2>1, TaskOrNone
<1> HIDE DEF x
<1>6. faults' \in 0 .. MaxFaults /\ stops' \in 0 .. MaxStops
  <2>1. faults \in 0 .. MaxFaults /\ stops \in 0 .. MaxStops
    BY <1>2 DEF DataTyped
  <2>2. CASE Fault
    BY <2>1, <2>2, FaultBounded
  <2>3. CASE UNCHANGED counters
    BY <2>1, <2>3 DEF counters
  <2> QED BY <1>1, <2>2, <2>3
<1>7. /\ \A d \in Connectors : task'[d] = IF d = c THEN x ELSE task[d]
      /\ \A d \in Connectors \ {c} : job'[d] = job[d]
      /\ job' \in [Connectors -> JobStates]
  BY <1>1, <1>2, <1>3, <1>4 DEF RowsTyped, JobStates
<1>8. RowsTyped'
  BY <1>1, <1>2, <1>3, <1>5, <1>7 DEF RowsTyped, JobStates
<1>9. DataTyped'
  BY <1>1, <1>2, <1>6 DEF DataTyped
<1>10. LoopInv'
  <2>1. Running' = Running \cup {c}
    BY <1>3, <1>5, <1>7 DEF Running
  <2>2. c \notin Running
    BY <1>3 DEF Running
  <2>3. IsFiniteSet(Running)
    BY Constants, FS_Subset DEF Running
  <2>4. Cardinality(Running') = Cardinality(Running) + 1 /\ Cardinality(Running) \in Nat
    BY <2>1, <2>2, <2>3, FS_AddElement, FS_CardinalityType
  <2>5. Cardinality(Running') <= GlobalLimit
    <3>1. cap \in Nat /\ cap <= GlobalLimit /\ GlobalLimit \in Nat
      BY <1>2, Constants DEF LoopInv
    <3> QED BY <1>2, <2>4, <3>1
  <2>6. (Cardinality(Running))' = Cardinality(Running')
    OBVIOUS
  <2>7. \A i \in DOMAIN queue' : task'[queue'[i]] = NoTask
    BY <1>q, <1>7
  <2>8. inflight' = Running' /\ inflight' \subseteq Connectors
    BY <1>1, <1>2, <2>1 DEF Running
  <2> QED BY <1>1, <1>2, <1>q, <2>5, <2>6, <2>7, <2>8 DEF LoopInv
<1>11. StuckInv'
  BY <1>1, <1>2 DEF StuckInv
<1>12. ASSUME NEW d \in Connectors PROVE DataOf(d)' /\ CleanOf(d)'
  <2>1. CASE d = c
    <3>1. DataOf(c)'
      <4>1. task[c].pc = "none"
        BY <1>3 DEF NoTask
      <4>2. task'[c].pc = "source"
        BY <1>3, <1>5, <1>7
      <4> QED BY <1>1, <1>3, <1>4, <4>1, <4>2, DataStays
    <3>2. CleanOf(c)'
      <4>1. task'[c].pc = "source" /\ c \in inflight'
        BY <1>1, <1>3, <1>5, <1>7
      <4> QED BY <1>1, <1>4, <4>1 DEF CleanOf, StatusRuns, JobRuns
    <3> QED BY <2>1, <3>1, <3>2
  <2>2. CASE d # c
    <3>1. Frame(d)
      BY <1>1, <1>7, <2>2 DEF Frame
    <3> QED BY <1>1, <3>1, FrameKeeps DEF IInv
  <2> QED BY <2>1, <2>2
<1> QED BY <1>8, <1>9, <1>10, <1>11, <1>12 DEF IInv

\* Every task is joined.
LEMMA StepEndTick ==
  ASSUME IInv, EndTick
  PROVE  IInv'
<1>1. /\ proc = "tick" /\ Running = {} /\ proc' \in {"abort", "sleep"} /\ queue' = << >> /\ cap' = 0
      /\ UNCHANGED <<draining, conn, job, stuck, inflight, task, content, object, stored, announced,
                     skippedOver, unannounced, unwritten, faults, stops>>
  BY DEF EndTick, rowVars, dataVars, history, counters
<1>2. RowsTyped /\ DataTyped /\ LoopInv /\ StuckInv
  BY DEF IInv
<1>3. RowsTyped' /\ DataTyped'
  BY <1>1, <1>2 DEF RowsTyped, DataTyped
<1>4. LoopInv'
  <2>1. Running' = {} /\ inflight' = {} /\ (Cardinality(Running))' = Cardinality(Running)
    BY <1>1, <1>2 DEF Running, LoopInv
  <2>2. cap' \in 0 .. GlobalLimit /\ queue' \in Seq(Connectors) /\ DOMAIN queue' = {}
    BY <1>1, Constants
  <2> QED BY <1>1, <1>2, <2>1, <2>2 DEF LoopInv
<1>5. StuckInv'
  BY <1>1, <1>2 DEF StuckInv
<1>6. ASSUME NEW d \in Connectors PROVE DataOf(d)' /\ CleanOf(d)'
  <2>1. Frame(d)
    BY <1>1 DEF Frame
  <2> QED BY <1>1, <2>1, FrameKeeps DEF IInv
<1> QED BY <1>3, <1>4, <1>5, <1>6 DEF IInv

\* A counted stop stays within its bound.
LEMMA StopBounded ==
  ASSUME faults \in 0 .. MaxFaults, stops \in 0 .. MaxStops, Stop
  PROVE  faults' \in 0 .. MaxFaults /\ stops' \in 0 .. MaxStops /\ stops' # stops
BY Constants DEF Stop

\* The token is cancelled.
LEMMA StepShutdown ==
  ASSUME IInv, Shutdown
  PROVE  IInv'
<1>1. /\ proc # "down" /\ Stop /\ draining' = TRUE
      /\ UNCHANGED <<proc, queue, cap, conn, job, stuck, inflight, task, content, object, stored, announced,
                     skippedOver, unannounced, unwritten>>
  BY DEF Shutdown, rowVars, dataVars, history
<1>2. RowsTyped /\ DataTyped /\ LoopInv /\ StuckInv
  BY DEF IInv
<1>3. faults' \in 0 .. MaxFaults /\ stops' \in 0 .. MaxStops
  BY <1>1, <1>2, StopBounded DEF DataTyped
<1>4. RowsTyped' /\ DataTyped'
  BY <1>1, <1>2, <1>3 DEF RowsTyped, DataTyped
<1>5. LoopInv'
  BY <1>1, <1>2 DEF LoopInv, Running
<1>6. StuckInv'
  BY <1>1, <1>2 DEF StuckInv
<1>7. ASSUME NEW d \in Connectors PROVE DataOf(d)' /\ CleanOf(d)'
  <2>1. Frame(d)
    BY <1>1 DEF Frame
  <2> QED BY <1>1, <2>1, FrameKeeps DEF IInv
<1> QED BY <1>4, <1>5, <1>6, <1>7 DEF IInv

\* The process ends by itself.
LEMMA StepExit ==
  ASSUME IInv, Exit
  PROVE  IInv'
<1>1. /\ proc = "sleep" \/ (proc = "abort" /\ inflight = {})
      /\ proc' = "down"
      /\ UNCHANGED <<queue, cap, conn, job, stuck, inflight, task, content, object, stored, announced,
                     skippedOver, unannounced, unwritten, faults, stops>>
  BY DEF Exit, rowVars, dataVars, history, counters
<1>2. RowsTyped /\ DataTyped /\ LoopInv /\ StuckInv
  BY DEF IInv
<1>3. RowsTyped' /\ DataTyped'
  BY <1>1, <1>2 DEF RowsTyped, DataTyped
<1>4. LoopInv'
  <2>1. draining' \in BOOLEAN
    BY DEF Exit
  <2> QED BY <1>1, <1>2, <2>1 DEF LoopInv, Running
<1>5. StuckInv'
  BY <1>1 DEF StuckInv
<1>6. ASSUME NEW d \in Connectors PROVE DataOf(d)' /\ CleanOf(d)'
  <2>1. Frame(d)
    BY <1>1 DEF Frame
  <2> QED BY <1>1, <2>1, FrameKeeps DEF IInv
<1> QED BY <1>3, <1>4, <1>5, <1>6 DEF IInv

\* main reclaims what a kill left running.
LEMMA StepStartup ==
  ASSUME IInv, Startup
  PROVE  /\ IInv'
         /\ \A c \in Listed : conn'[c].status # "running"
         /\ \A c \in Connectors : job'[c] # "running"
         /\ \A s \in stuck' : s[2] # "running"
<1>1. /\ proc = "down" /\ proc' = "sleep" /\ unwritten' = {}
      /\ job' = [c \in Connectors |-> IF job[c] = "running" THEN Over ELSE job[c]]
      /\ stuck' = {s \in stuck : s[2] # "running"}
      /\ conn' = [c \in Listed |->
                    IF conn[c].status = "running" THEN [conn[c] EXCEPT !.status = "idle"] ELSE conn[c]]
      /\ UNCHANGED <<draining, queue, cap, inflight, task, content, object, stored, announced,
                     skippedOver, unannounced, faults, stops>>
  BY DEF Startup, dataVars, counters
<1>2. RowsTyped /\ DataTyped /\ LoopInv
  BY DEF IInv
<1>3. \A c \in Listed : conn'[c] \in Row /\ conn'[c].status # "running" /\ conn'[c].etag = conn[c].etag
  <2> SUFFICES ASSUME NEW c \in Listed
               PROVE  conn'[c] \in Row /\ conn'[c].status # "running" /\ conn'[c].etag = conn[c].etag
    OBVIOUS
  <2>1. conn[c] \in Row
    BY <1>2 DEF RowsTyped
  <2>2. conn'[c] = IF conn[c].status = "running" THEN [conn[c] EXCEPT !.status = "idle"] ELSE conn[c]
    BY <1>1
  <2> QED BY <2>1, <2>2 DEF Row
<1>4. \A c \in Connectors : job'[c] \in JobStates /\ job'[c] # "running"
  BY <1>1, <1>2 DEF RowsTyped, JobStates, Over
<1>5. RowsTyped'
  <2>1. conn' \in [Listed -> Row]
    BY <1>1, <1>3
  <2>2. job' \in [Connectors -> {Over, "queued", "running"}]
    BY <1>1, <1>4 DEF JobStates
  <2>3. stuck' \subseteq Connectors \X {"queued", "running"}
    BY <1>1, <1>2 DEF RowsTyped
  <2>4. \A c \in Invalid : conn'[c].status # "running"
    BY <1>3, Constants
  <2> QED BY <1>1, <1>2, <2>1, <2>2, <2>3, <2>4 DEF RowsTyped
<1>6. DataTyped'
  BY <1>1, <1>2 DEF DataTyped
<1>7. LoopInv'
  BY <1>1, <1>2 DEF LoopInv, Running
<1>8. StuckInv'
  BY <1>1 DEF StuckInv
<1>9. ASSUME NEW d \in Connectors PROVE DataOf(d)' /\ CleanOf(d)'
  <2>1. DataOf(d) /\ d \in Listed
    BY Constants DEF IInv
  <2>2. DataOf(d)'
    BY <1>1, <1>3, <2>1 DEF DataOf, Untold
  <2>3. CleanOf(d)'
    BY <1>3, <1>4, <2>1 DEF CleanOf
  <2> QED BY <2>2, <2>3
<1> QED BY <1>1, <1>3, <1>4, <1>5, <1>6, <1>7, <1>8, <1>9 DEF IInv

\* What interrupted tasks lose is in the history.
LEMMA Interrupted ==
  ASSUME IInv, NEW S \in SUBSET Connectors, Interrupt(S),
         UNCHANGED <<conn, job, stuck, content, object, stored, announced, unwritten>>,
         faults' \in 0 .. MaxFaults, stops' \in 0 .. MaxStops
  PROVE  /\ RowsTyped' /\ DataTyped'
         /\ \A c \in Connectors : DataOf(c)' /\ task'[c] = IF c \in S THEN NoTask ELSE task[c]
<1>1. /\ task' = [c \in Connectors |-> IF c \in S THEN NoTask ELSE task[c]]
      /\ skippedOver' = [c \in Connectors |-> IF c \in S THEN skippedOver[c] \cup Passed(c) ELSE skippedOver[c]]
      /\ unannounced' = [c \in Connectors |-> IF c \in S THEN unannounced[c] \cup Untold(c) ELSE unannounced[c]]
  BY DEF Interrupt
<1>2. RowsTyped /\ DataTyped
  BY DEF IInv
<1>3. ASSUME NEW c \in Connectors PROVE Passed(c) \in SUBSET Versions /\ Untold(c) \in SUBSET Versions
  <2>1. CASE task[c].pc = "none"
    BY <2>1 DEF Passed, Untold
  <2>2. CASE task[c].pc # "none"
    <3>1. task[c].got \in Versions
      BY <1>2, <2>2, TaskOrNone DEF Task
    <3> QED BY <3>1 DEF Passed, Untold
  <2> QED BY <2>1, <2>2
<1>4. RowsTyped'
  <2>1. task' \in [Connectors -> Task \cup {NoTask}]
    BY <1>1, <1>2 DEF RowsTyped
  <2> QED BY <1>2, <2>1 DEF RowsTyped
<1>5. DataTyped'
  <2>1. skippedOver' \in [Connectors -> SUBSET Versions] /\ unannounced' \in [Connectors -> SUBSET Versions]
    BY <1>1, <1>2, <1>3 DEF DataTyped
  <2> QED BY <1>2, <2>1 DEF DataTyped
<1>6. ASSUME NEW c \in Connectors PROVE DataOf(c)'
  <2>1. DataOf(c)
    BY DEF IInv
  <2>2. CASE c \in S
    <3>1. /\ task'[c] = NoTask /\ task'[c].pc = "none"
          /\ skippedOver'[c] = skippedOver[c] \cup Passed(c) /\ unannounced'[c] = unannounced[c] \cup Untold(c)
      BY <1>1, <2>2 DEF NoTask
    <3>2. stored'[c] \subseteq object'[c] \cap (announced'[c] \cup unannounced'[c] \cup Untold(c)')
      BY <2>1, <3>1 DEF DataOf
    <3>3. conn'[c].etag \in {0} \cup stored'[c] \cup skippedOver'[c]
      BY <2>1, <3>1 DEF DataOf, Passed
    <3> QED BY <3>1, <3>2, <3>3 DEF DataOf
  <2>3. CASE c \notin S
    <3>1. task'[c] = task[c] /\ skippedOver'[c] = skippedOver[c] /\ unannounced'[c] = unannounced[c]
      BY <1>1, <2>3
    <3> QED BY <2>1, <3>1 DEF DataOf, Untold
  <2> QED BY <2>2, <2>3
<1> QED BY <1>1, <1>4, <1>5, <1>6

\* With no task left the tick has nothing to look after.
LEMMA NoTasks ==
  ASSUME LoopInv, \A c \in Connectors : task'[c] = NoTask, proc' \in {"abort", "down"}, draining' \in BOOLEAN,
         queue' = << >>, cap' = 0, inflight' \subseteq Connectors, proc' = "down" => inflight' = {}
  PROVE  LoopInv'
<1>1. Running' = {}
  BY DEF Running
<1>2. (Cardinality(Running))' = 0
  BY <1>1, FS_EmptySet
<1>3. cap' \in 0 .. GlobalLimit /\ 0 <= GlobalLimit /\ queue' \in Seq(Connectors) /\ DOMAIN queue' = {}
  BY Constants
<1> QED BY <1>1, <1>2, <1>3 DEF LoopInv

\* The drain deadline.
LEMMA StepAbortAll ==
  ASSUME IInv, AbortAll
  PROVE  IInv'
<1>1. /\ proc = "tick" /\ proc' = "abort" /\ queue' = << >> /\ cap' = 0 /\ Interrupt(Running)
      /\ UNCHANGED <<draining, conn, job, stuck, inflight, content, object, stored, announced, unwritten>>
      /\ UNCHANGED <<faults, stops>>
  BY DEF AbortAll, rowVars, dataVars, counters
<1>2. RowsTyped /\ DataTyped /\ LoopInv /\ StuckInv
  BY DEF IInv
<1>3. Running \in SUBSET Connectors /\ faults' \in 0 .. MaxFaults /\ stops' \in 0 .. MaxStops
  BY <1>1, <1>2 DEF Running, DataTyped
<1>4. /\ RowsTyped' /\ DataTyped'
      /\ \A c \in Connectors : DataOf(c)' /\ task'[c] = IF c \in Running THEN NoTask ELSE task[c]
  BY <1>1, <1>3, Interrupted
<1>5. \A c \in Connectors : task'[c] = NoTask
  BY <1>4 DEF Running
<1>6. LoopInv'
  BY <1>1, <1>2, <1>5, NoTasks DEF LoopInv
<1>7. StuckInv'
  BY <1>1, <1>2 DEF StuckInv
<1>8. ASSUME NEW c \in Connectors PROVE CleanOf(c)'
  <2>1. CleanOf(c) /\ task'[c].pc = "none"
    BY <1>5 DEF IInv, NoTask
  <2> QED BY <1>1, <2>1 DEF CleanOf, StatusRuns, JobRuns
<1> QED BY <1>4, <1>6, <1>7, <1>8 DEF IInv

\* A kill may leave anything running: Startup deals with it.
LEMMA StepKill ==
  ASSUME IInv, Kill
  PROVE  IInv' /\ stops' # stops
<1>1. /\ proc' = "down" /\ queue' = << >> /\ cap' = 0 /\ Interrupt(Connectors) /\ inflight' = {} /\ Stop
      /\ draining' = FALSE
      /\ UNCHANGED <<conn, job, stuck, content, object, stored, announced, unwritten>>
  BY DEF Kill, rowVars, dataVars
<1>2. RowsTyped /\ DataTyped /\ LoopInv /\ StuckInv
  BY DEF IInv
<1>3. faults' \in 0 .. MaxFaults /\ stops' \in 0 .. MaxStops /\ stops' # stops
  BY <1>1, <1>2, StopBounded DEF DataTyped
<1>4. /\ RowsTyped' /\ DataTyped'
      /\ \A c \in Connectors : DataOf(c)' /\ task'[c] = IF c \in Connectors THEN NoTask ELSE task[c]
  BY <1>1, <1>3, Interrupted
<1>5. \A c \in Connectors : task'[c] = NoTask
  BY <1>4
<1>6. LoopInv'
  BY <1>1, <1>2, <1>5, NoTasks
<1>7. StuckInv' /\ \A c \in Connectors : CleanOf(c)'
  BY <1>1 DEF StuckInv, CleanOf
<1> QED BY <1>3, <1>4, <1>6, <1>7 DEF IInv

\* What finish_aborted writes, or fails to write, of one connector.
LEMMA Aborted ==
  ASSUME IInv, proc = "abort", NEW c \in Connectors,
         conn' \in {conn, [conn EXCEPT ![c].status = "idle"]},
         job' \in {job, [job EXCEPT ![c] = JobAfter(job[c], "cancelled")]},
         inflight' = inflight \ {c}, UNCHANGED procVars,
         UNCHANGED <<stuck, task, content, object, stored, announced, skippedOver, unannounced>>,
         \/ c \in unwritten'
         \/ conn' = [conn EXCEPT ![c].status = "idle"] /\ job' = [job EXCEPT ![c] = JobAfter(job[c], "cancelled")],
         unwritten' \in {unwritten, unwritten \cup {c}},
         faults' \in 0 .. MaxFaults, stops' \in 0 .. MaxStops
  PROVE  IInv'
<1>1. /\ RowsTyped /\ DataTyped /\ LoopInv /\ StuckInv /\ conn[c] \in Row /\ job[c] \in JobStates
      /\ UNCHANGED <<proc, draining, queue, cap>>
  BY Rows DEF IInv, procVars
<1>2. /\ JobAfter(job[c], "cancelled") \in JobStates /\ JobAfter(job[c], "cancelled") # "running"
      /\ [conn[c] EXCEPT !.status = "idle"] \in Row /\ [conn[c] EXCEPT !.status = "idle"].etag = conn[c].etag
      /\ [conn[c] EXCEPT !.status = "idle"].status = "idle"
  BY <1>1, JobEnds DEF Row
<1>3. /\ conn'[c] \in {conn[c], [conn[c] EXCEPT !.status = "idle"]}
      /\ \A d \in Listed \ {c} : conn'[d] = conn[d]
      /\ conn' = [conn EXCEPT ![c].status = "idle"] => conn'[c] = [conn[c] EXCEPT !.status = "idle"]
      /\ job' = [job EXCEPT ![c] = JobAfter(job[c], "cancelled")] => job'[c] = JobAfter(job[c], "cancelled")
      /\ \A d \in Connectors \ {c} : job'[d] = job[d]
  BY <1>1, Constants DEF RowsTyped
<1>4. conn' \in [Listed -> Row] /\ job' \in [Connectors -> JobStates]
  <2>1. conn' \in [Listed -> Row]
    <3>1. conn' = [conn EXCEPT ![c] = conn'[c]] /\ conn'[c] \in Row
      BY <1>1, <1>2, <1>3, Constants DEF RowsTyped
    <3> QED BY <1>1, <3>1 DEF RowsTyped
  <2>2. job' \in [Connectors -> JobStates]
    BY <1>1, <1>2 DEF RowsTyped, JobStates
  <2> QED BY <2>1, <2>2
<1>5. RowsTyped'
  <2>1. \A d \in Invalid : conn'[d].status # "running"
    BY <1>1, <1>3, Constants DEF RowsTyped
  <2> QED BY <1>1, <1>4, <2>1 DEF RowsTyped, JobStates
<1>6. DataTyped'
  BY <1>1 DEF DataTyped
<1>7. LoopInv'
  BY <1>1 DEF LoopInv, Running
<1>8. StuckInv'
  BY <1>1 DEF StuckInv
<1>9. ASSUME NEW d \in Connectors PROVE DataOf(d)' /\ CleanOf(d)'
  <2>1. DataOf(d) /\ CleanOf(d) /\ d \in Listed
    BY Constants DEF IInv
  <2>2. conn'[d].etag = conn[d].etag
    BY <1>2, <1>3, <2>1
  <2>3. DataOf(d)'
    BY <2>1, <2>2 DEF DataOf, Untold
  <2>4. CASE d # c
    <3>1. Frame(d)
      BY <1>3, <2>1, <2>4 DEF Frame
    <3> QED BY <1>1, <2>1, <3>1, FrameKeeps
  <2>5. CASE d = c
    <3>1. CleanOf(c)'
      BY <1>2, <1>3 DEF CleanOf
    <3> QED BY <2>3, <2>5, <3>1
  <2> QED BY <2>4, <2>5
<1> QED BY <1>5, <1>6, <1>7, <1>8, <1>9 DEF IInv

\* finish_aborted
LEMMA StepFinishAborted ==
  ASSUME IInv, NEW c \in Connectors, FinishAborted(c)
  PROVE  IInv'
<1>1. faults' \in 0 .. MaxFaults /\ stops' \in 0 .. MaxStops
  BY DEF FinishAborted, counters, IInv, DataTyped
<1> QED BY <1>1, Aborted DEF FinishAborted, dataVars, history

\* finish_aborted, one write of which fails.
LEMMA StepFinishAbortedErr ==
  ASSUME IInv, NEW c \in Connectors, FinishAbortedErr(c)
  PROVE  IInv'
<1>1. faults' \in 0 .. MaxFaults /\ stops' \in 0 .. MaxStops
  BY FaultBounded DEF FinishAbortedErr, IInv, DataTyped
<1> QED BY <1>1, Aborted DEF FinishAbortedErr, dataVars

\* The source serves something new: nothing of the collector's.
LEMMA StepChange ==
  ASSUME IInv, NEW c \in Connectors, Change(c)
  PROVE  IInv'
<1>1. /\ content[c] < Latest[c] /\ content' = [content EXCEPT ![c] = @ + 1]
      /\ UNCHANGED <<proc, draining, queue, cap, conn, job, stuck, inflight, task, object, stored, announced,
                     skippedOver, unannounced, unwritten, faults, stops>>
  BY DEF Change, procVars, rowVars, dataVars, history, counters
<1>2. RowsTyped /\ DataTyped /\ LoopInv /\ StuckInv
  BY DEF IInv
<1>3. content' \in [Connectors -> Nat] /\ \A d \in Connectors : content'[d] \in 1 .. Latest[d]
  BY <1>1, <1>2, Constants DEF DataTyped
<1>4. RowsTyped' /\ DataTyped'
  BY <1>1, <1>2, <1>3 DEF RowsTyped, DataTyped
<1>5. LoopInv'
  BY <1>1, <1>2 DEF LoopInv, Running
<1>6. StuckInv'
  BY <1>1, <1>2 DEF StuckInv
<1>7. ASSUME NEW d \in Connectors PROVE DataOf(d)' /\ CleanOf(d)'
  <2>1. Frame(d)
    BY <1>1 DEF Frame
  <2> QED BY <1>1, <2>1, FrameKeeps DEF IInv
<1> QED BY <1>4, <1>5, <1>6, <1>7 DEF IInv

------------------------------------------------------------------------------
(* All steps. *)

\* The collector starts with nothing collected.
LEMMA InitIInv == Init => IInv
<1> SUFFICES ASSUME Init PROVE IInv
  OBVIOUS
<1>1. \A c \in Connectors : task[c] = NoTask /\ task[c].pc = "none"
  BY DEF Init, NoTask
<1>2. RowsTyped
  <2>1. [status |-> "idle", errors |-> 0, etag |-> 0] \in Row
    BY Constants DEF Row
  <2>2. \A c \in Listed : conn[c] = [status |-> "idle", errors |-> 0, etag |-> 0]
    BY DEF Init
  <2>3. conn \in [Listed -> Row] /\ \A c \in Invalid : conn[c].status # "running"
    BY <2>1, <2>2, Constants DEF Init
  <2> QED BY <2>3 DEF Init, RowsTyped
<1>3. DataTyped
  BY Constants, CollectorAssumption DEF Init, DataTyped
<1>4. LoopInv
  <2>1. Running = {}
    BY <1>1 DEF Running
  <2>2. Cardinality(Running) = 0
    BY <2>1, FS_EmptySet
  <2>3. queue \in Seq(Connectors) /\ DOMAIN queue = {} /\ cap \in 0 .. GlobalLimit
    BY Constants DEF Init
  <2>4. draining \in BOOLEAN
    BY DEF Init
  <2>5. proc = "down" /\ inflight = {} /\ 0 <= GlobalLimit
    <3>1. GlobalLimit \in Nat
      BY Constants
    <3> QED BY <3>1 DEF Init
  <2> QED BY ONLY <2>1, <2>2, <2>3, <2>4, <2>5 DEF LoopInv
<1>5. StuckInv
  BY DEF Init, StuckInv
<1>6. ASSUME NEW c \in Connectors PROVE DataOf(c) /\ CleanOf(c)
  <2>1. conn[c].etag = 0 /\ stored[c] = {}
    BY Constants DEF Init
  <2>2. DataOf(c)
    BY <1>1, <2>1 DEF DataOf
  <2>3. CleanOf(c)
    BY DEF Init, CleanOf
  <2> QED BY <2>2, <2>3
<1> QED BY <1>2, <1>3, <1>4, <1>5, <1>6 DEF IInv

\* Nothing happens.
LEMMA StutterIInv ==
  ASSUME IInv, UNCHANGED vars
  PROVE  IInv'
<1>1. UNCHANGED <<proc, draining, queue, cap, conn, job, stuck, inflight, task, content, object, stored, announced,
                  skippedOver, unannounced, unwritten, faults, stops>>
  BY DEF vars
<1>2. RowsTyped /\ DataTyped /\ LoopInv /\ StuckInv
  BY DEF IInv
<1>3. RowsTyped' /\ DataTyped' /\ StuckInv'
  BY <1>1, <1>2 DEF RowsTyped, DataTyped, StuckInv
<1>4. LoopInv'
  BY <1>1, <1>2 DEF LoopInv, Running
<1>5. ASSUME NEW d \in Connectors PROVE DataOf(d)' /\ CleanOf(d)'
  <2>1. Frame(d)
    BY <1>1 DEF Frame
  <2> QED BY <1>1, <2>1, FrameKeeps DEF IInv
<1> QED BY <1>3, <1>4, <1>5 DEF IInv

\* Every step keeps the invariant.
LEMMA NextIInv == IInv /\ [Next]_vars => IInv'
<1> SUFFICES ASSUME IInv, [Next]_vars PROVE IInv'
  OBVIOUS
<1>1. CASE LoopStep
  <2>1. CASE Startup \/ CreateJob \/ EndTick \/ Exit
    BY <2>1, StepStartup, StepCreateJob, StepEndTick, StepExit
  <2>2. CASE SpawnTask(TRUE) \/ \E c \in Connectors : FinishAborted(c)
    BY <2>2, StepSpawnTask, StepFinishAborted
  <2> QED BY <1>1, <2>1, <2>2 DEF LoopStep
<1>2. CASE \E due \in SUBSET Connectors, state \in States : BeginTick(due, state)
  BY <1>2, StepBeginTick
<1>3. CASE CreateJobErr \/ SpawnTask(FALSE) \/ Shutdown \/ AbortAll \/ Kill
  BY <1>3, StepCreateJobErr, StepSpawnTask, StepShutdown, StepAbortAll, StepKill
<1>4. ASSUME NEW c \in Connectors, TaskStep(c) PROVE IInv'
  <2>1. CASE GiveUp(c) \/ AcquireGlobal(c) \/ AcquireDomain(c) \/ MarkRunning(c) \/ Fetch(c) \/ SaveCheckpoint(c)
    BY <2>1, StepGiveUp, StepAcquireGlobal, StepAcquireDomain, StepMarkRunning, StepFetch, StepSaveCheckpoint
  <2>2. CASE PutObject(c) \/ InsertRawEvidence(c) \/ Succeed(c) \/ PublishCollected(c)
    BY <2>2, StepPutObject, StepInsertRawEvidence, StepSucceed, StepPublishCollected
  <2>3. CASE Complete(c) \/ FailJob(c) \/ CountFailure(c)
    BY <2>3, StepComplete, StepFailJob, StepCountFailure
  <2> QED BY <1>4, <2>1, <2>2, <2>3 DEF TaskStep
<1>5. ASSUME NEW c \in Connectors, SourceErr(c) \/ CollectErr(c) \/ LastWriteErr(c) \/ Change(c) \/ FinishAbortedErr(c)
      PROVE  IInv'
  BY <1>5, StepSourceErr, StepCollectErr, StepLastWriteErr, StepChange, StepFinishAbortedErr
<1>6. CASE UNCHANGED vars
  BY <1>6, StutterIInv
<1> QED BY <1>1, <1>2, <1>3, <1>4, <1>5, <1>6 DEF Next

\* The inductive invariant holds in every state.
LEMMA Invariant == Spec => []IInv
<1>1. Init => IInv
  BY InitIInv
<1>2. IInv /\ [Next]_vars => IInv'
  BY NextIInv
<1> QED BY <1>1, <1>2, PTL DEF Spec

\* Wherever the tasks of any number of connectors are cut off (finish_collect,
\* abort_all, a kill), an evidence row has its body, and its raw.collected was
\* published, is about to be, or is known to be lost with the task that owed it.
THEOREM EvidenceAlwaysComplete == Spec => []EvidenceComplete
<1>1. IInv => EvidenceComplete
  <2> SUFFICES ASSUME IInv PROVE EvidenceComplete
    OBVIOUS
  <2>1. \A c \in Connectors : task[c] # NoTask => task[c].got \in Versions
    BY TaskOrNone DEF IInv, Task
  <2>2. TypeOK
    BY <2>1 DEF IInv, RowsTyped, DataTyped, LoopInv, TypeOK, Row
  <2> QED BY <2>2 DEF IInv, DataOf, EvidenceComplete
<1> QED BY <1>1, Invariant, PTL

\* update_checkpoint runs before the evidence is stored, and still the etag a
\* connector sends stands for content that is stored, is being stored by the task
\* that saved it, or was passed over by a run that failed in between: a 304 hides
\* nothing else, whatever else runs, fails or is killed.
THEOREM CheckpointAlwaysCovered == Spec => []CheckpointCovered
<1>1. IInv => CheckpointCovered
  BY DEF IInv, DataOf, CheckpointCovered
<1> QED BY <1>1, Invariant, PTL

\* With nothing in flight no row looks running.
LEMMA NothingRuns ==
  ASSUME RowsTyped, StuckInv, \A c \in Connectors : CleanOf(c), proc # "down", inflight = {}
  PROVE  Clean
<1>1. ASSUME NEW c \in Listed \ unwritten PROVE conn[c].status # "running"
  <2>1. CASE c \in Invalid
    BY <2>1 DEF RowsTyped
  <2>2. CASE c \in Connectors
    BY <2>2 DEF CleanOf, StatusRuns
  <2> QED BY <2>1, <2>2 DEF Listed
<1>2. \A c \in Connectors \ unwritten : job[c] # "running"
  BY DEF CleanOf, JobRuns
<1> QED BY <1>1, <1>2 DEF Clean, StuckInv

\* Only a clean exit or a kill ends the process.
LEMMA ProcessEnds ==
  ASSUME [Next]_vars, proc # "down", proc' = "down"
  PROVE  Exit \/ Kill
<1>1. CASE LoopStep
  BY <1>1 DEF LoopStep, Startup, CreateJob, SpawnTask, EndTick, FinishAborted, procVars
<1>2. CASE \E due \in SUBSET Connectors, state \in States : BeginTick(due, state)
  BY <1>2 DEF BeginTick
<1>3. CASE CreateJobErr \/ SpawnTask(FALSE) \/ Shutdown \/ AbortAll \/ Kill
  BY <1>3 DEF CreateJobErr, SpawnTask, Shutdown, AbortAll
<1>4. ASSUME NEW c \in Connectors, TaskStep(c) PROVE FALSE
  BY <1>4 DEF TaskStep, GiveUp, AcquireGlobal, AcquireDomain, MarkRunning, Fetch, SaveCheckpoint, PutObject,
              InsertRawEvidence, Succeed, PublishCollected, Complete, FailJob, CountFailure, procVars
<1>5. ASSUME NEW c \in Connectors, SourceErr(c) \/ CollectErr(c) \/ LastWriteErr(c) \/ Change(c) \/ FinishAbortedErr(c)
      PROVE  FALSE
  BY <1>5 DEF SourceErr, CollectErr, LastWriteErr, Change, FinishAbortedErr, procVars
<1>6. CASE UNCHANGED vars
  BY <1>6 DEF vars
<1> QED BY <1>1, <1>2, <1>3, <1>4, <1>5, <1>6 DEF Next

Good ==
  RowsTyped /\ StuckInv /\ (\A c \in Connectors : CleanOf(c)) /\ proc # "down" /\ inflight = {}

\* The same, of the next state too.
LEMMA GoodIsClean == Good => Clean
BY NothingRuns DEF Good

\* When a step ends a tick or the process, nothing looks running.
LEMMA EndsClean ==
  ASSUME IInv, IInv', [Next]_vars,
         proc' = "sleep" \/ (proc # "down" /\ proc' = "down" /\ stops' = stops)
  PROVE  Clean'
<1>1. CASE proc' = "sleep"
  <2>1. Good'
    BY <1>1 DEF Good, IInv, LoopInv
  <2> QED BY <2>1, GoodIsClean, PTL
<1>2. CASE proc # "down" /\ proc' = "down" /\ stops' = stops
  <2>1. Exit
    BY <1>2, ProcessEnds, StepKill
  <2>2. inflight = {} /\ UNCHANGED <<conn, job, stuck, unwritten>>
    BY <2>1 DEF Exit, IInv, LoopInv, rowVars, history
  <2>3. Clean
    BY <1>2, <2>2, NothingRuns DEF IInv
  <2> QED BY <2>2, <2>3 DEF Clean
<1> QED BY <1>1, <1>2

\* A connector or a job looks running only while the process that ran it does:
\* when a tick is over, after finish_aborted at shutdown and after the reclaim at
\* startup nothing does, unless the write that would have said so failed.
THEOREM AlwaysCleanWhenDone == Spec => CleanWhenDone
<1>1. IInv /\ IInv' /\ [Next]_vars =>
        [proc' = "sleep" \/ (proc # "down" /\ proc' = "down" /\ stops' = stops) => Clean']_vars
  BY EndsClean
<1> QED BY <1>1, Invariant, PTL DEF Spec, CleanWhenDone
==============================================================================
