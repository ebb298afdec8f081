-------------------------- MODULE DeadLetterWorker ---------------------------
(***************************************************************************)
(* The consume loop of normalizer, deduplicator and entity-worker           *)
(* (ADR-008): handle the event, on failure write a failed_events row, and   *)
(* commit the offset in either case, so that a poison message never blocks  *)
(* its partition.  An operator replays a row through                        *)
(* POST /ops/failed-events/{id}/replay (core-api/src/ops.rs).               *)
(***************************************************************************)
EXTENDS EventConsumer

VARIABLES pc,          \* control state of the loop
          cur,         \* envelope in hand
          handled,     \* messages whose handle_payload returned Ok
          failedRow,   \* failed_events, keyed by (topic, partition, offset)
          unrecorded,  \* failures put_failed_event could not write (warned)
          republished, \* rows whose envelope was published again
          replaying    \* replay requests between publish and mark_replayed

workerVars == <<pc, cur, handled>>
rowVars    == <<failedRow, unrecorded, republished, replaying>>
vars == <<high, malformed, committed, position, last, pc, cur, handled,
          failedRow, unrecorded, republished, replaying>>

PcStates == {"poll", "handle", "record", "commit", "down"}

TypeOK ==
  /\ ConsumerTypeOK
  /\ pc \in PcStates
  /\ cur \in Messages \cup {NoMessage}
  /\ handled \subseteq Messages
  /\ failedRow \in [Messages -> {"absent", "open", "replayed"}]
  /\ unrecorded \subseteq Messages
  /\ republished \subseteq Messages
  /\ replaying \subseteq Messages

Init ==
  /\ ConsumerInit
  /\ pc = "poll"
  /\ cur = NoMessage
  /\ handled = {}
  /\ failedRow = [m \in Messages |-> "absent"]
  /\ unrecorded = {}
  /\ republished = {}
  /\ replaying = {}

Produce(p, bad) ==
  /\ AppendMessage(p, bad)
  /\ UNCHANGED <<committed, position, last, workerVars, rowVars>>

Poll(p) ==
  /\ pc = "poll"
  /\ Receive(p)
  /\ cur' = Upcoming(p)
  /\ pc' = "handle"
  /\ UNCHANGED <<brokerVars, committed, handled, rowVars>>

\* Logged, the loop sleeps a second and polls again.
PollMalformed(p) ==
  /\ pc = "poll"
  /\ ReceiveMalformed(p)
  /\ UNCHANGED <<brokerVars, committed, workerVars, rowVars>>

HandleOk ==
  /\ pc = "handle"
  /\ handled' = handled \cup {cur}
  /\ pc' = "commit"
  /\ UNCHANGED <<consumerVars, cur, rowVars>>

\* Faulty variant: the failure is only logged.
HandleErrDropped ==
  /\ pc = "handle"
  /\ pc' = "commit"
  /\ UNCHANGED <<consumerVars, cur, handled, rowVars>>

HandleErr ==
  /\ pc = "handle"
  /\ pc' = "record"
  /\ UNCHANGED <<consumerVars, cur, handled, rowVars>>

\* put_failed_event: upsert on (topic, partition, offset); replayed_at is reset.
Record ==
  /\ pc = "record"
  /\ failedRow' = [failedRow EXCEPT ![cur] = "open"]
  /\ pc' = "commit"
  /\ UNCHANGED <<consumerVars, cur, handled, unrecorded, republished, replaying>>

\* The write fails (or only its answer is lost): warned, and the offset is
\* committed all the same.
RecordErr ==
  /\ pc = "record"
  /\ failedRow' \in {failedRow, [failedRow EXCEPT ![cur] = "open"]}
  /\ unrecorded' = unrecorded \cup {cur}
  /\ pc' = "commit"
  /\ UNCHANGED <<consumerVars, cur, handled, republished, replaying>>

Commit ==
  /\ pc = "commit"
  /\ CommitLast
  /\ pc' = "poll"
  /\ cur' = NoMessage
  /\ UNCHANGED <<brokerVars, position, last, handled, rowVars>>

\* commit_last fails: warned, the loop goes on with the next message.
CommitErr ==
  /\ pc = "commit"
  /\ pc' = "poll"
  /\ cur' = NoMessage
  /\ UNCHANGED <<consumerVars, handled, rowVars>>

\* SIGINT between two messages or a crash anywhere.
Stop ==
  /\ pc # "down"
  /\ pc' = "down"
  /\ cur' = NoMessage
  /\ UNCHANGED <<consumerVars, handled, rowVars>>

Start ==
  /\ pc = "down"
  /\ Resume
  /\ pc' = "poll"
  /\ UNCHANGED <<brokerVars, committed, cur, handled, rowVars>>

------------------------------------------------------------------------------
(* replay_failed_event: publish to the original topic, then mark_replayed.    *)
(* Nothing keeps two requests from replaying the same row: m stays in           *)
(* replaying when one of them ends and another is still under way.              *)

\* publish_to_topic without a key: any partition.
ReplayPublish(m, p) ==
  /\ failedRow[m] # "absent"
  /\ AppendMessage(p, FALSE)
  /\ republished' = republished \cup {m}
  /\ replaying' = replaying \cup {m}
  /\ UNCHANGED <<committed, position, last, workerVars, failedRow, unrecorded>>

ReplayMark(m) ==
  /\ m \in replaying
  /\ failedRow' = [failedRow EXCEPT ![m] = "replayed"]
  /\ replaying' \in {replaying, replaying \ {m}}
  /\ UNCHANGED <<consumerVars, workerVars, unrecorded, republished>>

\* The request ends after the publish: the row stays open for another replay.
ReplayErr(m) ==
  /\ m \in replaying
  /\ replaying' = replaying \ {m}
  /\ UNCHANGED <<consumerVars, workerVars, failedRow, unrecorded, republished>>

LoopStep ==
  \/ \E p \in Partitions : Poll(p) \/ PollMalformed(p)
  \/ HandleOk \/ HandleErr \/ Record \/ RecordErr \/ Commit \/ CommitErr \/ Start

Next ==
  \/ \E p \in Partitions, bad \in BOOLEAN : Produce(p, bad)
  \/ LoopStep
  \/ Stop
  \/ \E m \in Messages, p \in Partitions : ReplayPublish(m, p)
  \/ \E m \in Messages : ReplayMark(m) \/ ReplayErr(m)

Spec == Init /\ [][Next]_vars

\* The loop keeps running and a dead process is started again.
FairSpec == Spec /\ WF_vars(LoopStep)

------------------------------------------------------------------------------
(* Properties. *)

\* What becomes of an event: it was handled, or it has a failed_events row, or
\* writing that row failed.
Accounted(m) == m \in handled \/ failedRow[m] # "absent" \/ m \in unrecorded

\* The group never moves past a well-formed event without a trace.
NoSilentDrop == \A m \in Passed \ malformed : Accounted(m)

\* What the previous one rests on: offsets are committed for events already
\* read only, and all of those except the one in hand are accounted for.
PositionAccounted ==
  /\ \A p \in Partitions : committed[p] <= position[p]
  /\ pc # "down" =>
       \A m \in Messages \ malformed :
         m[2] < position[m[1]] /\ m # cur => Accounted(m)

\* A row counts as replayed only when its envelope is back on its topic.
ReplayedMeansRepublished ==
  \A m \in Messages : failedRow[m] = "replayed" => m \in republished

\* No message, malformed, failing or not recordable, blocks its partition: if
\* the process stops dying the consumer gets past every message.
PartitionNeverBlocked ==
  <>[](pc # "down") => \A p \in Partitions : \A o \in Offsets :
                         high[p] > o ~> position[p] > o
==============================================================================
