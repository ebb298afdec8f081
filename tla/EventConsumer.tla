---------------------------- MODULE EventConsumer ----------------------------
(***************************************************************************)
(* EventConsumer (core-events/src/kafka.rs): one consumer group reading the *)
(* partitions of its topics with manual commits.  next_envelope advances    *)
(* the in-memory position whatever it finds and remembers the coordinates  *)
(* of the last envelope it could parse; commit_last commits that one place. *)
(* Partitions, offsets and the group's committed offsets belong to the      *)
(* broker (external).  The worker modules extend this one.                  *)
(***************************************************************************)
EXTENDS Integers

CONSTANTS Partitions,  \* partitions of the subscribed topics
          MaxOffset,   \* bound: messages per partition
          NoMessage    \* `last` when nothing was parsed yet

Offsets  == 0 .. (MaxOffset - 1)
Messages == Partitions \X Offsets

ASSUME ConsumerAssumption == MaxOffset \in Nat /\ NoMessage \notin Messages

VARIABLES high,       \* end of each partition
          malformed,  \* messages serde_json cannot parse
          committed,  \* the group's committed offsets
          position,   \* next offset the consumer will read
          last        \* last: Mutex<Option<TopicPartitionList>>

brokerVars   == <<high, malformed>>
consumerVars == <<high, malformed, committed, position, last>>

ConsumerTypeOK ==
  /\ high \in [Partitions -> 0 .. MaxOffset]
  /\ malformed \subseteq Messages
  /\ committed \in [Partitions -> 0 .. MaxOffset]
  /\ position \in [Partitions -> 0 .. MaxOffset]
  /\ last \in Messages \cup {NoMessage}

ConsumerInit ==
  /\ high = [p \in Partitions |-> 0]
  /\ malformed = {}
  /\ committed = [p \in Partitions |-> 0]
  /\ position = [p \in Partitions |-> 0]
  /\ last = NoMessage

\* A producer appends a message, well-formed or not.
AppendMessage(p, bad) ==
  /\ high[p] < MaxOffset
  /\ high' = [high EXCEPT ![p] = @ + 1]
  /\ malformed' = IF bad THEN malformed \cup {<<p, high[p]>>} ELSE malformed

\* The message recv() returns from partition p.
Upcoming(p) == <<p, position[p]>>

Readable(p) == position[p] < high[p]

Advance(p) == position' = [position EXCEPT ![p] = @ + 1]

\* next_envelope returns an envelope and remember_offset notes where it was.
Receive(p) ==
  /\ Readable(p)
  /\ Upcoming(p) \notin malformed
  /\ Advance(p)
  /\ last' = Upcoming(p)

\* Faulty variant: the message that cannot be parsed is fetched again.
ReceiveMalformedAgain(p) ==
  /\ Readable(p)
  /\ Upcoming(p) \in malformed
  /\ UNCHANGED <<position, last>>

\* next_envelope fails with InvalidEnvelope: nothing is remembered.
ReceiveMalformed(p) ==
  /\ Readable(p)
  /\ Upcoming(p) \in malformed
  /\ Advance(p)
  /\ last' = last

\* commit_last: offset + 1 of the last parsed envelope, nothing before the first.
CommitLast ==
  committed' = IF last = NoMessage THEN committed
               ELSE [committed EXCEPT ![last[1]] = last[2] + 1]

\* A new process resumes from the committed offsets.
Resume ==
  /\ position' = committed
  /\ last' = NoMessage

\* Messages the group will not be given again.
Passed == {m \in Messages : m[2] < committed[m[1]]}
==============================================================================
