--------------------------- MODULE ConsumerProofs ---------------------------
(***************************************************************************)
(* Proofs about the programs that read from the event bus through           *)
(* EventConsumer, for any number of partitions and events: the pipeline     *)
(* workers (DeadLetterWorker), the indexer (BatchIndexer) and the embedding *)
(* worker (EmbeddingWorker).  What is the same in all is that an offset is  *)
(* committed for what was read before it; what differs is where the events  *)
(* are that have been read and are not committed yet, and what their        *)
(* handlers write.                                                          *)
(*                                                                         *)
(* They are separate programs.  The variables of EventConsumer stand for    *)
(* those of the program a theorem is about.                                 *)
(***************************************************************************)
EXTENDS DeadLetterWorker, BatchIndexer, EmbeddingWorker, Sequences, FiniteSetTheorems, TLAPS

------------------------------------------------------------------------------
(* DeadLetterWorker.  NoSilentDrop speaks of committed offsets only.  To   *)
(* see that Commit keeps it one has to know that commit_last commits the   *)
(* event in hand (InHand) and that everything read before it is accounted  *)
(* for (PositionAccounted).                                                *)

\* From the moment an event is read until its offset is committed, it is the
\* one `last` remembers, and it is accounted for before the commit.
InHand ==
  /\ pc \in {"handle", "record", "commit"} =>
       /\ cur \in Messages
       /\ last = cur
       /\ cur[2] < position[cur[1]]
  /\ pc = "commit" => Accounted(cur)
  /\ pc \in {"poll", "down"} => cur = NoMessage

\* The inductive invariant.
IInv ==
  /\ TypeOK
  /\ NoSilentDrop
  /\ PositionAccounted
  /\ InHand
  /\ ReplayedMeansRepublished
  /\ replaying \subseteq republished

USE ConsumerAssumption

\* A message is a pair of a partition and an offset.
LEMMA MessagePairs ==
  ASSUME NEW m \in Messages
  PROVE  m[1] \in Partitions /\ m[2] \in 0 .. (MaxOffset - 1) /\ m[2] \in Int
BY DEF Messages, Offsets

\* The next message of a partition with unread messages is a message.
LEMMA UpcomingMessage ==
  ASSUME ConsumerTypeOK, NEW p \in Partitions, Readable(p)
  PROVE  /\ Upcoming(p) \in Messages
         /\ Upcoming(p)[1] = p
         /\ Upcoming(p)[2] = position[p]
         /\ position[p] + 1 \in 0 .. MaxOffset
BY DEF ConsumerTypeOK, Readable, Upcoming, Messages, Offsets

\* Initially nothing was read.
LEMMA InitInv == Init => IInv
BY DEF Init, ConsumerInit, IInv, TypeOK, ConsumerTypeOK, NoSilentDrop, Passed, PositionAccounted,
       InHand, ReplayedMeansRepublished, PcStates, Messages, Offsets

\* Appending to a partition leaves everything that was read alone.
LEMMA AppendInv ==
  ASSUME IInv, NEW p \in Partitions, NEW bad \in BOOLEAN, AppendMessage(p, bad),
         UNCHANGED <<committed, position, last, pc, cur, handled, failedRow, unrecorded>>
  PROVE  ConsumerTypeOK' /\ NoSilentDrop' /\ PositionAccounted' /\ InHand'
<1>1. ConsumerTypeOK'
  <2>1. <<p, high[p]>> \in Messages
    BY DEF IInv, TypeOK, ConsumerTypeOK, AppendMessage, Messages, Offsets
  <2> QED BY <2>1 DEF IInv, TypeOK, ConsumerTypeOK, AppendMessage
<1>2. malformed \subseteq malformed'
  BY DEF AppendMessage
<1>3. NoSilentDrop'
  BY <1>2 DEF IInv, NoSilentDrop, Passed, Accounted
<1>4. PositionAccounted'
  BY <1>2 DEF IInv, PositionAccounted, Accounted
<1>5. InHand'
  BY DEF IInv, InHand, Accounted
<1> QED BY <1>1, <1>3, <1>4, <1>5

\* Accounting only grows, so a step that moves no offset keeps what the
\* committed offsets and the position say.
LEMMA OffsetsKept ==
  ASSUME IInv, UNCHANGED consumerVars, pc # "down" \/ pc' = "down",
         \A m \in Messages : Accounted(m) => Accounted(m)',
         cur' = cur \/ pc' = "down" \/ (pc = "commit" /\ cur' = NoMessage)
  PROVE  ConsumerTypeOK' /\ NoSilentDrop' /\ PositionAccounted'
<1> USE DEF consumerVars
<1>1. ConsumerTypeOK'
  BY DEF IInv, TypeOK, ConsumerTypeOK
<1>2. NoSilentDrop'
  BY DEF IInv, NoSilentDrop, Passed
<1>3. PositionAccounted'
  <2>1. \A q \in Partitions : committed'[q] <= position'[q]
    BY DEF IInv, PositionAccounted
  <2>2. ASSUME pc' # "down", NEW m \in Messages \ malformed',
               m[2] < position'[m[1]], m # cur'
        PROVE  Accounted(m)'
    <3>1. CASE m # cur
      BY <2>2, <3>1 DEF IInv, PositionAccounted
    <3>2. CASE m = cur
      BY <2>2, <3>2 DEF IInv, InHand
    <3> QED BY <3>1, <3>2
  <2> QED BY <2>1, <2>2 DEF PositionAccounted
<1> QED BY <1>1, <1>2, <1>3

\* Every step keeps the invariant.
LEMMA NextInv == IInv /\ [Next]_vars => IInv'
<1> SUFFICES ASSUME IInv, [Next]_vars PROVE IInv'
  OBVIOUS
<1>1. ASSUME NEW p \in Partitions, NEW bad \in BOOLEAN, Produce(p, bad) PROVE IInv'
  BY <1>1, AppendInv DEF Produce, workerVars, rowVars, IInv, TypeOK, ReplayedMeansRepublished
<1>2. ASSUME NEW p \in Partitions, Poll(p) PROVE IInv'
  <2> USE <1>2 DEF Poll, Receive, Advance
  <2>1. /\ Upcoming(p) \in Messages /\ Upcoming(p)[1] = p /\ Upcoming(p)[2] = position[p]
        /\ position[p] \in Int /\ position[p] + 1 \in 0 .. MaxOffset
    BY UpcomingMessage DEF IInv, TypeOK, ConsumerTypeOK
  <2>2. TypeOK'
    BY <2>1 DEF IInv, TypeOK, ConsumerTypeOK, brokerVars, rowVars, PcStates
  <2>3. NoSilentDrop'
    BY DEF IInv, NoSilentDrop, Passed, Accounted, brokerVars, rowVars
  <2>4. \A q \in Partitions : committed'[q] <= position'[q]
    BY <2>1 DEF IInv, PositionAccounted, TypeOK, ConsumerTypeOK
  <2>5. ASSUME NEW m \in Messages \ malformed', m[2] < position'[m[1]], m # cur'
        PROVE  Accounted(m)'
    <3>1. m[2] < position[m[1]]
      <4>1. m = <<m[1], m[2]>> /\ m[1] \in Partitions /\ m[2] \in Int
        BY DEF Messages, Offsets
      <4>2. CASE m[1] # p
        BY <2>5, <4>1, <4>2 DEF IInv, TypeOK, ConsumerTypeOK
      <4>3. CASE m[1] = p
        <5>1. m[2] < position[p] + 1
          BY <2>5, <4>3 DEF IInv, TypeOK, ConsumerTypeOK
        <5>2. m[2] # position[p]
          BY <2>5, <4>1, <4>3 DEF Upcoming
        <5> QED BY <5>1, <5>2, <4>1, <4>3, <2>1
      <4> QED BY <4>2, <4>3
    <3>2. m # NoMessage
      BY DEF Messages
    <3> QED BY <2>5, <3>1, <3>2 DEF IInv, PositionAccounted, InHand, Accounted, brokerVars, rowVars
  <2>6. InHand'
    BY <2>1 DEF InHand, IInv, TypeOK, ConsumerTypeOK
  <2> QED BY <2>2, <2>3, <2>4, <2>5, <2>6
          DEF IInv, PositionAccounted, ReplayedMeansRepublished, rowVars
<1>3. ASSUME NEW p \in Partitions, PollMalformed(p) PROVE IInv'
  <2> USE <1>3 DEF PollMalformed, ReceiveMalformed, Advance
  <2>1. /\ Upcoming(p) \in Messages /\ Upcoming(p)[1] = p /\ Upcoming(p)[2] = position[p]
        /\ position[p] \in Int /\ position[p] + 1 \in 0 .. MaxOffset
    BY UpcomingMessage DEF IInv, TypeOK, ConsumerTypeOK
  <2>2. TypeOK'
    BY <2>1 DEF IInv, TypeOK, ConsumerTypeOK, brokerVars, workerVars, rowVars
  <2>3. NoSilentDrop'
    BY DEF IInv, NoSilentDrop, Passed, Accounted, brokerVars, workerVars, rowVars
  <2>4. \A q \in Partitions : committed'[q] <= position'[q]
    BY <2>1 DEF IInv, PositionAccounted, TypeOK, ConsumerTypeOK
  <2>5. ASSUME NEW m \in Messages \ malformed', m[2] < position'[m[1]], m # cur'
        PROVE  Accounted(m)'
    <3>1. m[2] < position[m[1]]
      <4>1. m = <<m[1], m[2]>> /\ m[1] \in Partitions /\ m[2] \in Int
        BY DEF Messages, Offsets
      <4>2. CASE m[1] # p
        BY <2>5, <4>1, <4>2 DEF IInv, TypeOK, ConsumerTypeOK
      <4>3. CASE m[1] = p
        <5>1. m[2] < position[p] + 1
          BY <2>5, <4>3 DEF IInv, TypeOK, ConsumerTypeOK
        <5>2. m[2] # position[p]
          BY <2>5, <4>1, <4>3 DEF Upcoming, brokerVars
        <5> QED BY <5>1, <5>2, <4>1, <4>3, <2>1
      <4> QED BY <4>2, <4>3
    <3> QED BY <2>5, <3>1 DEF IInv, PositionAccounted, Accounted, brokerVars, workerVars, rowVars
  <2>6. InHand'
    BY DEF InHand, IInv, workerVars
  <2> QED BY <2>2, <2>3, <2>4, <2>5, <2>6
          DEF IInv, PositionAccounted, ReplayedMeansRepublished, rowVars, workerVars
<1>4. ASSUME HandleOk PROVE IInv'
  <2> USE <1>4 DEF HandleOk, rowVars
  <2>1. \A m \in Messages : Accounted(m) => Accounted(m)'
    BY DEF Accounted
  <2>2. InHand'
    BY DEF IInv, InHand, Accounted, consumerVars
  <2> QED BY <2>1, <2>2, OffsetsKept
          DEF IInv, TypeOK, PcStates, InHand, ReplayedMeansRepublished
<1>5. ASSUME HandleErr PROVE IInv'
  <2> USE <1>5 DEF HandleErr, rowVars
  <2>1. \A m \in Messages : Accounted(m) => Accounted(m)'
    BY DEF Accounted
  <2>2. InHand'
    BY DEF IInv, InHand, consumerVars
  <2> QED BY <2>1, <2>2, OffsetsKept DEF IInv, TypeOK, PcStates, ReplayedMeansRepublished
<1>6. ASSUME Record PROVE IInv'
  <2> USE <1>6 DEF Record
  <2>0. cur \in Messages /\ failedRow \in [Messages -> {"absent", "open", "replayed"}]
    BY DEF IInv, InHand, TypeOK
  <2>1. \A m \in Messages : Accounted(m) => Accounted(m)'
    BY <2>0 DEF Accounted
  <2>2. InHand'
    BY <2>0 DEF IInv, InHand, Accounted, consumerVars
  <2>3. ReplayedMeansRepublished'
    BY <2>0 DEF IInv, ReplayedMeansRepublished
  <2> QED BY <2>0, <2>1, <2>2, <2>3, OffsetsKept DEF IInv, TypeOK, PcStates
<1>7. ASSUME RecordErr PROVE IInv'
  <2> USE <1>7 DEF RecordErr
  <2>0. cur \in Messages /\ failedRow \in [Messages -> {"absent", "open", "replayed"}]
    BY DEF IInv, InHand, TypeOK
  <2>1. \A m \in Messages : Accounted(m) => Accounted(m)'
    BY <2>0 DEF Accounted
  <2>2. InHand'
    BY <2>0 DEF IInv, InHand, Accounted, consumerVars
  <2>3. ReplayedMeansRepublished'
    BY <2>0 DEF IInv, ReplayedMeansRepublished
  <2> QED BY <2>0, <2>1, <2>2, <2>3, OffsetsKept DEF IInv, TypeOK, PcStates
<1>8. ASSUME Commit PROVE IInv'
  <2> USE <1>8 DEF Commit, CommitLast, brokerVars, rowVars
  <2>1. /\ cur \in Messages /\ last = cur /\ cur[2] < position[cur[1]] /\ Accounted(cur)
        /\ cur # NoMessage /\ cur[1] \in Partitions /\ cur[2] \in 0 .. (MaxOffset - 1)
    BY MessagePairs DEF IInv, InHand
  <2>2. committed' = [committed EXCEPT ![cur[1]] = cur[2] + 1]
    BY <2>1
  <2>3. TypeOK'
    BY <2>1, <2>2 DEF IInv, TypeOK, ConsumerTypeOK, PcStates
  <2>4. \A m \in Messages : Accounted(m) => Accounted(m)'
    BY DEF Accounted
  <2>5. NoSilentDrop'
    <3> SUFFICES ASSUME NEW m \in Messages \ malformed, m[2] < committed'[m[1]]
                 PROVE  Accounted(m)
      BY <2>4 DEF NoSilentDrop, Passed
    <3>1. m[1] \in Partitions /\ m[2] \in Int
      BY MessagePairs
    <3>2. CASE m[1] # cur[1]
      <4>1. m[2] < committed[m[1]]
        BY <3>1, <3>2, <2>2 DEF IInv, TypeOK, ConsumerTypeOK
      <4> QED BY <4>1 DEF IInv, NoSilentDrop, Passed
    <3>3. CASE m[1] = cur[1]
      <4>1. m[2] < position[m[1]]
        BY <3>1, <3>3, <2>1, <2>2 DEF IInv, TypeOK, ConsumerTypeOK
      <4> QED BY <4>1, <2>1 DEF IInv, PositionAccounted
    <3> QED BY <3>2, <3>3
  <2>6. PositionAccounted'
    <3>1. \A q \in Partitions : committed'[q] <= position'[q]
      BY <2>1, <2>2 DEF IInv, PositionAccounted, TypeOK, ConsumerTypeOK
    <3>2. \A m \in Messages \ malformed' : m[2] < position'[m[1]] => Accounted(m)'
      BY <2>1, <2>4 DEF IInv, PositionAccounted
    <3> QED BY <3>1, <3>2 DEF PositionAccounted
  <2>7. InHand'
    BY DEF InHand
  <2> QED BY <2>3, <2>5, <2>6, <2>7 DEF IInv, ReplayedMeansRepublished
<1>9. ASSUME CommitErr PROVE IInv'
  <2> USE <1>9 DEF CommitErr, rowVars
  <2>1. \A m \in Messages : Accounted(m) => Accounted(m)'
    BY DEF Accounted
  <2>2. InHand'
    BY DEF InHand
  <2> QED BY <2>1, <2>2, OffsetsKept DEF IInv, TypeOK, PcStates, ReplayedMeansRepublished
<1>10. ASSUME Stop PROVE IInv'
  <2> USE <1>10 DEF Stop, rowVars
  <2>1. \A m \in Messages : Accounted(m) => Accounted(m)'
    BY DEF Accounted
  <2>2. InHand'
    BY DEF InHand
  <2> QED BY <2>1, <2>2, OffsetsKept DEF IInv, TypeOK, PcStates, ReplayedMeansRepublished
<1>11. ASSUME Start PROVE IInv'
  <2> USE <1>11 DEF Start, Resume, brokerVars, rowVars
  <2>1. TypeOK'
    BY DEF IInv, TypeOK, ConsumerTypeOK, PcStates
  <2>2. NoSilentDrop'
    BY DEF IInv, NoSilentDrop, Passed, Accounted
  <2>3. PositionAccounted'
    <3>1. \A q \in Partitions : committed'[q] <= position'[q]
      BY DEF IInv, TypeOK, ConsumerTypeOK
    <3>2. \A m \in Messages \ malformed' : m[2] < position'[m[1]] => Accounted(m)'
      BY DEF IInv, NoSilentDrop, Passed, Accounted
    <3> QED BY <3>1, <3>2 DEF PositionAccounted
  <2>4. InHand'
    BY DEF IInv, InHand
  <2> QED BY <2>1, <2>2, <2>3, <2>4 DEF IInv, ReplayedMeansRepublished
<1>12. ASSUME NEW m \in Messages, NEW p \in Partitions, ReplayPublish(m, p) PROVE IInv'
  BY <1>12, AppendInv DEF ReplayPublish, workerVars, IInv, TypeOK, ReplayedMeansRepublished
<1>13. ASSUME NEW m \in Messages, ReplayMark(m) PROVE IInv'
  <2> USE <1>13 DEF ReplayMark, consumerVars, workerVars
  <2>1. \A n \in Messages : Accounted(n) => Accounted(n)'
    BY DEF Accounted, IInv, TypeOK
  <2>2. TypeOK'
    BY DEF IInv, TypeOK, ConsumerTypeOK
  <2>3. NoSilentDrop'
    BY <2>1 DEF IInv, NoSilentDrop, Passed
  <2>4. PositionAccounted'
    BY <2>1 DEF IInv, PositionAccounted
  <2>5. InHand'
    BY <2>1 DEF IInv, InHand
  <2>6. ReplayedMeansRepublished' /\ replaying' \subseteq republished'
    BY DEF IInv, ReplayedMeansRepublished, TypeOK
  <2> QED BY <2>2, <2>3, <2>4, <2>5, <2>6 DEF IInv
<1>14. ASSUME NEW m \in Messages, ReplayErr(m) PROVE IInv'
  BY <1>14 DEF ReplayErr, consumerVars, workerVars, IInv, TypeOK, ConsumerTypeOK, NoSilentDrop,
       Passed, PositionAccounted, Accounted, InHand, ReplayedMeansRepublished
<1>15. CASE UNCHANGED vars
  BY <1>15 DEF vars, IInv, TypeOK, ConsumerTypeOK, NoSilentDrop, Passed, PositionAccounted,
       Accounted, InHand, ReplayedMeansRepublished
<1> QED BY <1>1, <1>2, <1>3, <1>4, <1>5, <1>6, <1>7, <1>8, <1>9, <1>10, <1>11, <1>12,
           <1>13, <1>14, <1>15 DEF Next, LoopStep

\* The invariant holds in every state of every behaviour.
THEOREM Invariance == Spec => []IInv
BY InitInv, NextInv, PTL DEF Spec

\* Offsets, messages and rows keep their types.
THEOREM TypeCorrect == Spec => []TypeOK
<1>1. IInv => TypeOK
  BY DEF IInv
<1> QED BY <1>1, Invariance, PTL

\* Whatever fails and whenever the worker dies, no well-formed event is passed
\* over without having been handled or recorded, or a warning that it was not.
THEOREM EventsAreAccountedFor == Spec => []NoSilentDrop
<1>1. IInv => NoSilentDrop
  BY DEF IInv
<1> QED BY <1>1, Invariance, PTL

\* A failed event is shown as replayed only after it was published again.
THEOREM ReplaysArePublished == Spec => []ReplayedMeansRepublished
<1>1. IInv => ReplayedMeansRepublished
  BY DEF IInv
<1> QED BY <1>1, Invariance, PTL

------------------------------------------------------------------------------
(* BatchIndexer.  Committed offsets cover the events of a flush that went   *)
(* through.  That nothing the group has passed is still in memory rests on  *)
(* where the events are that were read: settled, logged, in the batch or    *)
(* in the flush under way (ReadAndKept), and on there being no batch while  *)
(* a flush is under way, so that its commit passes nothing else (OneFlush). *)

\* What the index or the log shows of an event.
Shown == settled \cup skipped \cup rejected \cup dropped

\* Offsets are committed of events that were read only.
CommittedIsRead ==
  /\ \A p \in Partitions : committed[p] <= position[p]
  /\ last # NoMessage => last[2] < position[last[1]]

\* Every event read by this process is shown, or waits for a flush or in one.
ReadAndKept ==
  stage # "down" =>
    \A m \in Messages : m[2] < position[m[1]] => m \in Shown \cup batch \cup flushing

\* The phases of the loop.
OneFlush ==
  /\ stage \in {"poll", "down"} => flushing = {}
  /\ stage # "poll" => batch = {}
  /\ stage = "finish" => pending = {}
  /\ stage = "flush" => attempt <= BulkMaxRetries
  /\ flushing \ pending \subseteq settled \cup rejected

\* The sets of events are finite, so that their size is what it should be.
Countable == IsFiniteSet(batch) /\ IsFiniteSet(flushing)

PassedIsShown ==
  /\ Passed \cap (batch \cup flushing) = {}
  /\ Passed \subseteq Shown

\* The inductive invariant of the indexer.
IndexerInv ==
  /\ IndexerTypeOK
  /\ CommittedIsRead
  /\ ReadAndKept
  /\ OneFlush
  /\ Countable
  /\ PassedIsShown

LEMMA IndexerMessages ==
  /\ \A m \in Messages : m[1] \in Partitions /\ m[2] \in 0 .. (MaxOffset - 1) /\ m[2] \in Int
                                 /\ m = <<m[1], m[2]>>
  /\ NoMessage \notin Messages
BY DEF Messages, Offsets

\* The consumer's part of the state.
LEMMA IndexerConsumerType ==
  ASSUME ConsumerTypeOK
  PROVE  /\ high \in [Partitions -> 0 .. MaxOffset]
         /\ committed \in [Partitions -> 0 .. MaxOffset]
         /\ position \in [Partitions -> 0 .. MaxOffset]
         /\ \A p \in Partitions : committed[p] \in Int /\ position[p] \in Int /\ high[p] \in Int
         /\ malformed \subseteq Messages
         /\ last \in Messages \cup {NoMessage}
BY DEF ConsumerTypeOK

\* The loop begins with nothing read.
LEMMA IndexerStarts ==
  ASSUME IndexerInit
  PROVE  IndexerInv
<1>a. BatchSize \in Nat \ {0} /\ BulkMaxRetries \in Nat
  BY IndexerAssumption
<1>1. stage = "poll" /\ batch = {} /\ pending = {} /\ flushing = {} /\ attempt = 0
  BY DEF IndexerInit
<1>2. closing = FALSE /\ settled = {} /\ skipped = {} /\ rejected = {} /\ dropped = {}
  BY DEF IndexerInit
<1>3. /\ ConsumerTypeOK
      /\ position = [p \in Partitions |-> 0] /\ committed = [p \in Partitions |-> 0]
      /\ last = NoMessage
  BY DEF IndexerInit, ConsumerInit, ConsumerTypeOK
<1>4. Cardinality(batch) < BatchSize /\ Cardinality(flushing) <= BatchSize
  <2>1. Cardinality({}) = 0
    BY FS_EmptySet
  <2> QED BY <1>a, <1>1, <2>1
<1>5. IndexerTypeOK
  <2>1. attempt \in 0 .. BulkMaxRetries + 1
    BY <1>a, <1>1
  <2> QED BY <1>1, <1>2, <1>3, <1>4, <2>1 DEF IndexerTypeOK
<1>6. CommittedIsRead /\ ReadAndKept /\ PassedIsShown
  <2>1. \A m \in Messages : ~(m[2] < 0)
    BY IndexerMessages
  <2>2. Passed = {}
    BY <1>3, <2>1, IndexerMessages DEF Passed
  <2> QED BY <1>1, <1>3, <2>1, <2>2, IndexerMessages
          DEF CommittedIsRead, ReadAndKept, PassedIsShown
<1>7. OneFlush
  BY <1>a, <1>1 DEF OneFlush
<1>8. Countable
  BY <1>1, FS_EmptySet DEF Countable
<1> QED BY <1>5, <1>6, <1>7, <1>8 DEF IndexerInv

\* Reading an event moves the position by one: what was read before, or that event.
LEMMA IndexerReceives ==
  ASSUME IndexerInv, NEW p \in Partitions, Receive(p), UNCHANGED <<high, malformed, committed>>
  PROVE  /\ Upcoming(p) \in Messages
         /\ Upcoming(p) \notin Passed
         /\ ConsumerTypeOK' /\ CommittedIsRead' /\ Passed' = Passed
         /\ \A m \in Messages :
              m[2] < position'[m[1]] => m[2] < position[m[1]] \/ m = Upcoming(p)
<1> DEFINE u == Upcoming(p)
<1>1. /\ high \in [Partitions -> 0 .. MaxOffset]
      /\ committed \in [Partitions -> 0 .. MaxOffset]
      /\ position \in [Partitions -> 0 .. MaxOffset]
      /\ \A q \in Partitions : committed[q] \in Int /\ position[q] \in Int /\ high[q] \in Int
      /\ malformed \subseteq Messages
  BY IndexerConsumerType DEF IndexerInv, IndexerTypeOK
<1>2. /\ position[p] < high[p] /\ position' = [position EXCEPT ![p] = @ + 1] /\ last' = u
      /\ u = <<p, position[p]>>
  BY DEF Receive, Readable, Advance, Upcoming
<1>3. position[p] \in 0 .. (MaxOffset - 1) /\ position[p] + 1 \in 0 .. MaxOffset
  BY <1>1, <1>2
<1>4. u \in Messages
  BY <1>2, <1>3 DEF Messages, Offsets
<1>5. position' \in [Partitions -> 0 .. MaxOffset]
  BY <1>1, <1>2, <1>3
<1>6. ConsumerTypeOK'
  <2>1. ConsumerTypeOK' <=>
          /\ high' \in [Partitions -> 0 .. MaxOffset]
          /\ malformed' \subseteq Messages
          /\ committed' \in [Partitions -> 0 .. MaxOffset]
          /\ position' \in [Partitions -> 0 .. MaxOffset]
          /\ last' \in Messages \cup {NoMessage}
    BY DEF ConsumerTypeOK, Messages, Offsets
  <2> QED BY <1>1, <1>2, <1>4, <1>5, <2>1
<1>7. \A q \in Partitions : committed[q] <= position[q]
  BY DEF IndexerInv, CommittedIsRead
<1>8. \A q \in Partitions : position'[q] = IF q = p THEN position[p] + 1 ELSE position[q]
  BY <1>1, <1>2
<1>9. CommittedIsRead'
  <2>1. \A q \in Partitions : committed'[q] <= position'[q]
    BY <1>1, <1>7, <1>8
  <2>2. last'[2] < position'[last'[1]]
    BY <1>1, <1>2, <1>8
  <2> QED BY <2>1, <2>2 DEF CommittedIsRead
<1>10. u \notin Passed
  BY <1>1, <1>2, <1>7 DEF Passed
<1>11. Passed' = Passed
  BY DEF Passed, Messages, Offsets
<1>12. ASSUME NEW m \in Messages, m[2] < position'[m[1]]
       PROVE  m[2] < position[m[1]] \/ m = u
  <2>1. m[1] \in Partitions /\ m[2] \in Int /\ m = <<m[1], m[2]>>
    BY IndexerMessages
  <2>2. CASE m[1] # p
    BY <1>8, <1>12, <2>1, <2>2
  <2>3. CASE m[1] = p
    <3>1. m[2] < position[p] + 1
      BY <1>8, <1>12, <2>1, <2>3
    <3>2. m[2] < position[p] \/ m[2] = position[p]
      BY <1>1, <2>1, <3>1
    <3> QED BY <1>2, <2>1, <2>3, <3>2
  <2> QED BY <2>2, <2>3
<1> QED BY <1>4, <1>6, <1>9, <1>10, <1>11, <1>12

\* One more event makes a batch one larger, at most.
LEMMA IndexerBatchGrows ==
  ASSUME NEW S, IsFiniteSet(S), NEW e
  PROVE  /\ IsFiniteSet(S \cup {e})
         /\ Cardinality(S) \in Nat
         /\ Cardinality(S \cup {e}) \in Nat
         /\ Cardinality(S \cup {e}) <= Cardinality(S) + 1
<1>1. IsFiniteSet(S \cup {e}) /\ Cardinality(S) \in Nat
  BY FS_AddElement, FS_CardinalityType
<1>2. Cardinality(S \cup {e}) = IF e \in S THEN Cardinality(S) ELSE Cardinality(S) + 1
  BY FS_AddElement
<1>3. Cardinality(S \cup {e}) \in Nat /\ Cardinality(S \cup {e}) <= Cardinality(S) + 1
  BY <1>1, <1>2
<1> QED BY <1>1, <1>3

\* What a turn of the loop does with the documents in hand after an event: they wait,
\* or they are the flush, and there is no other place where they could be.
LEMMA IndexerAfterEvent ==
  ASSUME IndexerInv, stage = "poll",
         NEW e \in Messages, NEW documents, documents \in {batch, batch \cup {e}},
         NEW timedOut \in BOOLEAN, AfterEvent(documents, timedOut)
  PROVE  /\ batch' \cup flushing' = documents
         /\ batch' \subseteq Messages /\ flushing' \subseteq Messages
         /\ Cardinality(batch') < BatchSize /\ Cardinality(flushing') <= BatchSize
         /\ IsFiniteSet(batch') /\ IsFiniteSet(flushing')
         /\ pending' = flushing' /\ attempt' \in 0 .. BulkMaxRetries + 1 /\ closing' \in BOOLEAN
         /\ \/ stage' = "poll" /\ flushing' = {}
            \/ stage' = "flush" /\ batch' = {} /\ attempt' = 0
<1>a. BatchSize \in Nat \ {0} /\ BulkMaxRetries \in Nat
  BY IndexerAssumption
<1>1. /\ flushing = {} /\ pending = {} /\ IsFiniteSet(batch) /\ batch \subseteq Messages
      /\ Cardinality(batch) < BatchSize
      /\ attempt \in 0 .. BulkMaxRetries + 1 /\ closing \in BOOLEAN
  BY DEF IndexerInv, OneFlush, Countable, IndexerTypeOK
<1>2. /\ IsFiniteSet(documents) /\ documents \subseteq Messages
      /\ Cardinality(documents) \in Nat /\ Cardinality(documents) <= BatchSize
  <2>1. /\ IsFiniteSet(batch \cup {e}) /\ Cardinality(batch) \in Nat
        /\ Cardinality(batch \cup {e}) \in Nat
        /\ Cardinality(batch \cup {e}) <= Cardinality(batch) + 1
    BY <1>1, IndexerBatchGrows
  <2> QED BY <1>1, <1>a, <2>1
<1>3. IsFiniteSet({}) /\ Cardinality({}) = 0
  BY FS_EmptySet
<1>4. CASE /\ documents # {} /\ (Cardinality(documents) >= BatchSize \/ timedOut)
           /\ BeginFlush(documents, FALSE)
  <2>1. /\ stage' = "flush" /\ flushing' = documents /\ pending' = documents
        /\ batch' = {} /\ attempt' = 0 /\ closing' = FALSE
    BY <1>4 DEF BeginFlush
  <2>2. Cardinality(batch') < BatchSize /\ attempt' \in 0 .. BulkMaxRetries + 1
    BY <1>a, <1>3, <2>1
  <2> QED BY <1>2, <1>3, <2>1, <2>2
<1>5. CASE /\ documents = {} \/ ~(Cardinality(documents) >= BatchSize)
           /\ batch' = documents
           /\ UNCHANGED <<stage, pending, flushing, attempt, closing>>
  <2>1. Cardinality(documents) < BatchSize
    BY <1>a, <1>2, <1>3, <1>5
  <2>2. flushing' = {} /\ pending' = {} /\ stage' = "poll" /\ attempt' = attempt /\ closing' = closing
    BY <1>1, <1>5
  <2>3. Cardinality(batch') < BatchSize /\ Cardinality(flushing') <= BatchSize
    BY <1>a, <1>3, <1>5, <2>1, <2>2
  <2> QED BY <1>1, <1>2, <1>3, <1>5, <2>2, <2>3
<1> QED BY <1>4, <1>5 DEF AfterEvent

\* The event read goes into the batch or is shown.
LEMMA IndexerTurn ==
  ASSUME IndexerInv, stage = "poll",
         NEW p \in Partitions, NEW timedOut \in BOOLEAN,
         ReceiveReady(p, timedOut) \/ ReceiveNothing(p, timedOut)
           \/ ReceiveSkip(p, timedOut)
  PROVE  IndexerInv'
<1>u. PICK u : u = Upcoming(p)
  OBVIOUS
<1>1. /\ Receive(p) /\ UNCHANGED <<high, malformed, committed>>
      /\ settled \subseteq settled' /\ settled' \subseteq settled \cup {u}
      /\ skipped \subseteq skipped' /\ skipped' \subseteq skipped \cup {u}
      /\ rejected' = rejected /\ dropped' = dropped
  BY <1>u DEF ReceiveReady, ReceiveNothing, ReceiveSkip,
              brokerVars, resultVars
<1>2. PICK documents \in {batch, batch \cup {u}} :
        AfterEvent(documents, timedOut) /\ u \in documents \cup settled' \cup skipped'
  <2>1. CASE ReceiveReady(p, timedOut)
    <3>1. AfterEvent(batch \cup {u}, timedOut)
      BY <1>u, <2>1 DEF ReceiveReady
    <3> QED BY <3>1
  <2>2. CASE ReceiveNothing(p, timedOut) \/ ReceiveSkip(p, timedOut)
    <3>1. AfterEvent(batch, timedOut)
      BY <2>2 DEF ReceiveNothing, ReceiveSkip
    <3>2. u \in settled' \cup skipped'
      BY <1>u, <2>2 DEF ReceiveNothing, ReceiveSkip
    <3> QED BY <3>1, <3>2
  <2> QED BY <2>1, <2>2
<1>3. /\ u \in Messages /\ u \notin Passed
      /\ ConsumerTypeOK' /\ CommittedIsRead' /\ Passed' = Passed
      /\ \A m \in Messages : m[2] < position'[m[1]] => m[2] < position[m[1]] \/ m = u
  BY <1>u, <1>1, IndexerReceives
<1>4. /\ batch' \cup flushing' = documents
      /\ batch' \subseteq Messages /\ flushing' \subseteq Messages
      /\ Cardinality(batch') < BatchSize /\ Cardinality(flushing') <= BatchSize
      /\ IsFiniteSet(batch') /\ IsFiniteSet(flushing')
      /\ pending' = flushing' /\ attempt' \in 0 .. BulkMaxRetries + 1 /\ closing' \in BOOLEAN
      /\ \/ stage' = "poll" /\ flushing' = {}
         \/ stage' = "flush" /\ batch' = {} /\ attempt' = 0
  BY <1>2, <1>3, IndexerAfterEvent
<1>5. /\ settled \subseteq Messages /\ skipped \subseteq Messages
      /\ rejected \subseteq Messages /\ dropped \subseteq Messages
      /\ flushing = {}
  BY DEF IndexerInv, IndexerTypeOK, OneFlush
<1>6. Shown \subseteq Shown' /\ u \in Shown' \cup documents
  BY <1>1, <1>2 DEF Shown
<1>7. IndexerTypeOK'
  <2>1. Cardinality(batch)' = Cardinality(batch')
        /\ Cardinality(flushing)' = Cardinality(flushing')
        /\ Messages' = Messages
    BY DEF Messages, Offsets
  <2>2. /\ settled' \subseteq Messages /\ skipped' \subseteq Messages
        /\ rejected' \subseteq Messages /\ dropped' \subseteq Messages
    BY <1>1, <1>3, <1>5
  <2> QED BY <1>3, <1>4, <2>1, <2>2 DEF IndexerTypeOK
<1>8. ReadAndKept'
  <2> SUFFICES ASSUME NEW m \in Messages, m[2] < position'[m[1]]
               PROVE  m \in Shown' \cup documents
    BY <1>4 DEF ReadAndKept, Messages, Offsets
  <2>1. m[2] < position[m[1]] => m \in Shown \cup batch
    BY <1>5 DEF IndexerInv, ReadAndKept
  <2> QED BY <1>2, <1>3, <1>6, <2>1
<1>9. OneFlush' /\ Countable'
  <2>1. OneFlush'
    BY <1>4, IndexerAssumption DEF OneFlush
  <2> QED BY <1>4, <2>1 DEF Countable
<1>10. PassedIsShown'
  <2>1. Passed \cap batch = {} /\ Passed \subseteq Shown
    BY DEF IndexerInv, PassedIsShown
  <2> QED BY <1>2, <1>3, <1>4, <1>6, <2>1 DEF PassedIsShown
<1> QED BY <1>3, <1>7, <1>8, <1>9, <1>10 DEF IndexerInv

\* A step that reads nothing and commits nothing moves events between the batch, the
\* flush and what is shown, or loses those in memory with the process.
LEMMA IndexerMoves ==
  ASSUME IndexerInv,
         UNCHANGED <<high, malformed, committed, position, last>>,
         settled \subseteq settled', settled' \subseteq settled \cup flushing,
         rejected \subseteq rejected', rejected' \subseteq rejected \cup flushing,
         dropped \subseteq dropped', dropped' \subseteq dropped \cup flushing,
         skipped' = skipped,
         batch' \in {batch, {}}, flushing' \in {batch, flushing, {}},
         stage' # "down" =>
           stage # "down" /\ batch \cup flushing \subseteq batch' \cup flushing' \cup Shown',
         stage' \in {"poll", "flush", "finish", "down"}, pending' \subseteq flushing',
         attempt' \in 0 .. BulkMaxRetries + 1, closing' \in BOOLEAN, OneFlush'
  PROVE  IndexerInv'
<1>a. BatchSize \in Nat \ {0}
  BY IndexerAssumption
<1>1. /\ ConsumerTypeOK /\ batch \subseteq Messages /\ flushing \subseteq Messages
      /\ Cardinality(batch) < BatchSize /\ Cardinality(flushing) <= BatchSize
      /\ settled \subseteq Messages /\ skipped \subseteq Messages
      /\ rejected \subseteq Messages /\ dropped \subseteq Messages
      /\ IsFiniteSet(batch) /\ IsFiniteSet(flushing)
  BY DEF IndexerInv, IndexerTypeOK, Countable
<1>2. Cardinality({}) = 0 /\ IsFiniteSet({}) /\ Cardinality(batch) \in Nat
  BY <1>1, FS_EmptySet, FS_CardinalityType
<1>3. ConsumerTypeOK' /\ CommittedIsRead'
  <2>1. ConsumerTypeOK'
    BY <1>1 DEF ConsumerTypeOK, Messages, Offsets
  <2>2. CommittedIsRead'
    BY DEF IndexerInv, CommittedIsRead
  <2> QED BY <2>1, <2>2
<1>4. /\ Cardinality(batch') < BatchSize /\ IsFiniteSet(batch')
      /\ batch' \subseteq Messages
  <2>1. CASE batch' = batch
    BY <1>1, <2>1
  <2>2. CASE batch' = {}
    <3>1. 0 < BatchSize
      BY <1>a
    <3> QED BY <1>2, <2>2, <3>1
  <2> QED BY <2>1, <2>2
<1>5. /\ Cardinality(flushing') <= BatchSize /\ IsFiniteSet(flushing')
      /\ flushing' \subseteq Messages
  <2>1. Cardinality(batch) <= BatchSize
    BY <1>a, <1>1, <1>2
  <2>2. Cardinality({}) <= BatchSize
    BY <1>a, <1>2
  <2> QED BY <1>1, <1>2, <2>1, <2>2
<1>6. IndexerTypeOK'
  <2>1. Cardinality(batch)' = Cardinality(batch')
        /\ Cardinality(flushing)' = Cardinality(flushing')
        /\ Messages' = Messages
    BY DEF Messages, Offsets
  <2>2. /\ settled' \subseteq Messages /\ skipped' \subseteq Messages
        /\ rejected' \subseteq Messages /\ dropped' \subseteq Messages
    BY <1>1
  <2> QED BY <1>3, <1>4, <1>5, <2>1, <2>2 DEF IndexerTypeOK
<1>7. Shown \subseteq Shown'
  BY DEF Shown
<1>8. ReadAndKept'
  <2> SUFFICES ASSUME stage' # "down", NEW m \in Messages, m[2] < position[m[1]]
               PROVE  m \in Shown' \cup batch' \cup flushing'
    BY DEF ReadAndKept, Messages, Offsets
  <2>1. m \in Shown \cup batch \cup flushing
    BY DEF IndexerInv, ReadAndKept
  <2> QED BY <1>7, <2>1
<1>9. PassedIsShown'
  <2>1. Passed' = Passed
    BY DEF Passed, Messages, Offsets
  <2>2. Passed \cap (batch \cup flushing) = {} /\ Passed \subseteq Shown
    BY DEF IndexerInv, PassedIsShown
  <2> QED BY <1>7, <2>1, <2>2 DEF PassedIsShown
<1> QED BY <1>3, <1>4, <1>5, <1>6, <1>8, <1>9 DEF IndexerInv, Countable

\* A commit passes what this process has read, which is shown when nothing is in
\* memory.
LEMMA IndexerCommits ==
  ASSUME IndexerInv,
         CommitLast, UNCHANGED <<high, malformed, position, last>>,
         stage # "down", batch = {}, flushing \subseteq Shown
  PROVE  /\ ConsumerTypeOK' /\ CommittedIsRead'
         /\ Passed' \subseteq Shown
<1>1. /\ high \in [Partitions -> 0 .. MaxOffset]
      /\ committed \in [Partitions -> 0 .. MaxOffset]
      /\ position \in [Partitions -> 0 .. MaxOffset]
      /\ \A p \in Partitions : committed[p] \in Int /\ position[p] \in Int /\ high[p] \in Int
      /\ malformed \subseteq Messages
      /\ last \in Messages \cup {NoMessage}
  BY IndexerConsumerType DEF IndexerInv, IndexerTypeOK
<1>2. /\ \A p \in Partitions : committed[p] <= position[p]
      /\ last # NoMessage => last[2] < position[last[1]]
  BY DEF IndexerInv, CommittedIsRead
<1>3. committed' \in [Partitions -> 0 .. MaxOffset] /\ \A p \in Partitions : committed'[p] <= position[p]
  <2>1. CASE last = NoMessage
    BY <1>1, <1>2, <2>1 DEF CommitLast
  <2>2. CASE last # NoMessage
    <3>1. last[1] \in Partitions /\ last[2] \in 0 .. (MaxOffset - 1) /\ last[2] + 1 \in 0 .. MaxOffset
      BY <1>1, <2>2, IndexerMessages
    <3>2. committed' = [committed EXCEPT ![last[1]] = last[2] + 1]
      BY <2>2 DEF CommitLast
    <3>3. last[2] + 1 <= position[last[1]]
      BY <1>1, <1>2, <2>2, <3>1
    <3> QED BY <1>1, <1>2, <3>1, <3>2, <3>3
  <2> QED BY <2>1, <2>2
<1>4. ConsumerTypeOK'
  BY <1>1, <1>3 DEF ConsumerTypeOK, Messages, Offsets
<1>5. CommittedIsRead'
  BY <1>2, <1>3 DEF CommittedIsRead
<1>6. ASSUME NEW m \in Messages, m[2] < committed'[m[1]]
      PROVE  m \in Shown
  <2>1. m[2] < position[m[1]]
    <3>1. m[1] \in Partitions /\ m[2] \in Int
      BY IndexerMessages
    <3>2. committed'[m[1]] \in Int /\ committed'[m[1]] <= position[m[1]] /\ position[m[1]] \in Int
      BY <1>1, <1>3, <3>1
    <3> QED BY <1>6, <3>1, <3>2
  <2>2. m \in Shown \cup batch \cup flushing
    BY <2>1 DEF IndexerInv, ReadAndKept
  <2> QED BY <2>2
<1>7. Passed' \subseteq Shown
  BY <1>6 DEF Passed, Messages, Offsets
<1> QED BY <1>4, <1>5, <1>7

\* After a step that leaves nothing in memory the sizes are those of no events.
LEMMA IndexerEmptied ==
  ASSUME IndexerInv, ConsumerTypeOK', CommittedIsRead',
         ReadAndKept', Passed' \subseteq Shown,
         UNCHANGED <<settled, skipped, rejected, dropped>>,
         batch' = {}, flushing' = {}, pending' = {}, stage' \in {"poll", "down"},
         attempt' \in 0 .. BulkMaxRetries + 1, closing' \in BOOLEAN
  PROVE  IndexerInv'
<1>a. BatchSize \in Nat \ {0}
  BY IndexerAssumption
<1>1. IsFiniteSet({}) /\ Cardinality({}) = 0
  BY FS_EmptySet
<1>2. Cardinality(batch') < BatchSize /\ Cardinality(flushing') <= BatchSize
  BY <1>a, <1>1
<1>3. IndexerTypeOK'
  <2>1. Cardinality(batch)' = Cardinality(batch')
        /\ Cardinality(flushing)' = Cardinality(flushing')
        /\ Messages' = Messages
    BY DEF Messages, Offsets
  <2>2. /\ settled' \subseteq Messages /\ skipped' \subseteq Messages
        /\ rejected' \subseteq Messages /\ dropped' \subseteq Messages
    BY DEF IndexerInv, IndexerTypeOK
  <2>3. stage' \in {"poll", "flush", "finish", "down"}
    OBVIOUS
  <2>4. /\ batch' \subseteq Messages /\ flushing' \subseteq Messages
        /\ pending' \subseteq flushing'
    OBVIOUS
  <2> QED BY <1>2, <2>1, <2>2, <2>3, <2>4 DEF IndexerTypeOK
<1>4. PassedIsShown'
  BY DEF PassedIsShown, Shown
<1>5. OneFlush' /\ Countable'
  BY <1>1 DEF OneFlush, Countable
<1> QED BY <1>3, <1>4, <1>5 DEF IndexerInv

\* Every step of the indexer keeps the invariant.
LEMMA IndexerKeeps ==
  ASSUME IndexerInv, [IndexerNext]_indexerVars
  PROVE  IndexerInv'
<1>a. BatchSize \in Nat \ {0} /\ BulkMaxRetries \in Nat
  BY IndexerAssumption
<1>t. /\ stage \in {"poll", "flush", "finish", "down"} /\ pending \subseteq flushing
      /\ attempt \in 0 .. BulkMaxRetries + 1 /\ closing \in BOOLEAN
  BY DEF IndexerInv, IndexerTypeOK
<1>o. /\ stage \in {"poll", "down"} => flushing = {}
      /\ stage # "poll" => batch = {}
      /\ stage = "finish" => pending = {}
      /\ stage = "flush" => attempt <= BulkMaxRetries
      /\ flushing \ pending \subseteq settled \cup rejected
  BY DEF IndexerInv, OneFlush
<1> USE DEF consumerVars, resultVars, loopVars, brokerVars
<1>1. ASSUME NEW p \in Partitions, ProduceExtracted(p)
      PROVE  IndexerInv'
  <2>1. /\ high[p] < MaxOffset /\ high' = [high EXCEPT ![p] = @ + 1] /\ malformed' = malformed
        /\ UNCHANGED <<committed, position, last, stage, batch, pending, flushing, attempt, closing,
                       settled, skipped, rejected, dropped>>
    BY <1>1 DEF ProduceExtracted, AppendMessage
  <2>2. ConsumerTypeOK'
    <3>1. high' \in [Partitions -> 0 .. MaxOffset]
      BY <2>1, IndexerConsumerType DEF IndexerInv, IndexerTypeOK
    <3> QED BY <2>1, <3>1 DEF IndexerInv, IndexerTypeOK, ConsumerTypeOK,
                              Messages, Offsets
  <2>3. IndexerTypeOK'
    BY <2>1, <2>2
       DEF IndexerInv, IndexerTypeOK, Messages, Offsets
  <2>4. CommittedIsRead' /\ ReadAndKept' /\ OneFlush' /\ Countable'
    BY <2>1 DEF IndexerInv, CommittedIsRead, ReadAndKept, OneFlush, Countable, Shown,
                Messages, Offsets
  <2>5. PassedIsShown'
    BY <2>1 DEF IndexerInv, PassedIsShown, Shown, Passed, Messages, Offsets
  <2> QED BY <2>3, <2>4, <2>5 DEF IndexerInv
<1>2. ASSUME NEW p \in Partitions, NEW late \in BOOLEAN,
             ReceiveReady(p, late) \/ ReceiveNothing(p, late)
               \/ ReceiveSkip(p, late)
      PROVE  IndexerInv'
  <2>1. stage = "poll"
    BY <1>2 DEF ReceiveReady, ReceiveNothing, ReceiveSkip
  <2> QED BY <1>2, <2>1, IndexerTurn
<1>3. CASE PollTimeout \/ Shutdown
  <2>1. /\ stage = "poll" /\ stage' = "flush" /\ flushing' = batch /\ pending' = batch /\ batch' = {}
        /\ attempt' = 0 /\ closing' \in BOOLEAN
        /\ UNCHANGED <<high, malformed, committed, position, last, settled, skipped, rejected, dropped>>
    BY <1>3 DEF PollTimeout, Shutdown, BeginFlush
  <2>2. OneFlush'
    BY <1>a, <2>1 DEF OneFlush
  <2>3. attempt' \in 0 .. BulkMaxRetries + 1 /\ stage' # "down" /\ stage # "down"
    BY <1>a, <2>1
  <2>4. batch \cup flushing \subseteq batch' \cup flushing' \cup Shown'
    BY <1>o, <2>1
  <2> QED BY <2>1, <2>2, <2>3, <2>4, IndexerMoves
<1>4. ASSUME NEW w \in Subsets, Bulk(w[1], w[2])
      PROVE  IndexerInv'
  <2>1. PICK written \in SUBSET pending, permanent \in SUBSET pending :
          Bulk(written, permanent)
    BY <1>4 DEF Subsets
  <2>r. PICK retryable : retryable = pending \ (written \cup permanent)
    OBVIOUS
  <2>2. /\ stage = "flush" /\ settled' = settled \cup written /\ rejected' = rejected \cup permanent
        /\ skipped' = skipped /\ UNCHANGED <<high, malformed, committed, position, last>>
    BY <2>1 DEF Bulk
  <2>3. batch = {} /\ attempt <= BulkMaxRetries
    BY <1>o, <2>2
  <2>4. CASE retryable = {} /\ stage' = "finish" /\ pending' = {} /\ attempt' = attempt + 1
             /\ UNCHANGED <<flushing, batch, closing, dropped>>
    <3>1. OneFlush'
      BY <1>o, <2>r, <2>2, <2>3, <2>4 DEF OneFlush
    <3>2. attempt' \in 0 .. BulkMaxRetries + 1
      BY <1>a, <1>t, <2>3, <2>4
    <3> QED BY <1>t, <2>2, <2>4, <3>1, <3>2, IndexerMoves
  <2>5. CASE attempt < BulkMaxRetries /\ pending' = retryable /\ attempt' = attempt + 1
             /\ UNCHANGED <<stage, flushing, batch, closing, dropped>>
    <3>1. OneFlush'
      <4>1. attempt' <= BulkMaxRetries
        BY <1>a, <1>t, <2>5
      <4>2. flushing' \ pending' \subseteq settled' \cup rejected'
        BY <1>o, <2>r, <2>2, <2>5
      <4> QED BY <1>o, <2>2, <2>5, <4>1, <4>2 DEF OneFlush
    <3>2. attempt' \in 0 .. BulkMaxRetries + 1
      BY <1>a, <1>t, <2>3, <2>5
    <3> QED BY <1>t, <2>r, <2>2, <2>5, <3>1, <3>2, IndexerMoves
  <2>6. CASE dropped' = dropped \cup flushing /\ EndFlush
    <3>1. /\ stage' \in {"poll", "down"} /\ pending' = {} /\ flushing' = {} /\ batch' = batch
          /\ attempt' = 0 /\ closing' = FALSE
      BY <2>6 DEF EndFlush
    <3>2. OneFlush'
      BY <2>3, <3>1 DEF OneFlush
    <3>3. attempt' \in 0 .. BulkMaxRetries + 1
      BY <1>a, <3>1
    <3>4. batch \cup flushing \subseteq batch' \cup flushing' \cup Shown'
      BY <2>3, <2>6 DEF Shown
    <3> QED BY <1>t, <2>2, <2>6, <3>1, <3>2, <3>3, <3>4, IndexerMoves
  <2>7. retryable = {} \/ (retryable # {} /\ attempt < BulkMaxRetries)
        \/ ~(retryable = {} \/ (retryable # {} /\ attempt < BulkMaxRetries))
    OBVIOUS
  <2> QED BY <2>1, <2>r, <2>4, <2>5, <2>6, <2>7 DEF Bulk
<1>5. ASSUME NEW w \in SUBSET pending, BulkErr(w)
      PROVE  IndexerInv'
  <2>1. /\ stage = "flush" /\ settled' = settled \cup w /\ dropped' = dropped \cup flushing
        /\ UNCHANGED <<high, malformed, committed, position, last, skipped, rejected>>
        /\ stage' \in {"poll", "down"} /\ pending' = {} /\ flushing' = {} /\ batch' = batch
        /\ attempt' = 0 /\ closing' = FALSE
    BY <1>5 DEF BulkErr, EndFlush
  <2>2. OneFlush'
    BY <1>o, <2>1 DEF OneFlush
  <2>3. attempt' \in 0 .. BulkMaxRetries + 1
    BY <1>a, <2>1
  <2>4. batch \cup flushing \subseteq batch' \cup flushing' \cup Shown'
    BY <1>o, <2>1 DEF Shown
  <2> QED BY <1>t, <2>1, <2>2, <2>3, <2>4, IndexerMoves
<1>6. CASE CommitFlush
  <2>1. /\ stage = "finish" /\ CommitLast
        /\ UNCHANGED <<high, malformed, position, last, settled, skipped, rejected, dropped>>
        /\ stage' \in {"poll", "down"} /\ pending' = {} /\ flushing' = {} /\ batch' = batch
        /\ attempt' = 0 /\ closing' = FALSE
    BY <1>6 DEF CommitFlush, EndFlush
  <2>2. batch = {} /\ flushing \subseteq Shown
    BY <1>o, <2>1 DEF Shown
  <2>3. ConsumerTypeOK' /\ CommittedIsRead' /\ Passed' \subseteq Shown
    BY <2>1, <2>2, IndexerCommits
  <2>4. ReadAndKept'
    BY <2>1, <2>2 DEF IndexerInv, ReadAndKept, Shown, Messages, Offsets
  <2>5. attempt' \in 0 .. BulkMaxRetries + 1
    BY <1>a, <2>1
  <2> QED BY <2>1, <2>2, <2>3, <2>4, <2>5, IndexerEmptied
<1>7. CASE CommitFlushErr
  <2>1. /\ stage = "finish"
        /\ UNCHANGED <<high, malformed, committed, position, last, settled, skipped, rejected, dropped>>
        /\ stage' \in {"poll", "down"} /\ pending' = {} /\ flushing' = {} /\ batch' = batch
        /\ attempt' = 0 /\ closing' = FALSE
    BY <1>7 DEF CommitFlushErr, EndFlush
  <2>2. OneFlush'
    BY <1>o, <2>1 DEF OneFlush
  <2>3. attempt' \in 0 .. BulkMaxRetries + 1
    BY <1>a, <2>1
  <2>4. batch \cup flushing \subseteq batch' \cup flushing' \cup Shown'
    BY <1>o, <2>1 DEF Shown
  <2> QED BY <1>t, <2>1, <2>2, <2>3, <2>4, IndexerMoves
<1>8. CASE ShutdownEmpty
  <2>1. /\ stage = "poll" /\ batch = {} /\ stage' = "down"
        /\ UNCHANGED <<high, malformed, position, last, batch, pending, flushing, attempt, closing,
                       settled, skipped, rejected, dropped>>
        /\ CommitLast \/ UNCHANGED committed
    BY <1>8 DEF ShutdownEmpty
  <2>2. flushing = {} /\ pending = {}
    BY <1>o, <1>t, <2>1
  <2>3. CASE CommitLast
    <3>1. ConsumerTypeOK' /\ CommittedIsRead' /\ Passed' \subseteq Shown
      BY <2>1, <2>2, <2>3, IndexerCommits
    <3>2. ReadAndKept'
      BY <2>1 DEF ReadAndKept
    <3> QED BY <1>t, <2>1, <2>2, <3>1, <3>2, IndexerEmptied
  <2>4. CASE UNCHANGED committed
    <3>1. OneFlush'
      BY <1>o, <2>1, <2>2 DEF OneFlush
    <3> QED BY <1>t, <2>1, <2>2, <2>4, <3>1, IndexerMoves
  <2> QED BY <2>1, <2>3, <2>4
<1>9. CASE CrashIndexer
  <2>1. /\ stage' = "down" /\ batch' = {} /\ pending' = {} /\ flushing' = {} /\ attempt' = 0
        /\ closing' = FALSE
        /\ UNCHANGED <<high, malformed, committed, position, last, settled, skipped, rejected, dropped>>
    BY <1>9 DEF CrashIndexer
  <2>2. OneFlush'
    BY <2>1 DEF OneFlush
  <2>3. attempt' \in 0 .. BulkMaxRetries + 1
    BY <1>a, <2>1
  <2> QED BY <2>1, <2>2, <2>3, IndexerMoves
<1>10. CASE StartIndexer
  <2>1. /\ stage = "down" /\ stage' = "poll" /\ position' = committed /\ last' = NoMessage
        /\ UNCHANGED <<high, malformed, committed, batch, pending, flushing, attempt, closing,
                       settled, skipped, rejected, dropped>>
    BY <1>10 DEF StartIndexer, Resume
  <2>2. batch = {} /\ flushing = {} /\ pending = {}
    BY <1>o, <1>t, <2>1
  <2>3. ConsumerTypeOK'
    BY <2>1 DEF IndexerInv, IndexerTypeOK, ConsumerTypeOK, Messages, Offsets
  <2>4. CommittedIsRead'
    <3>1. \A p \in Partitions : committed[p] <= committed[p]
      BY IndexerConsumerType DEF IndexerInv, IndexerTypeOK
    <3> QED BY <2>1, <3>1 DEF CommittedIsRead
  <2>5. Passed' = Passed /\ Passed \subseteq Shown
    BY <2>1 DEF IndexerInv, PassedIsShown, Passed, Messages, Offsets
  <2>6. ReadAndKept'
    BY <2>1, <2>5 DEF ReadAndKept, Shown, Passed, Messages, Offsets
  <2> QED BY <1>t, <2>1, <2>2, <2>3, <2>4, <2>5, <2>6, IndexerEmptied
<1>11. CASE UNCHANGED indexerVars
  <2>1. UNCHANGED <<high, malformed, committed, position, last, stage, batch, pending, flushing,
                    attempt, closing, settled, skipped, rejected, dropped>>
    BY <1>11 DEF indexerVars
  <2>2. OneFlush'
    BY <1>o, <2>1 DEF OneFlush
  <2>3. stage' # "down" => stage # "down" /\ batch \cup flushing \subseteq batch' \cup flushing' \cup Shown'
    BY <2>1
  <2> QED BY <1>t, <2>1, <2>2, <2>3, IndexerMoves
<1> QED BY <1>1, <1>2, <1>3, <1>4, <1>5, <1>6, <1>7, <1>8, <1>9, <1>10, <1>11
        DEF IndexerNext, IndexerLoopStep

\* The offsets the indexer commits never leave an event behind in memory: whatever
\* bulk requests fail, whenever it stops or dies, every event the group has moved
\* past is in the index, needs no document, or is named in the log; and neither the
\* batch nor a flush outgrows batch_size.  For any number of partitions and events.
THEOREM IndexerCommitsAfterFlush == IndexerSpec => []CommitAfterFlush
<1>1. IndexerInit => IndexerInv
  BY IndexerStarts
<1>2. IndexerInv /\ [IndexerNext]_indexerVars => IndexerInv'
  BY IndexerKeeps
<1>3. IndexerInv => CommitAfterFlush
  BY DEF IndexerInv, PassedIsShown, Shown, CommitAfterFlush
<1> QED BY <1>1, <1>2, <1>3, PTL DEF IndexerSpec

------------------------------------------------------------------------------
(* EmbeddingWorker.  The table decides whether a text is embedded again,    *)
(* the index what a search finds, and no transaction spans the two.  That   *)
(* they agree rests on the order of the texts: they are recorded in that    *)
(* order (RowsInOrder), so that a target with its last text recorded has    *)
(* all of them, and an actor alone with a target that has anything to embed *)
(* has the last text to embed as well (Unshared).                           *)

\* The elements of a sequence.
Items(s) == {s[i] : i \in DOMAIN s}

\* The text whose vector stays.
LastPart(t) == Parts[t][Len(Parts[t])]

\* No text comes after the target's last one.
EndsWell(s, t) == \A i \in DOMAIN s : s[i] = LastPart(t) => i = Len(s)

ActorRecord ==
  [pc : {"idle", "next", "check", "embed", "persist", "write"}, left : Seq(Targets),
   todo : Seq(Texts), pending : Seq(Texts), attempt : 0 .. MaxRetries]

OnPcs == {"check", "embed", "persist", "write"}

\* An actor on a target has texts of that target in hand, in their order.
Working(r) ==
  /\ r \in ActorRecord
  /\ r.pc \in {"idle", "next"} => r.todo = << >> /\ r.pending = << >>
  /\ r.pc \in OnPcs =>
       /\ r.left # << >>
       /\ Items(r.todo) \cup Items(r.pending) \subseteq Items(Parts[Head(r.left)])
  /\ r.pc = "check" =>
       /\ r.todo # << >>
       /\ r.todo[Len(r.todo)] = LastPart(Head(r.left))
       /\ EndsWell(r.todo, Head(r.left))
       /\ LastPart(Head(r.left)) \notin Items(r.pending)
  /\ r.pc \in {"embed", "persist", "write"} => r.pending # << >> /\ EndsWell(r.pending, Head(r.left))
  /\ r.pc = "persist" => r.todo # << >> /\ EndsWell(r.todo, Head(r.left))

\* The texts an actor has yet to look up or to record.
Ahead(r) ==
  (IF r.pc \in {"check", "persist"} THEN Items(r.todo) ELSE {})
    \cup (IF r.pc \in {"check", "embed"} THEN Items(r.pending) ELSE {})

\* The other texts of its target are in the table already.
Backed(r, table) ==
  r.pc \in OnPcs =>
    \A x \in Items(Parts[Head(r.left)]) : <<Head(r.left), x>> \in table \/ x \in Ahead(r)

\* What an actor alone with its target knows: it will write the last text.
Sole(r, table) ==
  /\ r.pc = "check" /\ r.pending # << >> => <<Head(r.left), LastPart(Head(r.left))>> \notin table
  /\ r.pc \in {"embed", "persist", "write"} => r.pending[Len(r.pending)] = LastPart(Head(r.left))

EmbeddingTyped ==
  /\ ConsumerTypeOK
  /\ duplicate \subseteq Docs /\ merged \subseteq Ents
  /\ indexed \subseteq Docs /\ prepared \subseteq Docs
  /\ DOMAIN vector = Targets
  /\ \A t \in Targets : vector[t] = None \/ vector[t] \in Items(Parts[t])
  /\ DOMAIN act = Actors
  /\ run \in [phase : {"off", "documents", "entities", "done"}, failed : BOOLEAN, fresh : SUBSET Docs]

AllAtWork == \A a \in Actors : Working(act[a]) /\ Backed(act[a], rows)

\* The texts of a target are recorded in their order.
RowsInOrder ==
  \A t \in Targets :
    <<t, LastPart(t)>> \in rows => \A x \in Items(Parts[t]) : <<t, x>> \in rows

\* Two actors are on one target only where that is noted.
NotTogether ==
  \A a, b \in Actors :
    a # b /\ act[a].pc \in OnPcs /\ act[b].pc \in OnPcs /\ Head(act[a].left) = Head(act[b].left)
      => Head(act[a].left) \in excused

Unshared ==
  \A a \in Actors :
    act[a].pc \in OnPcs /\ Head(act[a].left) \notin excused => Sole(act[a], rows)

\* RecordedIsIndexed for every target, in the index or not.
LastIsShown ==
  \A t \in Targets :
    t \notin excused /\ <<t, LastPart(t)>> \in rows =>
      \/ vector[t] = LastPart(t)
      \/ \E a \in Actors : act[a].pc = "write" /\ Head(act[a].left) = t

\* A vector has its row and its document.
Grounded ==
  /\ \A t \in Targets : vector[t] # None => <<t, vector[t]>> \in rows
  /\ \A d \in Docs : vector[d] # None => d \in indexed

\* What a rebuild without a failure has not come to yet is still ahead of it.
Repairing ==
  /\ act["rebuild"].pc # "check"
  /\ act["rebuild"].pc # "idle" =>
       /\ run.phase \in {"documents", "entities"}
       /\ \A d \in indexed \ run.fresh :
            run.failed \/ vector[d] # None \/ (run.phase = "documents" /\ d \in Items(act["rebuild"].left))

EmbeddingInv ==
  /\ EmbeddingTyped /\ AllAtWork /\ RowsInOrder /\ NotTogether /\ Unshared /\ LastIsShown
  /\ Grounded /\ Repairing

\* The parts of a sequence.
LEMMA ItemsOfTail ==
  ASSUME NEW S, NEW s \in Seq(S), s # << >>
  PROVE  /\ Head(s) = s[1] /\ Head(s) \in S /\ Tail(s) \in Seq(S)
         /\ Len(Tail(s)) = Len(s) - 1 /\ Len(s) \in Nat /\ Len(s) >= 1
         /\ Items(s) = {Head(s)} \cup Items(Tail(s))
         /\ \A i \in DOMAIN Tail(s) : i + 1 \in DOMAIN s /\ Tail(s)[i] = s[i + 1]
         /\ s[Len(s)] \in Items(s) /\ Len(s) \in DOMAIN s
         /\ Tail(s) = << >> <=> Len(s) = 1
<1>1. /\ Head(s) = s[1] /\ Head(s) \in S /\ Tail(s) \in Seq(S)
      /\ Len(Tail(s)) = Len(s) - 1 /\ Len(s) \in Nat /\ Len(s) >= 1
      /\ DOMAIN s = 1 .. Len(s) /\ DOMAIN Tail(s) = 1 .. (Len(s) - 1)
      /\ \A i \in DOMAIN Tail(s) : i + 1 \in DOMAIN s /\ Tail(s)[i] = s[i + 1]
  OBVIOUS
<1>2. Items(s) = {Head(s)} \cup Items(Tail(s))
  <2>1. ASSUME NEW i \in DOMAIN s
        PROVE  s[i] \in {Head(s)} \cup Items(Tail(s))
    <3>1. CASE i = 1
      BY <1>1, <3>1
    <3>2. CASE i # 1
      <4>1. i - 1 \in DOMAIN Tail(s) /\ Tail(s)[i - 1] = s[i]
        BY <1>1, <2>1, <3>2
      <4> QED BY <4>1 DEF Items
    <3> QED BY <3>1, <3>2
  <2>2. 1 \in DOMAIN s
    BY <1>1
  <2> QED BY <1>1, <2>1, <2>2 DEF Items
<1>3. Len(s) \in DOMAIN s
  BY <1>1
<1>4. Tail(s) = << >> <=> Len(s) = 1
  <2>1. \A u \in Seq(S) : u = << >> <=> Len(u) = 0
    OBVIOUS
  <2>2. PICK u \in Seq(S) : u = Tail(s)
    BY <1>1
  <2>3. u = << >> <=> Len(u) = 0
    BY <2>1
  <2>4. Len(u) = Len(s) - 1 /\ Len(s) \in Nat
    BY <1>1, <2>2
  <2>5. u = << >> <=> Len(s) = 1
    BY <2>3, <2>4
  <2> QED BY <2>2, <2>5
<1> QED BY <1>1, <1>2, <1>3, <1>4 DEF Items

LEMMA ItemsAppended ==
  ASSUME NEW S, NEW s \in Seq(S), NEW x \in S
  PROVE  /\ s \o <<x>> \in Seq(S) /\ Len(s \o <<x>>) = Len(s) + 1
         /\ s \o <<x>> # << >>
         /\ Items(s \o <<x>>) = Items(s) \cup {x}
         /\ (s \o <<x>>)[Len(s) + 1] = x
         /\ \A i \in DOMAIN (s \o <<x>>) : i = Len(s) + 1 \/ (i \in DOMAIN s /\ (s \o <<x>>)[i] = s[i])
<1>1. /\ s \o <<x>> \in Seq(S) /\ Len(s \o <<x>>) = Len(s) + 1 /\ Len(s) \in Nat
      /\ DOMAIN s = 1 .. Len(s) /\ DOMAIN (s \o <<x>>) = 1 .. (Len(s) + 1)
      /\ (s \o <<x>>)[Len(s) + 1] = x
      /\ \A i \in DOMAIN s : (s \o <<x>>)[i] = s[i]
  OBVIOUS
<1>2. \A i \in DOMAIN (s \o <<x>>) : i = Len(s) + 1 \/ i \in DOMAIN s
  BY <1>1
<1>3. Len(s) + 1 \in DOMAIN (s \o <<x>>) /\ \A i \in DOMAIN s : i \in DOMAIN (s \o <<x>>)
  BY <1>1
<1>4. Items(s \o <<x>>) = Items(s) \cup {x}
  BY <1>1, <1>2, <1>3 DEF Items
<1>5. s \o <<x>> # << >>
  BY <1>1
<1> QED BY <1>1, <1>2, <1>4, <1>5

LEMMA NoItems == Items(<< >>) = {}
BY DEF Items

\* What the assumptions say of the constants.
LEMMA EmbeddingConstants ==
  /\ Targets = Docs \cup Ents /\ Docs \cap Ents = {}
  /\ MaxRetries \in Nat
  /\ \A t \in Targets :
       /\ Parts[t] \in Seq(Texts) /\ Parts[t] # << >>
       /\ Len(Parts[t]) \in Nat /\ Len(Parts[t]) >= 1
       /\ LastPart(t) \in Items(Parts[t])
       /\ EndsWell(Parts[t], t)
       /\ None \notin Items(Parts[t])
  /\ \A o \in Offsets : DocOf[o] \in Docs /\ EntsOf[o] \in Seq(Ents)
<1>1. /\ Docs \cap Ents = {} /\ MaxRetries \in Nat
      /\ \A t \in Targets :
           /\ Parts[t] \in Seq(Texts) /\ Parts[t] # << >>
           /\ \A i, j \in DOMAIN Parts[t] : Parts[t][i] = Parts[t][j] => i = j
      /\ None \notin Texts
      /\ \A o \in Offsets : DocOf[o] \in Docs /\ EntsOf[o] \in Seq(Ents)
  BY EmbeddingAssumption
<1>2. ASSUME NEW t \in Targets
      PROVE  /\ Len(Parts[t]) \in Nat /\ Len(Parts[t]) >= 1
             /\ LastPart(t) \in Items(Parts[t])
             /\ EndsWell(Parts[t], t)
             /\ None \notin Items(Parts[t])
  <2>1. Parts[t] \in Seq(Texts) /\ Parts[t] # << >>
    BY <1>1, <1>2
  <2>2. /\ Len(Parts[t]) \in Nat /\ Len(Parts[t]) >= 1 /\ Len(Parts[t]) \in DOMAIN Parts[t]
        /\ Parts[t][Len(Parts[t])] \in Items(Parts[t])
    BY <2>1, ItemsOfTail
  <2>3. EndsWell(Parts[t], t)
    BY <1>1, <2>2 DEF EndsWell, LastPart
  <2>4. Items(Parts[t]) \subseteq Texts
    BY <2>1 DEF Items
  <2> QED BY <1>1, <2>2, <2>3, <2>4 DEF LastPart
<1>3. Targets = Docs \cup Ents
  BY DEF Targets
<1> QED BY <1>1, <1>2, <1>3

\* Between two targets an actor has no texts in hand.
LEMMA BetweenTargets ==
  ASSUME NEW r \in ActorRecord, r.pc \in {"idle", "next"}, r.todo = << >>, r.pending = << >>
  PROVE  Working(r) /\ r.pc \notin OnPcs /\ \A table : Backed(r, table) /\ Sole(r, table)
BY DEF Working, Backed, Sole, OnPcs

\* One actor's step, seen from all of them.
LEMMA ActorMoves ==
  ASSUME NEW a \in Actors, NEW r, EmbeddingInv,
         act' = [act EXCEPT ![a] = r], Working(r), Backed(r, rows'), rows \subseteq rows',
         r.pc \in OnPcs => \/ act[a].pc \in OnPcs /\ Head(r.left) = Head(act[a].left)
                           \/ \A b \in Actors \ {a} :
                                act[b].pc \in OnPcs /\ Head(act[b].left) = Head(r.left)
                                  => Head(r.left) \in excused',
         r.pc \in OnPcs /\ Head(r.left) \notin excused' => Sole(r, rows'),
         rows' = rows \/ (act[a].pc \in OnPcs /\ \E x : rows' = rows \cup {<<Head(act[a].left), x>>}),
         \A t \in excused \ excused' : \A b \in Actors :
           act'[b].pc \in OnPcs => Head(act'[b].left) # t
  PROVE  AllAtWork' /\ NotTogether' /\ Unshared' /\ DOMAIN act' = Actors
<1>1. DOMAIN act = Actors /\ DOMAIN act' = Actors
  BY DEF EmbeddingInv, EmbeddingTyped
<1>2. act'[a] = r /\ \A b \in Actors \ {a} : act'[b] = act[b]
  BY <1>1
<1>3. AllAtWork'
  <2>1. \A b \in Actors : Working(act[b]) /\ Backed(act[b], rows)
    BY DEF EmbeddingInv, AllAtWork
  <2>2. \A b \in Actors : Backed(act[b], rows')
    BY <2>1 DEF Backed
  <2>3. \A b \in Actors : Working(act'[b]) /\ Backed(act'[b], rows')
    BY <1>2, <2>1, <2>2
  <2> QED BY <2>3 DEF AllAtWork, Actors
<1>n. \A b, c \in Actors :
        b # c /\ act[b].pc \in OnPcs /\ act[c].pc \in OnPcs /\ Head(act[b].left) = Head(act[c].left)
          => Head(act[b].left) \in excused
  BY DEF EmbeddingInv, NotTogether
<1>4. ASSUME NEW b \in Actors, NEW c \in Actors, b # c,
             act'[b].pc \in OnPcs, act'[c].pc \in OnPcs, Head(act'[b].left) = Head(act'[c].left)
      PROVE  Head(act'[b].left) \in excused'
  <2>1. CASE b # a /\ c # a
    BY <1>2, <1>4, <1>n, <2>1
  <2>2. ASSUME NEW d \in Actors \ {a}, act[d].pc \in OnPcs, r.pc \in OnPcs,
               Head(act[d].left) = Head(r.left)
        PROVE  Head(r.left) \in excused'
    <3>1. CASE act[a].pc \in OnPcs /\ Head(r.left) = Head(act[a].left)
      <4>1. Head(r.left) \in excused
        BY <1>n, <2>2, <3>1
      <4> QED BY <1>2, <2>2, <4>1
    <3>2. CASE \A e \in Actors \ {a} :
                 act[e].pc \in OnPcs /\ Head(act[e].left) = Head(r.left) => Head(r.left) \in excused'
      BY <2>2, <3>2
    <3> QED BY <2>2, <3>1, <3>2
  <2>3. CASE b = a
    BY <1>2, <1>4, <2>2, <2>3
  <2>4. CASE c = a
    BY <1>2, <1>4, <2>2, <2>4
  <2> QED BY <2>1, <2>3, <2>4
<1>5. NotTogether'
  BY <1>4 DEF NotTogether, Actors
<1>6. ASSUME NEW b \in Actors, act'[b].pc \in OnPcs, Head(act'[b].left) \notin excused'
      PROVE  Sole(act'[b], rows')
  <2>1. CASE b = a
    BY <1>2, <1>6, <2>1
  <2>2. CASE b # a
    <3>1. act'[b] = act[b] /\ act[b].pc \in OnPcs /\ Head(act[b].left) \notin excused
      BY <1>2, <1>6, <2>2
    <3>2. Sole(act[b], rows)
      BY <3>1 DEF EmbeddingInv, Unshared
    <3>3. CASE rows' = rows
      BY <3>1, <3>2, <3>3
    <3>4. ASSUME act[a].pc \in OnPcs, NEW x, rows' = rows \cup {<<Head(act[a].left), x>>}
          PROVE  Sole(act[b], rows')
      <4>1. Head(act[a].left) # Head(act[b].left)
        BY <1>n, <2>2, <3>1, <3>4
      <4> QED BY <3>2, <3>4, <4>1 DEF Sole
    <3> QED BY <3>1, <3>3, <3>4
  <2> QED BY <2>1, <2>2
<1>7. Unshared'
  BY <1>6 DEF Unshared, Actors
<1> QED BY <1>1, <1>3, <1>5, <1>7

\* A step of nobody among them.
LEMMA NobodyMoves ==
  ASSUME EmbeddingInv, UNCHANGED <<act, rows>>, excused \subseteq excused'
  PROVE  AllAtWork' /\ NotTogether' /\ Unshared' /\ RowsInOrder'
<1>1. AllAtWork'
  BY DEF EmbeddingInv, AllAtWork, Actors
<1>2. NotTogether'
  BY DEF EmbeddingInv, NotTogether, Actors
<1>3. Unshared'
  BY DEF EmbeddingInv, Unshared, Actors
<1>4. RowsInOrder'
  BY DEF EmbeddingInv, RowsInOrder, Targets, LastPart
<1> QED BY <1>1, <1>2, <1>3, <1>4

\* A step without a vector or a row: whoever had one to write still has it, or
\* that is noted.
LEMMA StillShown ==
  ASSUME NEW a \in Actors, NEW r, EmbeddingInv,
         act' = [act EXCEPT ![a] = r], UNCHANGED <<rows, vector>>, excused \subseteq excused',
         act[a].pc = "write" => \/ r.pc = "write" /\ Head(r.left) = Head(act[a].left)
                                \/ Head(act[a].left) \in excused'
  PROVE  LastIsShown' /\ RowsInOrder'
<1>1. DOMAIN act = Actors
  BY DEF EmbeddingInv, EmbeddingTyped
<1>2. act'[a] = r /\ \A b \in Actors \ {a} : act'[b] = act[b]
  BY <1>1
<1>3. ASSUME NEW t \in Targets, t \notin excused', <<t, LastPart(t)>> \in rows
      PROVE  \/ vector[t] = LastPart(t)
             \/ \E b \in Actors : act'[b].pc = "write" /\ Head(act'[b].left) = t
  <2>1. \/ vector[t] = LastPart(t)
        \/ \E b \in Actors : act[b].pc = "write" /\ Head(act[b].left) = t
    BY <1>3 DEF EmbeddingInv, LastIsShown
  <2>2. ASSUME NEW b \in Actors, act[b].pc = "write", Head(act[b].left) = t
        PROVE  act'[b].pc = "write" /\ Head(act'[b].left) = t
    <3>1. CASE b # a
      BY <1>2, <2>2, <3>1
    <3>2. CASE b = a
      BY <1>2, <1>3, <2>2, <3>2
    <3> QED BY <3>1, <3>2
  <2> QED BY <2>1, <2>2
<1>4. LastIsShown'
  BY <1>3 DEF LastIsShown, Actors, Targets, LastPart
<1>5. RowsInOrder'
  BY DEF EmbeddingInv, RowsInOrder, Targets, LastPart
<1> QED BY <1>4, <1>5

\* The record of an actor on a target.
LEMMA AtTarget ==
  ASSUME EmbeddingInv, NEW a \in Actors, NEW r, r = act[a]
  PROVE  /\ r \in ActorRecord /\ Working(r) /\ Backed(r, rows)
         /\ r.pc \in OnPcs \/ (r.pc = "next" /\ r.left # << >>) =>
              Head(r.left) \in Targets /\ Tail(r.left) \in Seq(Targets)
              /\ Items(r.left) = {Head(r.left)} \cup Items(Tail(r.left))
<1>1. Working(r) /\ Backed(r, rows)
  BY DEF EmbeddingInv, AllAtWork
<1>2. r \in ActorRecord
  BY <1>1 DEF Working
<1>3. r.left \in Seq(Targets)
  BY <1>2 DEF ActorRecord
<1>4. r.pc \in OnPcs => r.left # << >>
  BY <1>1 DEF Working
<1> QED BY <1>1, <1>2, <1>3, <1>4, ItemsOfTail

\* Going on to the next target.
LEMMA GoesOn ==
  ASSUME EmbeddingInv, NEW a \in Actors,
         NextTarget(a), act[a].pc \in OnPcs \/ (act[a].pc = "next" /\ act[a].left # << >>)
  PROVE  \E r \in ActorRecord :
           /\ act' = [act EXCEPT ![a] = r]
           /\ r.pc = "next" /\ r.left = Tail(act[a].left) /\ r.todo = << >> /\ r.pending = << >>
<1>1. Tail(act[a].left) \in Seq(Targets)
  BY AtTarget
<1>2. MaxRetries \in Nat
  BY EmbeddingConstants
<1>3. PICK r : r = [Idle EXCEPT !.pc = "next", !.left = Tail(act[a].left)]
  OBVIOUS
<1>4. act' = [act EXCEPT ![a] = r]
  BY <1>3 DEF NextTarget
<1>5. r = [pc |-> "next", left |-> Tail(act[a].left), todo |-> << >>, pending |-> << >>, attempt |-> 0]
  BY <1>3 DEF Idle
<1>6. r \in ActorRecord
  <2>1. << >> \in Seq(Texts) /\ 0 \in 0 .. MaxRetries
    BY <1>2
  <2> QED BY <1>1, <1>5, <2>1 DEF ActorRecord
<1> QED BY <1>4, <1>5, <1>6

\* A step of an actor that writes nothing.
LEMMA WritesNothing ==
  ASSUME NEW a \in Actors, NEW r, EmbeddingInv,
         act' = [act EXCEPT ![a] = r], UNCHANGED <<rows, vector, indexed>>, excused \subseteq excused',
         Working(r), Backed(r, rows),
         r.pc \in OnPcs => \/ act[a].pc \in OnPcs /\ Head(r.left) = Head(act[a].left)
                           \/ \A b \in Actors \ {a} :
                                act[b].pc \in OnPcs /\ Head(act[b].left) = Head(r.left)
                                  => Head(r.left) \in excused',
         r.pc \in OnPcs /\ Head(r.left) \notin excused' => Sole(r, rows),
         act[a].pc = "write" => \/ r.pc = "write" /\ Head(r.left) = Head(act[a].left)
                                \/ Head(act[a].left) \in excused'
  PROVE  /\ AllAtWork' /\ NotTogether' /\ Unshared' /\ DOMAIN act' = Actors
         /\ LastIsShown' /\ RowsInOrder' /\ Grounded'
<1>1. LastIsShown' /\ RowsInOrder'
  BY StillShown
<1>2. Grounded'
  BY DEF EmbeddingInv, Grounded, Targets
<1>3. /\ Backed(r, rows') /\ rows \subseteq rows' /\ rows' = rows
      /\ r.pc \in OnPcs /\ Head(r.left) \notin excused' => Sole(r, rows')
      /\ excused \ excused' = {}
  OBVIOUS
<1>4. AllAtWork' /\ NotTogether' /\ Unshared' /\ DOMAIN act' = Actors
  BY <1>3, ActorMoves
<1> QED BY <1>1, <1>2, <1>4

\* should_embed: the texts that were not recorded wait to be embedded, the last
\* of the target at the end.
LEMMA CheckWorks ==
  ASSUME EmbeddingInv, NEW a \in Actors, act[a].pc = "check",
         NEW rest, rest = Tail(act[a].todo),
         NEW more, more = IF <<Head(act[a].left), Head(act[a].todo)>> \in rows THEN act[a].pending
                          ELSE act[a].pending \o <<Head(act[a].todo)>>,
         rest # << >> \/ more # << >>,
         NEW r, r = [act[a] EXCEPT !.pc = IF rest = << >> THEN "embed" ELSE "check",
                                   !.todo = rest, !.pending = more]
  PROVE  /\ Working(r) /\ Backed(r, rows)
         /\ Head(r.left) \notin excused => Sole(r, rows)
<1> DEFINE o == act[a]
           t == Head(o.left)
           part == Head(o.todo)
<1>1. o \in ActorRecord /\ Working(o) /\ Backed(o, rows) /\ t \in Targets
  BY AtTarget DEF OnPcs
<1>2. /\ o.left # << >> /\ o.todo # << >>
      /\ Items(o.todo) \cup Items(o.pending) \subseteq Items(Parts[t])
      /\ o.todo[Len(o.todo)] = LastPart(t) /\ EndsWell(o.todo, t)
      /\ LastPart(t) \notin Items(o.pending)
  BY <1>1 DEF Working, OnPcs
<1>3. /\ o.todo \in Seq(Texts) /\ o.pending \in Seq(Texts)
      /\ o.left \in Seq(Targets) /\ o.attempt \in 0 .. MaxRetries
  BY <1>1 DEF ActorRecord
<1>4. /\ part = o.todo[1] /\ part \in Texts /\ rest \in Seq(Texts)
      /\ Len(rest) = Len(o.todo) - 1 /\ Len(o.todo) \in Nat /\ Len(o.todo) >= 1
      /\ Items(o.todo) = {part} \cup Items(rest)
      /\ \A i \in DOMAIN rest : i + 1 \in DOMAIN o.todo /\ rest[i] = o.todo[i + 1]
      /\ rest = << >> <=> Len(o.todo) = 1
  <2>1. PICK s \in Seq(Texts) : s = act[a].todo
    BY <1>3
  <2>2. s # << >>
    BY <1>2, <2>1
  <2>3. /\ Head(s) = s[1] /\ Head(s) \in Texts /\ Tail(s) \in Seq(Texts)
        /\ Len(Tail(s)) = Len(s) - 1 /\ Len(s) \in Nat /\ Len(s) >= 1
    BY <2>2, ItemsOfTail
  <2>4. Items(s) = {Head(s)} \cup Items(Tail(s))
    BY <2>2, ItemsOfTail
  <2>5. \A i \in DOMAIN Tail(s) : i + 1 \in DOMAIN s /\ Tail(s)[i] = s[i + 1]
    BY <2>2, ItemsOfTail
  <2>6. Tail(s) = << >> <=> Len(s) = 1
    BY <2>2, ItemsOfTail
  <2> QED BY <2>1, <2>3, <2>4, <2>5, <2>6
<1>5. /\ more \in Seq(Texts)
      /\ Items(more) \subseteq Items(o.pending) \cup {part}
      /\ Items(o.pending) \subseteq Items(more)
      /\ part \in Items(more) \/ (<<t, part>> \in rows /\ more = o.pending)
      /\ Len(more) \in Nat /\ Len(o.pending) \in Nat
      /\ \A i \in DOMAIN more : (i \in DOMAIN o.pending /\ more[i] = o.pending[i])
                                \/ (i = Len(more) /\ <<t, part>> \notin rows)
      /\ <<t, part>> \notin rows => more[Len(more)] = part
  <2>1. PICK s \in Seq(Texts) : s = act[a].pending
    BY <1>3
  <2>2. CASE <<t, part>> \in rows
    <3>1. more = s
      BY <2>1, <2>2
    <3>2. Len(s) \in Nat
      OBVIOUS
    <3> QED BY <2>1, <2>2, <3>1, <3>2
  <2>3. CASE <<t, part>> \notin rows
    <3>1. more = s \o <<part>>
      BY <2>1, <2>3
    <3>2. /\ s \o <<part>> \in Seq(Texts) /\ Len(s \o <<part>>) = Len(s) + 1
          /\ Items(s \o <<part>>) = Items(s) \cup {part}
          /\ (s \o <<part>>)[Len(s) + 1] = part
          /\ \A i \in DOMAIN (s \o <<part>>) :
               i = Len(s) + 1 \/ (i \in DOMAIN s /\ (s \o <<part>>)[i] = s[i])
      BY <1>4, ItemsAppended
    <3>3. Len(s) \in Nat /\ Len(more) \in Nat
      BY <3>1, <3>2
    <3> QED BY <2>1, <2>3, <3>1, <3>2, <3>3
  <2> QED BY <2>2, <2>3
<1>6. /\ r.pc = (IF rest = << >> THEN "embed" ELSE "check") /\ r.todo = rest /\ r.pending = more
      /\ r.left = o.left /\ r.attempt = o.attempt
      /\ r \in ActorRecord
  <2>1. r = [pc |-> IF rest = << >> THEN "embed" ELSE "check", left |-> o.left, todo |-> rest,
             pending |-> more, attempt |-> o.attempt]
    BY <1>1 DEF ActorRecord
  <2>2. r.pc \in {"idle", "next", "check", "embed", "persist", "write"}
    BY <2>1
  <2> QED BY <1>3, <1>4, <1>5, <2>1, <2>2 DEF ActorRecord
<1>7. CASE rest # << >>
  <2>1. rest[Len(rest)] = LastPart(t) /\ EndsWell(rest, t)
    <3>1. rest \in Seq(Texts) /\ rest # << >> /\ Len(rest) \in DOMAIN rest
      BY <1>4, <1>7, ItemsOfTail
    <3>2. rest[Len(rest)] = o.todo[Len(rest) + 1] /\ Len(rest) + 1 = Len(o.todo)
      BY <1>4, <3>1
    <3>3. ASSUME NEW i \in DOMAIN rest, rest[i] = LastPart(t)
          PROVE  i = Len(rest)
      <4>1. i \in Int
        BY <1>4, <3>3
      <4>2. i + 1 = Len(o.todo)
        BY <1>2, <1>4, <3>3 DEF EndsWell
      <4> QED BY <1>4, <4>1, <4>2
    <3> QED BY <1>2, <3>2, <3>3 DEF EndsWell
  <2>2. part # LastPart(t)
    <3>1. 1 \in DOMAIN o.todo
      BY <1>3, <1>4
    <3>2. Len(o.todo) # 1
      BY <1>4, <1>7
    <3> QED BY <1>2, <1>4, <3>1, <3>2 DEF EndsWell
  <2>3. LastPart(t) \notin Items(more)
    BY <1>2, <1>5, <2>2
  <2>4. Items(r.todo) \cup Items(r.pending) \subseteq Items(Parts[t])
    BY <1>2, <1>4, <1>5, <1>6
  <2>5. Working(r)
    BY <1>2, <1>6, <1>7, <2>1, <2>3, <2>4 DEF Working, OnPcs
  <2>6. Backed(r, rows)
    <3>1. Ahead(r) = Items(rest) \cup Items(more) /\ Ahead(o) = Items(o.todo) \cup Items(o.pending)
      BY <1>6, <1>7 DEF Ahead
    <3>2. \A x \in Items(Parts[t]) : <<t, x>> \in rows \/ x \in Ahead(o)
      BY <1>1 DEF Backed, OnPcs
    <3> QED BY <1>4, <1>5, <1>6, <3>1, <3>2 DEF Backed
  <2>7. ASSUME t \notin excused, more # << >>
        PROVE  <<t, LastPart(t)>> \notin rows
    <3>1. CASE o.pending # << >>
      <4>1. Sole(o, rows)
        BY <2>7 DEF EmbeddingInv, Unshared, OnPcs
      <4> QED BY <3>1, <4>1 DEF Sole
    <3>2. CASE o.pending = << >>
      <4>1. <<t, part>> \notin rows
        BY <2>7, <3>2
      <4>2. part \in Items(Parts[t])
        BY <1>2, <1>4
      <4> QED BY <1>1, <4>1, <4>2 DEF EmbeddingInv, RowsInOrder
    <3> QED BY <3>1, <3>2
  <2>8. Head(r.left) \notin excused => Sole(r, rows)
    BY <1>6, <1>7, <2>7 DEF Sole
  <2> QED BY <2>5, <2>6, <2>8
<1>8. CASE rest = << >>
  <2>1. part = LastPart(t) /\ Items(rest) = {}
    BY <1>2, <1>4, <1>8, NoItems
  <2>3. EndsWell(more, t)
    <3>1. ASSUME NEW i \in DOMAIN more, more[i] = LastPart(t)
          PROVE  i = Len(more)
      <4>1. CASE i \in DOMAIN o.pending /\ more[i] = o.pending[i]
        <5>1. o.pending[i] \in Items(o.pending)
          BY <4>1 DEF Items
        <5> QED BY <1>2, <3>1, <4>1, <5>1
      <4> QED BY <1>5, <3>1, <4>1
    <3> QED BY <3>1 DEF EndsWell
  <2>4. Items(r.todo) \cup Items(r.pending) \subseteq Items(Parts[t])
    BY <1>2, <1>4, <1>5, <1>6
  <2>e. r.pc = "embed" /\ r.todo = << >> /\ r.pending = more /\ more # << >> /\ r.left = o.left
    BY <1>6, <1>8
  <2>5. Working(r)
    <3>1. r \in ActorRecord /\ r.left # << >>
      BY <1>2, <1>6
    <3> QED BY <2>3, <2>4, <2>e, <3>1 DEF Working, OnPcs
  <2>6. Backed(r, rows)
    <3>1. Ahead(r) = Items(more) /\ Ahead(o) = Items(o.todo) \cup Items(o.pending)
      <4>1. Ahead(r) = Items(more)
        BY <2>e DEF Ahead
      <4>2. Ahead(o) = Items(o.todo) \cup Items(o.pending)
        BY DEF Ahead
      <4> QED BY <4>1, <4>2
    <3>2. \A x \in Items(Parts[t]) : <<t, x>> \in rows \/ x \in Ahead(o)
      BY <1>1 DEF Backed, OnPcs
    <3>3. \A x \in Ahead(o) : x = part \/ x \in Items(more)
      BY <1>4, <1>5, <2>1, <3>1
    <3>4. <<t, part>> \in rows \/ part \in Ahead(r)
      BY <1>5, <3>1
    <3>5. \A x \in Items(Parts[t]) : <<t, x>> \in rows \/ x \in Ahead(r)
      BY <3>1, <3>2, <3>3, <3>4
    <3> QED BY <1>6, <3>5 DEF Backed
  <2>7. ASSUME t \notin excused
        PROVE  more[Len(more)] = LastPart(t)
    <3>1. CASE <<t, part>> \in rows
      <4>1. Sole(o, rows)
        BY <2>7 DEF EmbeddingInv, Unshared, OnPcs
      <4>2. o.pending # << >>
        BY <1>8, <3>1
      <4> QED BY <2>1, <3>1, <4>1, <4>2 DEF Sole
    <3>2. CASE <<t, part>> \notin rows
      BY <1>5, <2>1, <3>2
    <3> QED BY <3>1, <3>2
  <2>8. Head(r.left) \notin excused => Sole(r, rows)
    BY <1>6, <1>8, <2>7 DEF Sole
  <2> QED BY <2>5, <2>6, <2>8
<1> QED BY <1>7, <1>8

\* A target was read, for all its texts or for those to look up.
AfterRead(o, texts, r) ==
  \/ r = [o EXCEPT !.pc = "embed", !.pending = texts]
  \/ r = [o EXCEPT !.pc = "check", !.todo = texts]

\* Reading a target begins with what it has to embed.
LEMMA RecordRead ==
  ASSUME NEW o \in ActorRecord, o.left # << >>, o.todo = << >>, o.pending = << >>,
         NEW texts \in Seq(Texts), texts = Parts[Head(o.left)], texts # << >>,
         EndsWell(texts, Head(o.left)), texts[Len(texts)] = LastPart(Head(o.left)),
         NEW table, NEW r, AfterRead(o, texts, r)
  PROVE  Working(r) /\ Backed(r, table) /\ Sole(r, table) /\ r.left = o.left
<1>1. CASE r = [o EXCEPT !.pc = "embed", !.pending = texts]
  <2>1. r = [pc |-> "embed", left |-> o.left, todo |-> << >>, pending |-> texts, attempt |-> o.attempt]
    BY <1>1 DEF ActorRecord
  <2>2. r \in ActorRecord
    BY <2>1 DEF ActorRecord
  <2>3. Items(r.todo) \cup Items(r.pending) \subseteq Items(Parts[Head(r.left)])
    BY <2>1, NoItems
  <2>4. Working(r)
    BY <2>1, <2>2, <2>3 DEF Working, OnPcs
  <2>5. Backed(r, table)
    BY <2>1 DEF Backed, Ahead
  <2>6. Sole(r, table)
    BY <2>1 DEF Sole
  <2> QED BY <2>1, <2>4, <2>5, <2>6
<1>2. CASE r = [o EXCEPT !.pc = "check", !.todo = texts]
  <2>1. r = [pc |-> "check", left |-> o.left, todo |-> texts, pending |-> << >>, attempt |-> o.attempt]
    BY <1>2 DEF ActorRecord
  <2>2. r \in ActorRecord
    BY <2>1 DEF ActorRecord
  <2>3. Items(r.todo) \cup Items(r.pending) \subseteq Items(Parts[Head(r.left)])
    BY <2>1, NoItems
  <2>4. Working(r)
    BY <2>1, <2>2, <2>3, NoItems DEF Working, OnPcs
  <2>5. Backed(r, table)
    BY <2>1 DEF Backed, Ahead
  <2>6. Sole(r, table)
    BY <2>1 DEF Sole
  <2> QED BY <2>1, <2>4, <2>5, <2>6
<1> QED BY <1>1, <1>2 DEF AfterRead

LEMMA ReadWorks ==
  ASSUME EmbeddingInv, NEW a \in Actors,
         act[a].pc = "next", act[a].left # << >>, NEW t, t = Head(act[a].left), NEW r,
         AfterRead(act[a], Parts[t], r)
  PROVE  Working(r) /\ Backed(r, rows) /\ Sole(r, rows) /\ r.left = act[a].left
<1>1. act[a] \in ActorRecord /\ Working(act[a]) /\ t \in Targets
  BY AtTarget
<1>2. act[a].todo = << >> /\ act[a].pending = << >>
  BY <1>1 DEF Working
<1>3. PICK texts \in Seq(Texts) :
        /\ texts = Parts[t] /\ texts # << >> /\ EndsWell(texts, t) /\ texts[Len(texts)] = LastPart(t)
  BY <1>1, EmbeddingConstants DEF LastPart
<1>4. PICK o \in ActorRecord : o = act[a]
  BY <1>1
<1>5. AfterRead(o, texts, r)
  BY <1>3, <1>4
<1>6. /\ o.left # << >> /\ o.todo = << >> /\ o.pending = << >> /\ texts = Parts[Head(o.left)]
      /\ EndsWell(texts, Head(o.left)) /\ texts[Len(texts)] = LastPart(Head(o.left))
  BY <1>2, <1>3, <1>4
<1>7. Working(r) /\ Backed(r, rows) /\ Sole(r, rows) /\ r.left = o.left
  BY <1>3, <1>5, <1>6, RecordRead
<1> QED BY <1>4, <1>7

\* The texts to embed are those to record.
LEMMA EmbedWorks ==
  ASSUME EmbeddingInv, NEW a \in Actors, act[a].pc = "embed",
         NEW r, r = [act[a] EXCEPT !.pc = "persist", !.todo = act[a].pending]
  PROVE  /\ Working(r) /\ Backed(r, rows)
         /\ Sole(act[a], rows) => Sole(r, rows)
         /\ r.left = act[a].left /\ r.pc = "persist"
<1> DEFINE o == act[a]
<1>1. o \in ActorRecord /\ Working(o) /\ Backed(o, rows)
  BY AtTarget
<1>2. r = [pc |-> "persist", left |-> o.left, todo |-> o.pending, pending |-> o.pending, attempt |-> o.attempt]
  BY <1>1 DEF ActorRecord
<1>3. r \in ActorRecord
  BY <1>1, <1>2 DEF ActorRecord
<1>4. Working(r)
  BY <1>1, <1>2, <1>3 DEF Working, OnPcs
<1>5. Backed(r, rows)
  BY <1>1, <1>2 DEF Backed, Ahead, OnPcs
<1> QED BY <1>2, <1>4, <1>5 DEF Sole

\* A recorded text is no longer ahead.
LEMMA PersistWorks ==
  ASSUME EmbeddingInv, NEW a \in Actors, act[a].pc = "persist",
         NEW r, r = [act[a] EXCEPT !.todo = Tail(act[a].todo),
                                   !.pc = IF Tail(act[a].todo) = << >> THEN "write" ELSE "persist"],
         rows' = rows \cup {<<Head(act[a].left), Head(act[a].todo)>>}
  PROVE  /\ Working(r) /\ Backed(r, rows')
         /\ Sole(act[a], rows) => Sole(r, rows')
         /\ r.left = act[a].left /\ r.pc \in {"persist", "write"}
         /\ RowsInOrder'
         /\ Head(act[a].todo) = LastPart(Head(act[a].left)) => r.pc = "write"
<1> DEFINE o == act[a]
           t == Head(o.left)
           part == Head(o.todo)
           rest == Tail(o.todo)
<1>1. o \in ActorRecord /\ Working(o) /\ Backed(o, rows) /\ t \in Targets
  BY AtTarget DEF OnPcs
<1>2. /\ o.left # << >> /\ o.todo # << >>
      /\ Items(o.todo) \cup Items(o.pending) \subseteq Items(Parts[t])
      /\ o.pending # << >> /\ EndsWell(o.pending, t) /\ EndsWell(o.todo, t)
  BY <1>1 DEF Working, OnPcs
<1>3. /\ o.todo \in Seq(Texts) /\ o.pending \in Seq(Texts)
      /\ o.left \in Seq(Targets) /\ o.attempt \in 0 .. MaxRetries
  BY <1>1 DEF ActorRecord
<1>4. /\ part = o.todo[1] /\ rest \in Seq(Texts)
      /\ Len(rest) = Len(o.todo) - 1 /\ Len(o.todo) \in Nat /\ Len(o.todo) >= 1
      /\ Items(o.todo) = {part} \cup Items(rest)
      /\ \A i \in DOMAIN rest : i + 1 \in DOMAIN o.todo /\ rest[i] = o.todo[i + 1]
      /\ rest = << >> <=> Len(o.todo) = 1
  <2>1. PICK s \in Seq(Texts) : s = act[a].todo
    BY <1>3
  <2>2. s # << >>
    BY <1>2, <2>1
  <2>3. /\ Head(s) = s[1] /\ Tail(s) \in Seq(Texts)
        /\ Len(Tail(s)) = Len(s) - 1 /\ Len(s) \in Nat /\ Len(s) >= 1
    BY <2>2, ItemsOfTail
  <2>4. Items(s) = {Head(s)} \cup Items(Tail(s))
    BY <2>2, ItemsOfTail
  <2>5. \A i \in DOMAIN Tail(s) : i + 1 \in DOMAIN s /\ Tail(s)[i] = s[i + 1]
    BY <2>2, ItemsOfTail
  <2>6. Tail(s) = << >> <=> Len(s) = 1
    BY <2>2, ItemsOfTail
  <2> QED BY <2>1, <2>3, <2>4, <2>5, <2>6
<1>5. /\ r.pc = (IF rest = << >> THEN "write" ELSE "persist") /\ r.todo = rest
      /\ r.pending = o.pending /\ r.left = o.left
      /\ r \in ActorRecord
  <2>1. r = [pc |-> IF rest = << >> THEN "write" ELSE "persist", left |-> o.left, todo |-> rest,
             pending |-> o.pending, attempt |-> o.attempt]
    BY <1>1 DEF ActorRecord
  <2>2. r.pc \in {"idle", "next", "check", "embed", "persist", "write"}
    BY <2>1
  <2> QED BY <1>3, <1>4, <2>1, <2>2 DEF ActorRecord
<1>6. EndsWell(rest, t)
  <2>1. ASSUME NEW i \in DOMAIN rest, rest[i] = LastPart(t)
        PROVE  i = Len(rest)
    <3>1. i \in Int
      BY <1>4, <2>1
    <3>2. i + 1 = Len(o.todo)
      BY <1>2, <1>4, <2>1 DEF EndsWell
    <3> QED BY <1>4, <3>1, <3>2
  <2> QED BY <2>1 DEF EndsWell
<1>7. Working(r)
  <2>1. Items(r.todo) \cup Items(r.pending) \subseteq Items(Parts[t])
    BY <1>2, <1>4, <1>5
  <2> QED BY <1>2, <1>5, <1>6, <2>1 DEF Working, OnPcs
<1>8. \A x \in Items(Parts[t]) : <<t, x>> \in rows' \/ x \in Items(rest)
  <2>1. \A x \in Items(Parts[t]) : <<t, x>> \in rows \/ x \in Items(o.todo)
    BY <1>1 DEF Backed, Ahead, OnPcs
  <2> QED BY <1>4, <2>1
<1>9. Backed(r, rows')
  <2>1. Items(rest) \subseteq Ahead(r)
    BY <1>5, NoItems DEF Ahead
  <2> QED BY <1>5, <1>8, <2>1 DEF Backed
<1>10. Sole(o, rows) => Sole(r, rows')
  BY <1>5 DEF Sole
<1>11. part = LastPart(t) => rest = << >>
  <2>1. 1 \in DOMAIN o.todo
    BY <1>3, <1>4
  <2> QED BY <1>2, <1>4, <2>1 DEF EndsWell
<1>12. ASSUME NEW u \in Targets, <<u, LastPart(u)>> \in rows', NEW x \in Items(Parts[u])
       PROVE  <<u, x>> \in rows'
  <2>1. CASE <<u, LastPart(u)>> \in rows
    BY <1>12, <2>1 DEF EmbeddingInv, RowsInOrder
  <2>2. CASE <<u, LastPart(u)>> \notin rows
    <3>1. u = t /\ part = LastPart(t)
      BY <1>12, <2>2
    <3> QED BY <1>8, <1>11, <1>12, <3>1, NoItems
  <2> QED BY <2>1, <2>2
<1>13. RowsInOrder'
  BY <1>12 DEF RowsInOrder, Targets, LastPart
<1> QED BY <1>5, <1>7, <1>9, <1>10, <1>11, <1>13

\* Waiting for the indexer.
LEMMA RetryWorks ==
  ASSUME EmbeddingInv, NEW a \in Actors, act[a].pc = "write",
         act[a].attempt < MaxRetries,
         NEW r, r = [act[a] EXCEPT !.attempt = @ + 1]
  PROVE  /\ Working(r) /\ Backed(r, rows)
         /\ Sole(act[a], rows) => Sole(r, rows)
         /\ r.left = act[a].left /\ r.pc = "write"
<1> DEFINE o == act[a]
<1>1. o \in ActorRecord /\ Working(o) /\ Backed(o, rows)
  BY AtTarget
<1>2. r = [pc |-> "write", left |-> o.left, todo |-> o.todo, pending |-> o.pending, attempt |-> o.attempt + 1]
  BY <1>1 DEF ActorRecord
<1>3. o.attempt + 1 \in 0 .. MaxRetries
  BY <1>1, EmbeddingConstants DEF ActorRecord
<1>4. r \in ActorRecord
  BY <1>1, <1>2, <1>3 DEF ActorRecord
<1>5. Working(r)
  BY <1>1, <1>2, <1>4 DEF Working, OnPcs
<1>6. Backed(r, rows)
  BY <1>1, <1>2 DEF Backed, Ahead, OnPcs
<1> QED BY <1>2, <1>5, <1>6 DEF Sole

\* The consumer's part of the state stays what it is.
LEMMA EmbeddingConsumer ==
  ASSUME ConsumerTypeOK,
         \/ UNCHANGED <<high, malformed, committed, position, last>>
         \/ \E p \in Partitions :
              AppendMessage(p, FALSE) /\ UNCHANGED <<committed, position, last>>
         \/ \E p \in Partitions : Receive(p) /\ UNCHANGED <<high, malformed, committed>>
         \/ CommitLast /\ UNCHANGED <<high, malformed, position, last>>
         \/ Resume /\ UNCHANGED <<high, malformed, committed>>
  PROVE  ConsumerTypeOK'
<1>1. /\ high \in [Partitions -> 0 .. MaxOffset] /\ malformed \subseteq Messages
      /\ committed \in [Partitions -> 0 .. MaxOffset] /\ position \in [Partitions -> 0 .. MaxOffset]
      /\ last \in Messages \cup {NoMessage}
  BY DEF ConsumerTypeOK, Messages, Offsets
<1>2. CASE UNCHANGED <<high, malformed, committed, position, last>>
  BY <1>2 DEF ConsumerTypeOK, Messages, Offsets
<1>3. ASSUME NEW p \in Partitions, AppendMessage(p, FALSE),
             UNCHANGED <<committed, position, last>>
      PROVE  ConsumerTypeOK'
  <2>1. high' \in [Partitions -> 0 .. MaxOffset] /\ malformed' = malformed
    BY <1>1, <1>3 DEF AppendMessage
  <2> QED BY <1>1, <1>3, <2>1
          DEF ConsumerTypeOK, Messages, Offsets
<1>4. ASSUME NEW p \in Partitions, Receive(p), UNCHANGED <<high, malformed, committed>>
      PROVE  ConsumerTypeOK'
  <2>1. position[p] < high[p] /\ position' = [position EXCEPT ![p] = @ + 1] /\ last' = <<p, position[p]>>
    BY <1>4 DEF Receive, Readable, Advance, Upcoming
  <2>2. position' \in [Partitions -> 0 .. MaxOffset] /\ position[p] \in 0 .. (MaxOffset - 1)
    BY <1>1, <2>1
  <2>3. last' \in Messages
    BY <2>1, <2>2 DEF Messages, Offsets
  <2> QED BY <1>1, <1>4, <2>2, <2>3
          DEF ConsumerTypeOK, Messages, Offsets
<1>5. ASSUME CommitLast, UNCHANGED <<high, malformed, position, last>>
      PROVE  ConsumerTypeOK'
  <2>1. committed' \in [Partitions -> 0 .. MaxOffset]
    <3>1. CASE last = NoMessage
      BY <1>1, <1>5, <3>1 DEF CommitLast
    <3>2. CASE last # NoMessage
      <4>1. last[1] \in Partitions /\ last[2] + 1 \in 0 .. MaxOffset
        BY <1>1, <3>2 DEF Messages, Offsets
      <4> QED BY <1>1, <1>5, <3>2, <4>1 DEF CommitLast
    <3> QED BY <3>1, <3>2
  <2> QED BY <1>1, <1>5, <2>1
          DEF ConsumerTypeOK, Messages, Offsets
<1>6. ASSUME Resume, UNCHANGED <<high, malformed, committed>>
      PROVE  ConsumerTypeOK'
  BY <1>1, <1>6 DEF Resume, ConsumerTypeOK, Messages, Offsets
<1> QED BY <1>2, <1>3, <1>4, <1>5, <1>6

LEMMA FiniteTargets == IsFiniteSet(Targets)
BY EmbeddingAssumption

\* InOrder lists all of a finite set.
LEMMA InOrderLists ==
  ASSUME NEW S, IsFiniteSet(S)
  PROVE  InOrder(S) \in Seq(S) /\ Items(InOrder(S)) = S
<1> DEFINE n == Cardinality(S)
<1>2. n \in Nat /\ ExistsBijection(1 .. n, S)
  BY FS_CardinalityType
<1>3. PICK f \in [1 .. n -> S] : \A t \in S : \E i \in 1 .. n : f[i] = t
  BY <1>2 DEF ExistsBijection, Bijection, Surjection, Injection
<1>4. PICK q : q = InOrder(S)
  OBVIOUS
<1>5. q \in [1 .. n -> S] /\ \A t \in S : \E i \in DOMAIN q : q[i] = t
  <2>1. f \in [1 .. n -> S] /\ \A t \in S : \E i \in DOMAIN f : f[i] = t
    BY <1>3
  <2> QED BY <1>4, <2>1 DEF InOrder
<1>6. q \in Seq(S)
  BY <1>2, <1>5
<1>7. Items(q) = S
  BY <1>5 DEF Items
<1> QED BY <1>4, <1>6, <1>7

\* The documents a rebuild has to come to stay ahead of it.
LEMMA RepairGoesOn ==
  ASSUME EmbeddingInv,
         act'["rebuild"].pc # "check",
         act'["rebuild"].pc # "idle" =>
           /\ act["rebuild"].pc # "idle" /\ run'.phase = run.phase
           /\ run.failed => run'.failed
           /\ \A d \in indexed' \ run'.fresh :
                /\ d \in indexed \ run.fresh
                /\ vector[d] # None => vector'[d] # None
                /\ d \in Items(act["rebuild"].left)
                     => d \in Items(act'["rebuild"].left) \/ vector'[d] # None \/ run'.failed
  PROVE  Repairing'
BY DEF EmbeddingInv, Repairing

\* What an actor does leaves the tables alone.
LEMMA TablesStay ==
  ASSUME EmbeddingInv, ConsumerTypeOK', UNCHANGED <<duplicate, merged, indexed, prepared, vector>>,
         DOMAIN act' = Actors,
         run' \in [phase : {"off", "documents", "entities", "done"}, failed : BOOLEAN, fresh : SUBSET Docs]
  PROVE  EmbeddingTyped'
BY DEF EmbeddingInv, EmbeddingTyped, Targets, Actors

\* Nothing the worker does takes a vector away from a document.
LEMMA RebuildStays ==
  ASSUME EmbeddingInv, act'["rebuild"] = act["rebuild"], UNCHANGED <<run, indexed>>,
         \A d \in Docs : vector[d] # None => vector'[d] # None
  PROVE  Repairing'
<1>1. indexed \subseteq Docs /\ act["rebuild"].pc # "check"
  BY DEF EmbeddingInv, EmbeddingTyped, Repairing
<1> QED BY <1>1, RepairGoesOn

LEMMA TwoActors ==
  Actors = {"worker", "rebuild"}
BY DEF Actors

\* A step of an actor on its target that writes nothing.
LEMMA QuietActor ==
  ASSUME EmbeddingInv, NEW a \in Actors, NEW r,
         act' = [act EXCEPT ![a] = r],
         UNCHANGED <<high, malformed, committed, position, last, duplicate, merged, rows, indexed,
                     vector, prepared, run>>,
         excused \subseteq excused', Working(r), Backed(r, rows),
         r.pc \in OnPcs => \/ act[a].pc \in OnPcs /\ Head(r.left) = Head(act[a].left)
                           \/ \A b \in Actors \ {a} :
                                act[b].pc \in OnPcs /\ Head(act[b].left) = Head(r.left)
                                  => Head(r.left) \in excused',
         r.pc \in OnPcs /\ Head(r.left) \notin excused' => Sole(r, rows),
         act[a].pc = "write" => \/ r.pc = "write" /\ Head(r.left) = Head(act[a].left)
                                \/ Head(act[a].left) \in excused',
         a = "rebuild" => /\ r.pc # "check" /\ act[a].pc # "idle"
                          /\ \A d \in indexed : d \in Items(act[a].left) => d \in Items(r.left)
  PROVE  EmbeddingInv'
<1>1. /\ AllAtWork' /\ NotTogether' /\ Unshared' /\ DOMAIN act' = Actors
      /\ LastIsShown' /\ RowsInOrder' /\ Grounded'
  BY WritesNothing
<1>2. EmbeddingTyped'
  <2>1. ConsumerTypeOK'
    BY EmbeddingConsumer DEF EmbeddingInv, EmbeddingTyped
  <2> QED BY <1>1, <2>1, TablesStay DEF EmbeddingInv, EmbeddingTyped
<1>3. DOMAIN act = Actors
  BY DEF EmbeddingInv, EmbeddingTyped
<1>4. Repairing'
  <2>1. CASE a = "worker"
    <3>1. act'["rebuild"] = act["rebuild"]
      BY <1>3, <2>1, TwoActors
    <3> QED BY <3>1, RebuildStays
  <2>2. CASE a = "rebuild"
    <3>1. act'["rebuild"] = r
      BY <1>3, <2>2, TwoActors
    <3> QED BY <2>2, <3>1, RepairGoesOn
  <2> QED BY <2>1, <2>2, TwoActors
<1> QED BY <1>1, <1>2, <1>4 DEF EmbeddingInv

LEMMA ReadInv ==
  ASSUME EmbeddingInv, NEW a \in Actors, Read(a)
  PROVE  EmbeddingInv'
<1> DEFINE t == Head(act[a].left)
<1>1. /\ act[a].pc = "next" /\ act[a].left # << >>
      /\ UNCHANGED <<high, malformed, committed, position, last, duplicate, merged, rows, indexed,
                     vector, prepared, run>>
  BY DEF Read, consumerVars, tables, search
<1>2. /\ Items(act[a].left) = {t} \cup Items(Tail(act[a].left)) /\ t \in Targets
      /\ act[a].pc \notin OnPcs
  BY <1>1, AtTarget DEF OnPcs
<1>3. CASE NextTarget(a) /\ excused' = excused
           /\ ~(a = "rebuild" /\ t \in Docs)
  <2>1. PICK r \in ActorRecord :
           /\ act' = [act EXCEPT ![a] = r]
           /\ r.pc = "next" /\ r.left = Tail(act[a].left) /\ r.todo = << >> /\ r.pending = << >>
    BY <1>1, <1>3, GoesOn
  <2>2. Working(r) /\ r.pc \notin OnPcs /\ Backed(r, rows)
    BY <2>1, BetweenTargets
  <2>3. indexed \subseteq Docs
    BY DEF EmbeddingInv, EmbeddingTyped
  <2>4. a = "rebuild" => \A d \in indexed : d \in Items(act[a].left) => d \in Items(r.left)
    BY <1>2, <1>3, <2>1, <2>3
  <2> QED BY <1>1, <1>3, <2>1, <2>2, <2>4, QuietActor
<1>4. ASSUME NEW r, act' = [act EXCEPT ![a] = r], AfterRead(act[a], Parts[t], r),
             a = "rebuild" => r.pc # "check",
             excused' = IF Alone(a, t) THEN excused ELSE excused \cup {t}
      PROVE  EmbeddingInv'
  <2>1. Working(r) /\ Backed(r, rows) /\ Sole(r, rows) /\ r.left = act[a].left
    BY <1>1, <1>4, ReadWorks
  <2>2. \A b \in Actors \ {a} : act[b].pc \in OnPcs /\ Head(act[b].left) = t => t \in excused'
    BY <1>4 DEF Alone, OnTarget, Target, OnPcs
  <2>3. excused \subseteq excused'
    BY <1>4
  <2> QED BY <1>1, <1>4, <2>1, <2>2, <2>3, QuietActor
<1>5. CASE /\ act' = [act EXCEPT ![a] = IF a = "rebuild"
                                          THEN [@ EXCEPT !.pc = "embed", !.pending = Parts[t]]
                                          ELSE [@ EXCEPT !.pc = "check", !.todo = Parts[t]]]
           /\ excused' = IF Alone(a, t) THEN excused ELSE excused \cup {t}
  <2>1. PICK r : r = IF a = "rebuild" THEN [act[a] EXCEPT !.pc = "embed", !.pending = Parts[t]]
                     ELSE [act[a] EXCEPT !.pc = "check", !.todo = Parts[t]]
    OBVIOUS
  <2>2. act' = [act EXCEPT ![a] = r]
    BY <1>5, <2>1
  <2>3. AfterRead(act[a], Parts[t], r)
    BY <2>1 DEF AfterRead
  <2>4. a = "rebuild" => r.pc # "check"
    <3>1. act[a] \in ActorRecord
      BY AtTarget
    <3> QED BY <2>1, <3>1 DEF ActorRecord
  <2> QED BY <1>4, <1>5, <2>2, <2>3, <2>4
<1> QED BY <1>3, <1>5 DEF Read, Target

LEMMA CheckInv ==
  ASSUME EmbeddingInv, NEW a \in Actors, Check(a)
  PROVE  EmbeddingInv'
<1>1. /\ act[a].pc = "check" /\ act[a].pc \in OnPcs /\ act[a].pc # "write"
      /\ UNCHANGED <<high, malformed, committed, position, last, duplicate, merged, rows, indexed,
                     vector, prepared, run, excused>>
  BY DEF Check, consumerVars, tables, search, OnPcs
<1>2. a # "rebuild"
  BY <1>1 DEF EmbeddingInv, Repairing
<1>3. PICK rest : rest = Tail(act[a].todo)
  OBVIOUS
<1>4. PICK more : more = IF <<Head(act[a].left), Head(act[a].todo)>> \in rows THEN act[a].pending
                         ELSE act[a].pending \o <<Head(act[a].todo)>>
  OBVIOUS
<1>5. CASE NextTarget(a)
  <2>1. PICK r \in ActorRecord :
           /\ act' = [act EXCEPT ![a] = r]
           /\ r.pc = "next" /\ r.left = Tail(act[a].left) /\ r.todo = << >> /\ r.pending = << >>
    BY <1>1, <1>5, GoesOn
  <2>2. Working(r) /\ r.pc \notin OnPcs /\ Backed(r, rows)
    BY <2>1, BetweenTargets
  <2> QED BY <1>1, <1>2, <2>1, <2>2, QuietActor
<1>6. CASE /\ rest # << >> \/ more # << >>
           /\ act' = [act EXCEPT ![a] = [@ EXCEPT !.pc = IF rest = << >> THEN "embed" ELSE "check",
                                                  !.todo = rest, !.pending = more]]
  <2>1. PICK r : r = [act[a] EXCEPT !.pc = IF rest = << >> THEN "embed" ELSE "check",
                                    !.todo = rest, !.pending = more]
    OBVIOUS
  <2>2. /\ Working(r) /\ Backed(r, rows)
        /\ Head(r.left) \notin excused => Sole(r, rows)
    BY <1>1, <1>3, <1>4, <1>6, <2>1, CheckWorks
  <2>3. act' = [act EXCEPT ![a] = r]
    BY <1>6, <2>1
  <2>4. r.left = act[a].left
    <3>1. act[a] \in ActorRecord
      BY AtTarget
    <3> QED BY <2>1, <3>1 DEF ActorRecord
  <2> QED BY <1>1, <1>2, <2>2, <2>3, <2>4, QuietActor
<1> QED BY <1>3, <1>4, <1>5, <1>6 DEF Check, Target

LEMMA EmbedInv ==
  ASSUME EmbeddingInv, NEW a \in Actors, Embed(a)
  PROVE  EmbeddingInv'
<1>1. /\ act[a].pc = "embed" /\ act[a].pc \in OnPcs /\ act[a].pc # "write" /\ act[a].pc # "idle"
      /\ UNCHANGED <<high, malformed, committed, position, last, duplicate, merged, rows, indexed,
                     vector, prepared, run, excused>>
  BY DEF Embed, consumerVars, tables, search, OnPcs
<1>2. PICK r : r = [act[a] EXCEPT !.pc = "persist", !.todo = act[a].pending]
  OBVIOUS
<1>3. act' = [act EXCEPT ![a] = r]
  BY <1>2 DEF Embed
<1>4. /\ Working(r) /\ Backed(r, rows)
      /\ Sole(act[a], rows) => Sole(r, rows)
      /\ r.left = act[a].left /\ r.pc = "persist"
  BY <1>1, <1>2, EmbedWorks
<1>5. Head(act[a].left) \notin excused => Sole(act[a], rows)
  BY <1>1 DEF EmbeddingInv, Unshared
<1> QED BY <1>1, <1>3, <1>4, <1>5, QuietActor

LEMMA PersistInv ==
  ASSUME EmbeddingInv, NEW a \in Actors, Persist(a)
  PROVE  EmbeddingInv'
<1> DEFINE t == Head(act[a].left)
           part == Head(act[a].todo)
<1>1. /\ act[a].pc = "persist" /\ act[a].pc \in OnPcs
      /\ rows' = rows \cup {<<t, part>>}
      /\ UNCHANGED <<high, malformed, committed, position, last, duplicate, merged, indexed,
                     vector, prepared, run, excused>>
  BY DEF Persist, consumerVars, tables, search, OnPcs,
         Target
<1>2. PICK r : r = [act[a] EXCEPT !.todo = Tail(act[a].todo),
                                  !.pc = IF Tail(act[a].todo) = << >> THEN "write" ELSE "persist"]
  OBVIOUS
<1>3. act' = [act EXCEPT ![a] = r]
  BY <1>2 DEF Persist, AfterRow
<1>4. /\ Working(r) /\ Backed(r, rows')
      /\ Sole(act[a], rows) => Sole(r, rows')
      /\ r.left = act[a].left /\ r.pc \in {"persist", "write"}
      /\ RowsInOrder'
      /\ part = LastPart(t) => r.pc = "write"
  BY <1>1, <1>2, PersistWorks
<1>5. t \notin excused => Sole(act[a], rows)
  BY <1>1 DEF EmbeddingInv, Unshared
<1>6. AllAtWork' /\ NotTogether' /\ Unshared' /\ DOMAIN act' = Actors
  <2>1. rows \subseteq rows' /\ excused \ excused' = {}
    BY <1>1
  <2>2. r.pc \in OnPcs /\ Head(r.left) \notin excused' => Sole(r, rows')
    BY <1>1, <1>4, <1>5
  <2> QED BY <1>1, <1>3, <1>4, <2>1, <2>2, ActorMoves
<1>7. DOMAIN act = Actors /\ act'[a] = r /\ \A b \in Actors \ {a} : act'[b] = act[b]
  BY <1>3 DEF EmbeddingInv, EmbeddingTyped
<1>8. EmbeddingTyped'
  <2>1. ConsumerTypeOK'
    BY <1>1, EmbeddingConsumer DEF EmbeddingInv, EmbeddingTyped
  <2> QED BY <1>1, <1>6, <2>1, TablesStay DEF EmbeddingInv, EmbeddingTyped
<1>9. ASSUME NEW u \in Targets, u \notin excused, <<u, LastPart(u)>> \in rows'
      PROVE  \/ vector[u] = LastPart(u)
             \/ \E b \in Actors : act'[b].pc = "write" /\ Head(act'[b].left) = u
  <2>1. CASE <<u, LastPart(u)>> \in rows
    <3>1. \/ vector[u] = LastPart(u)
          \/ \E b \in Actors : act[b].pc = "write" /\ Head(act[b].left) = u
      BY <1>9, <2>1 DEF EmbeddingInv, LastIsShown
    <3>2. ASSUME NEW b \in Actors, act[b].pc = "write", Head(act[b].left) = u
          PROVE  act'[b] = act[b]
      BY <1>1, <1>7, <3>2
    <3> QED BY <3>1, <3>2
  <2>2. CASE <<u, LastPart(u)>> \notin rows
    <3>1. u = t /\ part = LastPart(t)
      BY <1>1, <1>9, <2>2
    <3> QED BY <1>4, <1>7, <3>1
  <2> QED BY <2>1, <2>2
<1>10. LastIsShown'
  BY <1>1, <1>9 DEF LastIsShown, Actors, Targets, LastPart
<1>11. Grounded'
  BY <1>1 DEF EmbeddingInv, Grounded, Targets
<1>12. Repairing'
  <2>1. CASE a = "worker"
    <3>1. act'["rebuild"] = act["rebuild"]
      BY <1>7, <2>1, TwoActors
    <3> QED BY <1>1, <3>1, RebuildStays
  <2>2. CASE a = "rebuild"
    <3>1. act'["rebuild"] = r
      BY <1>7, <2>2
    <3> QED BY <1>1, <1>4, <2>2, <3>1, RepairGoesOn
  <2> QED BY <2>1, <2>2, TwoActors
<1> QED BY <1>4, <1>6, <1>8, <1>10, <1>11, <1>12 DEF EmbeddingInv

LEMMA WriteInv ==
  ASSUME EmbeddingInv, NEW a \in Actors, Write(a)
  PROVE  EmbeddingInv'
<1>t. PICK t : t = Head(act[a].left)
  OBVIOUS
<1>x. PICK x : x = act[a].pending[Len(act[a].pending)]
  OBVIOUS
<1>1. /\ act[a].pc = "write" /\ act[a].pc \in OnPcs /\ t \in indexed \cup Ents
      /\ vector' = [vector EXCEPT ![t] = x]
      /\ excused' = IF Alone(a, t) /\ x = LastPart(t) THEN excused \ {t} ELSE excused
      /\ NextTarget(a)
      /\ UNCHANGED <<high, malformed, committed, position, last, duplicate, merged, rows, indexed,
                     prepared, run>>
  BY <1>t, <1>x DEF Write, consumerVars, tables, OnPcs, Target,
         Writable, Overlay, LastOf, LastPart
<1>2. PICK r \in ActorRecord :
           /\ act' = [act EXCEPT ![a] = r]
           /\ r.pc = "next" /\ r.left = Tail(act[a].left) /\ r.todo = << >> /\ r.pending = << >>
  BY <1>1, GoesOn
<1>3. Working(r) /\ r.pc \notin OnPcs /\ Backed(r, rows')
  BY <1>2, BetweenTargets
<1>4. DOMAIN act = Actors /\ act'[a] = r /\ \A b \in Actors \ {a} : act'[b] = act[b]
  BY <1>2 DEF EmbeddingInv, EmbeddingTyped
<1>5. /\ act[a] \in ActorRecord /\ Working(act[a]) /\ Backed(act[a], rows) /\ t \in Targets
      /\ Items(act[a].left) = {t} \cup Items(Tail(act[a].left))
  BY <1>t, <1>1, AtTarget
<1>6. x \in Items(Parts[t]) /\ <<t, x>> \in rows
  <2>1. /\ act[a].pending # << >> /\ Items(act[a].pending) \subseteq Items(Parts[t])
        /\ act[a].pending \in Seq(Texts)
    BY <1>t, <1>1, <1>5 DEF Working, ActorRecord
  <2>2. x \in Items(act[a].pending)
    BY <1>x, <2>1, ItemsOfTail
  <2>3. \A y \in Items(Parts[t]) : <<t, y>> \in rows
    BY <1>t, <1>1, <1>5 DEF Backed, Ahead
  <2> QED BY <2>1, <2>2, <2>3
<1>7. t \notin excused => x = LastPart(t)
  <2>1. t \notin excused => Sole(act[a], rows)
    BY <1>t, <1>1 DEF EmbeddingInv, Unshared
  <2> QED BY <1>t, <1>x, <1>1, <2>1 DEF Sole
<1>8. ASSUME NEW u \in excused \ excused', NEW b \in Actors, act'[b].pc \in OnPcs
      PROVE  Head(act'[b].left) # u
  <2>1. u = t /\ Alone(a, t)
    BY <1>1, <1>8
  <2>2. b # a /\ act'[b] = act[b]
    BY <1>3, <1>4, <1>8
  <2> QED BY <1>8, <2>1, <2>2 DEF Alone, OnTarget, Target, OnPcs
<1>9. AllAtWork' /\ NotTogether' /\ Unshared' /\ DOMAIN act' = Actors
  <2>1. rows \subseteq rows' /\ rows' = rows
    BY <1>1
  <2> QED BY <1>2, <1>3, <1>8, <2>1, ActorMoves
<1>10. /\ vector'[t] = x /\ \A u \in Targets \ {t} : vector'[u] = vector[u]
       /\ DOMAIN vector' = Targets /\ x # None
  <2>1. DOMAIN vector = Targets /\ None \notin Items(Parts[t])
    BY <1>5, EmbeddingConstants DEF EmbeddingInv, EmbeddingTyped
  <2> QED BY <1>1, <1>5, <1>6, <2>1
<1>11. EmbeddingTyped'
  <2>1. ConsumerTypeOK'
    BY <1>1, EmbeddingConsumer DEF EmbeddingInv, EmbeddingTyped
  <2>2. \A u \in Targets : vector'[u] = None \/ vector'[u] \in Items(Parts[u])
    BY <1>6, <1>10 DEF EmbeddingInv, EmbeddingTyped
  <2> QED BY <1>1, <1>9, <1>10, <2>1, <2>2
          DEF EmbeddingInv, EmbeddingTyped, Targets, Actors
<1>12. RowsInOrder'
  BY <1>1 DEF EmbeddingInv, RowsInOrder, Targets, LastPart
<1>13. ASSUME NEW u \in Targets, u \notin excused', <<u, LastPart(u)>> \in rows
       PROVE  \/ vector'[u] = LastPart(u)
              \/ \E b \in Actors : act'[b].pc = "write" /\ Head(act'[b].left) = u
  <2>1. CASE u = t
    <3>1. x = LastPart(t)
      BY <1>1, <1>7, <1>13, <2>1
    <3> QED BY <1>10, <2>1, <3>1
  <2>2. CASE u # t
    <3>1. u \notin excused
      BY <1>1, <1>13, <2>2
    <3>2. \/ vector[u] = LastPart(u)
          \/ \E b \in Actors : act[b].pc = "write" /\ Head(act[b].left) = u
      BY <1>13, <3>1 DEF EmbeddingInv, LastIsShown
    <3>3. ASSUME NEW b \in Actors, act[b].pc = "write", Head(act[b].left) = u
          PROVE  act'[b] = act[b]
      BY <1>t, <1>4, <2>2, <3>3
    <3> QED BY <1>10, <1>13, <2>2, <3>2, <3>3
  <2> QED BY <2>1, <2>2
<1>14. LastIsShown'
  BY <1>1, <1>13 DEF LastIsShown, Actors, Targets, LastPart
<1>15. Grounded'
  <2>1. \A u \in Targets : vector'[u] # None => <<u, vector'[u]>> \in rows
    BY <1>6, <1>10 DEF EmbeddingInv, Grounded
  <2>2. \A d \in Docs : vector'[d] # None => d \in indexed
    <3>1. \A d \in Docs : d \in Targets /\ (d = t => d \in indexed)
      BY <1>1, EmbeddingConstants
    <3> QED BY <1>10, <3>1 DEF EmbeddingInv, Grounded
  <2> QED BY <1>1, <2>1, <2>2 DEF Grounded, Targets
<1>16. \A d \in Docs : (vector[d] # None => vector'[d] # None)
                       /\ (d = t => vector'[d] # None)
  <2>1. \A d \in Docs : d \in Targets
    BY EmbeddingConstants
  <2> QED BY <1>10, <2>1
<1>17. Repairing'
  <2>1. CASE a = "worker"
    <3>1. act'["rebuild"] = act["rebuild"]
      BY <1>4, <2>1, TwoActors
    <3> QED BY <1>1, <1>16, <3>1, RebuildStays
  <2>2. CASE a = "rebuild"
    <3>1. act'["rebuild"] = r /\ indexed \subseteq Docs
      BY <1>4, <2>2 DEF EmbeddingInv, EmbeddingTyped
    <3> QED BY <1>1, <1>2, <1>5, <1>16, <2>2, <3>1, RepairGoesOn
  <2> QED BY <2>1, <2>2, TwoActors
<1> QED BY <1>9, <1>11, <1>12, <1>14, <1>15, <1>17 DEF EmbeddingInv

\* A step that neither an actor nor the index takes part in.
LEMMA NothingMoves ==
  ASSUME EmbeddingInv, UNCHANGED <<act, rows, vector, indexed, run, excused>>, EmbeddingTyped'
  PROVE  EmbeddingInv'
<1>1. AllAtWork' /\ NotTogether' /\ Unshared' /\ RowsInOrder'
  BY NobodyMoves
<1>2. LastIsShown'
  BY DEF EmbeddingInv, LastIsShown, Actors, Targets, LastPart
<1>3. Grounded'
  BY DEF EmbeddingInv, Grounded, Targets
<1>4. Repairing'
  BY RebuildStays
<1> QED BY <1>1, <1>2, <1>3, <1>4 DEF EmbeddingInv

LEMMA NotFoundInv ==
  ASSUME EmbeddingInv, NEW a \in Actors, NotFound(a)
  PROVE  EmbeddingInv'
<1>t. PICK t : t = Head(act[a].left)
  OBVIOUS
<1>1. /\ act[a].pc = "write" /\ act[a].pc \in OnPcs /\ act[a].pc # "idle" /\ t \notin indexed
      /\ UNCHANGED <<high, malformed, committed, position, last, duplicate, merged, rows, indexed,
                     vector, prepared, run>>
  BY <1>t DEF NotFound, consumerVars, tables, OnPcs, Target,
         Writable, search
<1>2. CASE act[a].attempt < MaxRetries /\ act' = [act EXCEPT ![a].attempt = @ + 1] /\ excused' = excused
  <2>1. PICK r : r = [act[a] EXCEPT !.attempt = @ + 1]
    OBVIOUS
  <2>2. act' = [act EXCEPT ![a] = r]
    BY <1>2, <2>1
  <2>3. /\ Working(r) /\ Backed(r, rows)
        /\ Sole(act[a], rows) => Sole(r, rows)
        /\ r.left = act[a].left /\ r.pc = "write"
    BY <1>1, <1>2, <2>1, RetryWorks
  <2>4. t \notin excused => Sole(act[a], rows)
    BY <1>t, <1>1 DEF EmbeddingInv, Unshared
  <2> QED BY <1>t, <1>1, <1>2, <2>2, <2>3, <2>4, QuietActor
<1>3. CASE NextTarget(a) /\ excused' = excused \cup {t}
  <2>1. PICK r \in ActorRecord :
           /\ act' = [act EXCEPT ![a] = r]
           /\ r.pc = "next" /\ r.left = Tail(act[a].left) /\ r.todo = << >> /\ r.pending = << >>
    BY <1>1, <1>3, GoesOn
  <2>2. Working(r) /\ r.pc \notin OnPcs /\ Backed(r, rows)
    BY <2>1, BetweenTargets
  <2>3. Items(act[a].left) = {t} \cup Items(Tail(act[a].left))
    BY <1>t, <1>1, AtTarget
  <2>4. \A d \in indexed : d \in Items(act[a].left) => d \in Items(r.left)
    BY <1>1, <2>1, <2>3
  <2> QED BY <1>t, <1>1, <1>3, <2>1, <2>2, <2>4, QuietActor
<1> QED BY <1>t, <1>2, <1>3 DEF NotFound, Target

\* An actor between two events or runs.
LEMMA AtRest ==
  ASSUME NEW left \in Seq(Targets)
  PROVE  /\ Idle \in ActorRecord /\ Idle.pc = "idle"
         /\ Idle.todo = << >> /\ Idle.pending = << >>
         /\ [Idle EXCEPT !.pc = "next", !.left = left] \in ActorRecord
         /\ [Idle EXCEPT !.pc = "next", !.left = left].pc = "next"
         /\ [Idle EXCEPT !.pc = "next", !.left = left].left = left
         /\ [Idle EXCEPT !.pc = "next", !.left = left].todo = << >>
         /\ [Idle EXCEPT !.pc = "next", !.left = left].pending = << >>
<1>1. 0 \in 0 .. MaxRetries /\ << >> \in Seq(Texts) /\ << >> \in Seq(Targets)
  BY EmbeddingConstants
<1>2. Idle = [pc |-> "idle", left |-> << >>, todo |-> << >>, pending |-> << >>, attempt |-> 0]
  BY DEF Idle
<1>3. PICK r : r = [Idle EXCEPT !.pc = "next", !.left = left]
  OBVIOUS
<1>4. r = [pc |-> "next", left |-> left, todo |-> << >>, pending |-> << >>, attempt |-> 0]
  BY <1>3 DEF Idle
<1>5. Idle \in ActorRecord
  BY <1>1, <1>2 DEF ActorRecord
<1>6. r \in ActorRecord
  BY <1>1, <1>4 DEF ActorRecord
<1>7. r.pc = "next" /\ r.left = left /\ r.todo = << >> /\ r.pending = << >>
  BY <1>4
<1> QED BY <1>2, <1>3, <1>5, <1>6, <1>7

\* The worker takes an event, or is through with it.
LEMMA WorkerRests ==
  ASSUME EmbeddingInv, NEW r \in ActorRecord, act' = [act EXCEPT !["worker"] = r],
         r.pc \in {"idle", "next"}, r.todo = << >>, r.pending = << >>,
         ConsumerTypeOK',
         UNCHANGED <<duplicate, merged, rows, indexed, vector, prepared, run>>,
         excused \subseteq excused', act["worker"].pc = "write" => Head(act["worker"].left) \in excused'
  PROVE  EmbeddingInv'
<1>1. "worker" \in Actors
  BY TwoActors
<1>2. Working(r) /\ r.pc \notin OnPcs /\ Backed(r, rows)
  BY BetweenTargets
<1>3. /\ AllAtWork' /\ NotTogether' /\ Unshared' /\ DOMAIN act' = Actors
      /\ LastIsShown' /\ RowsInOrder' /\ Grounded'
  BY <1>1, <1>2, WritesNothing
<1>4. EmbeddingTyped'
  BY <1>3, TablesStay DEF EmbeddingInv, EmbeddingTyped
<1>5. act'["rebuild"] = act["rebuild"]
  BY TwoActors DEF EmbeddingInv, EmbeddingTyped
<1>6. Repairing'
  BY <1>5, RebuildStays
<1> QED BY <1>3, <1>4, <1>6 DEF EmbeddingInv

LEMMA TakeInv ==
  ASSUME EmbeddingInv, NEW p \in Partitions, Take(p)
  PROVE  EmbeddingInv'
<1>1. /\ act["worker"].pc = "idle" /\ Receive(p)
      /\ UNCHANGED <<high, malformed, committed, duplicate, merged, rows, indexed, vector, prepared, run, excused>>
  BY DEF Take, brokerVars, tables, search
<1>2. ConsumerTypeOK'
  BY <1>1, EmbeddingConsumer DEF EmbeddingInv, EmbeddingTyped
<1>3. position[p] \in Offsets
  <2>1. /\ high \in [Partitions -> 0 .. MaxOffset] /\ position \in [Partitions -> 0 .. MaxOffset]
        /\ position[p] < high[p]
    BY <1>1 DEF EmbeddingInv, EmbeddingTyped, ConsumerTypeOK, Receive, Readable
  <2>2. high[p] \in 0 .. MaxOffset /\ position[p] \in 0 .. MaxOffset
    BY <2>1
  <2> QED BY <2>1, <2>2 DEF Offsets
<1>4. PICK left : left = <<DocOf[position[p]]>> \o EntsOf[position[p]]
  OBVIOUS
<1>5. left \in Seq(Targets)
  <2>1. DocOf[position[p]] \in Targets /\ EntsOf[position[p]] \in Seq(Targets)
    BY <1>3, EmbeddingConstants
  <2> QED BY <1>4, <2>1
<1>6. act' = [act EXCEPT !["worker"] = [Idle EXCEPT !.pc = "next", !.left = left]]
  BY <1>4 DEF Take
<1>7. PICK r \in ActorRecord :
         /\ r = [Idle EXCEPT !.pc = "next", !.left = left]
         /\ r.pc = "next" /\ r.todo = << >> /\ r.pending = << >>
  BY <1>5, AtRest
<1> QED BY <1>1, <1>2, <1>6, <1>7, WorkerRests

LEMMA WorkerEndsInv ==
  ASSUME EmbeddingInv,
         CommitEmbedded \/ StopEmbedding \/ Crash \/ Fail("worker")
  PROVE  EmbeddingInv'
<1>1. ConsumerTypeOK
  BY DEF EmbeddingInv, EmbeddingTyped
<1>2. PICK r \in ActorRecord : r = Idle /\ r.pc = "idle" /\ r.todo = << >> /\ r.pending = << >>
  <2>1. << >> \in Seq(Targets)
    OBVIOUS
  <2> QED BY <2>1, AtRest
<1>3. CASE CommitEmbedded
  <2>1. /\ act["worker"].pc = "next" /\ act' = [act EXCEPT !["worker"] = r]
        /\ UNCHANGED <<high, malformed, position, last, duplicate, merged, rows, indexed, vector, prepared,
                       run, excused>>
        /\ CommitLast \/ committed' = committed
    BY <1>2, <1>3 DEF CommitEmbedded, brokerVars, tables, search
  <2>2. ConsumerTypeOK'
    BY <1>1, <2>1, EmbeddingConsumer
  <2> QED BY <1>2, <2>1, <2>2, WorkerRests
<1>4. CASE StopEmbedding
  <2>1. /\ act["worker"].pc = "idle" /\ act' = act /\ Resume
        /\ UNCHANGED <<high, malformed, committed, duplicate, merged, rows, indexed, vector, prepared,
                       run, excused>>
    BY <1>4 DEF StopEmbedding, brokerVars, tables, search
  <2>2. ConsumerTypeOK'
    BY <1>1, <2>1, EmbeddingConsumer
  <2>3. EmbeddingTyped'
    BY <2>1, <2>2, TablesStay DEF EmbeddingInv, EmbeddingTyped
  <2> QED BY <2>1, <2>3, NothingMoves
<1>5. CASE Crash
  <2>1. /\ act' = [act EXCEPT !["worker"] = r] /\ Resume
        /\ UNCHANGED <<high, malformed, committed, duplicate, merged, rows, indexed, vector, prepared, run>>
        /\ excused' = excused \cup Unwritten("worker")
    BY <1>2, <1>5 DEF Crash, brokerVars, tables, search
  <2>2. ConsumerTypeOK'
    BY <1>1, <2>1, EmbeddingConsumer
  <2>3. excused \subseteq excused' /\ (act["worker"].pc = "write" => Head(act["worker"].left) \in excused')
    BY <2>1 DEF Unwritten, Target
  <2> QED BY <1>2, <2>1, <2>2, <2>3, WorkerRests
<1>6. CASE Fail("worker")
  <2>1. /\ act' = [act EXCEPT !["worker"] = r]
        /\ UNCHANGED <<high, malformed, committed, position, last, duplicate, merged, rows, indexed,
                       vector, prepared, run>>
        /\ excused' = excused \cup Unwritten("worker")
    BY <1>2, <1>6 DEF Fail, consumerVars, tables, search
  <2>2. ConsumerTypeOK'
    BY <1>1, <2>1, EmbeddingConsumer
  <2>3. excused \subseteq excused' /\ (act["worker"].pc = "write" => Head(act["worker"].left) \in excused')
    BY <2>1 DEF Unwritten, Target
  <2> QED BY <1>2, <2>1, <2>2, <2>3, WorkerRests
<1> QED BY <1>3, <1>4, <1>5, <1>6

\* A rebuild between two targets.
LEMMA RebuildRests ==
  ASSUME EmbeddingInv, NEW r \in ActorRecord, act' = [act EXCEPT !["rebuild"] = r],
         r.pc \in {"idle", "next"}, r.todo = << >>, r.pending = << >>,
         UNCHANGED <<high, malformed, committed, position, last, duplicate, merged, rows, indexed,
                     vector, prepared>>,
         run' \in [phase : {"off", "documents", "entities", "done"}, failed : BOOLEAN, fresh : SUBSET Docs],
         excused \subseteq excused', act["rebuild"].pc = "write" => Head(act["rebuild"].left) \in excused',
         r.pc # "idle" =>
           /\ run'.phase \in {"documents", "entities"}
           /\ \A d \in indexed \ run'.fresh :
                run'.failed \/ vector[d] # None \/ (run'.phase = "documents" /\ d \in Items(r.left))
  PROVE  EmbeddingInv'
<1>1. "rebuild" \in Actors
  BY TwoActors
<1>2. Working(r) /\ r.pc \notin OnPcs /\ Backed(r, rows)
  BY BetweenTargets
<1>3. /\ AllAtWork' /\ NotTogether' /\ Unshared' /\ DOMAIN act' = Actors
      /\ LastIsShown' /\ RowsInOrder' /\ Grounded'
  BY <1>1, <1>2, WritesNothing
<1>4. EmbeddingTyped'
  <2>1. ConsumerTypeOK'
    BY EmbeddingConsumer DEF EmbeddingInv, EmbeddingTyped
  <2> QED BY <1>3, <2>1, TablesStay
<1>5. act'["rebuild"] = r
  BY <1>1 DEF EmbeddingInv, EmbeddingTyped
<1>6. Repairing'
  BY <1>5 DEF Repairing
<1> QED BY <1>3, <1>4, <1>6 DEF EmbeddingInv

LEMMA RebuildEndsInv ==
  ASSUME EmbeddingInv,
         NextPhase \/ CrashRebuild \/ Fail("rebuild")
  PROVE  EmbeddingInv'
<1>r. run \in [phase : {"off", "documents", "entities", "done"}, failed : BOOLEAN, fresh : SUBSET Docs]
  BY DEF EmbeddingInv, EmbeddingTyped
<1>f. \A d \in indexed \ run.fresh : act["rebuild"].pc # "idle" =>
        run.failed \/ vector[d] # None \/ (run.phase = "documents" /\ d \in Items(act["rebuild"].left))
  BY DEF EmbeddingInv, Repairing
<1>p. act["rebuild"].pc # "idle" => run.phase \in {"documents", "entities"}
  BY DEF EmbeddingInv, Repairing
<1>i. PICK idle \in ActorRecord :
        idle = Idle /\ idle.pc = "idle" /\ idle.todo = << >> /\ idle.pending = << >>
  <2>1. << >> \in Seq(Targets)
    OBVIOUS
  <2> QED BY <2>1, AtRest
<1>1. CASE NextPhase
  <2>1. /\ act["rebuild"].pc = "next" /\ act["rebuild"].left = << >>
        /\ UNCHANGED <<high, malformed, committed, position, last, duplicate, merged, rows, indexed,
                       vector, prepared, excused>>
    BY <1>1 DEF NextPhase, consumerVars, tables, search
  <2>2. CASE /\ run.phase = "documents"
             /\ act' = [act EXCEPT !["rebuild"].left = InOrder(Ents \ merged)]
             /\ run' = [run EXCEPT !.phase = "entities"]
    <3>1. PICK left : left = InOrder(Ents \ merged)
      OBVIOUS
    <3>2. left \in Seq(Targets)
      <4>1. IsFiniteSet(Ents \ merged) /\ Ents \ merged \subseteq Targets
        BY FiniteTargets, FS_Subset, EmbeddingConstants
      <4>2. left \in Seq(Ents \ merged)
        BY <3>1, <4>1, InOrderLists
      <4> QED BY <4>1, <4>2
    <3>3. PICK o : o = act["rebuild"]
      OBVIOUS
    <3>4. o \in ActorRecord /\ Working(o) /\ o.pc = "next"
      BY <2>1, <3>3, TwoActors, AtTarget
    <3>5. o.todo = << >> /\ o.pending = << >>
      BY <3>4 DEF Working
    <3>6. PICK r : r = [o EXCEPT !.left = left]
      OBVIOUS
    <3>7. r \in ActorRecord /\ r.pc = "next" /\ r.todo = << >> /\ r.pending = << >>
      BY <3>2, <3>4, <3>5, <3>6 DEF ActorRecord
    <3>8. act' = [act EXCEPT !["rebuild"] = r]
      BY <2>2, <3>1, <3>3, <3>6
    <3>9. /\ run'.phase = "entities" /\ run'.failed = run.failed /\ run'.fresh = run.fresh
          /\ run' \in [phase : {"off", "documents", "entities", "done"}, failed : BOOLEAN, fresh : SUBSET Docs]
      BY <1>r, <2>2
    <3>10. \A d \in indexed \ run'.fresh : run'.failed \/ vector[d] # None
      BY <1>f, <2>1, <3>9, NoItems
    <3> QED BY <2>1, <3>7, <3>8, <3>9, <3>10, RebuildRests
  <2>3. CASE act' = [act EXCEPT !["rebuild"] = Idle] /\ run' = [run EXCEPT !.phase = "done"]
    <3>1. run' \in [phase : {"off", "documents", "entities", "done"}, failed : BOOLEAN, fresh : SUBSET Docs]
      BY <1>r, <2>3
    <3> QED BY <1>i, <2>1, <2>3, <3>1, RebuildRests
  <2> QED BY <1>1, <2>2, <2>3 DEF NextPhase
<1>2. CASE CrashRebuild
  <2>1. /\ act' = [act EXCEPT !["rebuild"] = idle]
        /\ UNCHANGED <<high, malformed, committed, position, last, duplicate, merged, rows, indexed,
                       vector, prepared>>
        /\ run' = [run EXCEPT !.phase = "off"]
        /\ excused' = excused \cup Unwritten("rebuild")
    BY <1>i, <1>2 DEF CrashRebuild, consumerVars, tables, search
  <2>2. run' \in [phase : {"off", "documents", "entities", "done"}, failed : BOOLEAN, fresh : SUBSET Docs]
    BY <1>r, <2>1
  <2>3. excused \subseteq excused' /\ (act["rebuild"].pc = "write" => Head(act["rebuild"].left) \in excused')
    BY <2>1 DEF Unwritten, Target
  <2> QED BY <1>i, <2>1, <2>2, <2>3, RebuildRests
<1>3. CASE Fail("rebuild")
  <2>1. /\ act["rebuild"].pc \in {"next", "check", "embed", "persist", "write"}
        /\ act["rebuild"].left # << >>
        /\ NextTarget("rebuild")
        /\ UNCHANGED <<high, malformed, committed, position, last, duplicate, merged, rows, indexed,
                       vector, prepared>>
        /\ run' = [run EXCEPT !.failed = TRUE]
        /\ excused' = excused \cup Unwritten("rebuild")
    BY <1>3 DEF Fail, consumerVars, tables, search
  <2>2. PICK r \in ActorRecord :
           /\ act' = [act EXCEPT !["rebuild"] = r]
           /\ r.pc = "next" /\ r.left = Tail(act["rebuild"].left) /\ r.todo = << >> /\ r.pending = << >>
    BY <2>1, GoesOn, TwoActors DEF OnPcs
  <2>3. excused \subseteq excused' /\ (act["rebuild"].pc = "write" => Head(act["rebuild"].left) \in excused')
    BY <2>1 DEF Unwritten, Target
  <2>4. /\ run' \in [phase : {"off", "documents", "entities", "done"}, failed : BOOLEAN, fresh : SUBSET Docs]
        /\ run'.failed /\ run'.phase = run.phase
    BY <1>r, <2>1
  <2>5. run.phase \in {"documents", "entities"}
    BY <1>p, <2>1
  <2> QED BY <2>1, <2>2, <2>3, <2>4, <2>5, RebuildRests
<1> QED BY <1>1, <1>2, <1>3

LEMMA StartRebuildInv ==
  ASSUME EmbeddingInv, NEW drop \in BOOLEAN, StartRebuild(drop)
  PROVE  EmbeddingInv'
<1>1. /\ act["rebuild"].pc = "idle"
      /\ vector' = [t \in Targets |-> IF drop /\ t \in Ents THEN None ELSE vector[t]]
      /\ excused' = IF drop THEN excused \cup Ents ELSE excused
      /\ run' = [phase |-> "documents", failed |-> FALSE, fresh |-> duplicate]
      /\ UNCHANGED <<high, malformed, committed, position, last, duplicate, merged, rows, indexed, prepared>>
  BY DEF StartRebuild, consumerVars, tables
<1>2. PICK left : left = InOrder(Docs \ duplicate)
  OBVIOUS
<1>3. left \in Seq(Targets) /\ Items(left) = Docs \ duplicate
  <2>1. IsFiniteSet(Docs \ duplicate) /\ Docs \ duplicate \subseteq Targets
    BY FiniteTargets, FS_Subset, EmbeddingConstants
  <2>2. left \in Seq(Docs \ duplicate) /\ Items(left) = Docs \ duplicate
    BY <1>2, <2>1, InOrderLists
  <2> QED BY <2>1, <2>2
<1>4. PICK r \in ActorRecord :
         /\ r = [Idle EXCEPT !.pc = "next", !.left = left]
         /\ r.pc = "next" /\ r.left = left /\ r.todo = << >> /\ r.pending = << >>
  <2>1. PICK r : r = [Idle EXCEPT !.pc = "next", !.left = left]
    OBVIOUS
  <2>2. r \in ActorRecord /\ r.pc = "next" /\ r.left = left /\ r.todo = << >> /\ r.pending = << >>
    BY <1>3, <2>1, AtRest
  <2> QED BY <2>1, <2>2
<1>5. act' = [act EXCEPT !["rebuild"] = r]
  BY <1>2, <1>4 DEF StartRebuild
<1>6. Working(r) /\ r.pc \notin OnPcs /\ Backed(r, rows')
  BY <1>4, BetweenTargets
<1>7. AllAtWork' /\ NotTogether' /\ Unshared' /\ DOMAIN act' = Actors
  <2>1. rows \subseteq rows' /\ rows' = rows /\ excused \ excused' = {}
    BY <1>1
  <2>2. "rebuild" \in Actors
    BY TwoActors
  <2> QED BY <1>5, <1>6, <2>1, <2>2, ActorMoves
<1>8. /\ act'["rebuild"] = r /\ act'["worker"] = act["worker"]
  BY <1>5, TwoActors DEF EmbeddingInv, EmbeddingTyped
<1>9. \A t \in Targets : vector'[t] = vector[t] \/ (vector'[t] = None /\ t \in Ents /\ t \in excused')
  BY <1>1
<1>10. EmbeddingTyped'
  <2>1. ConsumerTypeOK'
    BY <1>1, EmbeddingConsumer DEF EmbeddingInv, EmbeddingTyped
  <2>2. /\ \A u \in Targets : vector'[u] = None \/ vector'[u] \in Items(Parts[u])
        /\ DOMAIN vector' = Targets
    BY <1>1, <1>9 DEF EmbeddingInv, EmbeddingTyped
  <2>3. run' \in [phase : {"off", "documents", "entities", "done"}, failed : BOOLEAN, fresh : SUBSET Docs]
    BY <1>1 DEF EmbeddingInv, EmbeddingTyped
  <2> QED BY <1>1, <1>7, <2>1, <2>2, <2>3
          DEF EmbeddingInv, EmbeddingTyped, Targets, Actors
<1>11. RowsInOrder'
  BY <1>1 DEF EmbeddingInv, RowsInOrder, Targets, LastPart
<1>12. ASSUME NEW u \in Targets, u \notin excused', <<u, LastPart(u)>> \in rows
       PROVE  \/ vector'[u] = LastPart(u)
              \/ \E b \in Actors : act'[b].pc = "write" /\ Head(act'[b].left) = u
  <2>1. u \notin excused /\ vector'[u] = vector[u]
    BY <1>1, <1>9, <1>12
  <2>2. \/ vector[u] = LastPart(u)
        \/ \E b \in Actors : act[b].pc = "write" /\ Head(act[b].left) = u
    BY <1>12, <2>1 DEF EmbeddingInv, LastIsShown
  <2>3. ASSUME NEW b \in Actors, act[b].pc = "write", Head(act[b].left) = u
        PROVE  act'[b] = act[b]
    BY <1>1, <1>8, <2>3, TwoActors
  <2> QED BY <2>1, <2>2, <2>3
<1>13. LastIsShown'
  BY <1>1, <1>12 DEF LastIsShown, Actors, Targets, LastPart
<1>14. Grounded'
  <2>1. \A u \in Targets : vector'[u] # None => <<u, vector'[u]>> \in rows
    BY <1>9 DEF EmbeddingInv, Grounded
  <2>2. \A d \in Docs : d \in Targets
    BY EmbeddingConstants
  <2>3. \A d \in Docs : vector'[d] # None => d \in indexed
    BY <1>9, <2>2 DEF EmbeddingInv, Grounded
  <2> QED BY <1>1, <2>1, <2>3 DEF Grounded, Targets
<1>15. Repairing'
  <2>1. indexed \subseteq Docs
    BY DEF EmbeddingInv, EmbeddingTyped
  <2>2. act'["rebuild"].pc = "next" /\ run'.phase = "documents" /\ run'.fresh = duplicate
    BY <1>1, <1>4, <1>8
  <2>3. \A d \in indexed' \ run'.fresh : d \in Items(act'["rebuild"].left)
    BY <1>1, <1>3, <1>4, <1>8, <2>1, <2>2
  <2> QED BY <2>2, <2>3 DEF Repairing
<1> QED BY <1>7, <1>10, <1>11, <1>13, <1>14, <1>15 DEF EmbeddingInv

\* Documents leave the index, with their vectors.
LEMMA RemovedInv ==
  ASSUME EmbeddingInv, NEW D \in SUBSET Docs, Removed(D),
         UNCHANGED <<high, malformed, committed, position, last, duplicate, merged, rows, act, run>>,
         prepared' \subseteq Docs
  PROVE  EmbeddingInv'
<1>1. /\ indexed' = indexed \ D /\ excused' = excused \cup D
      /\ vector' = [t \in Targets |-> IF t \in D THEN None ELSE vector[t]]
  BY DEF Removed
<1>2. AllAtWork' /\ NotTogether' /\ Unshared' /\ RowsInOrder'
  BY <1>1, NobodyMoves
<1>3. \A t \in Targets : (t \notin D /\ vector'[t] = vector[t]) \/ (vector'[t] = None /\ t \in D)
  BY <1>1
<1>4. EmbeddingTyped'
  <2>1. ConsumerTypeOK'
    BY EmbeddingConsumer DEF EmbeddingInv, EmbeddingTyped
  <2>2. /\ \A u \in Targets : vector'[u] = None \/ vector'[u] \in Items(Parts[u])
        /\ DOMAIN vector' = Targets
    BY <1>1, <1>3 DEF EmbeddingInv, EmbeddingTyped
  <2> QED BY <1>1, <2>1, <2>2 DEF EmbeddingInv, EmbeddingTyped, Targets, Actors
<1>5. LastIsShown'
  BY <1>1, <1>3 DEF EmbeddingInv, LastIsShown, Actors, Targets, LastPart
<1>6. \A d \in Docs : d \in Targets
  BY EmbeddingConstants
<1>7. Grounded'
  <2>1. \A u \in Targets : vector'[u] # None => <<u, vector'[u]>> \in rows
    BY <1>3 DEF EmbeddingInv, Grounded
  <2>2. \A d \in Docs : vector'[d] # None => d \in indexed'
    BY <1>1, <1>3, <1>6 DEF EmbeddingInv, Grounded
  <2> QED BY <2>1, <2>2 DEF Grounded, Targets
<1>8. Repairing'
  <2>1. indexed \subseteq Docs /\ act["rebuild"].pc # "check"
    BY DEF EmbeddingInv, EmbeddingTyped, Repairing
  <2>2. \A d \in indexed' \ run'.fresh : d \in indexed \ run.fresh /\ vector'[d] = vector[d]
    BY <1>1, <1>3, <1>6, <2>1
  <2> QED BY <2>1, <2>2, RepairGoesOn
<1> QED BY <1>2, <1>4, <1>5, <1>7, <1>8 DEF EmbeddingInv

\* The indexer's documents are those a rebuild cannot have met.
LEMMA FlushInv ==
  ASSUME EmbeddingInv, Flush
  PROVE  EmbeddingInv'
<1>1. /\ indexed' = indexed \cup prepared /\ prepared' = {}
      /\ run' = [run EXCEPT !.fresh = run.fresh \cup (prepared \ indexed)]
      /\ UNCHANGED <<high, malformed, committed, position, last, duplicate, merged, rows, vector, act, excused>>
  BY DEF Flush, consumerVars, tables
<1>2. AllAtWork' /\ NotTogether' /\ Unshared' /\ RowsInOrder'
  BY <1>1, NobodyMoves
<1>3. /\ run \in [phase : {"off", "documents", "entities", "done"}, failed : BOOLEAN, fresh : SUBSET Docs]
      /\ prepared \subseteq Docs /\ indexed \subseteq Docs
  BY DEF EmbeddingInv, EmbeddingTyped
<1>4. /\ run'.phase = run.phase /\ run'.failed = run.failed
      /\ run'.fresh = run.fresh \cup (prepared \ indexed)
      /\ run' \in [phase : {"off", "documents", "entities", "done"}, failed : BOOLEAN, fresh : SUBSET Docs]
  BY <1>1, <1>3
<1>5. EmbeddingTyped'
  <2>1. ConsumerTypeOK'
    BY <1>1, EmbeddingConsumer DEF EmbeddingInv, EmbeddingTyped
  <2> QED BY <1>1, <1>3, <1>4, <2>1 DEF EmbeddingInv, EmbeddingTyped, Targets, Actors
<1>6. LastIsShown'
  BY <1>1 DEF EmbeddingInv, LastIsShown, Actors, Targets, LastPart
<1>7. Grounded'
  BY <1>1 DEF EmbeddingInv, Grounded, Targets
<1>8. Repairing'
  <2>1. \A d \in indexed' \ run'.fresh : d \in indexed \ run.fresh
    BY <1>1, <1>4
  <2>2. act["rebuild"].pc # "check"
    BY DEF EmbeddingInv, Repairing
  <2> QED BY <1>1, <1>4, <2>1, <2>2, RepairGoesOn
<1> QED BY <1>2, <1>5, <1>6, <1>7, <1>8 DEF EmbeddingInv

LEMMA OthersInv ==
  ASSUME EmbeddingInv,
         \/ \E p \in Partitions : ProduceEvent(p)
         \/ \E d \in Docs : Prepare(d) \/ MarkDuplicate(d)
         \/ DropIndex
         \/ \E e \in Ents : Merge(e)
         \/ UNCHANGED embeddingVars
  PROVE  EmbeddingInv'
<1>1. /\ ConsumerTypeOK /\ prepared \subseteq Docs /\ duplicate \subseteq Docs /\ merged \subseteq Ents
  BY DEF EmbeddingInv, EmbeddingTyped
<1>2. ASSUME UNCHANGED <<act, rows, vector, indexed, run, excused>>, ConsumerTypeOK',
             prepared' \subseteq Docs, duplicate' \subseteq Docs, merged' \subseteq Ents
      PROVE  EmbeddingInv'
  <2>1. EmbeddingTyped'
    BY <1>2 DEF EmbeddingInv, EmbeddingTyped, Targets, Actors
  <2> QED BY <1>2, <2>1, NothingMoves
<1> USE DEF consumerVars, tables, search, brokerVars
<1>3. ASSUME NEW p \in Partitions, ProduceEvent(p)
      PROVE  EmbeddingInv'
  <2>1. /\ AppendMessage(p, FALSE)
        /\ UNCHANGED <<committed, position, last, duplicate, merged, rows, indexed, vector, prepared, act,
                       run, excused>>
    BY <1>3 DEF ProduceEvent
  <2>2. ConsumerTypeOK'
    BY <1>1, <2>1, EmbeddingConsumer
  <2> QED BY <1>1, <1>2, <2>1, <2>2
<1>4. ASSUME NEW d \in Docs, Prepare(d)
      PROVE  EmbeddingInv'
  <2>1. UNCHANGED <<high, malformed, committed, position, last, duplicate, merged, rows, act, run>>
    BY <1>4 DEF Prepare
  <2>2. CASE Removed({d}) /\ prepared' = prepared
    BY <1>1, <2>1, <2>2, RemovedInv
  <2>3. CASE prepared' = prepared \cup {d} /\ UNCHANGED <<indexed, vector, excused>>
    <3>1. ConsumerTypeOK'
      BY <1>1, <2>1, EmbeddingConsumer
    <3> QED BY <1>1, <1>2, <2>1, <2>3, <3>1
  <2> QED BY <1>4, <2>2, <2>3 DEF Prepare
<1>5. ASSUME NEW d \in Docs, MarkDuplicate(d)
      PROVE  EmbeddingInv'
  <2>1. /\ UNCHANGED <<high, malformed, committed, position, last, merged, rows, indexed, vector, prepared,
                       act, run, excused>>
        /\ duplicate' = duplicate \cup {d}
    BY <1>5 DEF MarkDuplicate, others
  <2>2. ConsumerTypeOK'
    BY <1>1, <2>1, EmbeddingConsumer
  <2> QED BY <1>1, <1>2, <2>1, <2>2
<1>6. CASE DropIndex
  <2>1. /\ UNCHANGED <<high, malformed, committed, position, last, duplicate, merged, rows, act, run>>
        /\ Removed(Docs) /\ prepared' = prepared \cup (Docs \ duplicate)
    BY <1>6 DEF DropIndex
  <2> QED BY <1>1, <2>1, RemovedInv
<1>7. ASSUME NEW e \in Ents, Merge(e)
      PROVE  EmbeddingInv'
  <2>1. /\ UNCHANGED <<high, malformed, committed, position, last, duplicate, rows, indexed, vector, prepared,
                       act, run, excused>>
        /\ merged' \subseteq Ents
    BY <1>1, <1>7 DEF Merge, others
  <2>2. ConsumerTypeOK'
    BY <1>1, <2>1, EmbeddingConsumer
  <2> QED BY <1>1, <1>2, <2>1, <2>2
<1>8. CASE UNCHANGED embeddingVars
  <2>1. UNCHANGED <<high, malformed, committed, position, last, duplicate, merged, rows, indexed, vector,
                    prepared, act, run, excused>>
    BY <1>8 DEF embeddingVars
  <2>2. ConsumerTypeOK'
    BY <1>1, <2>1, EmbeddingConsumer
  <2> QED BY <1>1, <1>2, <2>1, <2>2
<1> QED BY <1>3, <1>4, <1>5, <1>6, <1>7, <1>8

\* Every step of the worker, a rebuild and the indexer keeps the invariant.
LEMMA EmbeddingKeeps ==
  ASSUME EmbeddingInv, [EmbeddingNext]_embeddingVars
  PROVE  EmbeddingInv'
<1>1. ASSUME NEW a \in Actors, EmbedStep(a)
      PROVE  EmbeddingInv'
  BY <1>1, ReadInv, CheckInv, EmbedInv, PersistInv, WriteInv, NotFoundInv DEF EmbedStep
<1>2. CASE WorkerStep
  BY <1>1, <1>2, TwoActors, TakeInv, WorkerEndsInv DEF WorkerStep
<1>3. CASE StopEmbedding \/ Crash \/ Fail("worker")
  BY <1>3, WorkerEndsInv
<1>4. CASE EmbedStep("rebuild")
  BY <1>1, <1>4, TwoActors
<1>5. CASE NextPhase \/ CrashRebuild \/ Fail("rebuild")
  BY <1>5, RebuildEndsInv
<1>6. ASSUME NEW drop \in BOOLEAN, StartRebuild(drop)
      PROVE  EmbeddingInv'
  BY <1>6, StartRebuildInv
<1>7. CASE Flush
  BY <1>7, FlushInv
<1>8. CASE \/ \E p \in Partitions : ProduceEvent(p)
           \/ \E d \in Docs : Prepare(d) \/ MarkDuplicate(d)
           \/ DropIndex
           \/ \E e \in Ents : Merge(e)
           \/ UNCHANGED embeddingVars
  BY <1>8, OthersInv
<1> QED BY <1>2, <1>3, <1>4, <1>5, <1>6, <1>7, <1>8 DEF EmbeddingNext

\* Nothing is embedded yet.
LEMMA EmbeddingStarts ==
  ASSUME EmbeddingInit
  PROVE  EmbeddingInv
<1>1. /\ duplicate = {} /\ merged = {} /\ rows = {} /\ indexed = {} /\ prepared = {} /\ excused = {}
      /\ vector = [t \in Targets |-> None]
      /\ act = [a \in Actors |-> Idle]
      /\ run = [phase |-> "off", failed |-> FALSE, fresh |-> {}]
  BY DEF EmbeddingInit
<1>2. ConsumerTypeOK
  BY DEF EmbeddingInit, ConsumerInit, ConsumerTypeOK
<1>3. EmbeddingTyped
  BY <1>1, <1>2 DEF EmbeddingTyped
<1>4. PICK idle \in ActorRecord :
        idle = Idle /\ idle.pc = "idle" /\ idle.todo = << >> /\ idle.pending = << >>
  <2>1. << >> \in Seq(Targets)
    OBVIOUS
  <2> QED BY <2>1, AtRest
<1>5. \A a \in Actors : act[a] = idle
  BY <1>1, <1>4
<1>6. Working(idle) /\ idle.pc \notin OnPcs /\ Backed(idle, rows)
  BY <1>4, BetweenTargets
<1>7. AllAtWork /\ NotTogether /\ Unshared
  BY <1>5, <1>6 DEF AllAtWork, NotTogether, Unshared
<1>8. RowsInOrder /\ LastIsShown
  BY <1>1 DEF RowsInOrder, LastIsShown
<1>9. Grounded
  BY <1>1, EmbeddingConstants DEF Grounded
<1>10. Repairing
  BY <1>4, <1>5, TwoActors DEF Repairing
<1> QED BY <1>3, <1>7, <1>8, <1>9, <1>10 DEF EmbeddingInv

\* The invariant of the embedding worker, for any number of documents, entities,
\* texts, events, retries and rebuilds.
LEMMA EmbeddingInvariance == EmbeddingSpec => []EmbeddingInv
BY EmbeddingStarts, EmbeddingKeeps, PTL DEF EmbeddingSpec

\* Every vector in either index has its embeddings row and, in osint-documents,
\* the document the indexer wrote, whatever fails and whenever a rebuild or a drop
\* of the index comes in between.
THEOREM VectorsAreGrounded == EmbeddingSpec => []VectorGrounded
<1>1. ASSUME EmbeddingInv PROVE VectorGrounded
  <2>1. ASSUME NEW a \in Actors
        PROVE  /\ act[a].pc \in {"idle", "next", "check", "embed", "persist", "write"}
               /\ act[a].pc \in {"embed", "persist", "write"} => act[a].pending # << >>
               /\ act[a].attempt \in 0 .. MaxRetries
    <3>1. Working(act[a])
      BY <1>1 DEF EmbeddingInv, AllAtWork
    <3> QED BY <3>1 DEF Working, ActorRecord
  <2>2. EmbeddingTypeOK
    <3>1. \A t \in Targets : vector[t] = None \/ \E i \in DOMAIN Parts[t] : vector[t] = Parts[t][i]
      BY <1>1 DEF EmbeddingInv, EmbeddingTyped, Items
    <3> QED BY <1>1, <2>1, <3>1 DEF EmbeddingInv, EmbeddingTyped, EmbeddingTypeOK
  <2> QED BY <1>1, <2>2 DEF EmbeddingInv, Grounded, VectorGrounded
<1> QED BY <1>1, EmbeddingInvariance, PTL

\* What the embeddings table lists is in the index: a target all of whose texts
\* are recorded shows the vector of the last one, or somebody is about to write
\* it, or the log, a drop or a rebuild at the same time accounts for it.
THEOREM RecordedTextsAreIndexed == EmbeddingSpec => []RecordedIsIndexed
<1>1. ASSUME EmbeddingInv PROVE RecordedIsIndexed
  <2>1. ASSUME NEW t \in indexed \cup Ents, \A i \in DOMAIN Parts[t] : <<t, Parts[t][i]>> \in rows
        PROVE  \/ vector[t] = LastOf(Parts[t])
               \/ t \in excused
               \/ \E a \in Actors : act[a].pc = "write" /\ Target(a) = t
    <3>1. t \in Targets
      BY <1>1, EmbeddingConstants DEF EmbeddingInv, EmbeddingTyped
    <3>2. LastPart(t) \in Items(Parts[t])
      BY <3>1, EmbeddingConstants
    <3>3. <<t, LastPart(t)>> \in rows
      BY <2>1, <3>2 DEF Items
    <3>4. t \notin excused => \/ vector[t] = LastPart(t)
                              \/ \E a \in Actors : act[a].pc = "write" /\ Head(act[a].left) = t
      BY <1>1, <3>1, <3>3 DEF EmbeddingInv, LastIsShown
    <3> QED BY <3>4 DEF LastOf, LastPart, Target
  <2> QED BY <2>1 DEF RecordedIsIndexed
<1> QED BY <1>1, EmbeddingInvariance, PTL

\* A rebuild that ends without a failure leaves no document without a vector among
\* those that were in the index all the time.
THEOREM RebuildsRepair == EmbeddingSpec => RebuildRepairs
<1>1. ASSUME EmbeddingInv, [EmbeddingNext]_embeddingVars
      PROVE  [run'.phase = "done" /\ run.phase # "done" /\ ~run.failed
                => \A d \in indexed \ run.fresh : vector[d] # None]_embeddingVars
  <2>1. SUFFICES ASSUME EmbeddingNext, run'.phase = "done", run.phase # "done", ~run.failed
                 PROVE  \A d \in indexed \ run.fresh : vector[d] # None
    BY <1>1
  <2>r. run \in [phase : {"off", "documents", "entities", "done"}, failed : BOOLEAN, fresh : SUBSET Docs]
    BY <1>1 DEF EmbeddingInv, EmbeddingTyped
  <2>2. ASSUME NextPhase
        PROVE  \A d \in indexed \ run.fresh : vector[d] # None
    <3>1. act["rebuild"].pc = "next" /\ act["rebuild"].left = << >>
      BY <2>2 DEF NextPhase
    <3>2. \A d \in indexed \ run.fresh :
            run.failed \/ vector[d] # None \/ d \in Items(act["rebuild"].left)
      BY <1>1, <3>1 DEF EmbeddingInv, Repairing
    <3> QED BY <2>1, <3>1, <3>2, NoItems
  <2>3. ASSUME ~NextPhase
        PROVE  FALSE
    <3>1. CASE run' = run
      BY <2>1, <3>1
    <3>2. CASE CrashRebuild
      BY <2>1, <2>r, <3>2 DEF CrashRebuild
    <3>3. CASE Fail("rebuild") \/ Fail("worker")
      BY <2>1, <2>r, <3>3 DEF Fail
    <3>4. CASE \E drop \in BOOLEAN : StartRebuild(drop)
      BY <2>1, <3>4 DEF StartRebuild
    <3>5. CASE Flush
      BY <2>1, <2>r, <3>5 DEF Flush
    <3>6. \A a \in Actors : EmbedStep(a) => run' = run
      BY DEF EmbedStep, Read, Check, Embed, Persist,
             Write, NotFound
    <3>7. WorkerStep => run' = run
      BY <3>6, TwoActors DEF WorkerStep, Take, CommitEmbedded
    <3>8. StopEmbedding \/ Crash => run' = run
      BY DEF StopEmbedding, Crash
    <3>9. /\ \A p \in Partitions : ProduceEvent(p) => run' = run
          /\ \A d \in Docs : Prepare(d) \/ MarkDuplicate(d) => run' = run
          /\ DropIndex => run' = run
          /\ \A e \in Ents : Merge(e) => run' = run
      BY DEF ProduceEvent, Prepare, MarkDuplicate, DropIndex,
             Merge, others
    <3> QED BY <2>1, <2>3, <3>1, <3>2, <3>3, <3>4, <3>5, <3>6, <3>7, <3>8, <3>9, TwoActors
            DEF EmbeddingNext
  <2> QED BY <2>2, <2>3
<1> QED BY <1>1, EmbeddingInvariance, PTL DEF EmbeddingSpec, RebuildRepairs
==============================================================================
