-------------------------- MODULE EventOutboxProofs --------------------------
(***************************************************************************)
(* Theorems about EventOutbox for every number of events and relays.  The  *)
(* inductive invariant adds to the type invariant what a relay knows about *)
(* the rows it holds: they are committed, and the row it is about to mark  *)
(* published is already with the broker.                                   *)
(***************************************************************************)
EXTENDS EventOutbox, TLAPS

USE DEF NoEvent

\* The states of a row whose business transaction committed.
Committed == {"pending", "published", "purged"}

\* A relay that publishes or marks has a current row, one of its batch.
Focus == \A r \in Relays :
           pc[r] \in {"mark_published", "mark_failed"} => cur[r] \in batch[r]

\* Only committed rows are claimed.
HeldRowsCommitted == \A r \in Relays : \A e \in batch[r] : row[e] \in Committed

\* mark_outbox_published follows a produce the broker acknowledged.
AcknowledgedBeforeMark ==
  \A r \in Relays : pc[r] = "mark_published" => cur[r] \in delivered

IInv == /\ TypeOK
        /\ Focus
        /\ HeldRowsCommitted
        /\ AcknowledgedBeforeMark
        /\ NoEventLost
        /\ NoEventWithoutCommit

\* backoff_delay stays between the base and the maximum.
LEMMA BackoffRange ==
  \A n : BackoffDelay(n) \in BackoffBase .. BackoffMax
<1>1. \A ms : (IF ms \in BackoffBase .. BackoffMax THEN ms ELSE BackoffMax)
               \in BackoffBase .. BackoffMax
  BY ConstantsAssumption
<1> QED BY <1>1 DEF BackoffDelay

\* A delay or a lease is a legal distance to next_attempt_at.
LEMMA DelaysInRange ==
  /\ \A n : BackoffDelay(n) \in 0 .. MaxDelay
  /\ Lease \in 0 .. MaxDelay
  /\ MaxDelay \in Nat
  BY BackoffRange, ConstantsAssumption DEF MaxDelay

\* The oldest rows of a set are rows of the set.
LEMMA OldestIsSubset == \A S : OldestOf(S) \subseteq S
  BY DEF OldestOf

\* Going on with the next row keeps the types of the relay's locals.
LEMMA NextRowType ==
  ASSUME TypeOK, NEW r \in Relays, NextRow(r)
  PROVE  /\ batch' \in [Relays -> SUBSET Events]
         /\ tries' \in [Relays -> [Events -> 0 .. MaxAttempts]]
         /\ cur' \in [Relays -> Events \cup {NoEvent}]
         /\ pc' \in [Relays -> PcStates]
         /\ lease' = lease
<1>1. batch' \in [Relays -> SUBSET Events]
  BY DEF TypeOK, NextRow
<1>2. tries' \in [Relays -> [Events -> 0 .. MaxAttempts]]
  <2> DEFINE cleared == [tries[r] EXCEPT ![cur[r]] = 0]
  <2>1. tries[r] \in [Events -> 0 .. MaxAttempts] /\ 0 \in 0 .. MaxAttempts
    BY ConstantsAssumption DEF TypeOK
  <2>2. cleared \in [Events -> 0 .. MaxAttempts]
    BY <2>1
  <2>3. tries' = [tries EXCEPT ![r] = cleared]
    BY DEF NextRow
  <2> HIDE DEF cleared
  <2> QED BY <2>2, <2>3 DEF TypeOK
<1>3. cur' \in [Relays -> Events \cup {NoEvent}]
  BY DEF TypeOK, NextRow
<1>4. pc' \in [Relays -> PcStates]
  BY DEF TypeOK, NextRow, PcStates
<1> QED BY <1>1, <1>2, <1>3, <1>4 DEF NextRow

\* Type correctness: every column and every local of a relay keeps its type.
LEMMA TypeStep == TypeOK /\ [Next]_vars => TypeOK'
<1> SUFFICES ASSUME TypeOK, [Next]_vars PROVE TypeOK'
  OBVIOUS
<1> USE ConstantsAssumption DEF TypeOK, RowStates, PcStates, rowVars, relayVars
<1>1. ASSUME NEW e \in Events, Enqueue(e) PROVE TypeOK'
  BY <1>1 DEF Enqueue
<1>2. ASSUME NEW e \in Events, CommitTx(e) PROVE TypeOK'
  BY <1>2 DEF CommitTx
<1>3. ASSUME NEW e \in Events, RollbackTx(e) PROVE TypeOK'
  BY <1>3 DEF RollbackTx
<1>4. ASSUME NEW r \in Relays, Claim(r) PROVE TypeOK'
  <2> DEFINE picked == OldestOf(Claimable)
             counted == [e \in Events |-> IF e \in picked
                                          THEN Smaller(attempts[e] + 1, MaxAttempts)
                                          ELSE attempts[e]]
  <2>1. picked \subseteq Events
    BY OldestIsSubset DEF Claimable
  <2>2. counted \in [Events -> 0 .. MaxAttempts]
    BY DEF Smaller
  <2>3. /\ attempts' = counted
        /\ due' = [e \in Events |-> IF e \in picked THEN Lease ELSE due[e]]
        /\ batch' = [batch EXCEPT ![r] = picked]
        /\ tries' = [tries EXCEPT ![r] =
                       [e \in Events |-> IF e \in picked THEN counted[e] ELSE 0]]
        /\ lease' = [lease EXCEPT ![r] = Lease]
        /\ pc' = [pc EXCEPT ![r] = "send"]
        /\ UNCHANGED <<row, age, delivered, cur, late, faulty>>
    BY <1>4 DEF Claim
  <2> HIDE DEF picked, counted
  <2>4. due' \in [Events -> 0 .. MaxDelay]
    BY <2>3, DelaysInRange
  <2>5. tries' \in [Relays -> [Events -> 0 .. MaxAttempts]]
    BY <2>2, <2>3
  <2> QED BY <2>1, <2>2, <2>3, <2>4, <2>5
<1>5. ASSUME NEW r \in Relays, NEW e \in Events, PublishOk(r, e) PROVE TypeOK'
  BY <1>5 DEF PublishOk
<1>6. ASSUME NEW r \in Relays, NEW e \in Events, PublishErr(r, e) PROVE TypeOK'
  BY <1>6 DEF PublishErr
<1>7. ASSUME NEW r \in Relays, MarkPublished(r) PROVE TypeOK'
  <2>1. row' \in [Events -> RowStates]
    BY <1>7 DEF MarkPublished
  <2>2. age' \in [Events -> 0 .. Retention + 1]
    <3>1. 0 \in 0 .. Retention + 1
      OBVIOUS
    <3> QED BY <1>7, <3>1 DEF MarkPublished
  <2>3. NextRow(r)
    BY <1>7 DEF MarkPublished
  <2> QED BY <1>7, <2>1, <2>2, <2>3, NextRowType DEF MarkPublished
<1>8. ASSUME NEW r \in Relays, MarkFailed(r) PROVE TypeOK'
  <2>1. due' \in [Events -> 0 .. MaxDelay]
    BY <1>8, DelaysInRange DEF MarkFailed
  <2>2. NextRow(r)
    BY <1>8 DEF MarkFailed
  <2>3. late' \in SUBSET Events
    BY <1>8 DEF MarkFailed, LeasedElsewhere
  <2> QED BY <1>8, <2>1, <2>2, <2>3, NextRowType DEF MarkFailed
<1>9. ASSUME NEW r \in Relays, EndBatch(r) PROVE TypeOK'
  BY <1>9 DEF EndBatch
<1>10. ASSUME NEW r \in Relays, Purge(r) PROVE TypeOK'
  BY <1>10 DEF Purge
<1>11. ASSUME NEW r \in Relays, StorageError(r) \/ Crash(r) PROVE TypeOK'
  <2>1. Abandoned(r) /\ UNCHANGED <<row, attempts, due, age, delivered, late, faulty>>
    BY <1>11 DEF StorageError, Crash
  <2>2. pc' \in [Relays -> PcStates]
    BY <1>11 DEF StorageError, Crash
  <2>3. [e \in Events |-> 0] \in [Events -> 0 .. MaxAttempts] /\ 0 \in 0 .. Lease
    OBVIOUS
  <2> QED BY <2>1, <2>2, <2>3 DEF Abandoned
<1>12. ASSUME NEW r \in Relays, Wake(r) \/ Shutdown(r) \/ Start(r) PROVE TypeOK'
  BY <1>12 DEF Wake, Shutdown, Start
<1>13. CASE Tick
  <2>1. due' \in [Events -> 0 .. MaxDelay]
    <3>1. \A d \in 0 .. MaxDelay : (IF d = 0 THEN 0 ELSE d - 1) \in 0 .. MaxDelay
      BY DelaysInRange
    <3> QED BY <1>13, <3>1 DEF Tick
  <2>2. age' \in [Events -> 0 .. Retention + 1]
    BY <1>13 DEF Tick, Smaller
  <2>3. lease' \in [Relays -> 0 .. Lease]
    <3>1. \A d \in 0 .. Lease : (IF d = 0 THEN 0 ELSE d - 1) \in 0 .. Lease
      OBVIOUS
    <3> QED BY <1>13, <3>1 DEF Tick
  <2> QED BY <1>13, <2>1, <2>2, <2>3 DEF Tick
<1>14. CASE Recover
  BY <1>14 DEF Recover
<1>15. CASE UNCHANGED vars
  BY <1>15 DEF vars
<1> QED
  BY <1>1, <1>2, <1>3, <1>4, <1>5, <1>6, <1>7, <1>8, <1>9, <1>10, <1>11, <1>12,
     <1>13, <1>14, <1>15 DEF Next, RelayStep, RelayFault

LEMMA InitIInv == Init => IInv
<1> SUFFICES ASSUME Init PROVE IInv
  OBVIOUS
<1>1. TypeOK
  BY ConstantsAssumption, DelaysInRange DEF Init, TypeOK, RowStates, PcStates
<1> QED
  BY <1>1 DEF Init, IInv, Focus, HeldRowsCommitted, AcknowledgedBeforeMark,
              NoEventLost, NoEventWithoutCommit, Committed

\* Every step of a writer, a relay or the environment keeps the invariant.
LEMMA IInvStep == IInv /\ [Next]_vars => IInv'
<1> SUFFICES ASSUME IInv, [Next]_vars PROVE IInv'
  OBVIOUS
<1> USE DEF IInv, Committed
<1>0. TypeOK'
  BY TypeStep
<1>1. ASSUME NEW e \in Events, Enqueue(e) \/ CommitTx(e) \/ RollbackTx(e)
      PROVE  IInv'
  <2>1. /\ row[e] \notin Committed
        /\ row'[e] \notin {"published", "purged"}
        /\ \A f \in Events : f # e => row'[f] = row[f]
        /\ UNCHANGED <<delivered, relayVars>>
    BY <1>1 DEF Enqueue, CommitTx, RollbackTx, TypeOK
  <2>2. \A r \in Relays : e \notin batch[r]
    BY <2>1 DEF HeldRowsCommitted
  <2>3. e \notin delivered
    BY <2>1 DEF NoEventWithoutCommit
  <2>4. HeldRowsCommitted'
    BY <2>1, <2>2 DEF HeldRowsCommitted, relayVars, TypeOK
  <2>5. NoEventLost'
    BY <2>1 DEF NoEventLost
  <2>6. NoEventWithoutCommit'
    BY <2>1, <2>3 DEF NoEventWithoutCommit, TypeOK
  <2> QED
    BY <1>0, <2>1, <2>4, <2>5, <2>6 DEF relayVars, Focus, AcknowledgedBeforeMark
<1>2. ASSUME NEW r \in Relays, Claim(r) PROVE IInv'
  <2>1. /\ batch' = [batch EXCEPT ![r] = OldestOf(Claimable)]
        /\ pc' = [pc EXCEPT ![r] = "send"]
        /\ UNCHANGED <<row, delivered, cur>>
    BY <1>2 DEF Claim
  <2>2. \A e \in OldestOf(Claimable) : row[e] = "pending"
    BY OldestIsSubset DEF Claimable
  <2>3. HeldRowsCommitted'
    BY <2>1, <2>2 DEF HeldRowsCommitted, TypeOK
  <2>4. Focus' /\ AcknowledgedBeforeMark'
    BY <2>1 DEF Focus, AcknowledgedBeforeMark, TypeOK
  <2> QED BY <1>0, <2>1, <2>3, <2>4 DEF NoEventLost, NoEventWithoutCommit
<1>3. ASSUME NEW r \in Relays, NEW e \in Events, PublishOk(r, e) \/ PublishErr(r, e)
      PROVE  IInv'
  <2>1. /\ e \in batch[r]
        /\ delivered' \in {delivered, delivered \cup {e}}
        /\ cur' = [cur EXCEPT ![r] = e]
        /\ \/ pc' = [pc EXCEPT ![r] = "mark_published"] /\ e \in delivered'
           \/ pc' = [pc EXCEPT ![r] = "mark_failed"]
        /\ UNCHANGED <<row, batch>>
    BY <1>3 DEF PublishOk, PublishErr, rowVars
  <2>2. row[e] \in Committed
    BY <2>1 DEF HeldRowsCommitted
  <2>3. Focus'
    BY <2>1 DEF Focus, TypeOK
  <2>4. AcknowledgedBeforeMark'
    BY <2>1 DEF AcknowledgedBeforeMark, TypeOK
  <2>5. NoEventLost' /\ NoEventWithoutCommit' /\ HeldRowsCommitted'
    BY <2>1, <2>2 DEF NoEventLost, NoEventWithoutCommit, HeldRowsCommitted
  <2> QED BY <1>0, <2>3, <2>4, <2>5
<1>4. ASSUME NEW r \in Relays, MarkPublished(r) \/ MarkFailed(r) PROVE IInv'
  <2>1. /\ cur[r] \in batch[r]
        /\ cur[r] \in Events
        /\ row[cur[r]] \in Committed
        /\ pc[r] = "mark_published" => cur[r] \in delivered
    BY <1>4 DEF MarkPublished, MarkFailed, Focus, HeldRowsCommitted,
                AcknowledgedBeforeMark, TypeOK
  <2>2. /\ batch' = [batch EXCEPT ![r] = batch[r] \ {cur[r]}]
        /\ pc' = [pc EXCEPT ![r] = "send"]
        /\ cur' = [cur EXCEPT ![r] = 0]
        /\ UNCHANGED delivered
    BY <1>4 DEF MarkPublished, MarkFailed, NextRow
  <2>3. \/ row' = row
        \/ /\ row' = [row EXCEPT ![cur[r]] = "published"]
           /\ cur[r] \in delivered
    BY <1>4, <2>1 DEF MarkPublished, MarkFailed
  <2>4. Focus' /\ AcknowledgedBeforeMark'
    BY <2>2 DEF Focus, AcknowledgedBeforeMark, TypeOK
  <2>5. HeldRowsCommitted'
    BY <2>1, <2>2, <2>3 DEF HeldRowsCommitted, TypeOK
  <2>6. NoEventLost'
    BY <2>1, <2>2, <2>3 DEF NoEventLost, TypeOK
  <2>7. NoEventWithoutCommit'
    BY <2>1, <2>2, <2>3 DEF NoEventWithoutCommit, TypeOK
  <2> QED BY <1>0, <2>4, <2>5, <2>6, <2>7
<1>5. ASSUME NEW r \in Relays, Purge(r) PROVE IInv'
  <2>1. PICK P \in SUBSET Expired : row' = [e \in Events |-> IF e \in P THEN "purged" ELSE row[e]]
    <3>1. \A Q \in (IF Retention = 0 THEN {{}} ELSE PurgeBatches(Expired)) : Q \in SUBSET Expired
      BY DEF PurgeBatches
    <3> QED BY <1>5, <3>1 DEF Purge
  <2>2. \A e \in P : e \in Events /\ row[e] = "published" /\ e \in delivered
    BY DEF Expired, NoEventLost
  <2>3. pc' = [pc EXCEPT ![r] = "sleep"] /\ UNCHANGED <<delivered, batch, cur>>
    BY <1>5 DEF Purge
  <2>4. Focus' /\ AcknowledgedBeforeMark'
    BY <2>3 DEF Focus, AcknowledgedBeforeMark, TypeOK
  <2>5. HeldRowsCommitted'
    BY <2>1, <2>2, <2>3 DEF HeldRowsCommitted, TypeOK
  <2>6. NoEventLost' /\ NoEventWithoutCommit'
    BY <2>1, <2>2, <2>3 DEF NoEventLost, NoEventWithoutCommit, TypeOK
  <2> QED BY <1>0, <2>4, <2>5, <2>6
<1>6. ASSUME NEW r \in Relays, StorageError(r) \/ Crash(r) PROVE IInv'
  <2>1. /\ batch' = [batch EXCEPT ![r] = {}]
        /\ cur' = [cur EXCEPT ![r] = 0]
        /\ \E c \in {"sleep", "stopped"} : pc' = [pc EXCEPT ![r] = c]
        /\ UNCHANGED <<row, delivered>>
    BY <1>6 DEF StorageError, Crash, Abandoned, rowVars
  <2>2. Focus' /\ AcknowledgedBeforeMark' /\ HeldRowsCommitted'
    BY <2>1 DEF Focus, AcknowledgedBeforeMark, HeldRowsCommitted, TypeOK
  <2> QED BY <1>0, <2>1, <2>2 DEF NoEventLost, NoEventWithoutCommit
<1>7. ASSUME NEW r \in Relays, EndBatch(r) \/ Wake(r) \/ Shutdown(r) \/ Start(r)
      PROVE  IInv'
  <2>1. /\ \E c \in {"purge", "poll", "stopped"} : pc' = [pc EXCEPT ![r] = c]
        /\ UNCHANGED <<row, delivered, batch, cur>>
    BY <1>7 DEF EndBatch, Wake, Shutdown, Start, rowVars
  <2>2. Focus' /\ AcknowledgedBeforeMark'
    BY <2>1 DEF Focus, AcknowledgedBeforeMark, TypeOK
  <2> QED
    BY <1>0, <2>1, <2>2 DEF HeldRowsCommitted, NoEventLost, NoEventWithoutCommit
<1>8. CASE Tick \/ Recover \/ UNCHANGED vars
  <2>1. UNCHANGED <<row, delivered, pc, batch, cur>>
    BY <1>8 DEF Tick, Recover, vars, rowVars, relayVars
  <2> QED
    BY <1>0, <2>1 DEF Focus, HeldRowsCommitted, AcknowledgedBeforeMark,
                      NoEventLost, NoEventWithoutCommit
<1> QED
  BY <1>1, <1>2, <1>3, <1>4, <1>5, <1>6, <1>7, <1>8 DEF Next, RelayStep, RelayFault

\* The inductive invariant holds in every reachable state.
THEOREM Invariance == Spec => []IInv
<1> QED BY InitIInv, IInvStep, PTL DEF Spec

\* Type correctness of the outbox, its relays and the broker.
THEOREM TypeCorrect == Spec => []TypeOK
<1>1. IInv => TypeOK
  BY DEF IInv
<1> QED BY <1>1, Invariance, PTL

\* No committed event is lost: a published or purged row was delivered.
THEOREM EventsAreNotLost == Spec => []NoEventLost
<1>1. IInv => NoEventLost
  BY DEF IInv
<1> QED BY <1>1, Invariance, PTL

\* No event is invented: what was delivered belongs to a committed transaction.
THEOREM EventsAreNotInvented == Spec => []NoEventWithoutCommit
<1>1. IInv => NoEventWithoutCommit
  BY DEF IInv
<1> QED BY <1>1, Invariance, PTL

\* published_at is written once: no relay, however late, moves it or clears it.
THEOREM PublishedAtNeverMoves == Spec => PublishedAtIsFinal
<1> DEFINE Final == \A e \in Events : row[e] = "published" =>
                      \/ row'[e] = "purged"
                      \/ row'[e] = "published" /\ age'[e] >= age[e]
<1>1. TypeOK /\ [Next]_vars => [Final]_vars
  <2> SUFFICES ASSUME TypeOK, Next, NEW e \in Events, row[e] = "published"
               PROVE  \/ row'[e] = "purged"
                      \/ row'[e] = "published" /\ age'[e] >= age[e]
    BY DEF vars
  <2>0. age[e] \in Nat /\ age[e] <= Retention + 1
    BY ConstantsAssumption DEF TypeOK
  <2>1. ASSUME NEW f \in Events, Enqueue(f) \/ CommitTx(f) \/ RollbackTx(f)
        PROVE  row'[e] = "published" /\ age' = age
    BY <2>1 DEF Enqueue, CommitTx, RollbackTx, TypeOK
  <2>2. ASSUME NEW r \in Relays, MarkPublished(r)
        PROVE  row'[e] = "published" /\ age'[e] = age[e]
    BY <2>2 DEF MarkPublished, TypeOK
  <2>3. ASSUME NEW r \in Relays, Purge(r)
        PROVE  row'[e] \in {"published", "purged"} /\ age' = age
    BY <2>3 DEF Purge
  <2>4. ASSUME NEW r \in Relays,
               \/ Claim(r) \/ EndBatch(r) \/ MarkFailed(r) \/ Wake(r) \/ Start(r)
               \/ StorageError(r) \/ Crash(r) \/ Shutdown(r)
               \/ \E f \in Events : PublishOk(r, f) \/ PublishErr(r, f)
        PROVE  UNCHANGED <<row, age>>
    BY <2>4 DEF Claim, EndBatch, MarkFailed, Wake, Start, StorageError, Crash,
                Shutdown, PublishOk, PublishErr, rowVars
  <2>5. CASE Tick
    BY <2>0, <2>5, ConstantsAssumption DEF Tick, Smaller
  <2>6. CASE Recover
    BY <2>0, <2>6 DEF Recover, rowVars
  <2> QED
    BY <2>0, <2>1, <2>2, <2>3, <2>4, <2>5, <2>6 DEF Next, RelayStep, RelayFault
<1> QED BY <1>1, TypeCorrect, PTL DEF Spec, PublishedAtIsFinal

------------------------------------------------------------------------------
(* EventOutbox implements AtLeastOnceEvents. *)

\* The row of an event is seen as its transaction; a step that leaves the rows
\* and the broker alone is a stuttering step of the abstract specification.
LEMMA AbstractStutter ==
  ASSUME UNCHANGED <<row, delivered>>
  PROVE  UNCHANGED ALO!vars
  BY DEF ALO!vars, AbstractTxn

\* Every step of the outbox is a step of the abstract specification.
LEMMA StepImplements == IInv /\ [Next]_vars => [ALO!Next]_(ALO!vars)
<1> SUFFICES ASSUME IInv, [Next]_vars PROVE [ALO!Next]_(ALO!vars)
  OBVIOUS
<1> USE DEF IInv
<1> DEFINE gone == {e \in Events : row[e] = "purged"}
<1>1. ASSUME NEW e \in Events, Enqueue(e) PROVE UNCHANGED ALO!vars
  <2>1. AbstractTxn' = AbstractTxn
    BY <1>1 DEF Enqueue, AbstractTxn, TypeOK
  <2>2. gone' = gone
    BY <1>1 DEF Enqueue, TypeOK
  <2> QED BY <1>1, <2>1, <2>2 DEF ALO!vars, Enqueue
<1>2. ASSUME NEW e \in Events, CommitTx(e) PROVE ALO!Commit(e)
  <2>1. AbstractTxn[e] = "idle" /\ AbstractTxn' = [AbstractTxn EXCEPT ![e] = "committed"]
    BY <1>2 DEF CommitTx, AbstractTxn, TypeOK
  <2>2. gone' = gone
    BY <1>2 DEF CommitTx, TypeOK
  <2> QED BY <1>2, <2>1, <2>2 DEF ALO!Commit, CommitTx
<1>3. ASSUME NEW e \in Events, RollbackTx(e) PROVE ALO!Rollback(e)
  <2>1. AbstractTxn[e] = "idle" /\ AbstractTxn' = [AbstractTxn EXCEPT ![e] = "rolledback"]
    BY <1>3 DEF RollbackTx, AbstractTxn, TypeOK
  <2>2. gone' = gone
    BY <1>3 DEF RollbackTx, TypeOK
  <2> QED BY <1>3, <2>1, <2>2 DEF ALO!Rollback, RollbackTx
<1>4. ASSUME NEW r \in Relays, NEW e \in Events, PublishOk(r, e) \/ PublishErr(r, e)
      PROVE  [ALO!Next]_(ALO!vars)
  <2>1. e \in batch[r] /\ row' = row /\ delivered' \in {delivered, delivered \cup {e}}
    BY <1>4 DEF PublishOk, PublishErr, rowVars
  <2>2. AbstractTxn[e] = "committed"
    BY <2>1 DEF HeldRowsCommitted, Committed, AbstractTxn
  <2>3. CASE delivered' = delivered
    BY <2>1, <2>3, AbstractStutter
  <2>4. CASE delivered' = delivered \cup {e}
    <3>1. AbstractTxn' = AbstractTxn
      BY <2>1 DEF AbstractTxn
    <3>2. ALO!Deliver(e)
      BY <2>1, <2>2, <2>4, <3>1 DEF ALO!Deliver
    <3> QED BY <3>2 DEF ALO!Next
  <2> QED BY <2>1, <2>3, <2>4
<1>5. ASSUME NEW r \in Relays, MarkPublished(r) PROVE UNCHANGED ALO!vars
  <2>1. AbstractTxn' = AbstractTxn
    BY <1>5 DEF MarkPublished, AbstractTxn, TypeOK
  <2>2. gone' = gone
    BY <1>5 DEF MarkPublished, TypeOK
  <2> QED BY <1>5, <2>1, <2>2 DEF ALO!vars, MarkPublished
<1>6. ASSUME NEW r \in Relays, Purge(r) PROVE [ALO!Next]_(ALO!vars)
  <2>1. PICK P \in SUBSET Expired : row' = [e \in Events |-> IF e \in P THEN "purged" ELSE row[e]]
    <3>1. \A Q \in (IF Retention = 0 THEN {{}} ELSE PurgeBatches(Expired)) : Q \in SUBSET Expired
      BY DEF PurgeBatches
    <3> QED BY <1>6, <3>1 DEF Purge
  <2>2. \A e \in P : e \in Events /\ row[e] = "published" /\ e \in delivered
    BY DEF Expired, NoEventLost
  <2>3. AbstractTxn' = AbstractTxn
    BY <2>1, <2>2 DEF AbstractTxn, TypeOK
  <2>4. gone' = gone \cup P
    BY <2>1, <2>2
  <2>5. ALO!Forget(P)
    BY <1>6, <2>2, <2>3, <2>4 DEF ALO!Forget, Purge
  <2>6. P \in SUBSET Events
    BY <2>2
  <2> QED BY <2>5, <2>6 DEF ALO!Next
<1>7. ASSUME NEW r \in Relays,
             \/ Claim(r) \/ EndBatch(r) \/ MarkFailed(r) \/ Wake(r) \/ Start(r)
             \/ StorageError(r) \/ Crash(r) \/ Shutdown(r)
      PROVE  UNCHANGED ALO!vars
  <2>1. UNCHANGED <<row, delivered>>
    BY <1>7 DEF Claim, EndBatch, MarkFailed, Wake, Start, StorageError, Crash,
                Shutdown, rowVars
  <2> QED BY <2>1, AbstractStutter
<1>8. CASE Tick \/ Recover \/ UNCHANGED vars
  <2>1. UNCHANGED <<row, delivered>>
    BY <1>8 DEF Tick, Recover, vars, rowVars
  <2> QED BY <2>1, AbstractStutter
<1> QED
  BY <1>1, <1>2, <1>3, <1>4, <1>5, <1>6, <1>7, <1>8
  DEF Next, RelayStep, RelayFault, ALO!Next

\* The outbox implements its abstract specification: events are delivered at
\* least once, only for committed transactions, and forgotten only afterwards.
THEOREM Refinement == Spec => ImplementsAtLeastOnce
<1>1. Init => ALO!Init
  BY DEF Init, ALO!Init, AbstractTxn
<1> QED
  BY <1>1, StepImplements, Invariance, PTL DEF Spec, ImplementsAtLeastOnce, ALO!Spec

------------------------------------------------------------------------------
(* Leases: two relays hold a row under running leases only if a relay has  *)
(* reported a failure for it under the lease of another.                   *)

\* Each step keeps the schedule behind the running leases, and so the leases
\* of two relays apart.
LEMMA LeaseStep ==
  ASSUME IInv, LeaseHoldsSchedule, LeaseExclusive, [Next]_vars
  PROVE  LeaseHoldsSchedule' /\ LeaseExclusive'
<1> USE ConstantsAssumption
<1>0. TypeOK /\ TypeOK' /\ MaxDelay \in Nat
  BY TypeStep, DelaysInRange DEF IInv
<1>1. ASSUME NEW e \in Events, Enqueue(e) \/ CommitTx(e) \/ RollbackTx(e)
      PROVE  LeaseHoldsSchedule' /\ LeaseExclusive'
  <2>1. /\ row[e] \notin Committed
        /\ \A f \in Events : f # e => row'[f] = row[f]
        /\ UNCHANGED <<due, batch, lease, late>>
    BY <1>0, <1>1 DEF Enqueue, CommitTx, RollbackTx, TypeOK, relayVars, Committed
  <2>2. \A r \in Relays : e \notin batch[r]
    BY <2>1 DEF HeldRowsCommitted, IInv
  <2> QED BY <1>0, <2>1, <2>2 DEF LeaseHoldsSchedule, LeaseExclusive, TypeOK
<1>2. ASSUME NEW r \in Relays, Claim(r) PROVE LeaseHoldsSchedule' /\ LeaseExclusive'
  <2> DEFINE picked == OldestOf(Claimable)
  <2>1. /\ due' = [e \in Events |-> IF e \in picked THEN Lease ELSE due[e]]
        /\ batch' = [batch EXCEPT ![r] = picked]
        /\ lease' = [lease EXCEPT ![r] = Lease]
        /\ row' = row /\ late' = late
    BY <1>2 DEF Claim
  <2>2. \A e \in picked : e \in Events /\ row[e] = "pending" /\ due[e] = 0
    BY OldestIsSubset DEF Claimable
  <2> HIDE DEF picked
  <2>3. \A s \in Relays : lease[s] > 0 => batch[s] \cap picked \subseteq late
    <3> SUFFICES ASSUME NEW s \in Relays, lease[s] > 0, NEW e \in batch[s], e \in picked
                 PROVE  e \in late
      OBVIOUS
    <3>1. e \in late \/ due[e] >= lease[s]
      BY <2>2 DEF LeaseHoldsSchedule
    <3>2. due[e] = 0 /\ lease[s] \in Nat
      BY <1>0, <2>2 DEF TypeOK
    <3> QED BY <3>1, <3>2
  <2>4. LeaseHoldsSchedule'
    <3> SUFFICES ASSUME NEW s \in Relays, NEW e \in batch'[s], lease'[s] > 0
                 PROVE  row'[e] # "pending" \/ e \in late' \/ due'[e] >= lease'[s]
      BY DEF LeaseHoldsSchedule
    <3>1. CASE s = r
      BY <1>0, <2>1, <2>2, <3>1 DEF TypeOK
    <3>2. CASE s # r
      <4>1. batch'[s] = batch[s] /\ lease'[s] = lease[s] /\ e \in Events
        BY <1>0, <2>1, <3>2 DEF TypeOK
      <4>2. e \notin picked \/ e \in late
        BY <2>3, <4>1
      <4> QED BY <2>1, <4>1, <4>2 DEF LeaseHoldsSchedule
    <3> QED BY <3>1, <3>2
  <2>5. LeaseExclusive'
    <3> SUFFICES ASSUME NEW s \in Relays, NEW t \in Relays, s # t,
                        lease'[s] > 0, lease'[t] > 0
                 PROVE  batch'[s] \cap batch'[t] \subseteq late'
      BY DEF LeaseExclusive
    <3>1. \A u \in Relays : u # r => batch'[u] = batch[u] /\ lease'[u] = lease[u]
      BY <1>0, <2>1 DEF TypeOK
    <3>2. batch'[r] = picked
      BY <1>0, <2>1 DEF TypeOK
    <3> QED BY <2>1, <2>3, <3>1, <3>2 DEF LeaseExclusive
  <2> QED BY <2>4, <2>5
<1>3. ASSUME NEW r \in Relays, MarkPublished(r) \/ MarkFailed(r)
      PROVE  LeaseHoldsSchedule' /\ LeaseExclusive'
  <2>1. /\ batch' = [batch EXCEPT ![r] = batch[r] \ {cur[r]}]
        /\ lease' = lease /\ late \subseteq late'
        /\ cur[r] \in batch[r] /\ cur[r] \in Events
    BY <1>0, <1>3 DEF MarkPublished, MarkFailed, NextRow, IInv, Focus, TypeOK
  <2>2. ASSUME NEW e \in Events
        PROVE  row'[e] # "pending" \/ (row[e] = "pending" /\ due'[e] = due[e])
               \/ (e = cur[r] /\ MarkFailed(r))
    BY <1>0, <1>3 DEF MarkPublished, MarkFailed, TypeOK
  <2>3. \A s \in Relays : batch'[s] \subseteq batch[s] /\ batch[s] \subseteq Events
                          /\ lease[s] \in 0 .. Lease
    BY <1>0, <2>1 DEF TypeOK
  <2>4. LeaseHoldsSchedule'
    <3> SUFFICES ASSUME NEW s \in Relays, NEW e \in batch'[s], lease'[s] > 0
                 PROVE  row'[e] # "pending" \/ e \in late' \/ due'[e] >= lease'[s]
      BY DEF LeaseHoldsSchedule
    <3>1. e \in Events /\ e \in batch[s] /\ lease'[s] = lease[s] /\ lease[s] > 0
      BY <2>1, <2>3
    <3>2. row[e] # "pending" \/ e \in late \/ due[e] >= lease[s]
      BY <3>1 DEF LeaseHoldsSchedule
    \* The row in hand of r: either r's own lease runs, which keeps s away from the
    \* row, or the report is late.
    <3>3. CASE e = cur[r] /\ MarkFailed(r)
      <4>1. s # r
        BY <1>0, <2>1, <3>3 DEF TypeOK
      <4>2. CASE lease[r] > 0
        BY <2>1, <3>1, <3>3, <4>1, <4>2 DEF LeaseExclusive
      <4>3. CASE lease[r] = 0
        BY <3>1, <3>3, <4>1, <4>3 DEF MarkFailed, LeasedElsewhere
      <4> QED BY <2>3, <4>2, <4>3
    <3> QED BY <2>1, <2>2, <3>1, <3>2, <3>3
  <2>5. LeaseExclusive'
    BY <2>1, <2>3 DEF LeaseExclusive
  <2> QED BY <2>4, <2>5
<1>4. ASSUME NEW r \in Relays, StorageError(r) \/ Crash(r) \/ EndBatch(r)
      PROVE  LeaseHoldsSchedule' /\ LeaseExclusive'
  <2>1. /\ batch' \in {batch, [batch EXCEPT ![r] = {}]}
        /\ lease' = [lease EXCEPT ![r] = 0]
        /\ UNCHANGED <<row, due, late>>
    BY <1>4 DEF StorageError, Crash, EndBatch, Abandoned, rowVars
  <2> QED BY <1>0, <2>1 DEF LeaseHoldsSchedule, LeaseExclusive, TypeOK
<1>5. ASSUME NEW r \in Relays, Purge(r) PROVE LeaseHoldsSchedule' /\ LeaseExclusive'
  <2>1. /\ \A e \in Events : row'[e] = row[e] \/ row'[e] # "pending"
        /\ UNCHANGED <<due, batch, lease, late>>
    BY <1>5 DEF Purge
  <2> QED BY <1>0, <2>1 DEF LeaseHoldsSchedule, LeaseExclusive, TypeOK
<1>6. ASSUME NEW r \in Relays,
             \/ Wake(r) \/ Start(r) \/ Shutdown(r)
             \/ \E e \in Events : PublishOk(r, e) \/ PublishErr(r, e)
      PROVE  UNCHANGED <<row, due, batch, lease, late>>
  BY <1>6 DEF Wake, Start, Shutdown, PublishOk, PublishErr, rowVars
<1>7. CASE Tick
  <2>1. \A e \in Events : due[e] \in Nat /\ due'[e] = (IF due[e] = 0 THEN 0 ELSE due[e] - 1)
    BY <1>0, <1>7 DEF Tick, TypeOK
  <2>2. \A r \in Relays : lease[r] \in Nat /\ lease'[r] = (IF lease[r] = 0 THEN 0 ELSE lease[r] - 1)
    BY <1>0, <1>7 DEF Tick, TypeOK
  <2>3. UNCHANGED <<row, batch, late>>
    BY <1>7 DEF Tick
  <2>4. LeaseHoldsSchedule'
    <3> SUFFICES ASSUME NEW s \in Relays, NEW e \in batch[s], lease'[s] > 0
                 PROVE  row[e] # "pending" \/ e \in late \/ due'[e] >= lease'[s]
      BY <2>3 DEF LeaseHoldsSchedule
    <3>1. e \in Events /\ lease[s] > 0 /\ lease'[s] = lease[s] - 1
      BY <1>0, <2>2 DEF TypeOK
    <3>2. row[e] # "pending" \/ e \in late \/ due[e] >= lease[s]
      BY <3>1 DEF LeaseHoldsSchedule
    <3> QED BY <2>1, <2>2, <3>1, <3>2
  <2>5. LeaseExclusive'
    BY <2>2, <2>3 DEF LeaseExclusive
  <2> QED BY <2>4, <2>5
<1>8. CASE Recover \/ UNCHANGED vars
  BY <1>8 DEF Recover, vars, rowVars, relayVars, LeaseHoldsSchedule, LeaseExclusive
<1>9. ASSUME UNCHANGED <<row, due, batch, lease, late>>
      PROVE  LeaseHoldsSchedule' /\ LeaseExclusive'
  BY <1>9 DEF LeaseHoldsSchedule, LeaseExclusive
<1> QED
  BY <1>1, <1>2, <1>3, <1>4, <1>5, <1>6, <1>7, <1>8, <1>9 DEF Next, RelayStep, RelayFault

\* Two relays hold the same row under running leases only after a relay whose own
\* lease had run out called mark_outbox_failed for it under the lease of another:
\* claim_pending_outbox and reports in time keep them apart, for any lease, backoff
\* and batch size, and whatever crashes.
THEOREM LeasesDoNotOverlap == Spec => []LeaseExclusive
<1>1. Init => LeaseHoldsSchedule /\ LeaseExclusive
  BY DEF Init, LeaseHoldsSchedule, LeaseExclusive
<1>2. IInv /\ LeaseHoldsSchedule /\ LeaseExclusive /\ [Next]_vars
        => (LeaseHoldsSchedule /\ LeaseExclusive)'
  BY LeaseStep
<1> QED BY <1>1, <1>2, Invariance, PTL DEF Spec

==============================================================================
