----------------------------- MODULE EventOutbox -----------------------------
(***************************************************************************)
(* The transactional outbox of OSINT Core.  Business transactions insert a *)
(* row into event_outbox; one or more relays (one per osint-api process,   *)
(* core-api/src/outbox.rs) claim due rows under a lease, publish them one   *)
(* by one to the broker and mark each of them published or failed.         *)
(*                                                                         *)
(* Timestamps are kept relative to the current time: due[e] is             *)
(* next_attempt_at - now floored at 0, so that next_attempt_at <= now is   *)
(* due[e] = 0, and age[e] is now - published_at.  No clock value is needed  *)
(* and time never runs out.                                                *)
(***************************************************************************)
EXTENDS Integers, FiniteSets

CONSTANTS NumEvents,     \* number of business transactions that emit an event
          Relays,        \* the relay loops
          Lease,         \* lease_ms
          BackoffBase,   \* backoff_base_ms
          BackoffMax,    \* backoff_max_ms
          Retention,     \* published_retention_hours; 0 disables the purge
          BatchSize,     \* batch_size, after clamp_outbox_limit
          MaxAttempts    \* bound: attempts stops counting here

ASSUME ConstantsAssumption ==
  /\ NumEvents \in Nat
  /\ Lease \in Nat \ {0}
  /\ BackoffBase \in Nat \ {0}
  /\ BackoffMax \in Nat \ {0}
  /\ BackoffBase <= BackoffMax
  /\ Retention \in Nat
  /\ BatchSize \in Nat \ {0}
  /\ MaxAttempts \in Nat \ {0}

\* A row id is a UUID v7: ids are ordered by created_at.
Events == 1 .. NumEvents
NoEvent == 0

VARIABLES row,       \* life of the row: the transaction, then published_at
          attempts,  \* column attempts
          due,       \* next_attempt_at - now
          age,       \* now - published_at
          delivered, \* ids of the envelopes the broker has stored
          pc,        \* control state of each relay
          batch,     \* claimed rows the relay has not dealt with yet
          tries,     \* attempts of each claimed row as RETURNING reported it
          cur,       \* row the relay is publishing or marking
          lease,     \* what is left of the lease of the relay's round
          late,      \* rows a relay reported failed under the lease of another: history
          faulty     \* crashes, storage errors and broker errors may happen

rowVars   == <<row, attempts, due, age>>
relayVars == <<pc, batch, tries, cur, lease>>
vars == <<row, attempts, due, age, delivered, pc, batch, tries, cur, lease, late, faulty>>

RowStates == {"none", "open", "pending", "published", "purged", "rolledback"}
PcStates  == {"poll", "send", "mark_published", "mark_failed", "purge", "sleep", "stopped"}

Smaller(a, b) == IF a < b THEN a ELSE b

\* The longest time a row can be scheduled ahead.
MaxDelay == IF BackoffMax < Lease THEN Lease ELSE BackoffMax

\* attempts.saturating_sub(1).max(0), at most 20
BackoffExponent(n) == IF n > 0 THEN Smaller(n - 1, 20) ELSE 0

\* The delay doubles with every attempt up to the configured maximum (the
\* product is never below the base, so the test on the range is a minimum).
BackoffDelay(n) == LET ms == BackoffBase * 2 ^ BackoffExponent(n)
                   IN IF ms \in BackoffBase .. BackoffMax THEN ms ELSE BackoffMax

TypeOK ==
  /\ row \in [Events -> RowStates]
  /\ attempts \in [Events -> 0 .. MaxAttempts]
  /\ due \in [Events -> 0 .. MaxDelay]
  /\ age \in [Events -> 0 .. Retention + 1]
  /\ delivered \subseteq Events
  /\ pc \in [Relays -> PcStates]
  /\ batch \in [Relays -> SUBSET Events]
  /\ tries \in [Relays -> [Events -> 0 .. MaxAttempts]]
  /\ cur \in [Relays -> Events \cup {NoEvent}]
  /\ lease \in [Relays -> 0 .. Lease]
  /\ late \subseteq Events
  /\ faulty \in BOOLEAN

Init ==
  /\ row = [e \in Events |-> "none"]
  /\ attempts = [e \in Events |-> 0]
  /\ due = [e \in Events |-> 0]
  /\ age = [e \in Events |-> 0]
  /\ delivered = {}
  /\ pc = [r \in Relays |-> "poll"]
  /\ batch = [r \in Relays |-> {}]
  /\ tries = [r \in Relays |-> [e \in Events |-> 0]]
  /\ cur = [r \in Relays |-> NoEvent]
  /\ lease = [r \in Relays |-> 0]
  /\ late = {}
  /\ faulty = TRUE

------------------------------------------------------------------------------
(* Writers: tx.store().put_*, tx.outbox().enqueue_outbox, tx.commit. *)

\* OutboxEvent::pending stamps the id and created_at; the row is invisible.
Enqueue(e) ==
  /\ row[e] = "none"
  /\ \A f \in 1 .. (e - 1) : row[f] # "none"
  /\ row' = [row EXCEPT ![e] = "open"]
  /\ UNCHANGED <<attempts, due, age, delivered, relayVars, late, faulty>>

CommitTx(e) ==
  /\ row[e] = "open"
  /\ row' = [row EXCEPT ![e] = "pending"]
  /\ UNCHANGED <<attempts, due, age, delivered, relayVars, late, faulty>>

RollbackTx(e) ==
  /\ row[e] = "open"
  /\ row' = [row EXCEPT ![e] = "rolledback"]
  /\ UNCHANGED <<attempts, due, age, delivered, relayVars, late, faulty>>

------------------------------------------------------------------------------
(* One round of a relay: relay_once. *)

\* published_at IS NULL AND next_attempt_at <= now
Claimable == {e \in Events : row[e] = "pending" /\ due[e] = 0}

\* ORDER BY created_at LIMIT batch_size
OldestOf(S) == {e \in S : Cardinality({f \in S : f < e}) < BatchSize}

\* Faulty variant: the lease is not written back to next_attempt_at.
ClaimWithoutLease(r) ==
  /\ pc[r] = "poll"
  /\ LET picked == OldestOf(Claimable)
     IN /\ batch' = [batch EXCEPT ![r] = picked]
        /\ tries' = [tries EXCEPT ![r] =
                       [e \in Events |-> IF e \in picked THEN 1 ELSE 0]]
        /\ lease' = [lease EXCEPT ![r] = Lease]
        /\ pc' = [pc EXCEPT ![r] = "send"]
  /\ UNCHANGED <<row, attempts, due, age, delivered, cur, late, faulty>>

\* claim_pending_outbox: one UPDATE ... RETURNING statement.
Claim(r) ==
  /\ pc[r] = "poll"
  /\ LET picked == OldestOf(Claimable)
         counted == [e \in Events |-> IF e \in picked
                                      THEN Smaller(attempts[e] + 1, MaxAttempts)
                                      ELSE attempts[e]]
     IN /\ attempts' = counted
        /\ due' = [e \in Events |-> IF e \in picked THEN Lease ELSE due[e]]
        /\ batch' = [batch EXCEPT ![r] = picked]
        /\ tries' = [tries EXCEPT ![r] =
                       [e \in Events |-> IF e \in picked THEN counted[e] ELSE 0]]
        /\ lease' = [lease EXCEPT ![r] = Lease]
        /\ pc' = [pc EXCEPT ![r] = "send"]
  /\ UNCHANGED <<row, age, delivered, cur, late, faulty>>

\* publish_envelope returned Ok.  RETURNING gives the rows in no fixed order.
PublishOk(r, e) ==
  /\ pc[r] = "send"
  /\ e \in batch[r]
  /\ delivered' = delivered \cup {e}
  /\ cur' = [cur EXCEPT ![r] = e]
  /\ pc' = [pc EXCEPT ![r] = "mark_published"]
  /\ UNCHANGED <<rowVars, batch, tries, lease, late, faulty>>

\* It returned Err; after a produce timeout the broker may hold the envelope.
PublishErr(r, e) ==
  /\ faulty
  /\ pc[r] = "send"
  /\ e \in batch[r]
  /\ delivered' \in {delivered, delivered \cup {e}}
  /\ cur' = [cur EXCEPT ![r] = e]
  /\ pc' = [pc EXCEPT ![r] = "mark_failed"]
  /\ UNCHANGED <<rowVars, batch, tries, lease, late, faulty>>

\* The row leaves the batch and the loop goes on with the next one.
NextRow(r) ==
  /\ batch' = [batch EXCEPT ![r] = @ \ {cur[r]}]
  /\ tries' = [tries EXCEPT ![r][cur[r]] = 0]
  /\ cur' = [cur EXCEPT ![r] = NoEvent]
  /\ pc' = [pc EXCEPT ![r] = "send"]
  /\ UNCHANGED lease

\* Faulty variant: the test on published_at is inverted.
MarkPublishedInverted(r) ==
  /\ pc[r] = "mark_published"
  /\ age' = IF row[cur[r]] = "published" THEN [age EXCEPT ![cur[r]] = 0] ELSE age
  /\ NextRow(r)
  /\ UNCHANGED <<row, attempts, due, delivered, late, faulty>>

\* mark_outbox_published, WHERE id = .. AND published_at IS NULL
MarkPublished(r) ==
  /\ pc[r] = "mark_published"
  /\ IF row[cur[r]] = "pending"
       THEN /\ row' = [row EXCEPT ![cur[r]] = "published"]
            /\ age' = [age EXCEPT ![cur[r]] = 0]
       ELSE UNCHANGED <<row, age>>
  /\ NextRow(r)
  /\ UNCHANGED <<attempts, due, delivered, late, faulty>>

\* Another relay has the row, under a running lease.
LeasedElsewhere(r, e) == \E s \in Relays \ {r} : lease[s] > 0 /\ e \in batch[s]

\* mark_outbox_failed, with the delay computed from the attempts RETURNING gave.
MarkFailed(r) ==
  /\ pc[r] = "mark_failed"
  /\ due' = IF row[cur[r]] = "pending"
              THEN [due EXCEPT ![cur[r]] = BackoffDelay(tries[r][cur[r]])]
              ELSE due
  /\ late' = IF lease[r] = 0 /\ LeasedElsewhere(r, cur[r]) THEN late \cup {cur[r]} ELSE late
  /\ NextRow(r)
  /\ UNCHANGED <<row, attempts, age, delivered, faulty>>

EndBatch(r) ==
  /\ pc[r] = "send"
  /\ batch[r] = {}
  /\ pc' = [pc EXCEPT ![r] = "purge"]
  /\ lease' = [lease EXCEPT ![r] = 0]
  /\ UNCHANGED <<rowVars, delivered, batch, tries, cur, late, faulty>>

\* Faulty variant: rows that keep failing are purged as well.
ExpiredOrHopeless == {e \in Events : \/ row[e] = "published" /\ age[e] > Retention
                                     \/ row[e] = "pending" /\ attempts[e] = MaxAttempts}

\* published_at < now - retention
Expired == {e \in Events : row[e] = "published" /\ age[e] > Retention}

\* ORDER BY published_at LIMIT batch_size: ties are broken arbitrarily.
PurgeBatches(S) ==
  {P \in SUBSET S :
     /\ Cardinality(P) = Smaller(Cardinality(S), BatchSize)
     /\ \A e \in P, f \in S \ P : age[e] >= age[f]}

\* purge_published_outbox, then the gauges; the relay sleeps.
Purge(r) ==
  /\ pc[r] = "purge"
  /\ \E P \in IF Retention = 0 THEN {{}} ELSE PurgeBatches(Expired) :
       row' = [e \in Events |-> IF e \in P THEN "purged" ELSE row[e]]
  /\ pc' = [pc EXCEPT ![r] = "sleep"]
  /\ UNCHANGED <<attempts, due, age, delivered, batch, tries, cur, lease, late, faulty>>

Abandoned(r) ==
  /\ batch' = [batch EXCEPT ![r] = {}]
  /\ tries' = [tries EXCEPT ![r] = [e \in Events |-> 0]]
  /\ cur' = [cur EXCEPT ![r] = NoEvent]
  /\ lease' = [lease EXCEPT ![r] = 0]

\* A storage call fails: `?` abandons the rest of the round.
StorageError(r) ==
  /\ faulty
  /\ pc[r] \in {"poll", "mark_published", "mark_failed", "purge"}
  /\ Abandoned(r)
  /\ pc' = [pc EXCEPT ![r] = "sleep"]
  /\ UNCHANGED <<rowVars, delivered, late, faulty>>

------------------------------------------------------------------------------
(* The loop around relay_once: event_outbox_loop. *)

Wake(r) ==
  /\ pc[r] = "sleep"
  /\ pc' = [pc EXCEPT ![r] = "poll"]
  /\ UNCHANGED <<rowVars, delivered, batch, tries, cur, lease, late, faulty>>

\* The shutdown signal is looked at between rounds only.
Shutdown(r) ==
  /\ pc[r] = "sleep"
  /\ pc' = [pc EXCEPT ![r] = "stopped"]
  /\ UNCHANGED <<rowVars, delivered, batch, tries, cur, lease, late, faulty>>

\* The process dies anywhere in a round.
Crash(r) ==
  /\ faulty
  /\ pc[r] # "stopped"
  /\ Abandoned(r)
  /\ pc' = [pc EXCEPT ![r] = "stopped"]
  /\ UNCHANGED <<rowVars, delivered, late, faulty>>

Start(r) ==
  /\ pc[r] = "stopped"
  /\ pc' = [pc EXCEPT ![r] = "poll"]
  /\ UNCHANGED <<rowVars, delivered, batch, tries, cur, lease, late, faulty>>

------------------------------------------------------------------------------
(* Environment. *)

Tick ==
  /\ due' = [e \in Events |-> IF due[e] = 0 THEN 0 ELSE due[e] - 1]
  /\ age' = [e \in Events |-> IF row[e] = "published"
                              THEN Smaller(age[e] + 1, Retention + 1) ELSE age[e]]
  /\ lease' = [r \in Relays |-> IF lease[r] = 0 THEN 0 ELSE lease[r] - 1]
  /\ UNCHANGED <<row, attempts, delivered, pc, batch, tries, cur, late, faulty>>

\* Broker and database recover for good and processes stop dying.
Recover ==
  /\ faulty
  /\ faulty' = FALSE
  /\ UNCHANGED <<rowVars, delivered, relayVars, late>>

RelayStep(r) ==
  \/ Claim(r) \/ EndBatch(r) \/ MarkPublished(r) \/ MarkFailed(r)
  \/ Purge(r) \/ Wake(r) \/ Start(r)
  \/ \E e \in Events : PublishOk(r, e)

RelayFault(r) ==
  \/ StorageError(r) \/ Crash(r) \/ Shutdown(r)
  \/ \E e \in Events : PublishErr(r, e)

Next ==
  \/ \E e \in Events : Enqueue(e) \/ CommitTx(e) \/ RollbackTx(e)
  \/ \E r \in Relays : RelayStep(r) \/ RelayFault(r)
  \/ Tick
  \/ Recover

Spec == Init /\ [][Next]_vars

\* A running loop keeps taking steps, a stopped process is started again and
\* the clock advances.
Fairness == /\ \A r \in Relays : WF_vars(RelayStep(r))
            /\ WF_vars(Tick /\ (due # due' \/ age # age' \/ lease # lease'))

FairSpec == Spec /\ Fairness

------------------------------------------------------------------------------
(* Properties. *)

\* A row counts as published, or has been purged, only when the broker holds
\* its event: neither an error, a crash between produce and mark, nor a second
\* relay working on the same row loses a committed event.
NoEventLost == \A e \in Events : row[e] \in {"published", "purged"} => e \in delivered

\* The broker never holds the event of a business transaction that did not
\* commit: enqueue_outbox shares the transaction of the business write.
NoEventWithoutCommit ==
  \A e \in delivered : row[e] \in {"pending", "published", "purged"}

\* Once a row is published no late relay touches published_at again: neither
\* a second mark_outbox_published nor a late mark_outbox_failed makes the row
\* pending or restarts its retention period.
PublishedAtIsFinal ==
  [][\A e \in Events : row[e] = "published" =>
        \/ row'[e] = "purged"
        \/ row'[e] = "published" /\ age'[e] >= age[e]]_vars

\* While the lease of a claim runs no second relay holds the same row, whatever
\* backoff and lease are, with the one exception of rows for which a relay called
\* mark_outbox_failed after its own lease had run out and another had begun: the
\* UPDATE goes by the id alone and puts next_attempt_at before the end of that lease
\* (docs/developer/events.md:188 knows no such exception).
LeaseExclusive ==
  \A r, s \in Relays :
    r # s /\ lease[r] > 0 /\ lease[s] > 0 => batch[r] \cap batch[s] \subseteq late

\* What LeaseExclusive rests on: a row held under a running lease is not due
\* before that lease ends, unless it has been published already.
LeaseHoldsSchedule ==
  \A r \in Relays : \A e \in batch[r] :
    lease[r] > 0 => row[e] # "pending" \/ e \in late \/ due[e] >= lease[r]

\* If the faults stop, every committed event is marked published in the end,
\* however many rounds were abandoned before.
CommittedEventsGetPublished ==
  <>[](~faulty) =>
    \A e \in Events : row[e] = "pending" ~> row[e] \in {"published", "purged"}

\* The abstract specification the outbox implements.
AbstractTxn == [e \in Events |-> CASE row[e] \in {"none", "open"} -> "idle"
                                   [] row[e] = "rolledback" -> "rolledback"
                                   [] OTHER -> "committed"]

ALO == INSTANCE AtLeastOnceEvents
         WITH txn <- AbstractTxn, forgotten <- {e \in Events : row[e] = "purged"}

\* Every behaviour of the relays and the writers is one of AtLeastOnceEvents.
ImplementsAtLeastOnce == ALO!Spec
==============================================================================
