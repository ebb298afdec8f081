-------------------------- MODULE AtLeastOnceEvents --------------------------
(***************************************************************************)
(* What the transactional outbox promises to the subscribers of the V0.3   *)
(* topics (storage-core/src/outbox.rs, EventOutboxStore): a business        *)
(* transaction commits together with its event or not at all, an event     *)
(* reaches the broker only when its transaction committed, and the row is  *)
(* forgotten only after the broker holds the event.                         *)
(* EventOutbox is shown to implement this specification.                    *)
(***************************************************************************)
CONSTANT Events

VARIABLES txn,        \* the business transaction of an event
          delivered,  \* the events the broker holds (ids: a resend adds nothing)
          forgotten   \* the events whose row no longer exists

vars == <<txn, delivered, forgotten>>

TypeOK == /\ txn \in [Events -> {"idle", "committed", "rolledback"}]
          /\ delivered \subseteq Events
          /\ forgotten \subseteq Events

Init == /\ txn = [e \in Events |-> "idle"]
        /\ delivered = {}
        /\ forgotten = {}

\* The business write and the event become visible in one step.
Commit(e) == /\ txn[e] = "idle"
             /\ txn' = [txn EXCEPT ![e] = "committed"]
             /\ UNCHANGED <<delivered, forgotten>>

\* Neither becomes visible.
Rollback(e) == /\ txn[e] = "idle"
               /\ txn' = [txn EXCEPT ![e] = "rolledback"]
               /\ UNCHANGED <<delivered, forgotten>>

\* Only a committed event is sent; sending it again is a stuttering step.
Deliver(e) == /\ txn[e] = "committed"
              /\ delivered' = delivered \cup {e}
              /\ UNCHANGED <<txn, forgotten>>

\* Rows are forgotten in batches, delivered ones only.
Forget(es) == /\ es \subseteq delivered
              /\ forgotten' = forgotten \cup es
              /\ UNCHANGED <<txn, delivered>>

Next == \/ \E e \in Events : Commit(e) \/ Rollback(e) \/ Deliver(e)
        \/ \E es \in SUBSET Events : Forget(es)

Spec == Init /\ [][Next]_vars
==============================================================================
