--------------------------- MODULE EntityExtraction ---------------------------
(***************************************************************************)
(* The entity worker (entity-worker/src/service.rs, main.rs): for each       *)
(* dedup.completed it extracts the document's entities and writes, one        *)
(* statement at a time, the entity, its identifier, the extraction row, the   *)
(* document's relationship to it and that relationship's evidence, then the   *)
(* derived relationships, then the claim, and publishes.  Nothing is in a     *)
(* transaction: v5 ids make every write an upsert, so that a second attempt   *)
(* writes the same rows.  Merges (merge/src/service.rs) commit in between.     *)
(*                                                                         *)
(* An entity is named by its natural key: the unique index gives a key one     *)
(* row.  Its id is the v5 id of the key, as both the entity worker and the      *)
(* STIX import compute it, except where a program of an older version           *)
(* inserted the row under an id of its own.  A relationship id is the pair of   *)
(* ends it was derived from, which a merge does not change.  Relationship      *)
(* types are left out: the ends determine them.  Names, confidences and times   *)
(* are left out; so are the relationships of a STIX import.                   *)
(***************************************************************************)
EXTENDS Integers, Sequences, FiniteSets

CONSTANTS Workers,
          Docs,
          Assigned,      \* the worker that has the partition of each document's event
          Skipped,       \* documents that are duplicates, in the event or the row, or gone
          Keys,          \* natural keys of entities
          TypeOf,        \* entity_type of each
          Items,         \* what extract_all finds in each document: key, offset, from
          None,
          Identified,    \* keys of the types that have an identifier namespace
          LegacyIdentifiers, \* identifier rows of old data: value -> entity
          Mergeable,     \* <<survivor, merged>> somebody may ask to merge
          Imported,      \* keys a STIX bundle names
          OldProgram,    \* keys a program of an older version may insert, under its own id
          EvidenceLimit, \* EVIDENCE_COUNT_LIMIT
          MaxMerges,     \* bound: merges in a behaviour
          MaxFaults      \* bound: errors, crashes, rebalances, entities of other programs

RelIds == (Docs \cup Keys) \X Keys

\* A derived link goes from a URL or an address to its domain: never within a type.
ASSUME ExtractionAssumption ==
  /\ Assigned \in [Docs -> Workers]
  /\ \A d \in Docs : Items[d] \in Seq([key : Keys, off : Nat, from : Keys \cup {None}])
  /\ Skipped \subseteq Docs
  /\ Docs \cap Keys = {}
  /\ None \notin Keys
  /\ \A d \in Docs : \A n \in DOMAIN Items[d] :
       Items[d][n].from # None => TypeOf[Items[d][n].from] # TypeOf[Items[d][n].key]
  /\ Identified \subseteq Keys
  /\ Imported \subseteq Keys
  /\ OldProgram \subseteq Keys
  /\ \A v \in DOMAIN LegacyIdentifiers : v \in Identified /\ LegacyIdentifiers[v] \in Keys
  /\ EvidenceLimit \in Nat \ {0}
  /\ MaxMerges \in Nat
  /\ MaxFaults \in Nat

VARIABLES entity,     \* entities: merged_into, by key
          foreign,    \* keys whose row has another id than the key's v5 id
          identifier, \* entity_identifiers: row id and entity_id, by value
          candidates, \* resolution_candidates, exact_identifier
          extraction, \* entity_extractions: entity_id, by id
          rel,        \* relationships: ends and evidence_count, by id
          evidence,   \* relationship_evidence: relationship_id, by id
          claimed,    \* provenance rows entity_extracted
          extracted,  \* entity.extracted
          changed,    \* relationship.changed
          pending,    \* documents whose dedup.completed is not committed
          failed,     \* failed_events
          worker,
          import,     \* the STIX import: the keys it has not written yet, the one it read
          merged,     \* merges that committed: history
          revived,    \* entities whose merged_into an extraction wrote over: history
          doubtful,   \* relationships the recount of which met another write, was
                      \* cut off, or left out the absorber: history
          untold,     \* claimed, but cut off before the events: history
          unlisted,   \* identifiers whose write or candidate failed: history
          faults

rows == <<entity, foreign, identifier, candidates, extraction, rel, evidence>>
outbox == <<extracted, changed>>
feed == <<pending, failed>>
history == <<merged, revived, doubtful, untold, unlisted>>
extractionVars ==
        <<entity, foreign, identifier, candidates, extraction, rel, evidence, claimed, extracted,
          changed, pending, failed, worker, import, merged, revived, doubtful, untold, unlisted,
          faults>>

Idle == [pc |-> "idle"]

ExtractionInit ==
  /\ entity = << >>
  /\ foreign = {}
  /\ identifier = [v \in DOMAIN LegacyIdentifiers |-> [id |-> None, owner |-> LegacyIdentifiers[v]]]
  /\ candidates = {}
  /\ extraction = << >>
  /\ rel = << >>
  /\ evidence = << >>
  /\ claimed = {}
  /\ extracted = {}
  /\ changed = {}
  /\ pending = Docs
  /\ failed = {}
  /\ worker = [w \in Workers |-> Idle]
  /\ import = [pc |-> "idle", left |-> Imported]
  /\ merged = << >>
  /\ revived = {}
  /\ doubtful = {}
  /\ untold = {}
  /\ unlisted = {}
  /\ faults = 0

Fault == faults < MaxFaults /\ faults' = faults + 1

\* f with f[x] = y, whether or not x was in its domain: an upsert.
Put(f, x, y) == [z \in DOMAIN f \cup {x} |-> IF z = x THEN y ELSE f[z]]

------------------------------------------------------------------------------
(* Where a worker is. *)

Doc(w) == worker[w].doc
Item(w) == Items[Doc(w)][worker[w].n]

\* relationship_id: mentions first, derived links after all of them.
RelOf(w) ==
  IF worker[w].derived THEN <<Item(w).from, Item(w).key>> ELSE <<Doc(w), Item(w).key>>

KeysOf(d) == {Items[d][n].key : n \in DOMAIN Items[d]}

\* Derived links whose two ends are among the entities of this document; the
\* other end may have been cut off by max_extractions.
Derived(d) == {n \in DOMAIN Items[d] : Items[d][n].from \in KeysOf(d)}

\* The relationships of a document.
Facts(d) ==
  {<<d, k>> : k \in KeysOf(d)} \cup {<<Items[d][n].from, Items[d][n].key>> : n \in Derived(d)}

Goto(w, pc) == worker' = [worker EXCEPT ![w].pc = pc]

\* entity_ids: a key that came before in the document is not looked up again.
Seen(d, n) == \E i \in 1 .. (n - 1) : Items[d][i].key = Items[d][n].key

\* The worker's record when it turns to item n of its first or second loop, or
\* is through with both.
At(d, n, derived) ==
  LET left == IF derived THEN {i \in Derived(d) : i >= n} ELSE {i \in DOMAIN Items[d] : i >= n}
      next == CHOOSE i \in left : \A j \in left : i <= j
  IN IF left # {}
       THEN [pc |-> IF derived THEN "rel" ELSE IF Seen(d, next) THEN "extract" ELSE "find",
             doc |-> d, n |-> next, derived |-> derived, found |-> None, count |-> 0, row |-> None,
             stale |-> FALSE]
       ELSE [pc |-> "claim", doc |-> d, n |-> n, derived |-> TRUE, found |-> None, count |-> 0,
             row |-> None, stale |-> FALSE]

NextItem(d, n, derived) ==
  IF ~derived /\ n + 1 \notin DOMAIN Items[d] THEN At(d, 1, TRUE) ELSE At(d, n + 1, derived)

------------------------------------------------------------------------------
(* Events in and out of the worker. *)

Busy(d) == \E w \in Workers : worker[w] # Idle /\ Doc(w) = d

\* Faulty variant: the loop goes on without a commit when there is nothing to do.
BeginSkips(w, d) ==
  worker' = IF d \in claimed \cup Skipped THEN worker ELSE [worker EXCEPT ![w] = At(d, 1, FALSE)]

Begin(w, d) ==
  worker' = [worker EXCEPT ![w] =
    IF d \in claimed \cup Skipped THEN [pc |-> "commit", doc |-> d] ELSE At(d, 1, FALSE)]

\* handle_payload and the entry of extract_document: is_duplicate, already_claimed,
\* DocumentMissing, duplicate_of.
TakeEvent(w, d) ==
  /\ worker[w] = Idle
  /\ Assigned[d] = w
  /\ d \in pending
  /\ ~Busy(d)
  /\ Begin(w, d)
  /\ UNCHANGED <<rows, import, claimed, outbox, feed, history, faults>>

\* A rebalance hands an event to a second worker while the first is still on it.
Rebalance(w, d) ==
  /\ worker[w] = Idle
  /\ d \in pending
  /\ Busy(d)
  /\ Fault
  /\ Begin(w, d)
  /\ UNCHANGED <<rows, import, claimed, outbox, feed, history>>

CommitEvent(w) ==
  /\ worker[w].pc = "commit"
  /\ pending' = pending \ {Doc(w)}
  /\ worker' = [worker EXCEPT ![w] = Idle]
  /\ UNCHANGED <<rows, import, claimed, outbox, failed, history, faults>>

\* The relationship between its upsert, which writes evidence_count 0, and the
\* end of its recount.
Recounting(w) == IF worker[w].pc \in {"evidence", "count", "get", "back"} THEN {RelOf(w)} ELSE {}

CutOff(w) ==
  /\ doubtful' = doubtful \cup Recounting(w)
  /\ untold' = untold \cup (IF worker[w].pc \in {"publish", "changes"} THEN {Doc(w)} ELSE {})

\* handle_payload returns Err: failed_events, or only a warning when that write
\* fails too; the offset is committed either way.
Fail(w) ==
  /\ CutOff(w)
  /\ failed' \in {failed \cup {Doc(w)}, failed}
  /\ pending' = pending \ {Doc(w)}
  /\ worker' = [worker EXCEPT ![w] = Idle]

ExtractErr(w) ==
  /\ worker[w].pc \notin {"idle", "identifier", "commit"}
  /\ Fault
  /\ Fail(w)
  /\ UNCHANGED <<rows, import, claimed, outbox, merged, revived, unlisted>>

Crash(w) ==
  /\ worker[w] # Idle
  /\ Fault
  /\ CutOff(w)
  /\ worker' = [worker EXCEPT ![w] = Idle]
  /\ UNCHANGED <<rows, import, claimed, outbox, feed, merged, revived, unlisted>>

\* replay_failed_event, by an operator.
Replay(d) ==
  /\ d \in failed
  /\ failed' = failed \ {d}
  /\ pending' = pending \cup {d}
  /\ UNCHANGED <<rows, import, claimed, outbox, worker, history, faults>>

------------------------------------------------------------------------------
(* upsert_entity *)

\* What find_entity_by_normalized_name returns of merged_into; it does not follow it.
Read(k) == IF k \in DOMAIN entity THEN entity[k] ELSE None

\* A row that was found is written under its id, a new one under the v5 id.
PutPc(k) == IF k \in DOMAIN entity THEN "put" ELSE "insert"

FindEntity(w) ==
  /\ worker[w].pc = "find"
  /\ worker' = [worker EXCEPT ![w].pc = PutPc(Item(w).key), ![w].found = Read(Item(w).key)]
  /\ UNCHANGED <<rows, import, claimed, outbox, feed, history, faults>>

\* idx_entities_natural_key: the key got a row with another id since it was not found.
Refused(pc, k) == pc = "insert" /\ k \in foreign

\* put_entity writes the whole row: merged_into as it was read.
Upsert(k, found) ==
  /\ entity' = Put(entity, k, found)
  /\ revived' = IF k \in DOMAIN entity /\ entity[k] # found THEN revived \cup {k} ELSE revived

AfterEntity(k) == IF k \in Identified THEN "identifier" ELSE "extract"

\* Faulty variant: a fresh row, as if nobody ever merged.
PutEntityFresh(w) ==
  /\ worker[w].pc \in {"put", "insert"}
  /\ ~Refused(worker[w].pc, Item(w).key)
  /\ entity' = Put(entity, Item(w).key, None)
  /\ revived' = IF worker[w].found # Read(Item(w).key) THEN revived \cup {Item(w).key} ELSE revived
  /\ Goto(w, AfterEntity(Item(w).key))
  /\ UNCHANGED <<foreign, import, identifier, candidates, extraction, rel, evidence, claimed, outbox,
                 feed, merged, doubtful, untold, unlisted, faults>>

PutEntity(w) ==
  /\ worker[w].pc \in {"put", "insert"}
  /\ ~Refused(worker[w].pc, Item(w).key)
  /\ Upsert(Item(w).key, worker[w].found)
  /\ Goto(w, AfterEntity(Item(w).key))
  /\ UNCHANGED <<foreign, import, identifier, candidates, extraction, rel, evidence, claimed, outbox,
                 feed, merged, doubtful, untold, unlisted, faults>>

\* Conflict: the row is looked up again, which finds it (entities are not deleted),
\* and used as it is.
KeepEntity(w) ==
  /\ Refused(worker[w].pc, Item(w).key)
  /\ Goto(w, AfterEntity(Item(w).key))
  /\ UNCHANGED <<rows, import, claimed, outbox, feed, history, faults>>

\* put_entity_identifier is refused: another row has the value.
IdentifierConflict(k) == k \in DOMAIN identifier /\ identifier[k].id # k

\* Faulty variant: a conflict is only logged.
WriteIdentifierLogged(w) ==
  /\ worker[w].pc = "identifier"
  /\ LET k == Item(w).key
     IN identifier' = IF IdentifierConflict(k) THEN identifier
                      ELSE Put(identifier, k, [id |-> k, owner |-> k])
  /\ Goto(w, "extract")
  /\ UNCHANGED <<entity, foreign, import, candidates, extraction, rel, evidence, claimed, outbox, feed, history, faults>>

\* write_identifier_if_applicable and record_identifier_conflict.
WriteIdentifier(w) ==
  /\ worker[w].pc = "identifier"
  /\ LET k == Item(w).key
     IN IF IdentifierConflict(k)
          THEN /\ candidates' = IF identifier[k].owner = k THEN candidates
                                ELSE candidates \cup {{identifier[k].owner, k}}
               /\ UNCHANGED identifier
          ELSE /\ identifier' = Put(identifier, k, [id |-> k, owner |-> k])
               /\ UNCHANGED candidates
  /\ Goto(w, "extract")
  /\ UNCHANGED <<entity, foreign, import, extraction, rel, evidence, claimed, outbox, feed, history, faults>>

\* Any error of the two is logged and the extraction goes on.
IdentifierErr(w) ==
  /\ worker[w].pc = "identifier"
  /\ Fault
  /\ unlisted' = unlisted \cup {Item(w).key}
  /\ Goto(w, "extract")
  /\ UNCHANGED <<rows, import, claimed, outbox, feed, merged, revived, doubtful, untold>>

------------------------------------------------------------------------------
(* Extractions, relationships and their evidence. *)

WriteExtraction(w) ==
  /\ worker[w].pc = "extract"
  /\ extraction' = Put(extraction, <<Doc(w), Item(w).key, Item(w).off>>, Item(w).key)
  /\ Goto(w, "rel")
  /\ UNCHANGED <<entity, foreign, import, identifier, candidates, rel, evidence, claimed, outbox, feed, history, faults>>

\* idx_relationships_natural_key: another id has these ends.
Taken(r, ends) == \E s \in DOMAIN rel : s # r /\ <<rel[s].src, rel[s].dst>> = ends

\* upsert_relationship: the ends are those of the id again, evidence_count is 0
\* until it is counted.
UpsertRelationship(w) ==
  /\ worker[w].pc = "rel"
  /\ LET r == RelOf(w)
     IN /\ ~Taken(r, r)
        /\ rel' = Put(rel, r, [src |-> r[1], dst |-> r[2], count |-> 0])
  /\ Goto(w, "evidence")
  /\ UNCHANGED <<entity, foreign, import, identifier, candidates, extraction, evidence, claimed, outbox, feed, history, faults>>

\* put_relationship returns Conflict, here or when the count is written back: the
\* document fails.
RelationshipConflict(w) ==
  /\ \/ worker[w].pc = "rel" /\ Taken(RelOf(w), RelOf(w))
     \/ worker[w].pc = "back" /\ Taken(RelOf(w), <<worker[w].row.src, worker[w].row.dst>>)
  /\ Fail(w)
  /\ UNCHANGED <<rows, import, claimed, outbox, merged, revived, unlisted, faults>>

\* Whoever counted this relationship's evidence already counted something else.
Disturb(table, R) ==
  [w \in Workers |->
     IF table[w].pc \in {"get", "back"} /\ RelOf(w) \in R THEN [table[w] EXCEPT !.stale = TRUE] ELSE table[w]]

EvidenceId(w) == <<RelOf(w), Doc(w), Item(w).off>>

\* The relationship a merge moved this evidence to: the upsert takes it back and
\* nobody recounts there.
TakenFrom(w) ==
  IF EvidenceId(w) \in DOMAIN evidence THEN {evidence[EvidenceId(w)]} \ {RelOf(w)} ELSE {}

\* Faulty variant: an error is only logged.
PutEvidenceLogged(w) ==
  /\ worker[w].pc = "evidence"
  /\ RelOf(w) \in DOMAIN rel
  /\ evidence' \in {evidence, Put(evidence, EvidenceId(w), RelOf(w))}
  /\ worker' = [Disturb(worker, {RelOf(w)} \cup TakenFrom(w)) EXCEPT ![w].pc = "count"]
  /\ doubtful' = doubtful \cup TakenFrom(w)
  /\ UNCHANGED <<entity, foreign, import, identifier, candidates, extraction, rel, claimed, outbox, feed, merged,
                 revived, untold, unlisted, faults>>

\* put_relationship_evidence
PutEvidence(w) ==
  /\ worker[w].pc = "evidence"
  /\ RelOf(w) \in DOMAIN rel
  /\ evidence' = Put(evidence, EvidenceId(w), RelOf(w))
  /\ worker' = [Disturb(worker, {RelOf(w)} \cup TakenFrom(w)) EXCEPT ![w].pc = "count"]
  /\ doubtful' = doubtful \cup TakenFrom(w)
  /\ UNCHANGED <<entity, foreign, import, identifier, candidates, extraction, rel, claimed, outbox, feed, merged,
                 revived, untold, unlisted, faults>>

\* A merge absorbed the relationship: the foreign key refuses.
EvidenceRefused(w) ==
  /\ worker[w].pc = "evidence"
  /\ RelOf(w) \notin DOMAIN rel
  /\ Fail(w)
  /\ UNCHANGED <<rows, import, claimed, outbox, merged, revived, unlisted, faults>>

EvidenceOf(r) == {e \in DOMAIN evidence : evidence[e] = r}

Counted(r) ==
  LET n == Cardinality(EvidenceOf(r)) IN IF n > EvidenceLimit THEN EvidenceLimit ELSE n

\* list_relationship_evidence
CountEvidence(w) ==
  /\ worker[w].pc = "count"
  /\ worker' = [worker EXCEPT ![w].pc = "get", ![w].count = Counted(RelOf(w)), ![w].stale = FALSE]
  /\ UNCHANGED <<rows, import, claimed, outbox, feed, history, faults>>

\* get_relationship
GetRelationship(w) ==
  /\ worker[w].pc = "get"
  /\ worker' = [worker EXCEPT ![w] =
       IF RelOf(w) \in DOMAIN rel /\ rel[RelOf(w)].count # worker[w].count
         THEN [worker[w] EXCEPT !.pc = "back", !.row = rel[RelOf(w)]]
         ELSE NextItem(Doc(w), worker[w].n, worker[w].derived)]
  /\ doubtful' = IF worker[w].stale THEN doubtful \cup {RelOf(w)} ELSE doubtful \ {RelOf(w)}
  /\ UNCHANGED <<rows, import, claimed, outbox, feed, merged, revived, untold, unlisted, faults>>

\* Faulty variant: the evidence just written is added to the count.
WriteCountPlusOne(w) ==
  /\ worker[w].pc = "back"
  /\ LET r == RelOf(w)
         row == worker[w].row
     IN /\ ~Taken(r, <<row.src, row.dst>>)
        /\ rel' = Put(rel, r, [row EXCEPT !.count = row.count + 1])
        /\ doubtful' = IF worker[w].stale THEN doubtful \cup {r} ELSE doubtful \ {r}
  /\ worker' = [worker EXCEPT ![w] = NextItem(Doc(w), worker[w].n, worker[w].derived)]
  /\ UNCHANGED <<entity, foreign, import, identifier, candidates, extraction, evidence, claimed, outbox, feed,
                 merged, revived, untold, unlisted, faults>>

\* put_relationship writes the row as it was read: a merge in between is undone
\* for this row, or the row it absorbed is inserted again.
WriteCount(w) ==
  /\ worker[w].pc = "back"
  /\ LET r == RelOf(w)
         row == worker[w].row
     IN /\ ~Taken(r, <<row.src, row.dst>>)
        /\ rel' = Put(rel, r, [row EXCEPT !.count = worker[w].count])
        /\ doubtful' = IF worker[w].stale THEN doubtful \cup {r} ELSE doubtful \ {r}
  /\ worker' = [worker EXCEPT ![w] = NextItem(Doc(w), worker[w].n, worker[w].derived)]
  /\ UNCHANGED <<entity, foreign, import, identifier, candidates, extraction, evidence, claimed, outbox, feed,
                 merged, revived, untold, unlisted, faults>>

------------------------------------------------------------------------------
(* The end of extract_document. *)

\* put_provenance: idx_provenance_entity_subject lets one worker claim; the other
\* reports AlreadyDone and publishes nothing.
Claim(w) ==
  /\ worker[w].pc = "claim"
  /\ claimed' = claimed \cup {Doc(w)}
  /\ Goto(w, IF Doc(w) \in claimed THEN "commit" ELSE "publish")
  /\ UNCHANGED <<rows, import, outbox, feed, history, faults>>

\* publish: entity.extracted ...
PublishExtracted(w) ==
  /\ worker[w].pc = "publish"
  /\ extracted' = extracted \cup {Doc(w)}
  /\ Goto(w, "changes")
  /\ UNCHANGED <<rows, import, claimed, changed, feed, history, faults>>

\* ... and relationship.changed for every edge, as far as it gets.
PublishChanges(w) ==
  /\ worker[w].pc = "changes"
  /\ changed' = changed \cup Facts(Doc(w))
  /\ Goto(w, "commit")
  /\ UNCHANGED <<rows, import, claimed, extracted, feed, history, faults>>

------------------------------------------------------------------------------
(* Other programs that write entities. *)

\* upsert_entity of the STIX import: the same read, and the same write of the
\* whole row, one after the other; the transaction around them is read committed.
StixFind(k) ==
  /\ import.pc = "idle"
  /\ k \in import.left
  /\ import' = [pc |-> PutPc(k), left |-> import.left \ {k}, key |-> k, found |-> Read(k)]
  /\ Fault
  /\ UNCHANGED <<rows, claimed, outbox, feed, worker, history>>

StixPut ==
  /\ import.pc \in {"put", "insert"}
  /\ IF Refused(import.pc, import.key) THEN UNCHANGED <<entity, revived>>
     ELSE Upsert(import.key, import.found)
  /\ import' = [pc |-> "idle", left |-> import.left]
  /\ UNCHANGED <<foreign, identifier, candidates, extraction, rel, evidence, claimed, outbox, feed,
                 worker, merged, doubtful, untold, unlisted, faults>>

\* A program that gives entities other ids, as old data has them.
OldInsert(k) ==
  /\ k \in OldProgram \ DOMAIN entity
  /\ entity' = Put(entity, k, None)
  /\ foreign' = foreign \cup {k}
  /\ Fault
  /\ UNCHANGED <<identifier, candidates, extraction, rel, evidence, claimed, outbox, feed, worker,
                 import, history>>

------------------------------------------------------------------------------
(* execute_merge, as one transaction; how its reads and writes interleave with   *)
(* other merges is EntityMerge's subject.  Relationships join different types,  *)
(* so that no merge makes a self-loop of one.                                 *)

Ends(r, s, m) ==
  LET to(x) == IF x = m THEN s ELSE x IN <<to(rel[r].src), to(rel[r].dst)>>

OfEntity(e) == {r \in DOMAIN rel : e \in {rel[r].src, rel[r].dst}}

\* The survivor's relationship with the same ends.
Absorber(r, s, m) == {a \in OfEntity(s) : <<rel[a].src, rel[a].dst>> = Ends(r, s, m)}

\* What the survivor's relationships absorb, into which of them, and what each of
\* those absorbed.
Collided(s, m) == {r \in OfEntity(m) : Absorber(r, s, m) # {}}

Into(r, s, m) == CHOOSE a \in Absorber(r, s, m) : TRUE

Absorbers(s, m) == {Into(r, s, m) : r \in Collided(s, m)}

AbsorbedBy(a, s, m) == CHOOSE r \in Collided(s, m) : Into(r, s, m) = a

\* Absorbers whose count, or the count they add, was already in doubt.
InDoubt(s, m) ==
  {a \in Absorbers(s, m) :
     {a, AbsorbedBy(a, s, m)} \cap (doubtful \cup UNION {Recounting(w) : w \in Workers}) # {}}

Merge(s, m) ==
  /\ <<s, m>> \in Mergeable
  /\ Cardinality(DOMAIN merged) < MaxMerges
  /\ s # m
  /\ TypeOf[s] = TypeOf[m]
  /\ {s, m} \subseteq DOMAIN entity
  /\ entity[s] = None
  /\ entity[m] = None
  /\ rel' = [r \in DOMAIN rel \ Collided(s, m) |->
       [src |-> Ends(r, s, m)[1], dst |-> Ends(r, s, m)[2],
        count |-> IF r \in Absorbers(s, m) THEN rel[r].count + rel[AbsorbedBy(r, s, m)].count
                  ELSE rel[r].count]]
  /\ evidence' = [e \in DOMAIN evidence |->
       IF evidence[e] \in Collided(s, m) THEN Into(evidence[e], s, m) ELSE evidence[e]]
  /\ worker' = Disturb(worker, Collided(s, m) \cup Absorbers(s, m))
  /\ doubtful' = doubtful \cup InDoubt(s, m)
  /\ extraction' = [x \in DOMAIN extraction |-> IF extraction[x] = m THEN s ELSE extraction[x]]
  /\ identifier' = [v \in DOMAIN identifier |->
       IF identifier[v].owner = m THEN [identifier[v] EXCEPT !.owner = s] ELSE identifier[v]]
  /\ entity' = [entity EXCEPT ![m] = s]
  /\ merged' = Put(merged, m, s)
  /\ UNCHANGED <<foreign, import, candidates, claimed, outbox, feed, revived, untold, unlisted, faults>>

Step(w) ==
  \/ CommitEvent(w) \/ FindEntity(w) \/ PutEntity(w) \/ KeepEntity(w) \/ WriteIdentifier(w)
  \/ WriteExtraction(w) \/ UpsertRelationship(w) \/ RelationshipConflict(w) \/ PutEvidence(w)
  \/ EvidenceRefused(w) \/ CountEvidence(w) \/ GetRelationship(w) \/ WriteCount(w) \/ Claim(w)
  \/ PublishExtracted(w) \/ PublishChanges(w)

ExtractionNext ==
  \/ \E w \in Workers :
       \/ Step(w) \/ IdentifierErr(w) \/ ExtractErr(w) \/ Crash(w)
       \/ \E d \in Docs : TakeEvent(w, d) \/ Rebalance(w, d)
  \/ \E d \in Docs : Replay(d)
  \/ \E k \in Keys : StixFind(k) \/ OldInsert(k)
  \/ StixPut
  \/ \E s, m \in Keys : Merge(s, m)

\* A worker goes on with its event, and an event is taken in the end.
Fairness ==
  /\ \A w \in Workers : WF_extractionVars(Step(w))
  /\ \A d \in Docs : WF_extractionVars(\E w \in Workers : TakeEvent(w, d))

ExtractionSpec == ExtractionInit /\ [][ExtractionNext]_extractionVars /\ Fairness

------------------------------------------------------------------------------
(* Properties. *)

\* The tables have their types and the foreign keys and unique indexes hold.
ExtractionTypeOK ==
  /\ \A k \in DOMAIN entity : k \in Keys /\ entity[k] \in DOMAIN entity \cup {None}
  /\ \A v \in DOMAIN identifier : v \in Keys /\ identifier[v].owner \in Keys
  /\ \A x \in DOMAIN extraction : extraction[x] \in DOMAIN entity
  /\ \A r \in DOMAIN rel : r \in RelIds /\ rel[r].count \in Nat
  /\ \A r, q \in DOMAIN rel : rel[r].src = rel[q].src /\ rel[r].dst = rel[q].dst => r = q
  /\ \A e \in DOMAIN evidence : evidence[e] \in DOMAIN rel
  /\ claimed \subseteq Docs \ Skipped
  /\ pending \cup failed \subseteq Docs

\* A claimed document has all its rows: an extraction for every item, evidence for
\* every mention and every derived link, on relationships that exist, whichever
\* worker was cut off wherever and whatever was merged since.  It is announced,
\* its edges too, except where the worker was cut off after the claim: no second
\* attempt publishes.  (ExtractionTypeOK rides along.)
ClaimedIsDone ==
  /\ ExtractionTypeOK
  /\ \A d \in claimed :
       /\ \A n \in DOMAIN Items[d] :
            LET i == Items[d][n]
            IN /\ <<d, i.key, i.off>> \in DOMAIN extraction
               /\ <<<<d, i.key>>, d, i.off>> \in DOMAIN evidence
               /\ n \in Derived(d) => <<<<i.from, i.key>>, d, i.off>> \in DOMAIN evidence
       /\ \/ d \in extracted /\ Facts(d) \subseteq changed
          \/ d \in untold
          \/ \E w \in Workers : worker[w].pc \in {"publish", "changes"} /\ Doc(w) = d

\* evidence_count is the number of evidence rows (up to the limit) of a
\* relationship nobody is recounting, through second attempts and merges; it is
\* wrong only where a recount met another write or was cut off.
CountsMatchEvidence ==
  \A r \in DOMAIN rel :
    \/ r \in doubtful
    \/ \E w \in Workers : r \in Recounting(w)
    \/ rel[r].count = Counted(r)
    \/ rel[r].count > EvidenceLimit

\* An entity that was merged away stays so: an extraction or a STIX import revives
\* it only when the merge, or a write that revived it before, came between its own
\* find_entity_by_normalized_name and put_entity, whichever id the row has.
MergedStaysMerged == \A m \in DOMAIN merged : entity[m] = merged[m] \/ m \in revived

\* Two entities that claim one identifier are put up for review: the entity of a
\* claimed document owns its identifier, or is a candidate with its owner, was
\* merged, or the write failed.
ConflictIsRecorded ==
  \A d \in claimed : \A k \in KeysOf(d) \cap Identified :
    \/ k \in DOMAIN identifier /\ identifier[k].owner = k
    \/ \E c \in candidates : k \in c
    \/ k \in unlisted
    \/ k \in DOMAIN merged

\* Every event is settled: the document claimed, skipped, in failed_events, or, when
\* that write failed too, only logged.
EventuallySettled == \A d \in Docs : d \in pending ~> d \notin pending
==============================================================================
