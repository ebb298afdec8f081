----------------------------- MODULE EntityMerge -----------------------------
(***************************************************************************)
(* Entity merge and undo (merge/src/service.rs, collision.rs, repoint.rs):  *)
(* merged is folded into survivor by repointing or absorbing its            *)
(* relationships, moving its aliases, identifiers and extractions, and      *)
(* setting merged_into; MergeHistory keeps what undo needs.  The            *)
(* preconditions are checked before the transaction begins.                 *)
(*                                                                         *)
(* One relationship type is modelled: relationships of different types      *)
(* never collide.  evidence_count stands for the aggregated fields an       *)
(* absorber keeps a snapshot of (count, confidence, first and last seen).   *)
(* The three kinds of rows with an entity_id are treated alike, as refs.    *)
(***************************************************************************)
EXTENDS Integers, Sequences, FiniteSets

CONSTANTS Entities,      \* entities of one entity_type
          Rels,          \* relationship ids
          Evidence,      \* relationship_evidence ids
          Refs,          \* entity_aliases, entity_identifiers, entity_extractions rows
          InitialRel,    \* the relationships to begin with
          InitialEvidence,
          InitialOwner,
          None,          \* no row, no entity
          Requests,      \* API requests that may be under way at a time
          RefCap,        \* MERGE_REF_CAP
          MaxMerges      \* bound: merges in a behaviour

VARIABLES rel,        \* relationships
          evidence,   \* relationship_evidence.relationship_id; None: cascaded away
          owner,      \* entity_id of the refs
          mergedInto, \* entities.merged_into
          history,    \* merge_history
          req,        \* what each request has checked and read
          \* History variables, read by no guard:
          disorder,   \* a merge was undone before a later one
          outdated,   \* requests under way whose findings another commit has changed
          overlap,    \* such a request committed
          staleMerged \* entities it merged that are still merged so

tables == <<rel, evidence, owner, mergedInto>>
past == <<disorder, outdated, overlap, staleMerged>>
vars == <<rel, evidence, owner, mergedInto, history, req, disorder, outdated, overlap, staleMerged>>

Rows == [src : Entities, dst : Entities, count : Nat]

Present(table) == {i \in Rels : table[i] # None}

\* idx_relationships_natural_key
NaturalKeyUnique(table) ==
  \A i, j \in Present(table) :
    table[i].src = table[j].src /\ table[i].dst = table[j].dst => i = j

\* evidence_count is right to begin with and (source, target) is unique.
ASSUME MergeAssumption ==
  /\ None \notin Entities \cup Rels \cup Rows
  /\ InitialRel \in [Rels -> Rows]
  /\ InitialEvidence \in [Evidence -> Rels]
  /\ InitialOwner \in [Refs -> Entities]
  /\ NaturalKeyUnique(InitialRel)
  /\ \A i \in Rels :
       InitialRel[i].count = Cardinality({e \in Evidence : InitialEvidence[e] = i})
  /\ MaxMerges \in Nat

\* relationship_evidence is a table: its rows can be counted.
ASSUME EvidenceAssumption == IsFiniteSet(Evidence)

Idle == [pc |-> "idle"]

Init ==
  /\ rel = InitialRel
  /\ evidence = InitialEvidence
  /\ owner = InitialOwner
  /\ mergedInto = [e \in Entities |-> None]
  /\ history = << >>
  /\ req = [q \in Requests |-> Idle]
  /\ disorder = FALSE
  /\ outdated = {}
  /\ overlap = FALSE
  /\ staleMerged = {}

------------------------------------------------------------------------------
(* What a request has looked at, as the tables have it now. *)

\* list_relationships_by_object, as read.
Touching(e) == {i \in Present(rel) : e \in {rel[i].src, rel[i].dst}}

RowsOf(s, m) == [i \in Touching(s) \cup Touching(m) |-> rel[i]]

Owned(e) == {r \in Refs : owner[r] = e}

Findings(q) ==
  LET r == req[q]
  IN CASE r.pc = "idle" -> << >>
       [] r.pc = "begin" -> <<mergedInto[r.survivor], mergedInto[r.merged]>>
       [] r.pc = "merge" -> <<mergedInto[r.survivor], mergedInto[r.merged],
                              RowsOf(r.survivor, r.merged), Owned(r.merged)>>
       [] r.pc = "undo" -> <<history[r.which].undone, mergedInto[history[r.which].survivor]>>

\* The request commits: history of whom that outdates.
Outdates(q) == outdated' = {p \in Requests \ {q} : p \in outdated \/ Findings(p)' # Findings(p)}

\* The request ends without a commit.
Refuse(q) ==
  /\ req' = [req EXCEPT ![q] = Idle]
  /\ outdated' = outdated \ {q}
  /\ UNCHANGED <<tables, history, disorder, overlap, staleMerged>>

------------------------------------------------------------------------------
(* execute_merge *)

\* Merges committed or under way, for the bound.
Begun == Len(history) + Cardinality({q \in Requests : req[q].pc \in {"begin", "merge"}})

\* Faulty variant: the survivor may have been merged away itself.
CheckMergeLax(q, s, m) ==
  /\ req[q] = Idle
  /\ Begun < MaxMerges
  /\ s # m
  /\ mergedInto[m] = None
  /\ req' = [req EXCEPT ![q] = [pc |-> "begin", survivor |-> s, merged |-> m]]
  /\ UNCHANGED <<tables, history, past>>

\* SelfMerge and AlreadyMerged, outside the transaction.
CheckMerge(q, s, m) ==
  /\ req[q] = Idle
  /\ Begun < MaxMerges
  /\ s # m
  /\ mergedInto[m] = None
  /\ mergedInto[s] = None
  /\ req' = [req EXCEPT ![q] = [pc |-> "begin", survivor |-> s, merged |-> m]]
  /\ UNCHANGED <<tables, history, past>>

\* reject_truncated: a full page may hide more rows.
Truncated(s, m) ==
  \/ Cardinality(Touching(m)) >= RefCap
  \/ Cardinality(Touching(s)) >= RefCap
  \/ Cardinality(Owned(m)) >= RefCap

CollectRefs(q) ==
  /\ req[q].pc = "begin"
  /\ LET s == req[q].survivor
         m == req[q].merged
     IN /\ ~Truncated(s, m)
        /\ req' = [req EXCEPT ![q] =
                     [pc |-> "merge", survivor |-> s, merged |-> m,
                      rows |-> RowsOf(s, m),
                      refs |-> Owned(m)]]
  /\ UNCHANGED <<tables, history, past>>

\* CollectionTruncated
CollectionTruncated(q) ==
  /\ req[q].pc = "begin"
  /\ Truncated(req[q].survivor, req[q].merged)
  /\ Refuse(q)

\* Faulty variant: only the source is rewritten.
RepointedSource(row, from, to) == [row EXCEPT !.src = IF @ = from THEN to ELSE @]

\* repointed_ends
Repointed(row, from, to) ==
  [row EXCEPT !.src = IF @ = from THEN to ELSE @,
              !.dst = IF @ = from THEN to ELSE @]

SameEnds(row1, row2) == row1.src = row2.src /\ row1.dst = row2.dst

\* classify_relationships on the rows read: the merged entity's relationships
\* that become self loops, that collide with one of the survivor, the rest.
OfMerged(rows, m) == {i \in DOMAIN rows : m \in {rows[i].src, rows[i].dst}}

OfSurvivor(rows, s) == {i \in DOMAIN rows : s \in {rows[i].src, rows[i].dst}}

SelfLoops(rows, s, m) ==
  {i \in OfMerged(rows, m) : LET row == Repointed(rows[i], m, s) IN row.src = row.dst}

Absorbers(rows, s, m, i) ==
  {j \in OfSurvivor(rows, s) : SameEnds(rows[j], Repointed(rows[i], m, s))}

Collisions(rows, s, m) ==
  {i \in OfMerged(rows, m) \ SelfLoops(rows, s, m) : Absorbers(rows, s, m, i) # {}}

SafeRepoints(rows, s, m) ==
  OfMerged(rows, m) \ (SelfLoops(rows, s, m) \cup Collisions(rows, s, m))

AbsorberOf(rows, s, m, i) == CHOOSE j \in Absorbers(rows, s, m, i) : TRUE

\* The relationships after execute_in_tx.
MergedRel(rows, s, m) ==
  [i \in Rels |->
    IF i \in SelfLoops(rows, s, m) \cup Collisions(rows, s, m) THEN None
    ELSE IF i \in SafeRepoints(rows, s, m) THEN Repointed(rows[i], m, s)
    ELSE IF \E k \in Collisions(rows, s, m) : i = AbsorberOf(rows, s, m, k)
      THEN LET collided == CHOOSE k \in Collisions(rows, s, m) : i = AbsorberOf(rows, s, m, k)
           IN [rows[i] EXCEPT !.count = @ + rows[collided].count]
    ELSE rel[i]]

\* Faulty variant: the evidence of an absorbed relationship is not moved.
MergedEvidenceLeft(rows, s, m) ==
  [e \in Evidence |->
    IF evidence[e] \in SelfLoops(rows, s, m) \cup Collisions(rows, s, m) THEN None
    ELSE evidence[e]]

\* ON DELETE CASCADE for self loops; moved to the absorber for collisions.
MergedEvidence(rows, s, m) ==
  [e \in Evidence |->
    IF evidence[e] \in SelfLoops(rows, s, m) THEN None
    ELSE IF evidence[e] \in Collisions(rows, s, m) THEN AbsorberOf(rows, s, m, evidence[e])
    ELSE evidence[e]]

\* merged_relationships of the history row.
Absorbed(rows, s, m) ==
  {[id |-> i, row |-> rows[i], into |-> None, pre |-> 0, moved |-> {}] :
     i \in SelfLoops(rows, s, m)}
  \cup
  {[id |-> i, row |-> rows[i], into |-> AbsorberOf(rows, s, m, i),
    pre |-> rows[AbsorberOf(rows, s, m, i)].count,
    moved |-> {e \in Evidence : evidence[e] = i}] : i \in Collisions(rows, s, m)}

\* The transaction can commit: the evidence to move is less than a page and its
\* new relationship is there, and the natural key stays unique.
MergeFits(q) ==
  LET r == req[q]
  IN /\ \A i \in Collisions(r.rows, r.survivor, r.merged) :
          /\ Cardinality({e \in Evidence : evidence[e] = i}) < RefCap
          /\ rel[AbsorberOf(r.rows, r.survivor, r.merged, i)] # None
     /\ NaturalKeyUnique(MergedRel(r.rows, r.survivor, r.merged))

\* execute_in_tx and commit.
ExecuteInTx(q) ==
  /\ req[q].pc = "merge"
  /\ MergeFits(q)
  /\ LET s == req[q].survivor
         m == req[q].merged
         rows == req[q].rows
     IN /\ rel' = MergedRel(rows, s, m)
        /\ evidence' = MergedEvidence(rows, s, m)
        /\ owner' = [r \in Refs |-> IF r \in req[q].refs THEN s ELSE owner[r]]
        /\ mergedInto' = [mergedInto EXCEPT ![m] = s]
        /\ history' = Append(history,
             [survivor |-> s, merged |-> m, undone |-> FALSE,
              sources |-> {i \in SafeRepoints(rows, s, m) : rows[i].src = m},
              targets |-> {i \in SafeRepoints(rows, s, m) : rows[i].dst = m},
              refs |-> req[q].refs,
              absorbed |-> Absorbed(rows, s, m),
              before |-> [rel |-> rel, owner |-> owner, mergedInto |-> mergedInto]])
        /\ staleMerged' = IF q \in outdated THEN staleMerged \cup {m} ELSE staleMerged \ {m}
  /\ overlap' = (overlap \/ q \in outdated)
  /\ req' = [req EXCEPT ![q] = Idle]
  /\ Outdates(q)
  /\ UNCHANGED disorder

\* A statement fails (Conflict, foreign key, connection): everything is rolled
\* back.
TxFails(q) ==
  /\ req[q].pc \in {"merge", "undo"}
  /\ Refuse(q)

------------------------------------------------------------------------------
(* undo_merge *)

\* AlreadyUndone and SurvivorLaterMerged, outside the transaction.
CheckUndo(q, h) ==
  /\ req[q] = Idle
  /\ h \in DOMAIN history
  /\ ~history[h].undone
  /\ mergedInto[history[h].survivor] = None
  /\ req' = [req EXCEPT ![q] = [pc |-> "undo", which |-> h]]
  /\ UNCHANGED <<tables, history, past>>

\* Faulty variant: what the absorber had before the merge is not put back.
UndoneRelKeepsCount(h) ==
  [i \in Rels |->
    IF \E a \in h.absorbed : a.id = i THEN (CHOOSE a \in h.absorbed : a.id = i).row
    ELSE IF i \in h.sources THEN [rel[i] EXCEPT !.src = h.merged]
    ELSE IF i \in h.targets THEN [rel[i] EXCEPT !.dst = h.merged]
    ELSE rel[i]]

\* restore_reference, absorbed_snapshot and absorber_pre_merge.
UndoneRel(h) ==
  [i \in Rels |->
    IF \E a \in h.absorbed : a.id = i THEN (CHOOSE a \in h.absorbed : a.id = i).row
    ELSE IF i \in h.sources THEN [rel[i] EXCEPT !.src = h.merged]
    ELSE IF i \in h.targets THEN [rel[i] EXCEPT !.dst = h.merged]
    ELSE IF \E a \in h.absorbed : a.into = i
      THEN [rel[i] EXCEPT !.count = (CHOOSE a \in h.absorbed : a.into = i).pre]
    ELSE rel[i]]

\* ReferenceMissing for a relationship or evidence row that is gone.
UndoFits(h) ==
  /\ \A i \in h.sources \cup h.targets : rel[i] # None
  /\ \A a \in h.absorbed : a.into # None => rel[a.into] # None
  /\ \A a \in h.absorbed : \A e \in a.moved : evidence[e] # None
  /\ NaturalKeyUnique(UndoneRel(h))

UndoInTx(q) ==
  /\ req[q].pc = "undo"
  /\ LET h == history[req[q].which]
     IN /\ UndoFits(h)
        /\ rel' = UndoneRel(h)
        /\ evidence' = [e \in Evidence |->
             IF \E a \in h.absorbed : e \in a.moved
               THEN (CHOOSE a \in h.absorbed : e \in a.moved).id
               ELSE evidence[e]]
        /\ owner' = [r \in Refs |-> IF r \in h.refs THEN h.merged ELSE owner[r]]
        /\ mergedInto' = [mergedInto EXCEPT ![h.merged] = None]
        /\ staleMerged' = staleMerged \ {h.merged}
  /\ history' = [history EXCEPT ![req[q].which].undone = TRUE]
  /\ disorder' = (disorder \/ \E g \in DOMAIN history : g > req[q].which /\ ~history[g].undone)
  /\ overlap' = (overlap \/ q \in outdated)
  /\ req' = [req EXCEPT ![q] = Idle]
  /\ Outdates(q)

Next == \E q \in Requests :
  \/ \E s, m \in Entities : CheckMerge(q, s, m)
  \/ CollectRefs(q) \/ CollectionTruncated(q) \/ ExecuteInTx(q)
  \/ \E h \in DOMAIN history : CheckUndo(q, h)
  \/ UndoInTx(q)
  \/ TxFails(q)

Spec == Init /\ [][Next]_vars

------------------------------------------------------------------------------
(* Properties. *)

\* The tables have their types, the foreign keys hold (evidence hangs on existing
\* relationships) and so does the unique index.
TypeOK ==
  /\ rel \in [Rels -> Rows \cup {None}]
  /\ evidence \in [Evidence -> Rels \cup {None}]
  /\ owner \in [Refs -> Entities]
  /\ mergedInto \in [Entities -> Entities \cup {None}]
  /\ \A e \in Evidence : evidence[e] # None => rel[evidence[e]] # None
  /\ NaturalKeyUnique(rel)
  /\ \A h \in DOMAIN history :
       history[h].survivor \in Entities /\ history[h].merged \in Entities
  /\ disorder \in BOOLEAN /\ overlap \in BOOLEAN
  /\ outdated \subseteq Requests /\ staleMerged \subseteq Entities

\* Following merged_into ends, however requests overlap: every set of entities that
\* is closed under it holds one that was merged by a request whose findings another
\* commit had changed since (execute_merge checks outside the transaction).  Nothing
\* else makes a cycle.
NoMergeCycle ==
  \A S \in (SUBSET Entities) \ {{}} :
    (\A e \in S : mergedInto[e] \in S) => S \cap staleMerged # {}

\* No alias, identifier or extraction is left behind on an entity that was
\* merged away: whoever looks up the survivor finds them all, through chains of
\* merges and undos in any order undo_merge accepts, unless a request committed on
\* what another had outdated.
RefsFollowSurvivor == overlap \/ \A r \in Refs : mergedInto[owner[r]] = None

\* Neither does a relationship end at an entity that was merged away, as long as
\* no request commits on what another has outdated and merges are undone last first
\* (an absorbed_snapshot keeps the ends it had).  The tables, foreign keys and the
\* unique index hold in any order and however requests overlap (TypeOK).
RelationshipsFollowSurvivor ==
  TypeOK /\ (disorder \/ overlap \/ \A i \in Present(rel) :
    mergedInto[rel[i].src] = None /\ mergedInto[rel[i].dst] = None)

\* A self loop was rebuilt: its evidence is gone for good (a known limit, the
\* undo warns).
LoopRebuilt ==
  \E h \in DOMAIN history : history[h].undone /\ \E a \in history[h].absorbed : a.into = None

\* evidence_count is the number of evidence rows, through merges, absorptions
\* and undos in order, unless a self loop was rebuilt or a request committed on what
\* another had outdated.
CountsMatchEvidence ==
  disorder \/ overlap \/ LoopRebuilt \/
    \A i \in Present(rel) : rel[i].count = Cardinality({e \in Evidence : evidence[e] = i})

\* Undoing the last merge that is in force leaves the tables as they were
\* before it ("reversible", core-model/src/merge.rs), whatever was merged and
\* undone in between, by requests that did not outdate each other.
UndoRestores ==
  [][\A h \in DOMAIN history :
       /\ ~history[h].undone
       /\ history'[h].undone
       /\ ~disorder' /\ ~overlap'
       => /\ rel' = history[h].before.rel
          /\ owner' = history[h].before.owner
          /\ mergedInto' = history[h].before.mergedInto]_vars
==============================================================================
