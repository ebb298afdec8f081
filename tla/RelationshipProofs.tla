-------------------------- MODULE RelationshipProofs --------------------------
(***************************************************************************)
(* What the entity worker writes and what the graph worker makes of it, each *)
(* for any set of workers, documents, relationships, writes and messages.    *)
(*                                                                         *)
(* The entity worker (EntityExtraction): claimed documents are complete,      *)
(* counts match, merges and identifier conflicts are kept.                  *)
(*                                                                         *)
(* The graph projection (GraphWorker): LossNeedsLaterSuccess speaks of        *)
(* committed offsets; the invariant says what is known of everything before  *)
(* the position, and that what a commit names was handled.  EdgeConverges    *)
(* speaks of a relationship nothing is under way of; the invariant says what *)
(* is still under way when the edge is not right (Conv), and that the last    *)
(* message of a relationship, read again after a restart, does not undo a     *)
(* later write (LastTells).                                                *)
(***************************************************************************)
EXTENDS EntityExtraction, GraphWorker, WellFoundedInduction, FiniteSetTheorems, TLAPS

------------------------------------------------------------------------------
(* EntityExtraction.  Nothing of an extraction is in a transaction, so the   *)
(* invariant follows each worker through its document: what it has written   *)
(* so far is there, and stays (Progress).  All of it speaks of the ids of    *)
(* rows, which no step takes back; a merge changes what they hang on.  That  *)
(* a merge finds at most one relationship to absorb another into, and none   *)
(* that both ends of a relationship become one, rests on the types: merges   *)
(* stay within one, relationships never do (Proper).                         *)

\* Rows of relationships.
RelRows == [src : Docs \cup Keys, dst : Keys, count : Nat]

\* A relationship between entities joins two types.
Proper(row) == row \in RelRows /\ (row.src \in Keys => TypeOf[row.src] # TypeOf[row.dst])

ItemPcs == {"find", "put", "insert", "identifier", "extract", "rel", "evidence", "count", "get", "back"}

LinkPcs == {"rel", "evidence", "count", "get", "back"}

WorkerRecord ==
  [pc : ItemPcs \cup {"claim", "publish", "changes"}, doc : Docs \ Skipped, n : Nat,
   derived : BOOLEAN, found : Keys \cup {None}, count : Nat, row : RelRows \cup {None},
   stale : BOOLEAN]

\* The relationship of an item, and the id of its evidence.
FactOf(d, n, derived) ==
  IF derived THEN <<Items[d][n].from, Items[d][n].key>> ELSE <<d, Items[d][n].key>>

EvidenceFor(d, n, derived) == <<FactOf(d, n, derived), d, Items[d][n].off>>

\* Keys whose identifier is settled.
Listed ==
  {k \in Keys : \/ k \in DOMAIN identifier /\ identifier[k].owner = k
                \/ \E c \in candidates : k \in c
                \/ k \in unlisted
                \/ k \in DOMAIN merged}

\* Item n is through the first loop, with E the keys of entities, K the keys
\* settled, X the extractions and V the evidence.
Mentioned(d, n, E, K, X, V) ==
  /\ Items[d][n].key \in E
  /\ Items[d][n].key \in Identified => Items[d][n].key \in K
  /\ <<d, Items[d][n].key, Items[d][n].off>> \in X
  /\ EvidenceFor(d, n, FALSE) \in V

\* What a worker in the middle of an item has written of it.
OnItem(r, E, K, X, V) ==
  /\ r.n \in DOMAIN Items[r.doc]
  /\ r.derived => r.n \in Derived(r.doc) /\ r.pc \in LinkPcs
  /\ r.pc \notin {"find", "put", "insert"} => Items[r.doc][r.n].key \in E
  /\ r.pc \notin {"find", "put", "insert", "identifier"} /\ Items[r.doc][r.n].key \in Identified
       => Items[r.doc][r.n].key \in K
  /\ r.pc \in LinkPcs => <<r.doc, Items[r.doc][r.n].key, Items[r.doc][r.n].off>> \in X
  /\ r.pc \in {"count", "get", "back"} => EvidenceFor(r.doc, r.n, r.derived) \in V
  /\ r.pc = "back" => Proper(r.row)

\* What a worker has written so far.
Progress(r, E, K, X, V) ==
  r.pc \notin {"idle", "commit"} =>
    /\ r \in WorkerRecord
    /\ r.found \in E \cup {None}
    /\ \A i \in DOMAIN Items[r.doc] : r.derived \/ i < r.n => Mentioned(r.doc, i, E, K, X, V)
    /\ \A i \in Derived(r.doc) : r.derived /\ i < r.n => EvidenceFor(r.doc, i, TRUE) \in V
    /\ r.pc \in ItemPcs => OnItem(r, E, K, X, V)
    /\ r.pc \notin ItemPcs =>
         r.derived /\ \A i \in Derived(r.doc) : EvidenceFor(r.doc, i, TRUE) \in V

AllProgress ==
  \A w \in Workers :
    Progress(worker[w], DOMAIN entity, Listed, DOMAIN extraction, DOMAIN evidence)

\* The tables.
EntitiesTyped ==
  /\ DOMAIN entity \subseteq Keys
  /\ \A k \in DOMAIN entity : entity[k] \in DOMAIN entity \cup {None}
  /\ \A x \in DOMAIN extraction : extraction[x] \in DOMAIN entity
  /\ \A v \in DOMAIN identifier : v \in Keys /\ identifier[v] \in [id : Keys \cup {None}, owner : Keys]
  /\ DOMAIN merged \subseteq DOMAIN entity

RelsTyped ==
  /\ \A r \in DOMAIN rel : r \in RelIds /\ Proper(rel[r])
  /\ \A r, q \in DOMAIN rel : rel[r].src = rel[q].src /\ rel[r].dst = rel[q].dst => r = q
  /\ \A e \in DOMAIN evidence : evidence[e] \in DOMAIN rel
  /\ IsFiniteSet(DOMAIN evidence)

FeedTyped ==
  /\ claimed \subseteq Docs \ Skipped
  /\ pending \cup failed \subseteq Docs
  /\ worker = [w \in Workers |-> worker[w]]

\* What the claim of a document vouches for.
AllWritten(d, E, K, X, V) ==
  \A i \in DOMAIN Items[d] :
    /\ Mentioned(d, i, E, K, X, V)
    /\ i \in Derived(d) => EvidenceFor(d, i, TRUE) \in V

ClaimsKept ==
  \A d \in claimed : AllWritten(d, DOMAIN entity, Listed, DOMAIN extraction, DOMAIN evidence)

Announced ==
  /\ \A d \in claimed :
       \/ d \in extracted /\ Facts(d) \subseteq changed
       \/ d \in untold
       \/ \E w \in Workers : worker[w].pc \in {"publish", "changes"} /\ worker[w].doc = d
  /\ \A w \in Workers : worker[w].pc = "changes" => worker[w].doc \in extracted

\* A count that nothing came after is right.
FreshCounts ==
  \A w \in Workers :
    worker[w].pc \in {"get", "back"} /\ ~worker[w].stale => worker[w].count = Counted(RelOf(w))

\* The inductive invariant of the entity worker.
ExtractionInv ==
  /\ EntitiesTyped /\ RelsTyped /\ FeedTyped
  /\ AllProgress /\ ClaimsKept /\ Announced /\ MergedStaysMerged
  /\ FreshCounts /\ CountsMatchEvidence

\* The least of some numbers.
LEMMA Least ==
  ASSUME NEW S, S \subseteq Nat, S # {}
  PROVE  \E x \in S : \A y \in S : x <= y
<1>1. PICK R : R = OpToRel(<, Nat)
  OBVIOUS
<1>2. IsWellFoundedOn(R, Nat)
  BY <1>1, NatLessThanWellFounded
<1>3. PICK x \in S : \A y \in S : <<y, x>> \notin R
  BY <1>2, WFMin
<1>4. \A y \in S : ~(y < x)
  BY <1>1, <1>3 DEF OpToRel
<1> QED BY <1>4

\* What is found in a document.
LEMMA ItemTyped ==
  ASSUME NEW d \in Docs, NEW i \in DOMAIN Items[d]
  PROVE  /\ Items[d][i].key \in Keys /\ Items[d][i].from \in Keys \cup {None} /\ Items[d][i].off \in Nat
         /\ i \in Nat /\ i >= 1
         /\ Items[d][i].from # None => TypeOf[Items[d][i].from] # TypeOf[Items[d][i].key]
<1>1. Items[d] \in Seq([key : Keys, off : Nat, from : Keys \cup {None}])
  BY ExtractionAssumption
<1>2. Items[d][i] \in [key : Keys, off : Nat, from : Keys \cup {None}] /\ i \in Nat /\ i >= 1
  <2>1. PICK S, s : S = [key : Keys, off : Nat, from : Keys \cup {None}] /\ s = Items[d]
    OBVIOUS
  <2>2. s \in Seq(S) /\ i \in DOMAIN s
    BY <1>1, <2>1
  <2>3. s[i] \in S /\ i \in Nat /\ i >= 1
    BY <2>2
  <2> QED BY <2>1, <2>3
<1>3. Items[d][i].from # None => TypeOf[Items[d][i].from] # TypeOf[Items[d][i].key]
  BY ExtractionAssumption
<1> QED BY <1>2, <1>3

LEMMA ItemsInOrder ==
  ASSUME NEW d \in Docs
  PROVE  \A i \in DOMAIN Items[d] : \A j \in Nat : j >= 1 /\ j <= i => j \in DOMAIN Items[d]
<1>1. Items[d] \in Seq([key : Keys, off : Nat, from : Keys \cup {None}])
  BY ExtractionAssumption
<1> QED BY <1>1

LEMMA DerivedItems ==
  ASSUME NEW d \in Docs, NEW i \in Derived(d)
  PROVE  i \in DOMAIN Items[d] /\ Items[d][i].from \in Keys /\ Items[d][i].from # None
<1>1. i \in DOMAIN Items[d] /\ Items[d][i].from \in KeysOf(d)
  BY DEF Derived
<1>2. KeysOf(d) \subseteq Keys
  BY ItemTyped DEF KeysOf
<1> QED BY <1>1, <1>2, ExtractionAssumption

\* The relationship of an item joins two types.
LEMMA FactProper ==
  ASSUME NEW d \in Docs, NEW n \in DOMAIN Items[d], NEW derived \in BOOLEAN,
         derived => n \in Derived(d), NEW c \in Nat, NEW f, f = FactOf(d, n, derived)
  PROVE  f \in RelIds /\ Proper([src |-> f[1], dst |-> f[2], count |-> c])
<1>1. Items[d][n].key \in Keys /\ Docs \cap Keys = {}
  BY ItemTyped, ExtractionAssumption
<1>2. CASE ~derived
  BY <1>1, <1>2 DEF FactOf, RelIds, Proper, RelRows
<1>3. CASE derived
  <2>1. Items[d][n].from \in Keys /\ TypeOf[Items[d][n].from] # TypeOf[Items[d][n].key]
    BY <1>3, DerivedItems, ItemTyped
  <2> QED BY <1>1, <1>3, <2>1 DEF FactOf, RelIds, Proper, RelRows
<1> QED BY <1>2, <1>3

\* What was written stays written.
LEMMA MentionedStays ==
  ASSUME NEW d, NEW n, NEW E, NEW K, NEW X, NEW V, NEW E2, NEW K2, NEW X2, NEW V2,
         E \subseteq E2, K \subseteq K2, X \subseteq X2, V \subseteq V2, Mentioned(d, n, E, K, X, V)
  PROVE  Mentioned(d, n, E2, K2, X2, V2)
BY DEF Mentioned

LEMMA ProgressStays ==
  ASSUME NEW r, NEW E, NEW K, NEW X, NEW V, NEW E2, NEW K2, NEW X2, NEW V2,
         E \subseteq E2, K \subseteq K2, X \subseteq X2, V \subseteq V2, Progress(r, E, K, X, V)
  PROVE  Progress(r, E2, K2, X2, V2)
<1> SUFFICES ASSUME r.pc \notin {"idle", "commit"}
             PROVE  Progress(r, E2, K2, X2, V2)
  BY DEF Progress
<1>1. \A i \in DOMAIN Items[r.doc] : r.derived \/ i < r.n => Mentioned(r.doc, i, E2, K2, X2, V2)
  BY MentionedStays DEF Progress
<1>2. r.pc \in ItemPcs => OnItem(r, E2, K2, X2, V2)
  <2>1. r.pc \in ItemPcs => OnItem(r, E, K, X, V)
    BY DEF Progress
  <2> QED BY <2>1 DEF OnItem
<1> QED BY <1>1, <1>2 DEF Progress

\* A worker does not see that its count is stale.
LEMMA ProgressStale ==
  ASSUME NEW r, NEW E, NEW K, NEW X, NEW V, Progress(r, E, K, X, V), r.pc \in {"get", "back"},
         NEW q, q = [r EXCEPT !.stale = TRUE]
  PROVE  /\ Progress(q, E, K, X, V)
         /\ q.pc = r.pc /\ q.doc = r.doc /\ q.n = r.n /\ q.derived = r.derived /\ q.count = r.count
         /\ q.stale /\ q.row = r.row
<1>1. r \in WorkerRecord
  BY DEF Progress
<1>2. /\ q \in WorkerRecord /\ q.pc = r.pc /\ q.doc = r.doc /\ q.n = r.n /\ q.derived = r.derived
      /\ q.found = r.found /\ q.row = r.row /\ q.count = r.count /\ q.stale
  BY <1>1 DEF WorkerRecord
<1>3. OnItem(r, E, K, X, V) => OnItem(q, E, K, X, V)
  BY <1>2 DEF OnItem
<1>4. Progress(q, E, K, X, V)
  BY <1>2, <1>3 DEF Progress
<1> QED BY <1>2, <1>4

\* What is written of a document when item n of one of the loops is next.
UpTo(d, n, derived, E, K, X, V) ==
  /\ ~derived => n = 1 \/ n \in DOMAIN Items[d]
  /\ \A i \in DOMAIN Items[d] : derived \/ i < n => Mentioned(d, i, E, K, X, V)
  /\ \A i \in Derived(d) : derived /\ i < n => EvidenceFor(d, i, TRUE) \in V

\* Where the loops go next.
LEMMA AtWorks ==
  ASSUME NEW d \in Docs \ Skipped, NEW n \in Nat, n >= 1, NEW derived \in BOOLEAN,
         NEW E, NEW K, NEW X, NEW V, UpTo(d, n, derived, E, K, X, V), NEW r, r = At(d, n, derived)
  PROVE  Progress(r, E, K, X, V) /\ r.pc \in {"find", "extract", "rel", "claim"} /\ r.stale = FALSE
<1> DEFINE left == IF derived THEN {i \in Derived(d) : i >= n} ELSE {i \in DOMAIN Items[d] : i >= n}
<1> DEFINE next == CHOOSE i \in left : \A j \in left : i <= j
<1>u. /\ ~derived => n = 1 \/ n \in DOMAIN Items[d]
      /\ \A i \in DOMAIN Items[d] : derived \/ i < n => Mentioned(d, i, E, K, X, V)
      /\ \A i \in Derived(d) : derived /\ i < n => EvidenceFor(d, i, TRUE) \in V
  BY DEF UpTo
<1>1. left \subseteq DOMAIN Items[d] /\ left \subseteq Nat
  BY ItemTyped DEF Derived
<1>2. ASSUME left # {}
      PROVE  Progress(r, E, K, X, V) /\ r.pc \in {"find", "extract", "rel", "claim"} /\ r.stale = FALSE
  <2>1. next \in left /\ \A j \in left : next <= j
    <3>1. \E i \in left : \A j \in left : i <= j
      BY <1>1, <1>2, Least
    <3> HIDE DEF left
    <3> QED BY <3>1
  <2>2. PICK m \in DOMAIN Items[d] : m = next /\ m \in left /\ (\A j \in left : m <= j) /\ m \in Nat /\ m >= n
    BY <1>1, <2>1
  <2>3. r = [pc |-> IF derived THEN "rel" ELSE IF Seen(d, m) THEN "extract" ELSE "find",
             doc |-> d, n |-> m, derived |-> derived, found |-> None, count |-> 0, row |-> None,
             stale |-> FALSE]
    BY <1>2, <2>2 DEF At
  <2>4. /\ r.pc = IF derived THEN "rel" ELSE IF Seen(d, m) THEN "extract" ELSE "find"
        /\ r.doc = d /\ r.n = m /\ r.derived = derived /\ r.found = None /\ r.stale = FALSE
        /\ r.pc \in ItemPcs
    BY <2>3 DEF ItemPcs
  <2>5. r \in WorkerRecord
    BY <2>2, <2>3 DEF WorkerRecord, ItemPcs
  <2>6. \A i \in DOMAIN Items[d] : derived \/ i < m => Mentioned(d, i, E, K, X, V)
    <3>1. ASSUME NEW i \in DOMAIN Items[d], ~derived, i < m PROVE i < n
      <4>1. i \notin left /\ i \in Nat
        BY <2>2, <3>1, ItemTyped
      <4> QED BY <3>1, <4>1
    <3> QED BY <1>u, <3>1
  <2>7. \A i \in Derived(d) : derived /\ i < m => EvidenceFor(d, i, TRUE) \in V
    <3>1. ASSUME NEW i \in Derived(d), derived, i < m PROVE i < n
      <4>1. i \in Nat
        BY ItemTyped DEF Derived
      <4>2. i \notin left
        BY <2>2, <3>1, <4>1
      <4> QED BY <3>1, <4>1, <4>2
    <3> QED BY <1>u, <3>1
  <2>8. OnItem(r, E, K, X, V)
    <3>1. CASE derived
      <4>1. m \in Derived(d) /\ Mentioned(d, m, E, K, X, V)
        BY <2>2, <2>6, <3>1
      <4>2. r.pc = "rel"
        BY <2>4, <3>1
      <4> QED BY <2>4, <3>1, <4>1, <4>2 DEF OnItem, Mentioned, LinkPcs
    <3>2. CASE ~derived /\ Seen(d, m)
      <4>1. PICK i \in 1 .. (m - 1) : Items[d][i].key = Items[d][m].key
        BY <3>2 DEF Seen
      <4>2. i \in DOMAIN Items[d] /\ i < m
        BY <2>2, <4>1, ItemsInOrder
      <4>3. Mentioned(d, i, E, K, X, V)
        BY <2>6, <4>2
      <4>4. r.pc = "extract" /\ ~r.derived
        BY <2>4, <3>2
      <4> QED BY <2>4, <4>1, <4>3, <4>4 DEF OnItem, Mentioned, LinkPcs
    <3>3. CASE ~derived /\ ~Seen(d, m)
      <4>1. r.pc = "find" /\ ~r.derived
        BY <2>4, <3>3
      <4> QED BY <2>4, <4>1 DEF OnItem, LinkPcs
    <3> QED BY <3>1, <3>2, <3>3
  <2> QED BY <2>4, <2>5, <2>6, <2>7, <2>8 DEF Progress
<1>3. ASSUME left = {}
      PROVE  Progress(r, E, K, X, V) /\ r.pc \in {"find", "extract", "rel", "claim"} /\ r.stale = FALSE
  <2>1. r = [pc |-> "claim", doc |-> d, n |-> n, derived |-> TRUE, found |-> None, count |-> 0,
             row |-> None, stale |-> FALSE]
    BY <1>3 DEF At
  <2>2. /\ r.pc = "claim" /\ r.doc = d /\ r.n = n /\ r.derived = TRUE /\ r.found = None
        /\ r.stale = FALSE /\ r.pc \notin ItemPcs
    BY <2>1 DEF ItemPcs
  <2>3. r \in WorkerRecord
    BY <2>1 DEF WorkerRecord, ItemPcs
  <2>4. /\ \A i \in DOMAIN Items[d] : Mentioned(d, i, E, K, X, V)
        /\ \A i \in Derived(d) : EvidenceFor(d, i, TRUE) \in V
    <3>1. CASE derived
      <4>1. \A i \in Derived(d) : i < n
        BY <1>3, <3>1, ItemTyped DEF Derived
      <4> QED BY <1>u, <3>1, <4>1
    <3>2. CASE ~derived
      <4>1. DOMAIN Items[d] = {}
        BY <1>u, <1>3, <3>2, ItemTyped
      <4> QED BY <4>1 DEF Derived
    <3> QED BY <3>1, <3>2
  <2> QED BY <2>2, <2>3, <2>4 DEF Progress
<1> QED BY <1>2, <1>3

LEMMA NextItemWorks ==
  ASSUME NEW r, NEW E, NEW K, NEW X, NEW V, Progress(r, E, K, X, V), r.pc \in {"get", "back"},
         NEW q, q = NextItem(r.doc, r.n, r.derived)
  PROVE  Progress(q, E, K, X, V) /\ q.pc \in {"find", "extract", "rel", "claim"} /\ q.stale = FALSE
<1>1. r \in WorkerRecord /\ OnItem(r, E, K, X, V)
  BY DEF Progress, ItemPcs
<1>2. PICK d \in Docs \ Skipped, n \in Nat, derived \in BOOLEAN :
        d = r.doc /\ n = r.n /\ derived = r.derived
  BY <1>1 DEF WorkerRecord
<1>3. n \in DOMAIN Items[d] /\ n >= 1 /\ n + 1 \in Nat
  BY <1>1, <1>2, ItemTyped DEF OnItem
<1>4. \A i \in DOMAIN Items[d] : derived \/ i < n => Mentioned(d, i, E, K, X, V)
  BY <1>2 DEF Progress
<1>5. \A i \in Derived(d) : derived /\ i < n => EvidenceFor(d, i, TRUE) \in V
  BY <1>2 DEF Progress
<1>6. EvidenceFor(d, n, derived) \in V
  BY <1>1, <1>2 DEF OnItem
<1>7. ~derived => Mentioned(d, n, E, K, X, V)
  BY <1>1, <1>2, <1>6 DEF OnItem, Mentioned, LinkPcs
<1>8. \A i \in DOMAIN Items[d] : derived \/ i < n + 1 => Mentioned(d, i, E, K, X, V)
  BY <1>3, <1>4, <1>7, ItemTyped
<1>9. \A i \in Derived(d) : derived /\ i < n + 1 => EvidenceFor(d, i, TRUE) \in V
  <2>1. \A i \in Derived(d) : i \in Nat
    BY ItemTyped DEF Derived
  <2>2. derived => EvidenceFor(d, n, TRUE) \in V
    BY <1>6
  <2>3. ASSUME NEW i \in Derived(d), derived, i < n + 1
        PROVE  EvidenceFor(d, i, TRUE) \in V
    <3>1. i < n \/ i = n
      BY <2>1, <2>3
    <3> QED BY <1>5, <2>2, <2>3, <3>1
  <2> QED BY <2>3
<1>10. CASE ~derived /\ n + 1 \notin DOMAIN Items[d]
  <2>1. \A i \in DOMAIN Items[d] : i < n + 1
    <3>1. ASSUME NEW i \in DOMAIN Items[d], i >= n + 1 PROVE FALSE
      BY <1>3, <1>10, <3>1, ItemsInOrder
    <3> QED BY <1>3, <3>1, ItemTyped
  <2>2. \A i \in DOMAIN Items[d] : Mentioned(d, i, E, K, X, V)
    BY <1>8, <2>1
  <2>3. \A i \in Derived(d) : ~(i < 1)
    BY ItemTyped DEF Derived
  <2>4. q = At(d, 1, TRUE)
    BY <1>2, <1>10 DEF NextItem
  <2>5. UpTo(d, 1, TRUE, E, K, X, V)
    BY <2>2, <2>3 DEF UpTo
  <2>6. 1 \in Nat /\ 1 >= 1 /\ TRUE \in BOOLEAN
    OBVIOUS
  <2>7. PICK one, yes : one = 1 /\ yes = TRUE
    OBVIOUS
  <2> QED BY <2>4, <2>5, <2>6, <2>7, AtWorks
<1>11. CASE derived \/ n + 1 \in DOMAIN Items[d]
  <2>1. q = At(d, n + 1, derived)
    BY <1>2, <1>11 DEF NextItem
  <2>2. UpTo(d, n + 1, derived, E, K, X, V)
    BY <1>8, <1>9, <1>11 DEF UpTo
  <2>3. PICK m \in Nat : m = n + 1 /\ m >= 1
    BY <1>3
  <2>4. UpTo(d, m, derived, E, K, X, V) /\ q = At(d, m, derived)
    BY <2>1, <2>2, <2>3
  <2> QED BY <2>3, <2>4, AtWorks
<1> QED BY <1>10, <1>11

\* No step takes back the id of a row.
Grown ==
  /\ DOMAIN entity \subseteq DOMAIN entity' /\ Listed \subseteq Listed'
  /\ DOMAIN extraction \subseteq DOMAIN extraction' /\ DOMAIN evidence \subseteq DOMAIN evidence'

LEMMA WorkerMoves ==
  ASSUME FeedTyped, NEW w \in Workers, NEW r, worker' = [worker EXCEPT ![w] = r]
  PROVE  /\ worker'[w] = r /\ \A v \in Workers : v # w => worker'[v] = worker[v]
         /\ worker' = [v \in Workers |-> worker'[v]]
BY DEF FeedTyped

LEMMA ProgressMoves ==
  ASSUME ExtractionInv, Grown, NEW w \in Workers, NEW r, worker' = [worker EXCEPT ![w] = r],
         Progress(r, DOMAIN entity', Listed', DOMAIN extraction', DOMAIN evidence')
  PROVE  AllProgress'
<1>1. worker'[w] = r /\ \A v \in Workers : v # w => worker'[v] = worker[v]
  BY WorkerMoves DEF ExtractionInv
<1>2. ASSUME NEW v \in Workers
      PROVE  Progress(worker'[v], DOMAIN entity', Listed', DOMAIN extraction', DOMAIN evidence')
  <2>1. CASE v = w
    BY <1>1, <2>1
  <2>2. CASE v # w
    <3>1. Progress(worker[v], DOMAIN entity, Listed, DOMAIN extraction, DOMAIN evidence)
      BY DEF ExtractionInv, AllProgress
    <3>2. Progress(worker[v], DOMAIN entity', Listed', DOMAIN extraction', DOMAIN evidence')
      BY <3>1, ProgressStays DEF Grown
    <3> QED BY <1>1, <2>2, <3>2
  <2> QED BY <2>1, <2>2
<1> QED BY <1>2 DEF AllProgress

\* The rows a worker vouches for, in a state with at least its rows.
LEMMA StillWritten ==
  ASSUME NEW d, NEW E, NEW K, NEW X, NEW V, NEW E2, NEW K2, NEW X2, NEW V2,
         E \subseteq E2, K \subseteq K2, X \subseteq X2, V \subseteq V2, AllWritten(d, E, K, X, V)
  PROVE  AllWritten(d, E2, K2, X2, V2)
BY MentionedStays DEF AllWritten

LEMMA ClaimsMove ==
  ASSUME ExtractionInv, Grown, UNCHANGED claimed
  PROVE  ClaimsKept'
<1>1. ASSUME NEW d \in claimed
      PROVE  AllWritten(d, DOMAIN entity', Listed', DOMAIN extraction', DOMAIN evidence')
  BY StillWritten DEF ExtractionInv, ClaimsKept, Grown
<1> QED BY <1>1 DEF ClaimsKept

\* The announcements a step makes or leaves to its worker.
Announcing(w, r) ==
  /\ extracted \subseteq extracted' /\ changed \subseteq changed' /\ untold \subseteq untold'
  /\ worker[w].pc \in {"publish", "changes"} =>
       \/ worker[w].doc \in untold'
       \/ worker[w].doc \in extracted' /\ Facts(worker[w].doc) \subseteq changed'
       \/ r.pc \in {"publish", "changes"} /\ r.doc = worker[w].doc
  /\ r.pc = "changes" => r.doc \in extracted'
  /\ \A d \in claimed' \ claimed : r.pc = "publish" /\ r.doc = d

LEMMA AnnouncedMoves ==
  ASSUME ExtractionInv, NEW w \in Workers, NEW r, worker' = [worker EXCEPT ![w] = r],
         Announcing(w, r)
  PROVE  Announced'
<1>1. worker'[w] = r /\ \A v \in Workers : v # w => worker'[v] = worker[v]
  BY WorkerMoves DEF ExtractionInv
<1>2. ASSUME NEW d \in claimed'
      PROVE  \/ d \in extracted' /\ Facts(d) \subseteq changed'
             \/ d \in untold'
             \/ \E v \in Workers : worker'[v].pc \in {"publish", "changes"} /\ worker'[v].doc = d
  <2>1. CASE d \notin claimed
    BY <1>1, <1>2, <2>1 DEF Announcing
  <2>2. CASE d \in extracted /\ Facts(d) \subseteq changed
    BY <2>2 DEF Announcing
  <2>3. CASE d \in untold
    BY <2>3 DEF Announcing
  <2>4. ASSUME NEW v \in Workers, worker[v].pc \in {"publish", "changes"}, worker[v].doc = d
        PROVE  \/ d \in extracted' /\ Facts(d) \subseteq changed'
               \/ d \in untold'
               \/ \E u \in Workers : worker'[u].pc \in {"publish", "changes"} /\ worker'[u].doc = d
    <3>1. CASE v = w
      BY <1>1, <2>4, <3>1 DEF Announcing
    <3>2. CASE v # w
      BY <1>1, <2>4, <3>2
    <3> QED BY <3>1, <3>2
  <2> QED BY <2>1, <2>2, <2>3, <2>4 DEF ExtractionInv, Announced
<1>3. ASSUME NEW v \in Workers, worker'[v].pc = "changes"
      PROVE  worker'[v].doc \in extracted'
  BY <1>1, <1>3 DEF ExtractionInv, Announced, Announcing
<1> QED BY <1>2, <1>3 DEF Announced

\* The relationship in a worker's hands, as the model has it.
RecountOf(r) ==
  IF r.pc \in {"evidence", "count", "get", "back"} THEN {FactOf(r.doc, r.n, r.derived)} ELSE {}

LEMMA InHands ==
  \A w \in Workers : RelOf(w) = FactOf(worker[w].doc, worker[w].n, worker[w].derived)
                     /\ Recounting(w) = RecountOf(worker[w])
BY DEF RelOf, FactOf, Item, Doc, Recounting, RecountOf

LEMMA InHandsNext ==
  \A w \in Workers : RelOf(w)' = FactOf(worker'[w].doc, worker'[w].n, worker'[w].derived)
                     /\ Recounting(w)' = RecountOf(worker'[w])
BY DEF RelOf, FactOf, Item, Doc, Recounting, RecountOf

LEMMA CountStays ==
  ASSUME NEW x, UNCHANGED evidence
  PROVE  Counted(x)' = Counted(x)
BY DEF Counted, EvidenceOf

LEMMA FreshMoves ==
  ASSUME ExtractionInv, UNCHANGED evidence, NEW w \in Workers, NEW r,
         worker' = [worker EXCEPT ![w] = r],
         r.pc \in {"get", "back"} /\ ~r.stale => r.count = Counted(FactOf(r.doc, r.n, r.derived))
  PROVE  FreshCounts'
<1>1. worker'[w] = r /\ \A v \in Workers : v # w => worker'[v] = worker[v]
  BY WorkerMoves DEF ExtractionInv
<1>2. ASSUME NEW v \in Workers, worker'[v].pc \in {"get", "back"}, ~worker'[v].stale
      PROVE  worker'[v].count = Counted(RelOf(v))'
  <2>1. PICK x : x = FactOf(worker'[v].doc, worker'[v].n, worker'[v].derived)
    OBVIOUS
  <2>2. Counted(RelOf(v))' = Counted(x)
    <3>1. RelOf(v)' = x
      BY <2>1, InHandsNext
    <3> QED BY <3>1 DEF Counted, EvidenceOf
  <2>3. CASE v = w
    BY <1>1, <1>2, <2>1, <2>2, <2>3
  <2>4. CASE v # w
    <3>1. worker[v].count = Counted(RelOf(v)) /\ RelOf(v) = x
      BY <1>1, <1>2, <2>1, <2>4, InHands DEF ExtractionInv, FreshCounts
    <3> QED BY <1>1, <2>2, <2>4, <3>1
  <2> QED BY <2>3, <2>4
<1> QED BY <1>2 DEF FreshCounts

\* What a step leaves of the counts.
Counting(w, r) ==
  \A x \in DOMAIN rel' :
    \/ x \in doubtful' \cup RecountOf(r)
    \/ rel'[x].count = Counted(x)
    \/ /\ x \in DOMAIN rel /\ rel'[x].count = rel[x].count
       /\ x \notin RecountOf(worker[w])
       /\ x \in doubtful => x \in doubtful'

LEMMA CountsMove ==
  ASSUME ExtractionInv, UNCHANGED evidence, NEW w \in Workers, NEW r,
         worker' = [worker EXCEPT ![w] = r], Counting(w, r)
  PROVE  CountsMatchEvidence'
<1>1. worker'[w] = r /\ \A v \in Workers : v # w => worker'[v] = worker[v]
  BY WorkerMoves DEF ExtractionInv
<1>2. ASSUME NEW x \in DOMAIN rel'
      PROVE  \/ x \in doubtful'
             \/ \E v \in Workers : x \in Recounting(v)'
             \/ rel'[x].count = Counted(x)'
             \/ rel'[x].count > EvidenceLimit
  <2>1. Counted(x)' = Counted(x)
    BY CountStays
  <2>2. CASE x \in RecountOf(r)
    BY <1>1, <2>2, InHandsNext
  <2>3. CASE x \in DOMAIN rel /\ rel'[x].count = rel[x].count /\ x \notin RecountOf(worker[w])
             /\ (x \in doubtful => x \in doubtful')
    <3>1. ASSUME NEW v \in Workers, x \in Recounting(v)
          PROVE  x \in Recounting(v)'
      <4>1. x \in RecountOf(worker[v]) /\ v # w
        BY <2>3, <3>1, InHands
      <4> QED BY <1>1, <4>1, InHandsNext
    <3> QED BY <2>1, <2>3, <3>1 DEF ExtractionInv, CountsMatchEvidence
  <2> QED BY <1>2, <2>1, <2>2, <2>3 DEF Counting
<1> QED BY <1>2 DEF CountsMatchEvidence

\* A step that writes to none of these tables.
LEMMA QuietTables ==
  ASSUME ExtractionInv, UNCHANGED <<rows, merged, revived, unlisted>>
  PROVE  Grown /\ EntitiesTyped' /\ RelsTyped' /\ MergedStaysMerged'
<1>1. Grown
  BY DEF Grown, Listed, rows
<1>2. EntitiesTyped'
  BY DEF ExtractionInv, EntitiesTyped, rows
<1>3. RelsTyped'
  BY DEF ExtractionInv, RelsTyped, rows
<1>4. MergedStaysMerged'
  BY DEF ExtractionInv, MergedStaysMerged, rows
<1> QED BY <1>1, <1>2, <1>3, <1>4

\* Where a worker has something that must not get lost.
HeldPcs == {"publish", "changes", "evidence", "count", "get", "back"}

LEMMA WorkerOnly ==
  ASSUME ExtractionInv, NEW w \in Workers, NEW r, worker' = [worker EXCEPT ![w] = r],
         UNCHANGED <<rows, merged, revived, unlisted, claimed>>, pending' \cup failed' \subseteq Docs,
         Progress(r, DOMAIN entity, Listed, DOMAIN extraction, DOMAIN evidence),
         Announcing(w, r), Counting(w, r),
         r.pc \in {"get", "back"} /\ ~r.stale => r.count = Counted(FactOf(r.doc, r.n, r.derived))
  PROVE  ExtractionInv'
<1>1. Grown /\ EntitiesTyped' /\ RelsTyped' /\ MergedStaysMerged'
  BY QuietTables
<1>2. FeedTyped'
  BY WorkerMoves DEF ExtractionInv, FeedTyped
<1>3. AllProgress'
  <2>1. Progress(r, DOMAIN entity', Listed', DOMAIN extraction', DOMAIN evidence')
    BY <1>1, ProgressStays DEF Grown
  <2> QED BY <1>1, <2>1, ProgressMoves
<1>4. ClaimsKept'
  BY <1>1, ClaimsMove
<1>5. Announced'
  BY AnnouncedMoves
<1>6. evidence' = evidence
  BY DEF rows
<1>7. FreshCounts'
  BY <1>6, FreshMoves
<1>8. CountsMatchEvidence'
  BY <1>6, CountsMove
<1> QED BY <1>1, <1>2, <1>3, <1>4, <1>5, <1>7, <1>8 DEF ExtractionInv

LEMMA NothingHeld ==
  ASSUME NEW w \in Workers, NEW r, worker[w].pc \notin HeldPcs, r.pc \notin HeldPcs,
         UNCHANGED <<extracted, changed, claimed>>, untold \subseteq untold'
  PROVE  Announcing(w, r)
BY DEF Announcing, HeldPcs

LEMMA NothingCounted ==
  ASSUME NEW w \in Workers, NEW r, RecountOf(worker[w]) \subseteq doubtful' \cup RecountOf(r),
         UNCHANGED rel, doubtful \subseteq doubtful'
  PROVE  Counting(w, r)
BY DEF Counting

LEMMA PlainMove ==
  ASSUME ExtractionInv, NEW w \in Workers, NEW r, worker' = [worker EXCEPT ![w] = r],
         UNCHANGED <<rows, merged, revived, unlisted, claimed, extracted, changed, untold, doubtful>>,
         pending' \cup failed' \subseteq Docs,
         Progress(r, DOMAIN entity, Listed, DOMAIN extraction, DOMAIN evidence),
         worker[w].pc \notin HeldPcs, r.pc \notin HeldPcs
  PROVE  ExtractionInv'
<1>1. Announcing(w, r)
  BY NothingHeld
<1>2. RecountOf(worker[w]) = {} /\ r.pc \notin {"get", "back"}
  BY DEF RecountOf, HeldPcs
<1>3. rel' = rel
  BY DEF rows
<1>4. Counting(w, r)
  BY <1>2, <1>3, NothingCounted
<1> QED BY <1>1, <1>2, <1>4, WorkerOnly

\* A worker that does nothing has nothing to show.
LEMMA IdleWorks ==
  ASSUME NEW r, r.pc \in {"idle", "commit"}, NEW E, NEW K, NEW X, NEW V
  PROVE  Progress(r, E, K, X, V)
BY DEF Progress

LEMMA BeginInv ==
  ASSUME ExtractionInv, NEW w \in Workers, NEW d \in Docs, worker[w] = Idle, Begin(w, d),
         UNCHANGED <<rows, claimed, outbox, feed, history>>
  PROVE  ExtractionInv'
<1>1. /\ UNCHANGED <<rows, merged, revived, unlisted, claimed, extracted, changed, untold, doubtful>>
      /\ pending' \cup failed' \subseteq Docs
  BY DEF outbox, feed, history, ExtractionInv, FeedTyped
<1>2. worker[w].pc \notin HeldPcs
  BY DEF Idle, HeldPcs
<1>3. CASE d \in claimed \cup Skipped
  <2>1. PICK r : r = [pc |-> "commit", doc |-> d]
    OBVIOUS
  <2>2. r.pc = "commit" /\ r.pc \notin HeldPcs /\ worker' = [worker EXCEPT ![w] = r]
    BY <1>3, <2>1 DEF Begin, HeldPcs
  <2>3. Progress(r, DOMAIN entity, Listed, DOMAIN extraction, DOMAIN evidence)
    BY <2>2, IdleWorks
  <2> QED BY <1>1, <1>2, <2>2, <2>3, PlainMove
<1>4. CASE d \notin claimed \cup Skipped
  <2>1. PICK r : r = At(d, 1, FALSE)
    OBVIOUS
  <2>2. worker' = [worker EXCEPT ![w] = r]
    BY <1>4, <2>1 DEF Begin
  <2>3. PICK E, K, X, V : E = DOMAIN entity /\ K = Listed /\ X = DOMAIN extraction /\ V = DOMAIN evidence
    OBVIOUS
  <2>4. UpTo(d, 1, FALSE, E, K, X, V)
    BY ItemTyped DEF UpTo
  <2>5. PICK one \in Nat : one = 1 /\ one >= 1
    OBVIOUS
  <2>6. Progress(r, E, K, X, V) /\ r.pc \in {"find", "extract", "rel", "claim"}
    BY <1>4, <2>1, <2>4, <2>5, AtWorks
  <2>7. r.pc \notin HeldPcs
    BY <2>6 DEF HeldPcs
  <2> QED BY <1>1, <1>2, <2>2, <2>3, <2>6, <2>7, PlainMove
<1> QED BY <1>3, <1>4

LEMMA TakeInv ==
  ASSUME ExtractionInv, NEW w \in Workers, NEW d \in Docs, TakeEvent(w, d) \/ Rebalance(w, d)
  PROVE  ExtractionInv'
<1>1. worker[w] = Idle /\ Begin(w, d) /\ UNCHANGED <<rows, claimed, outbox, feed, history>>
  BY DEF TakeEvent, Rebalance
<1> QED BY <1>1, BeginInv

LEMMA CommitInv ==
  ASSUME ExtractionInv, NEW w \in Workers, CommitEvent(w)
  PROVE  ExtractionInv'
<1>1. /\ UNCHANGED <<rows, merged, revived, unlisted, claimed, extracted, changed, untold, doubtful>>
      /\ pending' \cup failed' \subseteq Docs
  BY DEF CommitEvent, outbox, history, ExtractionInv, FeedTyped
<1>2. worker[w].pc \notin HeldPcs /\ Idle.pc = "idle" /\ Idle.pc \notin HeldPcs
  BY DEF CommitEvent, Idle, HeldPcs
<1>3. worker' = [worker EXCEPT ![w] = Idle]
  BY DEF CommitEvent
<1>4. Progress(Idle, DOMAIN entity, Listed, DOMAIN extraction, DOMAIN evidence)
  BY <1>2, IdleWorks
<1> QED BY <1>1, <1>2, <1>3, <1>4, PlainMove

\* The ways an extraction ends before its time.
LEMMA CutOffInv ==
  ASSUME ExtractionInv, NEW w \in Workers, CutOff(w), worker' = [worker EXCEPT ![w] = Idle],
         UNCHANGED <<rows, claimed, outbox, merged, revived, unlisted>>,
         pending' \cup failed' \subseteq Docs
  PROVE  ExtractionInv'
<1>1. Idle.pc = "idle"
  BY DEF Idle
<1>2. Progress(Idle, DOMAIN entity, Listed, DOMAIN extraction, DOMAIN evidence)
  BY <1>1, IdleWorks
<1>3. Announcing(w, Idle)
  BY <1>1 DEF Announcing, CutOff, outbox, Doc
<1>4. Counting(w, Idle)
  <2>1. RecountOf(worker[w]) \subseteq doubtful' /\ doubtful \subseteq doubtful'
    BY InHands DEF CutOff
  <2> QED BY <2>1, NothingCounted DEF rows
<1>5. Idle.pc \notin {"get", "back"}
  BY <1>1
<1> QED BY <1>2, <1>3, <1>4, <1>5, WorkerOnly

LEMMA FailsInv ==
  ASSUME ExtractionInv, NEW w \in Workers,
         ExtractErr(w) \/ Crash(w) \/ RelationshipConflict(w) \/ EvidenceRefused(w)
  PROVE  ExtractionInv'
<1>1. CASE Crash(w)
  <2>1. pending' \cup failed' \subseteq Docs
    BY <1>1 DEF Crash, feed, ExtractionInv, FeedTyped
  <2> QED BY <1>1, <2>1, CutOffInv DEF Crash
<1>2. CASE ExtractErr(w) \/ RelationshipConflict(w) \/ EvidenceRefused(w)
  <2>1. worker[w].pc \notin {"idle", "commit"}
    BY <1>2 DEF ExtractErr, RelationshipConflict, EvidenceRefused
  <2>2. worker[w].doc \in Docs
    <3>1. worker[w] \in WorkerRecord
      BY <2>1 DEF ExtractionInv, AllProgress, Progress
    <3> QED BY <3>1 DEF WorkerRecord
  <2>3. Fail(w) /\ UNCHANGED <<rows, claimed, outbox, merged, revived, unlisted>>
    BY <1>2 DEF ExtractErr, RelationshipConflict, EvidenceRefused
  <2>4. pending' \cup failed' \subseteq Docs
    <3>1. failed' = failed \cup {Doc(w)} \/ failed' = failed
      BY <2>3 DEF Fail
    <3>2. pending' \subseteq pending
      BY <2>3 DEF Fail
    <3> QED BY <2>2, <3>1, <3>2 DEF Doc, ExtractionInv, FeedTyped
  <2> QED BY <2>3, <2>4, CutOffInv DEF Fail
<1> QED BY <1>1, <1>2

\* A worker goes on within an item.
LEMMA WorkerAt ==
  ASSUME ExtractionInv, NEW w \in Workers, NEW r, r = worker[w], r.pc \notin {"idle", "commit"}
  PROVE  /\ r \in WorkerRecord /\ r.doc \in Docs /\ r.doc \notin Skipped
         /\ Progress(r, DOMAIN entity, Listed, DOMAIN extraction, DOMAIN evidence)
         /\ r.pc \in ItemPcs => OnItem(r, DOMAIN entity, Listed, DOMAIN extraction, DOMAIN evidence)
         /\ Doc(w) = r.doc
<1>1. Progress(r, DOMAIN entity, Listed, DOMAIN extraction, DOMAIN evidence)
  BY DEF ExtractionInv, AllProgress
<1>2. /\ r \in WorkerRecord
      /\ r.pc \in ItemPcs => OnItem(r, DOMAIN entity, Listed, DOMAIN extraction, DOMAIN evidence)
  BY <1>1 DEF Progress
<1> QED BY <1>1, <1>2 DEF WorkerRecord, Doc

LEMMA ItemAt ==
  ASSUME ExtractionInv, NEW w \in Workers, NEW r, r = worker[w], r.pc \in ItemPcs
  PROVE  /\ r.n \in DOMAIN Items[r.doc] /\ Item(w) = Items[r.doc][r.n]
         /\ Item(w).key \in Keys /\ Item(w).off \in Nat
<1>1. r.doc \in Docs /\ OnItem(r, DOMAIN entity, Listed, DOMAIN extraction, DOMAIN evidence) /\ Doc(w) = r.doc
  BY WorkerAt DEF ItemPcs
<1>2. r.n \in DOMAIN Items[r.doc]
  BY <1>1 DEF OnItem
<1> QED BY <1>1, <1>2, ItemTyped DEF Item

LEMMA ItemGoes ==
  ASSUME NEW r \in WorkerRecord, r.pc \in ItemPcs, NEW p \in ItemPcs, NEW q, q = [r EXCEPT !.pc = p]
  PROVE  /\ q \in WorkerRecord /\ q.pc = p /\ q.doc = r.doc /\ q.n = r.n /\ q.derived = r.derived
         /\ q.found = r.found /\ q.row = r.row /\ q.count = r.count /\ q.stale = r.stale
BY DEF WorkerRecord

LEMMA ProgressGoes ==
  ASSUME NEW r, NEW E, NEW K, NEW X, NEW V, Progress(r, E, K, X, V), r.pc \in ItemPcs,
         NEW q \in WorkerRecord, q.pc \in ItemPcs, q.doc = r.doc, q.n = r.n, q.derived = r.derived,
         NEW E2, NEW K2, NEW X2, NEW V2,
         E \subseteq E2, K \subseteq K2, X \subseteq X2, V \subseteq V2,
         q.found \in E2 \cup {None}, OnItem(q, E2, K2, X2, V2)
  PROVE  Progress(q, E2, K2, X2, V2)
<1>1. r.pc \notin {"idle", "commit"}
  BY DEF ItemPcs
<1>2. Progress(r, E2, K2, X2, V2)
  BY ProgressStays
<1>3. /\ \A i \in DOMAIN Items[r.doc] : r.derived \/ i < r.n => Mentioned(r.doc, i, E2, K2, X2, V2)
      /\ \A i \in Derived(r.doc) : r.derived /\ i < r.n => EvidenceFor(r.doc, i, TRUE) \in V2
  BY <1>1, <1>2 DEF Progress
<1> QED BY <1>3 DEF Progress

LEMMA FindInv ==
  ASSUME ExtractionInv, NEW w \in Workers, FindEntity(w)
  PROVE  ExtractionInv'
<1>1. PICK r : r = worker[w]
  OBVIOUS
<1>2. r.pc = "find" /\ r.pc \in ItemPcs
  BY <1>1 DEF FindEntity, ItemPcs
<1>3. PICK E, K, X, V : E = DOMAIN entity /\ K = Listed /\ X = DOMAIN extraction /\ V = DOMAIN evidence
  OBVIOUS
<1>4. r \in WorkerRecord /\ Progress(r, E, K, X, V) /\ OnItem(r, E, K, X, V)
  BY <1>1, <1>2, <1>3, WorkerAt
<1>5. PICK f, p : f = Read(Item(w).key) /\ p = PutPc(Item(w).key)
  OBVIOUS
<1>6. f \in E \cup {None} /\ E \subseteq Keys /\ p \in {"put", "insert"}
  BY <1>3, <1>5 DEF ExtractionInv, EntitiesTyped, Read, PutPc
<1>7. PICK q : q = [r EXCEPT !.pc = p, !.found = f]
  OBVIOUS
<1>8. worker' = [worker EXCEPT ![w] = q]
  BY <1>1, <1>5, <1>7 DEF FindEntity
<1>9. /\ q \in WorkerRecord /\ q.pc = p /\ q.doc = r.doc /\ q.n = r.n /\ q.derived = r.derived
      /\ q.found = f /\ q.pc \in ItemPcs
  BY <1>4, <1>6, <1>7 DEF WorkerRecord, ItemPcs
<1>10. OnItem(q, E, K, X, V)
  BY <1>2, <1>4, <1>6, <1>9 DEF OnItem, LinkPcs
<1>11. Progress(q, E, K, X, V)
  BY <1>2, <1>4, <1>6, <1>9, <1>10, ProgressGoes
<1>12. worker[w].pc \notin HeldPcs /\ q.pc \notin HeldPcs
  BY <1>1, <1>2, <1>6, <1>9 DEF HeldPcs
<1>13. /\ UNCHANGED <<rows, merged, revived, unlisted, claimed, extracted, changed, untold, doubtful>>
       /\ pending' \cup failed' \subseteq Docs
  BY DEF FindEntity, outbox, feed, history, ExtractionInv, FeedTyped
<1> QED BY <1>3, <1>8, <1>11, <1>12, <1>13, PlainMove

\* The steps that write a row of an item and go on to the next statement.
LEMMA RowWritten ==
  ASSUME ExtractionInv, NEW w \in Workers, worker[w].pc \in ItemPcs, worker[w].pc \notin HeldPcs,
         NEW p \in ItemPcs, p \notin {"count", "get", "back"}, Goto(w, p), Grown,
         EntitiesTyped', RelsTyped', MergedStaysMerged',
         UNCHANGED <<evidence, claimed, extracted, changed, untold, doubtful, pending, failed>>,
         p # "evidence" => UNCHANGED rel,
         p = "evidence" => \A x \in DOMAIN rel' : x = RelOf(w) \/ (x \in DOMAIN rel /\ rel'[x] = rel[x]),
         \A q \in WorkerRecord : q = [worker[w] EXCEPT !.pc = p] =>
           OnItem(q, DOMAIN entity', Listed', DOMAIN extraction', DOMAIN evidence')
  PROVE  ExtractionInv'
<1>1. PICK r : r = worker[w]
  OBVIOUS
<1>2. r.pc \notin {"idle", "commit"} /\ r.pc \in ItemPcs
  BY <1>1 DEF ItemPcs
<1>3. PICK E, K, X, V : E = DOMAIN entity /\ K = Listed /\ X = DOMAIN extraction /\ V = DOMAIN evidence
  OBVIOUS
<1>4. PICK E2, K2, X2, V2 :
        E2 = DOMAIN entity' /\ K2 = Listed' /\ X2 = DOMAIN extraction' /\ V2 = DOMAIN evidence'
  OBVIOUS
<1>5. E \subseteq E2 /\ K \subseteq K2 /\ X \subseteq X2 /\ V \subseteq V2
  BY <1>3, <1>4 DEF Grown
<1>6. r \in WorkerRecord /\ Progress(r, E, K, X, V) /\ r.found \in E \cup {None}
  <2>1. r \in WorkerRecord /\ Progress(r, E, K, X, V)
    BY <1>1, <1>2, <1>3, WorkerAt
  <2> QED BY <1>2, <2>1 DEF Progress
<1>7. PICK q : q = [r EXCEPT !.pc = p]
  OBVIOUS
<1>8. worker' = [worker EXCEPT ![w] = q]
  BY <1>1, <1>7 DEF Goto
<1>9. /\ q \in WorkerRecord /\ q.pc = p /\ q.doc = r.doc /\ q.n = r.n /\ q.derived = r.derived
      /\ q.found = r.found
  BY <1>2, <1>6, <1>7, ItemGoes
<1>10. OnItem(q, E2, K2, X2, V2)
  BY <1>1, <1>4, <1>7, <1>9
<1>11. Progress(q, E2, K2, X2, V2)
  BY <1>2, <1>5, <1>6, <1>9, <1>10, ProgressGoes
<1>12. AllProgress'
  BY <1>4, <1>8, <1>11, ProgressMoves
<1>13. FeedTyped'
  BY <1>8, WorkerMoves DEF ExtractionInv, FeedTyped
<1>14. ClaimsKept'
  BY ClaimsMove
<1>15. Announced'
  <2>1. Announcing(w, q)
    BY <1>9 DEF Announcing, HeldPcs, ItemPcs
  <2> QED BY <1>8, <2>1, AnnouncedMoves
<1>16. FreshCounts'
  <2>1. q.pc \notin {"get", "back"}
    BY <1>9
  <2> QED BY <1>8, <2>1, FreshMoves
<1>17. CountsMatchEvidence'
  <2>1. RecountOf(worker[w]) = {}
    BY DEF RecountOf, HeldPcs
  <2>2. CASE p # "evidence"
    <3>1. Counting(w, q)
      BY <2>1, <2>2 DEF Counting
    <3> QED BY <1>8, <3>1, CountsMove
  <2>3. CASE p = "evidence"
    <3>1. RecountOf(q) = {RelOf(w)}
      BY <1>1, <1>9, <2>3, InHands DEF RecountOf
    <3>2. Counting(w, q)
      BY <2>1, <2>3, <3>1 DEF Counting
    <3> QED BY <1>8, <3>2, CountsMove
  <2> QED BY <2>2, <2>3
<1> QED BY <1>12, <1>13, <1>14, <1>15, <1>16, <1>17 DEF ExtractionInv

\* An upsert of a whole row, merged_into as somebody read it.
LEMMA Upserted ==
  ASSUME ExtractionInv, NEW k \in Keys, NEW f \in DOMAIN entity \cup {None}, Upsert(k, f),
         UNCHANGED <<identifier, extraction, merged>>
  PROVE  DOMAIN entity' = DOMAIN entity \cup {k} /\ EntitiesTyped' /\ MergedStaysMerged'
<1>1. /\ DOMAIN entity' = DOMAIN entity \cup {k} /\ entity'[k] = f
      /\ \A z \in DOMAIN entity : z # k => entity'[z] = entity[z]
  BY DEF Upsert, Put
<1>2. EntitiesTyped'
  <2>1. DOMAIN entity' \subseteq Keys /\ DOMAIN merged' \subseteq DOMAIN entity'
    BY <1>1 DEF ExtractionInv, EntitiesTyped
  <2>2. ASSUME NEW z \in DOMAIN entity' PROVE entity'[z] \in DOMAIN entity' \cup {None}
    BY <1>1 DEF ExtractionInv, EntitiesTyped
  <2>3. \A x \in DOMAIN extraction' : extraction'[x] \in DOMAIN entity'
    BY <1>1 DEF ExtractionInv, EntitiesTyped
  <2>4. \A v \in DOMAIN identifier' : v \in Keys /\ identifier'[v] \in [id : Keys \cup {None}, owner : Keys]
    BY DEF ExtractionInv, EntitiesTyped
  <2> QED BY <2>1, <2>2, <2>3, <2>4 DEF EntitiesTyped
<1>3. MergedStaysMerged'
  <2>1. ASSUME NEW m \in DOMAIN merged
        PROVE  entity'[m] = merged[m] \/ m \in revived'
    <3>1. m \in DOMAIN entity /\ (entity[m] = merged[m] \/ m \in revived) /\ revived \subseteq revived'
      BY DEF ExtractionInv, EntitiesTyped, MergedStaysMerged, Upsert
    <3>2. CASE m # k
      BY <1>1, <3>1, <3>2
    <3>3. CASE m = k
      <4>1. entity[m] = f \/ m \in revived'
        BY <3>1, <3>3 DEF Upsert
      <4> QED BY <1>1, <3>1, <3>3, <4>1
    <3> QED BY <3>2, <3>3
  <2> QED BY <2>1 DEF MergedStaysMerged
<1> QED BY <1>1, <1>2, <1>3

\* Where a worker goes on once the entity of its item is there.
LEMMA EntityThere ==
  ASSUME ExtractionInv, NEW w \in Workers, worker[w].pc \in {"put", "insert"},
         Goto(w, AfterEntity(Item(w).key)), Item(w).key \in DOMAIN entity', Grown,
         EntitiesTyped', MergedStaysMerged',
         UNCHANGED <<rel, evidence, claimed, extracted, changed, untold, doubtful, pending, failed>>
  PROVE  ExtractionInv'
<1>1. PICK r : r = worker[w]
  OBVIOUS
<1>2. /\ r.pc \in {"put", "insert"} /\ r.pc \in ItemPcs /\ r.pc \notin HeldPcs
      /\ r.pc \notin {"idle", "commit"}
  BY <1>1 DEF ItemPcs, HeldPcs
<1>3. PICK k \in Keys : k = Item(w).key /\ k = Items[r.doc][r.n].key
  BY <1>1, <1>2, ItemAt
<1>4. PICK p : p = IF k \in Identified THEN "identifier" ELSE "extract"
  OBVIOUS
<1>5. p \in ItemPcs /\ p \notin {"evidence", "count", "get", "back"} /\ Goto(w, p)
  BY <1>3, <1>4 DEF AfterEntity, ItemPcs
<1>6. r \in WorkerRecord /\ OnItem(r, DOMAIN entity, Listed, DOMAIN extraction, DOMAIN evidence)
  BY <1>1, <1>2, WorkerAt
<1>7. RelsTyped'
  BY DEF ExtractionInv, RelsTyped
<1>8. ASSUME NEW q \in WorkerRecord, q = [worker[w] EXCEPT !.pc = p]
      PROVE  OnItem(q, DOMAIN entity', Listed', DOMAIN extraction', DOMAIN evidence')
  <2>1. q.pc = p /\ q.doc = r.doc /\ q.n = r.n /\ q.derived = r.derived
    BY <1>1, <1>2, <1>5, <1>6, <1>8, ItemGoes
  <2>2. r.n \in DOMAIN Items[r.doc] /\ ~r.derived
    BY <1>2, <1>6 DEF OnItem, LinkPcs
  <2>3. k \in DOMAIN entity' /\ p \notin LinkPcs /\ (p # "identifier" => k \notin Identified)
    BY <1>3, <1>4 DEF LinkPcs
  <2> QED BY <1>3, <1>5, <2>1, <2>2, <2>3 DEF OnItem
<1>9. worker[w].pc \in ItemPcs /\ worker[w].pc \notin HeldPcs
  BY <1>1, <1>2
<1> QED BY <1>5, <1>7, <1>8, <1>9, RowWritten

LEMMA PutEntityInv ==
  ASSUME ExtractionInv, NEW w \in Workers, PutEntity(w)
  PROVE  ExtractionInv'
<1>1. PICK r : r = worker[w]
  OBVIOUS
<1>2. r.pc \in {"put", "insert"} /\ r.pc \in ItemPcs /\ r.pc \notin {"idle", "commit"}
  BY <1>1 DEF PutEntity, ItemPcs
<1>3. PICK k \in Keys : k = Item(w).key
  BY <1>1, <1>2, ItemAt
<1>4. PICK f \in DOMAIN entity \cup {None} : f = worker[w].found
  <2>1. Progress(r, DOMAIN entity, Listed, DOMAIN extraction, DOMAIN evidence)
    BY <1>1, <1>2, WorkerAt
  <2> QED BY <1>1, <1>2, <2>1 DEF Progress
<1>5. Upsert(k, f)
  BY <1>3, <1>4 DEF PutEntity
<1>6. UNCHANGED <<identifier, candidates, extraction, rel, evidence, claimed, extracted, changed,
                  pending, failed, merged, doubtful, untold, unlisted>>
  BY DEF PutEntity, outbox, feed
<1>7. DOMAIN entity' = DOMAIN entity \cup {k} /\ EntitiesTyped' /\ MergedStaysMerged'
  BY <1>5, <1>6, Upserted
<1>8. Grown
  BY <1>6, <1>7 DEF Grown, Listed
<1>9. Goto(w, AfterEntity(Item(w).key)) /\ Item(w).key \in DOMAIN entity'
  BY <1>3, <1>7 DEF PutEntity
<1> QED BY <1>1, <1>2, <1>6, <1>7, <1>8, <1>9, EntityThere

LEMMA KeepEntityInv ==
  ASSUME ExtractionInv, foreign \subseteq DOMAIN entity, NEW w \in Workers, KeepEntity(w)
  PROVE  ExtractionInv'
<1>1. /\ worker[w].pc \in {"put", "insert"} /\ Item(w).key \in foreign
      /\ Goto(w, AfterEntity(Item(w).key))
      /\ UNCHANGED <<rows, merged, revived, unlisted>>
  BY DEF KeepEntity, Refused, history
<1>2. UNCHANGED <<entity, rel, evidence, claimed, extracted, changed, untold, doubtful, pending, failed>>
  BY DEF KeepEntity, rows, outbox, feed, history
<1>3. Grown /\ EntitiesTyped' /\ MergedStaysMerged'
  BY <1>1, QuietTables
<1>4. Item(w).key \in DOMAIN entity'
  BY <1>1, <1>2
<1> QED BY <1>1, <1>2, <1>3, <1>4, EntityThere

\* The identifier is written or put up for review; on an error it is noted.
LEMMA IdentifierInv ==
  ASSUME ExtractionInv, NEW w \in Workers, WriteIdentifier(w) \/ IdentifierErr(w)
  PROVE  ExtractionInv'
<1>1. PICK r : r = worker[w]
  OBVIOUS
<1>2. /\ r.pc = "identifier" /\ r.pc \in ItemPcs /\ r.pc \notin HeldPcs /\ r.pc \notin {"idle", "commit"}
      /\ Goto(w, "extract")
  BY <1>1 DEF WriteIdentifier, IdentifierErr, ItemPcs, HeldPcs
<1>3. PICK k \in Keys : k = Item(w).key /\ k = Items[r.doc][r.n].key
  BY <1>1, <1>2, ItemAt
<1>4. "extract" \in ItemPcs /\ "extract" \notin {"evidence", "count", "get", "back"}
  BY DEF ItemPcs
<1>5. r \in WorkerRecord /\ OnItem(r, DOMAIN entity, Listed, DOMAIN extraction, DOMAIN evidence)
  BY <1>1, <1>2, WorkerAt
<1>6. UNCHANGED <<entity, extraction, rel, evidence, claimed, extracted, changed, pending, failed,
                  merged, revived, doubtful, untold>>
  BY DEF WriteIdentifier, IdentifierErr, outbox, feed, rows, history
<1>7. /\ candidates \subseteq candidates' /\ unlisted \subseteq unlisted'
      /\ \/ identifier' = identifier
         \/ identifier' = Put(identifier, k, [id |-> k, owner |-> k])
  BY <1>3 DEF WriteIdentifier, IdentifierErr, rows, history
<1>8. /\ DOMAIN identifier \subseteq DOMAIN identifier' /\ DOMAIN identifier' \subseteq DOMAIN identifier \cup {k}
      /\ \A v \in DOMAIN identifier' : \/ v \in DOMAIN identifier /\ identifier'[v] = identifier[v]
                                       \/ v = k /\ identifier'[v] = [id |-> k, owner |-> k]
  <2>1. CASE identifier' = identifier
    BY <2>1
  <2>2. CASE identifier' = Put(identifier, k, [id |-> k, owner |-> k])
    BY <2>2 DEF Put
  <2> QED BY <1>7, <2>1, <2>2
<1>9. Listed \subseteq Listed'
  <2>1. ASSUME NEW v \in Listed PROVE v \in Listed'
    <3>1. v \in Keys
      BY DEF Listed
    <3>2. CASE v \in DOMAIN identifier /\ identifier[v].owner = v
      <4>1. v \in DOMAIN identifier' /\ identifier'[v].owner = v
        BY <1>8, <3>2
      <4> QED BY <3>1, <4>1 DEF Listed
    <3>3. CASE (\E c \in candidates : v \in c) \/ v \in unlisted \/ v \in DOMAIN merged
      BY <1>6, <1>7, <3>1, <3>3 DEF Listed
    <3> QED BY <3>2, <3>3 DEF Listed
  <2> QED BY <2>1
<1>10. k \in Listed'
  <2>1. CASE IdentifierErr(w)
    BY <1>3, <2>1 DEF IdentifierErr, Listed
  <2>2. CASE WriteIdentifier(w) /\ ~IdentifierConflict(k)
    <3>1. identifier' = Put(identifier, k, [id |-> k, owner |-> k])
      BY <1>3, <2>2 DEF WriteIdentifier
    <3>2. k \in DOMAIN identifier' /\ identifier'[k].owner = k
      BY <3>1 DEF Put
    <3> QED BY <3>2 DEF Listed
  <2>3. CASE WriteIdentifier(w) /\ IdentifierConflict(k)
    <3>1. /\ identifier' = identifier /\ k \in DOMAIN identifier
          /\ candidates' = IF identifier[k].owner = k THEN candidates
                           ELSE candidates \cup {{identifier[k].owner, k}}
      BY <1>3, <2>3 DEF WriteIdentifier, IdentifierConflict
    <3>2. identifier'[k].owner = k \/ \E c \in candidates' : k \in c
      BY <3>1
    <3> QED BY <3>1, <3>2 DEF Listed
  <2> QED BY <2>1, <2>2, <2>3
<1>11. Grown
  BY <1>6, <1>9 DEF Grown
<1>12. EntitiesTyped'
  <2>1. ASSUME NEW v \in DOMAIN identifier'
        PROVE  v \in Keys /\ identifier'[v] \in [id : Keys \cup {None}, owner : Keys]
    <3>1. CASE v \in DOMAIN identifier /\ identifier'[v] = identifier[v]
      BY <3>1 DEF ExtractionInv, EntitiesTyped
    <3>2. CASE v = k /\ identifier'[v] = [id |-> k, owner |-> k]
      BY <3>2
    <3> QED BY <1>8, <3>1, <3>2
  <2> QED BY <1>6, <2>1 DEF ExtractionInv, EntitiesTyped
<1>13. RelsTyped' /\ MergedStaysMerged'
  BY <1>6 DEF ExtractionInv, RelsTyped, MergedStaysMerged
<1>14. ASSUME NEW q \in WorkerRecord, q = [worker[w] EXCEPT !.pc = "extract"]
       PROVE  OnItem(q, DOMAIN entity', Listed', DOMAIN extraction', DOMAIN evidence')
  <2>1. q.pc = "extract" /\ q.doc = r.doc /\ q.n = r.n /\ q.derived = r.derived
    BY <1>1, <1>2, <1>4, <1>5, <1>14, ItemGoes
  <2>2. r.n \in DOMAIN Items[r.doc] /\ ~r.derived /\ k \in DOMAIN entity
    BY <1>2, <1>3, <1>5 DEF OnItem, LinkPcs
  <2> QED BY <1>3, <1>6, <1>10, <2>1, <2>2 DEF OnItem, LinkPcs
<1>15. worker[w].pc \in ItemPcs /\ worker[w].pc \notin HeldPcs
  BY <1>1, <1>2
<1> QED BY <1>2, <1>4, <1>6, <1>11, <1>12, <1>13, <1>14, <1>15, RowWritten

LEMMA ExtractInv ==
  ASSUME ExtractionInv, NEW w \in Workers, WriteExtraction(w)
  PROVE  ExtractionInv'
<1>1. PICK r : r = worker[w]
  OBVIOUS
<1>2. /\ r.pc = "extract" /\ r.pc \in ItemPcs /\ r.pc \notin HeldPcs /\ r.pc \notin {"idle", "commit"}
      /\ Goto(w, "rel")
  BY <1>1 DEF WriteExtraction, ItemPcs, HeldPcs
<1>3. PICK k \in Keys : k = Item(w).key /\ k = Items[r.doc][r.n].key /\ Item(w).off = Items[r.doc][r.n].off
  BY <1>1, <1>2, ItemAt
<1>4. "rel" \in ItemPcs /\ "rel" \notin {"evidence", "count", "get", "back"}
  BY DEF ItemPcs
<1>5. /\ r \in WorkerRecord /\ OnItem(r, DOMAIN entity, Listed, DOMAIN extraction, DOMAIN evidence)
      /\ Doc(w) = r.doc
  BY <1>1, <1>2, WorkerAt
<1>6. UNCHANGED <<entity, identifier, candidates, rel, evidence, claimed, extracted, changed, pending,
                  failed, merged, revived, doubtful, untold, unlisted>>
  BY DEF WriteExtraction, outbox, feed, history
<1>7. PICK x : x = <<r.doc, k, Items[r.doc][r.n].off>>
  OBVIOUS
<1>8. /\ DOMAIN extraction' = DOMAIN extraction \cup {x} /\ extraction'[x] = k
      /\ \A z \in DOMAIN extraction : z # x => extraction'[z] = extraction[z]
  <2>1. extraction' = Put(extraction, x, k)
    BY <1>3, <1>5, <1>7 DEF WriteExtraction
  <2> QED BY <2>1 DEF Put
<1>9. Grown
  BY <1>6, <1>8 DEF Grown, Listed
<1>10. k \in DOMAIN entity
  BY <1>2, <1>3, <1>5 DEF OnItem
<1>11. EntitiesTyped'
  BY <1>6, <1>8, <1>10 DEF ExtractionInv, EntitiesTyped
<1>12. RelsTyped' /\ MergedStaysMerged'
  BY <1>6 DEF ExtractionInv, RelsTyped, MergedStaysMerged
<1>13. ASSUME NEW q \in WorkerRecord, q = [worker[w] EXCEPT !.pc = "rel"]
       PROVE  OnItem(q, DOMAIN entity', Listed', DOMAIN extraction', DOMAIN evidence')
  <2>1. q.pc = "rel" /\ q.doc = r.doc /\ q.n = r.n /\ q.derived = r.derived
    BY <1>1, <1>2, <1>4, <1>5, <1>13, ItemGoes
  <2>2. r.n \in DOMAIN Items[r.doc] /\ ~r.derived /\ (k \in Identified => k \in Listed)
    BY <1>2, <1>3, <1>5 DEF OnItem, LinkPcs
  <2>3. Listed \subseteq Listed'
    BY <1>9 DEF Grown
  <2> QED BY <1>3, <1>6, <1>7, <1>8, <1>10, <2>1, <2>2, <2>3 DEF OnItem, LinkPcs
<1>14. worker[w].pc \in ItemPcs /\ worker[w].pc \notin HeldPcs
  BY <1>1, <1>2
<1> QED BY <1>2, <1>4, <1>6, <1>9, <1>11, <1>12, <1>13, <1>14, RowWritten

LEMMA UpsertInv ==
  ASSUME ExtractionInv, NEW w \in Workers, UpsertRelationship(w)
  PROVE  ExtractionInv'
<1>1. PICK r : r = worker[w]
  OBVIOUS
<1>2. /\ r.pc = "rel" /\ r.pc \in ItemPcs /\ r.pc \notin HeldPcs /\ r.pc \notin {"idle", "commit"}
      /\ Goto(w, "evidence")
  BY <1>1 DEF UpsertRelationship, ItemPcs, HeldPcs
<1>3. "evidence" \in ItemPcs /\ "evidence" \notin {"count", "get", "back"}
  BY DEF ItemPcs
<1>4. /\ r \in WorkerRecord /\ OnItem(r, DOMAIN entity, Listed, DOMAIN extraction, DOMAIN evidence)
      /\ r.doc \in Docs /\ r.derived \in BOOLEAN
  <2>1. /\ r \in WorkerRecord /\ OnItem(r, DOMAIN entity, Listed, DOMAIN extraction, DOMAIN evidence)
        /\ r.doc \in Docs
    BY <1>1, <1>2, WorkerAt
  <2> QED BY <2>1 DEF WorkerRecord
<1>5. UNCHANGED <<entity, identifier, candidates, extraction, evidence, claimed, extracted, changed,
                  pending, failed, merged, revived, doubtful, untold, unlisted>>
  BY DEF UpsertRelationship, outbox, feed, history
<1>6. PICK f : f = RelOf(w) /\ f = FactOf(r.doc, r.n, r.derived)
  BY <1>1, InHands
<1>7. PICK row : row = [src |-> f[1], dst |-> f[2], count |-> 0]
  OBVIOUS
<1>8. f \in RelIds /\ Proper(row)
  <2>1. r.n \in DOMAIN Items[r.doc] /\ (r.derived => r.n \in Derived(r.doc)) /\ 0 \in Nat
    BY <1>4 DEF OnItem
  <2>2. PICK d \in Docs, n \in DOMAIN Items[r.doc], derived \in BOOLEAN :
          d = r.doc /\ n = r.n /\ derived = r.derived
    BY <1>4, <2>1
  <2> QED BY <1>6, <1>7, <2>1, <2>2, FactProper
<1>9. /\ DOMAIN rel' = DOMAIN rel \cup {f} /\ rel'[f] = row
      /\ \A z \in DOMAIN rel : z # f => rel'[z] = rel[z]
  <2>1. rel' = Put(rel, f, row)
    BY <1>6, <1>7 DEF UpsertRelationship
  <2> QED BY <2>1 DEF Put
<1>10. \A s \in DOMAIN rel : s # f => ~(rel[s].src = row.src /\ rel[s].dst = row.dst)
  <2>1. ~Taken(f, f)
    BY <1>6 DEF UpsertRelationship
  <2>2. f = <<f[1], f[2]>> /\ row.src = f[1] /\ row.dst = f[2]
    BY <1>7, <1>8 DEF RelIds
  <2> QED BY <2>1, <2>2 DEF Taken
<1>11. Grown
  BY <1>5 DEF Grown, Listed
<1>12. RelsTyped'
  <2>1. \A x \in DOMAIN rel' : x \in RelIds /\ Proper(rel'[x])
    BY <1>8, <1>9 DEF ExtractionInv, RelsTyped
  <2>2. ASSUME NEW x \in DOMAIN rel', NEW y \in DOMAIN rel', rel'[x].src = rel'[y].src,
               rel'[x].dst = rel'[y].dst
        PROVE  x = y
    <3>1. CASE x = f /\ y # f
      BY <1>9, <1>10, <2>2, <3>1
    <3>2. CASE x # f /\ y = f
      BY <1>9, <1>10, <2>2, <3>2
    <3>3. CASE x # f /\ y # f
      BY <1>9, <2>2, <3>3 DEF ExtractionInv, RelsTyped
    <3> QED BY <3>1, <3>2, <3>3
  <2>3. \A e \in DOMAIN evidence' : evidence'[e] \in DOMAIN rel'
    BY <1>5, <1>9 DEF ExtractionInv, RelsTyped
  <2>4. IsFiniteSet(DOMAIN evidence')
    BY <1>5 DEF ExtractionInv, RelsTyped
  <2> QED BY <2>1, <2>2, <2>3, <2>4 DEF RelsTyped
<1>13. EntitiesTyped' /\ MergedStaysMerged'
  BY <1>5 DEF ExtractionInv, EntitiesTyped, MergedStaysMerged
<1>14. ASSUME NEW q \in WorkerRecord, q = [worker[w] EXCEPT !.pc = "evidence"]
       PROVE  OnItem(q, DOMAIN entity', Listed', DOMAIN extraction', DOMAIN evidence')
  <2>1. q.pc = "evidence" /\ q.doc = r.doc /\ q.n = r.n /\ q.derived = r.derived
    BY <1>1, <1>2, <1>3, <1>4, <1>14, ItemGoes
  <2>2. Listed \subseteq Listed'
    BY <1>11 DEF Grown
  <2> QED BY <1>2, <1>4, <1>5, <2>1, <2>2 DEF OnItem, LinkPcs
<1>15. worker[w].pc \in ItemPcs /\ worker[w].pc \notin HeldPcs
  BY <1>1, <1>2
<1>16. \A x \in DOMAIN rel' : x = RelOf(w) \/ (x \in DOMAIN rel /\ rel'[x] = rel[x])
  BY <1>6, <1>9
<1> QED BY <1>2, <1>3, <1>5, <1>11, <1>12, <1>13, <1>14, <1>15, <1>16, RowWritten

LEMMA CountedNat ==
  ASSUME RelsTyped
  PROVE  \A x : /\ IsFiniteSet(EvidenceOf(x)) /\ Cardinality(EvidenceOf(x)) \in Nat
                /\ Counted(x) \in Nat
<1>1. ASSUME NEW x PROVE IsFiniteSet(EvidenceOf(x)) /\ Cardinality(EvidenceOf(x)) \in Nat
  <2>1. EvidenceOf(x) \subseteq DOMAIN evidence /\ IsFiniteSet(DOMAIN evidence)
    BY DEF EvidenceOf, RelsTyped
  <2> QED BY <2>1, FS_Subset, FS_CardinalityType
<1>2. EvidenceLimit \in Nat
  BY ExtractionAssumption
<1> QED BY <1>1, <1>2 DEF Counted

LEMMA CountInv ==
  ASSUME ExtractionInv, NEW w \in Workers, CountEvidence(w)
  PROVE  ExtractionInv'
<1>1. PICK r : r = worker[w]
  OBVIOUS
<1>2. r.pc = "count" /\ r.pc \in ItemPcs
  BY <1>1 DEF CountEvidence, ItemPcs
<1>3. PICK E, K, X, V : E = DOMAIN entity /\ K = Listed /\ X = DOMAIN extraction /\ V = DOMAIN evidence
  OBVIOUS
<1>4. r \in WorkerRecord /\ Progress(r, E, K, X, V) /\ OnItem(r, E, K, X, V)
  BY <1>1, <1>2, <1>3, WorkerAt
<1>5. PICK c \in Nat : c = Counted(RelOf(w)) /\ c = Counted(FactOf(r.doc, r.n, r.derived))
  BY <1>1, CountedNat, InHands DEF ExtractionInv
<1>6. PICK q : q = [r EXCEPT !.pc = "get", !.count = c, !.stale = FALSE]
  OBVIOUS
<1>7. worker' = [worker EXCEPT ![w] = q]
  BY <1>1, <1>5, <1>6 DEF CountEvidence
<1>8. /\ q \in WorkerRecord /\ q.pc = "get" /\ q.doc = r.doc /\ q.n = r.n /\ q.derived = r.derived
      /\ q.found = r.found /\ q.pc \in ItemPcs /\ q.count = c
  BY <1>4, <1>6 DEF WorkerRecord, ItemPcs
<1>9. OnItem(q, E, K, X, V)
  BY <1>2, <1>4, <1>8 DEF OnItem, LinkPcs
<1>10. Progress(q, E, K, X, V)
  <2>1. q.found \in E \cup {None}
    BY <1>2, <1>4, <1>8 DEF Progress
  <2> QED BY <1>2, <1>4, <1>8, <1>9, <2>1, ProgressGoes
<1>11. /\ UNCHANGED <<rows, merged, revived, unlisted, claimed, extracted, changed, untold, doubtful>>
       /\ pending' \cup failed' \subseteq Docs
  BY DEF CountEvidence, outbox, feed, history, ExtractionInv, FeedTyped
<1>12. Announcing(w, q)
  BY <1>1, <1>2, <1>8, <1>11 DEF Announcing
<1>13. Counting(w, q)
  <2>1. RecountOf(worker[w]) = RecountOf(q)
    BY <1>1, <1>2, <1>8 DEF RecountOf
  <2>2. rel' = rel
    BY <1>11 DEF rows
  <2> QED BY <1>11, <2>1, <2>2, NothingCounted
<1>14. q.count = Counted(FactOf(q.doc, q.n, q.derived))
  BY <1>5, <1>8
<1> QED BY <1>3, <1>7, <1>10, <1>11, <1>12, <1>13, <1>14, WorkerOnly

\* A step of a worker that writes to the relationships and no other table.
LEMMA WorkerAndRel ==
  ASSUME ExtractionInv, NEW w \in Workers, NEW r, worker' = [worker EXCEPT ![w] = r], RelsTyped',
         UNCHANGED <<entity, identifier, candidates, extraction, evidence, merged, revived, unlisted,
                     claimed>>,
         pending' \cup failed' \subseteq Docs,
         Progress(r, DOMAIN entity, Listed, DOMAIN extraction, DOMAIN evidence),
         Announcing(w, r), Counting(w, r),
         r.pc \in {"get", "back"} /\ ~r.stale => r.count = Counted(FactOf(r.doc, r.n, r.derived))
  PROVE  ExtractionInv'
<1>1. Grown
  BY DEF Grown, Listed
<1>2. EntitiesTyped' /\ MergedStaysMerged'
  BY DEF ExtractionInv, EntitiesTyped, MergedStaysMerged
<1>3. FeedTyped'
  BY WorkerMoves DEF ExtractionInv, FeedTyped
<1>4. AllProgress'
  <2>1. Progress(r, DOMAIN entity', Listed', DOMAIN extraction', DOMAIN evidence')
    BY <1>1, ProgressStays DEF Grown
  <2> QED BY <1>1, <2>1, ProgressMoves
<1>5. ClaimsKept'
  BY <1>1, ClaimsMove
<1>6. Announced'
  BY AnnouncedMoves
<1>7. FreshCounts'
  BY FreshMoves
<1>8. CountsMatchEvidence'
  BY CountsMove
<1> QED BY <1>2, <1>3, <1>4, <1>5, <1>6, <1>7, <1>8 DEF ExtractionInv

LEMMA GetInv ==
  ASSUME ExtractionInv, NEW w \in Workers, GetRelationship(w)
  PROVE  ExtractionInv'
<1>1. PICK r : r = worker[w]
  OBVIOUS
<1>2. r.pc = "get" /\ r.pc \in ItemPcs
  BY <1>1 DEF GetRelationship, ItemPcs
<1>3. PICK E, K, X, V : E = DOMAIN entity /\ K = Listed /\ X = DOMAIN extraction /\ V = DOMAIN evidence
  OBVIOUS
<1>4. r \in WorkerRecord /\ Progress(r, E, K, X, V) /\ OnItem(r, E, K, X, V) /\ Doc(w) = r.doc
  BY <1>1, <1>2, <1>3, WorkerAt
<1>5. PICK f : f = RelOf(w) /\ f = FactOf(r.doc, r.n, r.derived)
  BY <1>1, InHands
<1>6. /\ UNCHANGED <<rows, merged, revived, unlisted, claimed, extracted, changed, untold>>
      /\ pending' \cup failed' \subseteq Docs /\ rel' = rel
  BY DEF GetRelationship, outbox, feed, rows, ExtractionInv, FeedTyped
<1>7. /\ r.stale => f \in doubtful' /\ doubtful \subseteq doubtful' \cup {f}
      /\ ~r.stale => doubtful \subseteq doubtful' \cup {f}
  BY <1>1, <1>5 DEF GetRelationship
<1>8. ~r.stale => r.count = Counted(f)
  BY <1>1, <1>2, <1>5 DEF ExtractionInv, FreshCounts
<1>9. RecountOf(worker[w]) = {f}
  BY <1>1, <1>2, <1>5 DEF RecountOf
<1>10. CASE f \in DOMAIN rel /\ rel[f].count # r.count
  <2>1. PICK q : q = [r EXCEPT !.pc = "back", !.row = rel[f]]
    OBVIOUS
  <2>2. worker' = [worker EXCEPT ![w] = q]
    BY <1>1, <1>5, <1>10, <2>1 DEF GetRelationship
  <2>3. Proper(rel[f]) /\ rel[f] \in RelRows
    BY <1>10 DEF ExtractionInv, RelsTyped, Proper
  <2>4. /\ q \in WorkerRecord /\ q.pc = "back" /\ q.doc = r.doc /\ q.n = r.n /\ q.derived = r.derived
        /\ q.found = r.found /\ q.pc \in ItemPcs /\ q.count = r.count /\ q.stale = r.stale
        /\ q.row = rel[f]
    BY <1>4, <2>1, <2>3 DEF WorkerRecord, ItemPcs
  <2>5. OnItem(q, E, K, X, V)
    BY <1>2, <1>4, <2>3, <2>4 DEF OnItem, LinkPcs
  <2>6. Progress(q, E, K, X, V)
    <3>1. q.found \in E \cup {None}
      BY <1>2, <1>4, <2>4 DEF Progress
    <3> QED BY <1>2, <1>4, <2>4, <2>5, <3>1, ProgressGoes
  <2>7. Announcing(w, q)
    BY <1>1, <1>2, <1>6, <2>4 DEF Announcing
  <2>8. Counting(w, q)
    <3>1. RecountOf(q) = {f}
      BY <1>5, <2>4 DEF RecountOf
    <3> QED BY <1>6, <1>7, <1>9, <3>1 DEF Counting
  <2>9. ~q.stale => q.count = Counted(FactOf(q.doc, q.n, q.derived))
    BY <1>5, <1>8, <2>4
  <2> QED BY <1>3, <1>6, <2>2, <2>6, <2>7, <2>8, <2>9, WorkerOnly
<1>11. CASE ~(f \in DOMAIN rel /\ rel[f].count # r.count)
  <2>1. PICK q : q = NextItem(r.doc, r.n, r.derived)
    OBVIOUS
  <2>2. worker' = [worker EXCEPT ![w] = q]
    BY <1>1, <1>4, <1>5, <1>11, <2>1 DEF GetRelationship
  <2>3. Progress(q, E, K, X, V) /\ q.pc \in {"find", "extract", "rel", "claim"}
    BY <1>2, <1>4, <2>1, NextItemWorks
  <2>4. Announcing(w, q)
    BY <1>1, <1>2, <1>6, <2>3 DEF Announcing
  <2>5. Counting(w, q)
    <3>1. ASSUME NEW x \in DOMAIN rel PROVE x = f => x \in doubtful' \/ rel[x].count = Counted(x)
      BY <1>7, <1>8, <1>11
    <3> QED BY <1>6, <1>7, <1>9, <3>1 DEF Counting
  <2>6. q.pc \notin {"get", "back"}
    BY <2>3
  <2> QED BY <1>3, <1>6, <2>2, <2>3, <2>4, <2>5, <2>6, WorkerOnly
<1> QED BY <1>10, <1>11

LEMMA WriteCountInv ==
  ASSUME ExtractionInv, NEW w \in Workers, WriteCount(w)
  PROVE  ExtractionInv'
<1>1. PICK r : r = worker[w]
  OBVIOUS
<1>2. r.pc = "back" /\ r.pc \in ItemPcs
  BY <1>1 DEF WriteCount, ItemPcs
<1>3. PICK E, K, X, V : E = DOMAIN entity /\ K = Listed /\ X = DOMAIN extraction /\ V = DOMAIN evidence
  OBVIOUS
<1>4. /\ r \in WorkerRecord /\ Progress(r, E, K, X, V) /\ OnItem(r, E, K, X, V) /\ Doc(w) = r.doc
      /\ r.doc \in Docs
  BY <1>1, <1>2, <1>3, WorkerAt
<1>5. PICK f : f = RelOf(w) /\ f = FactOf(r.doc, r.n, r.derived)
  BY <1>1, InHands
<1>6. f \in RelIds
  <2>1. r.n \in DOMAIN Items[r.doc] /\ (r.derived => r.n \in Derived(r.doc)) /\ 0 \in Nat
    BY <1>4 DEF OnItem
  <2>2. r.derived \in BOOLEAN
    BY <1>4 DEF WorkerRecord
  <2>3. PICK d \in Docs, n \in DOMAIN Items[r.doc], derived \in BOOLEAN :
          d = r.doc /\ n = r.n /\ derived = r.derived
    BY <1>4, <2>1, <2>2
  <2> QED BY <1>5, <2>1, <2>3, FactProper
<1>7. PICK row : row = [r.row EXCEPT !.count = r.count]
  OBVIOUS
<1>8. /\ Proper(row) /\ row.src = r.row.src /\ row.dst = r.row.dst /\ row.count = r.count
  <2>1. Proper(r.row) /\ r.row \in RelRows /\ r.count \in Nat
    BY <1>2, <1>4 DEF OnItem, Proper, WorkerRecord
  <2> QED BY <1>7, <2>1 DEF Proper, RelRows
<1>9. /\ DOMAIN rel' = DOMAIN rel \cup {f} /\ rel'[f] = row
      /\ \A z \in DOMAIN rel : z # f => rel'[z] = rel[z]
  <2>1. rel' = Put(rel, f, row)
    BY <1>1, <1>5, <1>7 DEF WriteCount
  <2> QED BY <2>1 DEF Put
<1>10. \A s \in DOMAIN rel : s # f => ~(rel[s].src = row.src /\ rel[s].dst = row.dst)
  <2>1. ~Taken(f, <<r.row.src, r.row.dst>>)
    BY <1>1, <1>5 DEF WriteCount
  <2> QED BY <1>8, <2>1 DEF Taken
<1>11. /\ UNCHANGED <<entity, identifier, candidates, extraction, evidence, merged, revived, unlisted,
                     claimed, extracted, changed, untold>>
       /\ pending' \cup failed' \subseteq Docs
  BY DEF WriteCount, outbox, feed, ExtractionInv, FeedTyped
<1>12. RelsTyped'
  <2>1. \A x \in DOMAIN rel' : x \in RelIds /\ Proper(rel'[x])
    BY <1>6, <1>8, <1>9 DEF ExtractionInv, RelsTyped
  <2>2. ASSUME NEW x \in DOMAIN rel', NEW y \in DOMAIN rel', rel'[x].src = rel'[y].src,
               rel'[x].dst = rel'[y].dst
        PROVE  x = y
    <3>1. CASE x = f /\ y # f
      BY <1>9, <1>10, <2>2, <3>1
    <3>2. CASE x # f /\ y = f
      BY <1>9, <1>10, <2>2, <3>2
    <3>3. CASE x # f /\ y # f
      BY <1>9, <2>2, <3>3 DEF ExtractionInv, RelsTyped
    <3> QED BY <3>1, <3>2, <3>3
  <2>3. \A e \in DOMAIN evidence' : evidence'[e] \in DOMAIN rel'
    BY <1>9, <1>11 DEF ExtractionInv, RelsTyped
  <2>4. IsFiniteSet(DOMAIN evidence')
    BY <1>11 DEF ExtractionInv, RelsTyped
  <2> QED BY <2>1, <2>2, <2>3, <2>4 DEF RelsTyped
<1>13. PICK q : q = NextItem(r.doc, r.n, r.derived)
  OBVIOUS
<1>14. worker' = [worker EXCEPT ![w] = q]
  BY <1>1, <1>4, <1>13 DEF WriteCount
<1>15. Progress(q, E, K, X, V) /\ q.pc \in {"find", "extract", "rel", "claim"}
  BY <1>2, <1>4, <1>13, NextItemWorks
<1>16. Announcing(w, q)
  BY <1>1, <1>2, <1>11, <1>15 DEF Announcing
<1>17. Counting(w, q)
  <2>1. RecountOf(worker[w]) = {f}
    BY <1>1, <1>2, <1>5 DEF RecountOf
  <2>2. doubtful \subseteq doubtful' \cup {f} /\ (r.stale => f \in doubtful')
    BY <1>1, <1>5 DEF WriteCount
  <2>3. ~r.stale => rel'[f].count = Counted(f)
    BY <1>1, <1>2, <1>5, <1>8, <1>9 DEF ExtractionInv, FreshCounts
  <2> QED BY <1>9, <2>1, <2>2, <2>3 DEF Counting
<1>18. q.pc \notin {"get", "back"}
  BY <1>15
<1> QED BY <1>3, <1>11, <1>12, <1>14, <1>15, <1>16, <1>17, <1>18, WorkerAndRel

LEMMA ClaimInv ==
  ASSUME ExtractionInv, NEW w \in Workers, Claim(w)
  PROVE  ExtractionInv'
<1>1. PICK r : r = worker[w]
  OBVIOUS
<1>2. r.pc = "claim" /\ r.pc \notin ItemPcs
  BY <1>1 DEF Claim, ItemPcs
<1>3. PICK E, K, X, V : E = DOMAIN entity /\ K = Listed /\ X = DOMAIN extraction /\ V = DOMAIN evidence
  OBVIOUS
<1>4. r \in WorkerRecord /\ Progress(r, E, K, X, V) /\ Doc(w) = r.doc /\ r.doc \in Docs \ Skipped
  BY <1>1, <1>2, <1>3, WorkerAt
<1>5. AllWritten(r.doc, E, K, X, V)
  BY <1>2, <1>4 DEF Progress, AllWritten
<1>6. PICK p : p = IF r.doc \in claimed THEN "commit" ELSE "publish"
  OBVIOUS
<1>7. PICK q : q = [r EXCEPT !.pc = p]
  OBVIOUS
<1>8. worker' = [worker EXCEPT ![w] = q]
  BY <1>1, <1>4, <1>6, <1>7 DEF Claim, Goto
<1>9. /\ q.pc = p /\ q.doc = r.doc /\ q.n = r.n /\ q.derived = r.derived /\ q.found = r.found
      /\ p # "commit" => q \in WorkerRecord
  BY <1>4, <1>6, <1>7 DEF WorkerRecord
<1>10. /\ UNCHANGED <<rows, merged, revived, unlisted, extracted, changed, untold, doubtful, pending, failed>>
       /\ rel' = rel /\ evidence' = evidence /\ claimed' = claimed \cup {r.doc}
  BY <1>4 DEF Claim, outbox, feed, history, rows
<1>11. Grown /\ EntitiesTyped' /\ RelsTyped' /\ MergedStaysMerged'
  BY <1>10, QuietTables
<1>12. FeedTyped'
  BY <1>4, <1>8, <1>10, WorkerMoves DEF ExtractionInv, FeedTyped
<1>13. AllProgress'
  <2>1. Progress(q, E, K, X, V)
    <3>1. CASE p = "commit"
      BY <1>9, <3>1, IdleWorks
    <3>2. CASE p = "publish"
      BY <1>2, <1>4, <1>9, <3>2 DEF Progress, ItemPcs
    <3> QED BY <1>6, <3>1, <3>2
  <2>2. Progress(q, DOMAIN entity', Listed', DOMAIN extraction', DOMAIN evidence')
    BY <1>3, <1>11, <2>1, ProgressStays DEF Grown
  <2> QED BY <1>8, <1>11, <2>2, ProgressMoves
<1>14. ClaimsKept'
  <2>1. ASSUME NEW d \in claimed'
        PROVE  AllWritten(d, DOMAIN entity', Listed', DOMAIN extraction', DOMAIN evidence')
    <3>1. AllWritten(d, E, K, X, V)
      BY <1>3, <1>5, <1>10, <2>1 DEF ExtractionInv, ClaimsKept
    <3> QED BY <1>3, <1>11, <3>1, StillWritten DEF Grown
  <2> QED BY <2>1 DEF ClaimsKept
<1>15. Announced'
  <2>1. Announcing(w, q)
    BY <1>1, <1>2, <1>6, <1>9, <1>10 DEF Announcing
  <2> QED BY <1>8, <2>1, AnnouncedMoves
<1>16. FreshCounts'
  <2>1. q.pc \notin {"get", "back"}
    BY <1>6, <1>9
  <2> QED BY <1>8, <1>10, <2>1, FreshMoves
<1>17. CountsMatchEvidence'
  <2>1. RecountOf(worker[w]) = {}
    BY <1>1, <1>2 DEF RecountOf
  <2>2. Counting(w, q)
    BY <1>10, <2>1 DEF Counting
  <2> QED BY <1>8, <1>10, <2>2, CountsMove
<1> QED BY <1>11, <1>12, <1>13, <1>14, <1>15, <1>16, <1>17 DEF ExtractionInv

LEMMA PublishInv ==
  ASSUME ExtractionInv, NEW w \in Workers, PublishExtracted(w) \/ PublishChanges(w)
  PROVE  ExtractionInv'
<1>1. PICK r : r = worker[w]
  OBVIOUS
<1>2. r.pc \in {"publish", "changes"} /\ r.pc \notin ItemPcs
  BY <1>1 DEF PublishExtracted, PublishChanges, ItemPcs
<1>3. PICK E, K, X, V : E = DOMAIN entity /\ K = Listed /\ X = DOMAIN extraction /\ V = DOMAIN evidence
  OBVIOUS
<1>4. r \in WorkerRecord /\ Progress(r, E, K, X, V) /\ Doc(w) = r.doc
  BY <1>1, <1>2, <1>3, WorkerAt
<1>5. PICK p : p = IF PublishExtracted(w) THEN "changes" ELSE "commit"
  OBVIOUS
<1>6. PICK q : q = [r EXCEPT !.pc = p]
  OBVIOUS
<1>7. worker' = [worker EXCEPT ![w] = q]
  BY <1>1, <1>5, <1>6 DEF PublishExtracted, PublishChanges, Goto
<1>8. /\ q.pc = p /\ q.doc = r.doc /\ q.n = r.n /\ q.derived = r.derived /\ q.found = r.found
      /\ p # "commit" => q \in WorkerRecord
  BY <1>4, <1>5, <1>6 DEF WorkerRecord
<1>9. /\ UNCHANGED <<rows, merged, revived, unlisted, claimed, untold, doubtful>> /\ rel' = rel
      /\ pending' \cup failed' \subseteq Docs
      /\ extracted \subseteq extracted' /\ changed \subseteq changed'
  BY DEF PublishExtracted, PublishChanges, feed, history, rows, ExtractionInv, FeedTyped
<1>10. Progress(q, E, K, X, V)
  <2>1. CASE p = "commit"
    BY <1>8, <2>1, IdleWorks
  <2>2. CASE p = "changes"
    BY <1>2, <1>4, <1>8, <2>2 DEF Progress, ItemPcs
  <2> QED BY <1>5, <2>1, <2>2
<1>11. Announcing(w, q)
  <2>1. CASE PublishExtracted(w)
    <3>1. q.pc = "changes" /\ q.doc \in extracted' /\ q.doc = worker[w].doc
      BY <1>1, <1>4, <1>5, <1>8, <2>1 DEF PublishExtracted
    <3> QED BY <1>9, <3>1 DEF Announcing
  <2>2. CASE ~PublishExtracted(w)
    <3>1. q.pc = "commit" /\ Facts(worker[w].doc) \subseteq changed' /\ r.pc = "changes"
      BY <1>1, <1>4, <1>5, <1>8, <2>2 DEF PublishChanges
    <3>2. worker[w].doc \in extracted
      BY <1>1, <3>1 DEF ExtractionInv, Announced
    <3> QED BY <1>9, <3>1, <3>2 DEF Announcing
  <2> QED BY <2>1, <2>2
<1>12. Counting(w, q)
  <2>1. RecountOf(worker[w]) = {}
    BY <1>1, <1>2 DEF RecountOf
  <2> QED BY <1>9, <2>1 DEF Counting
<1>13. q.pc \notin {"get", "back"}
  BY <1>5, <1>8
<1> QED BY <1>3, <1>7, <1>9, <1>10, <1>11, <1>12, <1>13, WorkerOnly

\* A step in which no worker moves and no table changes.
LEMMA RestInv ==
  ASSUME ExtractionInv, UNCHANGED <<rows, claimed, outbox, worker, history>>,
         pending' \cup failed' \subseteq Docs
  PROVE  ExtractionInv'
<1>1. UNCHANGED <<entity, identifier, candidates, extraction, rel, evidence, claimed, extracted,
                  changed, worker, merged, revived, doubtful, untold, unlisted>>
  BY DEF rows, outbox, history
<1>2. Grown /\ EntitiesTyped' /\ RelsTyped' /\ MergedStaysMerged'
  BY <1>1, QuietTables
<1>3. FeedTyped'
  BY <1>1 DEF ExtractionInv, FeedTyped
<1>4. AllProgress'
  BY <1>1 DEF ExtractionInv, AllProgress, Listed
<1>5. ClaimsKept'
  BY <1>1, <1>2, ClaimsMove
<1>6. Announced'
  BY <1>1 DEF ExtractionInv, Announced
<1>7. FreshCounts'
  BY <1>1 DEF ExtractionInv, FreshCounts, Counted, EvidenceOf, RelOf, Item, Doc
<1>8. CountsMatchEvidence'
  BY <1>1 DEF ExtractionInv, CountsMatchEvidence, Counted, EvidenceOf, Recounting, RelOf, Item, Doc
<1> QED BY <1>2, <1>3, <1>4, <1>5, <1>6, <1>7, <1>8 DEF ExtractionInv

\* What a write does to the workers that have counted before it.
LEMMA Disturbed ==
  ASSUME ExtractionInv, NEW R, NEW v \in Workers, NEW q, q = Disturb(worker, R)[v]
  PROVE  /\ q.pc = worker[v].pc
         /\ Progress(q, DOMAIN entity, Listed, DOMAIN extraction, DOMAIN evidence)
         /\ q.pc \notin {"get", "back"} => q = worker[v]
         /\ q.doc = worker[v].doc /\ q.n = worker[v].n /\ q.derived = worker[v].derived
         /\ q.count = worker[v].count
         /\ q.pc \in {"get", "back"} /\ ~q.stale => ~worker[v].stale /\ RelOf(v) \notin R
<1>1. PICK r : r = worker[v]
  OBVIOUS
<1>2. PICK E, K, X, V : E = DOMAIN entity /\ K = Listed /\ X = DOMAIN extraction /\ V = DOMAIN evidence
  OBVIOUS
<1>3. Progress(r, E, K, X, V)
  BY <1>1, <1>2 DEF ExtractionInv, AllProgress
<1>4. q = IF r.pc \in {"get", "back"} /\ RelOf(v) \in R THEN [r EXCEPT !.stale = TRUE] ELSE r
  BY <1>1 DEF Disturb
<1>5. CASE r.pc \in {"get", "back"} /\ RelOf(v) \in R
  <2>1. q = [r EXCEPT !.stale = TRUE]
    BY <1>4, <1>5
  <2>2. /\ Progress(q, E, K, X, V)
        /\ q.pc = r.pc /\ q.doc = r.doc /\ q.n = r.n /\ q.derived = r.derived /\ q.count = r.count
        /\ q.stale
    BY <1>3, <1>5, <2>1, ProgressStale
  <2> QED BY <1>1, <1>2, <1>5, <2>2
<1>6. CASE ~(r.pc \in {"get", "back"} /\ RelOf(v) \in R)
  <2>1. q = r
    BY <1>4, <1>6
  <2> QED BY <1>1, <1>2, <1>3, <1>6, <2>1
<1> QED BY <1>5, <1>6


\* Evidence that a write leaves where it was is counted as before.
LEMMA CountedElsewhere ==
  ASSUME NEW x, EvidenceOf(x)' = EvidenceOf(x)
  PROVE  Counted(x)' = Counted(x)
BY DEF Counted

\* A worker that has counted before a write and is not stale after it counted
\* what is still there.
LEMMA FreshDisturbed ==
  ASSUME ExtractionInv, NEW R, \A x : x \notin R => Counted(x)' = Counted(x),
         NEW v \in Workers, NEW q, q = Disturb(worker, R)[v], worker'[v] = q,
         q.pc \in {"get", "back"}, ~q.stale
  PROVE  q.count = Counted(RelOf(v))'
<1>1. /\ q.pc = worker[v].pc /\ q.doc = worker[v].doc /\ q.n = worker[v].n
      /\ q.derived = worker[v].derived /\ q.count = worker[v].count
      /\ ~worker[v].stale /\ RelOf(v) \notin R
  BY Disturbed
<1>2. worker[v].count = Counted(RelOf(v))
  BY <1>1 DEF ExtractionInv, FreshCounts
<1>3. PICK x : x = RelOf(v)
  OBVIOUS
<1>4. RelOf(v)' = x
  BY <1>1, <1>3, InHands, InHandsNext
<1>5. Counted(RelOf(v))' = Counted(x)'
  BY <1>4 DEF Counted, EvidenceOf
<1> QED BY <1>1, <1>2, <1>3, <1>5

LEMMA PutEvidenceInv ==
  ASSUME ExtractionInv, NEW w \in Workers, PutEvidence(w)
  PROVE  ExtractionInv'
<1>1. PICK r : r = worker[w]
  OBVIOUS
<1>2. r.pc = "evidence" /\ r.pc \in ItemPcs /\ r.pc \notin {"idle", "commit"}
  BY <1>1 DEF PutEvidence, ItemPcs
<1>3. /\ r \in WorkerRecord /\ OnItem(r, DOMAIN entity, Listed, DOMAIN extraction, DOMAIN evidence)
      /\ Progress(r, DOMAIN entity, Listed, DOMAIN extraction, DOMAIN evidence) /\ Doc(w) = r.doc
  BY <1>1, <1>2, WorkerAt
<1>4. PICK f : f = RelOf(w) /\ f = FactOf(r.doc, r.n, r.derived)
  BY <1>1, InHands
<1>5. PICK e0 : e0 = EvidenceId(w) /\ e0 = EvidenceFor(r.doc, r.n, r.derived)
  BY <1>1, <1>3, <1>4 DEF EvidenceId, EvidenceFor, Item
<1>6. PICK R : R = {f} \cup TakenFrom(w)
  OBVIOUS
<1>7. PICK D : D = Disturb(worker, R)
  OBVIOUS
<1>8. PICK q : q = [r EXCEPT !.pc = "count"]
  OBVIOUS
<1>9. /\ worker'[w] = q /\ \A v \in Workers : v # w => worker'[v] = D[v]
      /\ worker' = [v \in Workers |-> worker'[v]]
  <2>1. D[w] = r /\ worker' = [D EXCEPT ![w].pc = "count"] /\ D = [v \in Workers |-> D[v]]
    BY <1>1, <1>2, <1>4, <1>6, <1>7 DEF PutEvidence, Disturb
  <2>2. worker' = [D EXCEPT ![w] = q]
    BY <1>8, <2>1
  <2> QED BY <2>1, <2>2
<1>10. /\ UNCHANGED <<entity, identifier, candidates, extraction, rel, claimed, extracted, changed,
                      pending, failed, merged, revived, untold, unlisted>>
       /\ doubtful' = doubtful \cup TakenFrom(w) /\ f \in DOMAIN rel
  BY <1>4 DEF PutEvidence, outbox, feed
<1>11. /\ DOMAIN evidence' = DOMAIN evidence \cup {e0} /\ evidence'[e0] = f
       /\ \A z \in DOMAIN evidence : z # e0 => evidence'[z] = evidence[z]
  <2>1. evidence' = Put(evidence, e0, f)
    BY <1>4, <1>5 DEF PutEvidence
  <2> QED BY <2>1 DEF Put
<1>12. Grown
  BY <1>10, <1>11 DEF Grown, Listed
<1>13. EntitiesTyped' /\ MergedStaysMerged' /\ FeedTyped'
  BY <1>9, <1>10 DEF ExtractionInv, EntitiesTyped, MergedStaysMerged, FeedTyped
<1>14. RelsTyped'
  <2>1. IsFiniteSet(DOMAIN evidence')
    BY <1>11, FS_AddElement DEF ExtractionInv, RelsTyped
  <2>2. \A e \in DOMAIN evidence' : evidence'[e] \in DOMAIN rel'
    BY <1>10, <1>11 DEF ExtractionInv, RelsTyped
  <2> QED BY <1>10, <2>1, <2>2 DEF ExtractionInv, RelsTyped
<1>15. ASSUME NEW x, x \notin R PROVE Counted(x)' = Counted(x)
  <2>1. x # f /\ (e0 \in DOMAIN evidence => evidence[e0] # x)
    BY <1>4, <1>5, <1>6, <1>15 DEF TakenFrom
  <2>2. EvidenceOf(x)' = EvidenceOf(x)
    BY <1>11, <2>1 DEF EvidenceOf
  <2> QED BY <2>2, CountedElsewhere
<1>16. AllProgress'
  <2>1. /\ q \in WorkerRecord /\ q.pc = "count" /\ q.doc = r.doc /\ q.n = r.n
        /\ q.derived = r.derived /\ q.found = r.found
    BY <1>2, <1>3, <1>8, ItemGoes DEF ItemPcs
  <2>2. r.found \in DOMAIN entity \cup {None}
    BY <1>2, <1>3 DEF Progress
  <2>3. Listed \subseteq Listed' /\ "count" \in ItemPcs
    BY <1>12 DEF Grown, ItemPcs
  <2>4. OnItem(q, DOMAIN entity', Listed', DOMAIN extraction', DOMAIN evidence')
    BY <1>2, <1>3, <1>5, <1>10, <1>11, <2>1, <2>3 DEF OnItem, LinkPcs
  <2>5. Progress(q, DOMAIN entity', Listed', DOMAIN extraction', DOMAIN evidence')
    BY <1>2, <1>3, <1>10, <1>12, <2>1, <2>2, <2>3, <2>4, ProgressGoes DEF Grown
  <2>6. ASSUME NEW v \in Workers
        PROVE  Progress(worker'[v], DOMAIN entity', Listed', DOMAIN extraction', DOMAIN evidence')
    <3>1. CASE v = w
      BY <1>9, <2>5, <3>1
    <3>2. CASE v # w
      <4>1. PICK u : u = D[v]
        OBVIOUS
      <4>2. Progress(u, DOMAIN entity, Listed, DOMAIN extraction, DOMAIN evidence)
        BY <1>7, <4>1, Disturbed
      <4>3. Progress(u, DOMAIN entity', Listed', DOMAIN extraction', DOMAIN evidence')
        BY <1>12, <4>2, ProgressStays DEF Grown
      <4> QED BY <1>9, <3>2, <4>1, <4>3
    <3> QED BY <3>1, <3>2
  <2> QED BY <2>6 DEF AllProgress
<1>17. ClaimsKept'
  BY <1>10, <1>12, ClaimsMove
<1>18. q.pc = "count" /\ RecountOf(q) = {f}
  BY <1>3, <1>4, <1>8 DEF WorkerRecord, RecountOf
<1>19. ASSUME NEW v \in Workers, v # w
       PROVE  /\ worker'[v].pc = worker[v].pc
              /\ worker'[v].pc \in {"get", "back"} \/ worker'[v] = worker[v]
              /\ RecountOf(worker'[v]) = RecountOf(worker[v])
  <2>1. PICK u : u = D[v]
    OBVIOUS
  <2>2. /\ u.pc = worker[v].pc /\ u.doc = worker[v].doc /\ u.n = worker[v].n
        /\ u.derived = worker[v].derived /\ (u.pc \notin {"get", "back"} => u = worker[v])
    BY <1>7, <2>1, Disturbed
  <2> QED BY <1>9, <1>19, <2>1, <2>2 DEF RecountOf
<1>20. Announced'
  <2>1. \A v \in Workers : worker'[v].pc \in {"publish", "changes"} \/ worker[v].pc \in {"publish", "changes"}
          => worker'[v] = worker[v]
    BY <1>1, <1>2, <1>9, <1>18, <1>19
  <2> QED BY <1>10, <2>1 DEF ExtractionInv, Announced
<1>21. FreshCounts'
  <2>1. ASSUME NEW v \in Workers, worker'[v].pc \in {"get", "back"}, ~worker'[v].stale
        PROVE  worker'[v].count = Counted(RelOf(v))'
    <3>1. v # w
      BY <1>9, <1>18, <2>1
    <3>2. PICK u : u = Disturb(worker, R)[v] /\ worker'[v] = u
      BY <1>7, <1>9, <3>1
    <3>3. u.pc \in {"get", "back"} /\ ~u.stale
      BY <2>1, <3>2
    <3>4. \A x : x \notin R => Counted(x)' = Counted(x)
      BY <1>15
    <3>5. u.count = Counted(RelOf(v))'
      BY <3>2, <3>3, <3>4, FreshDisturbed
    <3> QED BY <3>2, <3>5
  <2> QED BY <2>1 DEF FreshCounts
<1>22. CountsMatchEvidence'
  <2>1. ASSUME NEW x \in DOMAIN rel'
        PROVE  \/ x \in doubtful'
               \/ \E v \in Workers : x \in Recounting(v)'
               \/ rel'[x].count = Counted(x)'
               \/ rel'[x].count > EvidenceLimit
    <3>1. CASE x = f
      BY <1>9, <1>18, <3>1, InHandsNext
    <3>2. CASE x \in TakenFrom(w)
      BY <1>10, <3>2
    <3>3. CASE x \notin R
      <4>1. ASSUME NEW v \in Workers, x \in Recounting(v) PROVE x \in Recounting(v)'
        <5>1. x \in RecountOf(worker[v]) /\ v # w
          BY <1>1, <1>2, <1>4, <1>6, <3>3, <4>1, InHands DEF RecountOf
        <5> QED BY <1>19, <5>1, InHandsNext
      <4>2. Counted(x)' = Counted(x)
        BY <1>15, <3>3
      <4> QED BY <1>10, <2>1, <4>1, <4>2 DEF ExtractionInv, CountsMatchEvidence
    <3> QED BY <1>6, <3>1, <3>2, <3>3
  <2> QED BY <2>1 DEF CountsMatchEvidence
<1> QED BY <1>13, <1>14, <1>16, <1>17, <1>20, <1>21, <1>22 DEF ExtractionInv

\* The two ends of a row of an entity: one is the entity, and the other is of
\* another type.
LEMMA EndsOfMerged ==
  ASSUME RelsTyped, NEW s \in Keys, NEW m \in Keys, s # m, TypeOf[s] = TypeOf[m], NEW r \in OfEntity(m)
  PROVE  /\ r \in DOMAIN rel
         /\ \/ rel[r].src = m /\ rel[r].dst \notin {s, m} /\ Ends(r, s, m) = <<s, rel[r].dst>>
            \/ rel[r].dst = m /\ rel[r].src \notin {s, m} /\ Ends(r, s, m) = <<rel[r].src, s>>
<1>1. r \in DOMAIN rel /\ m \in {rel[r].src, rel[r].dst}
  BY DEF OfEntity
<1>2. rel[r].dst \in Keys /\ (rel[r].src \in Keys => TypeOf[rel[r].src] # TypeOf[rel[r].dst])
  BY <1>1 DEF RelsTyped, Proper, RelRows
<1>3. CASE rel[r].src = m
  <2>1. rel[r].dst \notin {s, m}
    BY <1>2, <1>3
  <2> QED BY <1>1, <1>3, <2>1 DEF Ends
<1>4. CASE rel[r].dst = m
  <2>1. rel[r].src \notin {s, m}
    BY <1>2, <1>4
  <2> QED BY <1>1, <1>4, <2>1 DEF Ends
<1> QED BY <1>1, <1>3, <1>4

LEMMA EndsOfOthers ==
  ASSUME NEW s \in Keys, NEW m \in Keys, NEW r \in DOMAIN rel, r \notin OfEntity(m)
  PROVE  Ends(r, s, m) = <<rel[r].src, rel[r].dst>>
BY DEF Ends, OfEntity

\* A row is known by its ends, and the rows of the merged entity by what becomes
\* of theirs.
LEMMA EndsTell ==
  ASSUME RelsTyped, NEW s \in Keys, NEW m \in Keys, s # m, TypeOf[s] = TypeOf[m],
         NEW r \in OfEntity(m), NEW q \in OfEntity(m), Ends(r, s, m) = Ends(q, s, m)
  PROVE  r = q
<1>1. /\ r \in DOMAIN rel
      /\ \/ rel[r].src = m /\ rel[r].dst \notin {s, m} /\ Ends(r, s, m) = <<s, rel[r].dst>>
         \/ rel[r].dst = m /\ rel[r].src \notin {s, m} /\ Ends(r, s, m) = <<rel[r].src, s>>
  BY EndsOfMerged
<1>2. /\ q \in DOMAIN rel
      /\ \/ rel[q].src = m /\ rel[q].dst \notin {s, m} /\ Ends(q, s, m) = <<s, rel[q].dst>>
         \/ rel[q].dst = m /\ rel[q].src \notin {s, m} /\ Ends(q, s, m) = <<rel[q].src, s>>
  BY EndsOfMerged
<1>3. rel[r].src = rel[q].src /\ rel[r].dst = rel[q].dst
  BY <1>1, <1>2
<1> QED BY <1>1, <1>2, <1>3 DEF RelsTyped

\* What a merge absorbs goes into a row that stays, and no two into one.
LEMMA Absorbing ==
  ASSUME RelsTyped, NEW s \in Keys, NEW m \in Keys, s # m, TypeOf[s] = TypeOf[m]
  PROVE  /\ \A r \in Collided(s, m) : /\ r \in DOMAIN rel /\ r \in OfEntity(m)
                                      /\ Into(r, s, m) \in DOMAIN rel /\ Into(r, s, m) \notin OfEntity(m)
         /\ \A r, q \in Collided(s, m) : Into(r, s, m) = Into(q, s, m) => r = q
         /\ Absorbers(s, m) \subseteq DOMAIN rel \ Collided(s, m)
         /\ \A a \in Absorbers(s, m) :
              AbsorbedBy(a, s, m) \in Collided(s, m) /\ Into(AbsorbedBy(a, s, m), s, m) = a
<1>1. ASSUME NEW r \in Collided(s, m)
      PROVE  /\ r \in DOMAIN rel /\ r \in OfEntity(m)
             /\ Into(r, s, m) \in DOMAIN rel /\ Into(r, s, m) \notin OfEntity(m)
             /\ <<rel[Into(r, s, m)].src, rel[Into(r, s, m)].dst>> = Ends(r, s, m)
  <2>1. r \in OfEntity(m) /\ Absorber(r, s, m) # {}
    BY DEF Collided
  <2>2. Into(r, s, m) \in Absorber(r, s, m)
    BY <2>1 DEF Into
  <2>3. PICK a : a = Into(r, s, m)
    OBVIOUS
  <2>4. a \in DOMAIN rel /\ <<rel[a].src, rel[a].dst>> = Ends(r, s, m)
    BY <2>2, <2>3 DEF Absorber, OfEntity
  <2>5. /\ r \in DOMAIN rel
        /\ \/ rel[r].src = m /\ rel[r].dst \notin {s, m} /\ Ends(r, s, m) = <<s, rel[r].dst>>
           \/ rel[r].dst = m /\ rel[r].src \notin {s, m} /\ Ends(r, s, m) = <<rel[r].src, s>>
    BY <2>1, EndsOfMerged
  <2>6. rel[a].src # m /\ rel[a].dst # m
    BY <2>4, <2>5
  <2>7. a \notin OfEntity(m)
    BY <2>6 DEF OfEntity
  <2> QED BY <2>1, <2>3, <2>4, <2>5, <2>7
<1>2. ASSUME NEW r \in Collided(s, m), NEW q \in Collided(s, m), Into(r, s, m) = Into(q, s, m)
      PROVE  r = q
  <2>1. Ends(r, s, m) = Ends(q, s, m) /\ r \in OfEntity(m) /\ q \in OfEntity(m)
    BY <1>1, <1>2
  <2> QED BY <2>1, EndsTell
<1>3. Absorbers(s, m) \subseteq DOMAIN rel \ Collided(s, m)
  <2>1. ASSUME NEW a \in Absorbers(s, m) PROVE a \in DOMAIN rel /\ a \notin Collided(s, m)
    <3>1. PICK r \in Collided(s, m) : a = Into(r, s, m)
      BY DEF Absorbers
    <3> QED BY <1>1, <3>1
  <2> QED BY <2>1
<1>4. ASSUME NEW a \in Absorbers(s, m)
      PROVE  AbsorbedBy(a, s, m) \in Collided(s, m) /\ Into(AbsorbedBy(a, s, m), s, m) = a
  <2>1. \E r \in Collided(s, m) : Into(r, s, m) = a
    BY DEF Absorbers
  <2> QED BY <2>1 DEF AbsorbedBy
<1> QED BY <1>1, <1>2, <1>3, <1>4

\* The rows a merge leaves: repointed, absorbers with the sum of two counts.
LEMMA MergedRow ==
  ASSUME RelsTyped, NEW s \in Keys, NEW m \in Keys, Merge(s, m), NEW r \in DOMAIN rel'
  PROVE  /\ r \in DOMAIN rel /\ r \notin Collided(s, m)
         /\ <<rel'[r].src, rel'[r].dst>> = Ends(r, s, m)
         /\ r \notin Absorbers(s, m) => rel'[r].count = rel[r].count
         /\ r \in Absorbers(s, m) => rel'[r].count = rel[r].count + rel[AbsorbedBy(r, s, m)].count
         /\ Proper(rel'[r])
<1>1. s # m /\ TypeOf[s] = TypeOf[m]
  BY DEF Merge
<1>2. DOMAIN rel' = DOMAIN rel \ Collided(s, m)
  BY DEF Merge
<1>3. r \in DOMAIN rel /\ r \notin Collided(s, m)
  BY <1>2
<1>4. PICK c : c = IF r \in Absorbers(s, m) THEN rel[r].count + rel[AbsorbedBy(r, s, m)].count ELSE rel[r].count
  OBVIOUS
<1>5. PICK e : e = Ends(r, s, m)
  OBVIOUS
<1>6. rel'[r] = [src |-> e[1], dst |-> e[2], count |-> c]
  BY <1>3, <1>4, <1>5 DEF Merge
<1>7. e = <<IF rel[r].src = m THEN s ELSE rel[r].src, IF rel[r].dst = m THEN s ELSE rel[r].dst>>
  BY <1>5 DEF Ends
<1>8. \A x \in DOMAIN rel : /\ rel[x].src \in Docs \cup Keys /\ rel[x].dst \in Keys /\ rel[x].count \in Nat
                            /\ rel[x].src \in Keys => TypeOf[rel[x].src] # TypeOf[rel[x].dst]
  BY DEF RelsTyped, Proper, RelRows
<1>9. c \in Nat
  <2>1. CASE r \in Absorbers(s, m)
    <3>1. PICK t \in DOMAIN rel : t = AbsorbedBy(r, s, m)
      BY <1>1, <2>1, Absorbing
    <3> QED BY <1>3, <1>4, <1>8, <2>1, <3>1
  <2>2. CASE r \notin Absorbers(s, m)
    BY <1>3, <1>4, <1>8, <2>2
  <2> QED BY <2>1, <2>2
<1>10. e[1] \in Docs \cup Keys /\ e[2] \in Keys /\ (e[1] \in Keys => TypeOf[e[1]] # TypeOf[e[2]])
  BY <1>1, <1>3, <1>7, <1>8, ExtractionAssumption
<1>11. Proper(rel'[r])
  BY <1>6, <1>9, <1>10 DEF Proper, RelRows
<1>12. rel'[r].src = e[1] /\ rel'[r].dst = e[2] /\ rel'[r].count = c
  BY <1>6
<1>13. <<rel'[r].src, rel'[r].dst>> = e
  BY <1>7, <1>12
<1> QED BY <1>3, <1>4, <1>5, <1>11, <1>12, <1>13

\* idx_relationships_natural_key through a merge.
LEMMA MergedRowsApart ==
  ASSUME RelsTyped, NEW s \in Keys, NEW m \in Keys, Merge(s, m), NEW r \in DOMAIN rel', NEW q \in DOMAIN rel',
         rel'[r].src = rel'[q].src, rel'[r].dst = rel'[q].dst
  PROVE  r = q
<1>1. s # m /\ TypeOf[s] = TypeOf[m]
  BY DEF Merge
<1>2. /\ r \in DOMAIN rel /\ r \notin Collided(s, m) /\ q \in DOMAIN rel /\ q \notin Collided(s, m)
      /\ Ends(r, s, m) = Ends(q, s, m)
  BY MergedRow
<1>3. ASSUME NEW x \in OfEntity(m), NEW y \in DOMAIN rel, y \notin OfEntity(m),
             Ends(x, s, m) = Ends(y, s, m)
      PROVE  x \in Collided(s, m)
  <2>1. Ends(y, s, m) = <<rel[y].src, rel[y].dst>>
    BY <1>3, EndsOfOthers
  <2>2. /\ x \in DOMAIN rel
        /\ \/ rel[x].src = m /\ rel[x].dst \notin {s, m} /\ Ends(x, s, m) = <<s, rel[x].dst>>
           \/ rel[x].dst = m /\ rel[x].src \notin {s, m} /\ Ends(x, s, m) = <<rel[x].src, s>>
    BY <1>1, EndsOfMerged
  <2>3. s \in {rel[y].src, rel[y].dst}
    BY <1>3, <2>1, <2>2
  <2>4. y \in Absorber(x, s, m)
    BY <1>3, <2>1, <2>3 DEF Absorber, OfEntity
  <2> QED BY <2>4 DEF Collided
<1>4. CASE r \in OfEntity(m) /\ q \in OfEntity(m)
  BY <1>1, <1>2, <1>4, EndsTell
<1>5. CASE r \in OfEntity(m) /\ q \notin OfEntity(m)
  BY <1>2, <1>3, <1>5
<1>6. CASE r \notin OfEntity(m) /\ q \in OfEntity(m)
  BY <1>2, <1>3, <1>6
<1>7. CASE r \notin OfEntity(m) /\ q \notin OfEntity(m)
  <2>1. <<rel[r].src, rel[r].dst>> = <<rel[q].src, rel[q].dst>>
    BY <1>2, <1>7, EndsOfOthers
  <2>2. rel[r].src = rel[q].src /\ rel[r].dst = rel[q].dst
    BY <2>1
  <2> QED BY <1>2, <2>2 DEF RelsTyped
<1> QED BY <1>4, <1>5, <1>6, <1>7

LEMMA MergedRels ==
  ASSUME RelsTyped, NEW s \in Keys, NEW m \in Keys, Merge(s, m)
  PROVE  RelsTyped'
<1>1. s # m /\ TypeOf[s] = TypeOf[m] /\ DOMAIN rel' = DOMAIN rel \ Collided(s, m)
  BY DEF Merge
<1>2. \A r \in DOMAIN rel' : r \in RelIds /\ Proper(rel'[r])
  BY MergedRow DEF RelsTyped
<1>3. \A r, q \in DOMAIN rel' : rel'[r].src = rel'[q].src /\ rel'[r].dst = rel'[q].dst => r = q
  BY MergedRowsApart
<1>4. DOMAIN evidence' = DOMAIN evidence
  BY DEF Merge
<1>5. ASSUME NEW e \in DOMAIN evidence' PROVE evidence'[e] \in DOMAIN rel'
  <2>1. PICK x \in DOMAIN rel : x = evidence[e]
    BY <1>4, <1>5 DEF RelsTyped
  <2>2. evidence'[e] = IF x \in Collided(s, m) THEN Into(x, s, m) ELSE x
    BY <1>4, <1>5, <2>1 DEF Merge
  <2>3. CASE x \in Collided(s, m)
    <3>1. Into(x, s, m) \in Absorbers(s, m)
      BY <2>3 DEF Absorbers
    <3>2. Into(x, s, m) \in DOMAIN rel \ Collided(s, m)
      BY <1>1, <3>1, Absorbing
    <3> QED BY <1>1, <2>2, <2>3, <3>2
  <2>4. CASE x \notin Collided(s, m)
    BY <1>1, <2>1, <2>2, <2>4
  <2> QED BY <2>3, <2>4
<1>6. IsFiniteSet(DOMAIN evidence')
  BY <1>4 DEF RelsTyped
<1> QED BY <1>2, <1>3, <1>5, <1>6 DEF RelsTyped

\* The evidence of a row after a merge.
LEMMA MergedEvidence ==
  ASSUME RelsTyped, NEW s \in Keys, NEW m \in Keys, Merge(s, m)
  PROVE  /\ \A x : x \notin Collided(s, m) \cup Absorbers(s, m) => EvidenceOf(x)' = EvidenceOf(x)
         /\ \A a \in Absorbers(s, m) : EvidenceOf(a)' = EvidenceOf(a) \cup EvidenceOf(AbsorbedBy(a, s, m))
<1>1. s # m /\ TypeOf[s] = TypeOf[m]
  BY DEF Merge
<1>2. /\ DOMAIN evidence' = DOMAIN evidence
      /\ \A e \in DOMAIN evidence :
           /\ evidence[e] \in Collided(s, m) => evidence'[e] = Into(evidence[e], s, m)
           /\ evidence[e] \notin Collided(s, m) => evidence'[e] = evidence[e]
  BY DEF Merge
<1>3. \A r \in Collided(s, m) : Into(r, s, m) \in Absorbers(s, m)
  BY DEF Absorbers
<1>4. ASSUME NEW x, x \notin Collided(s, m) \cup Absorbers(s, m) PROVE EvidenceOf(x)' = EvidenceOf(x)
  <2>1. ASSUME NEW e \in DOMAIN evidence PROVE evidence'[e] = x <=> evidence[e] = x
    BY <1>2, <1>3, <1>4
  <2> QED BY <1>2, <2>1 DEF EvidenceOf
<1>5. ASSUME NEW a \in Absorbers(s, m)
      PROVE  EvidenceOf(a)' = EvidenceOf(a) \cup EvidenceOf(AbsorbedBy(a, s, m))
  <2>1. PICK t : t = AbsorbedBy(a, s, m)
    OBVIOUS
  <2>2. /\ t \in Collided(s, m) /\ Into(t, s, m) = a /\ a \notin Collided(s, m)
        /\ \A r \in Collided(s, m) : Into(r, s, m) = a => r = t
    BY <1>1, <2>1, Absorbing
  <2>3. ASSUME NEW e \in DOMAIN evidence PROVE evidence'[e] = a <=> evidence[e] \in {a, t}
    BY <1>2, <2>2
  <2> QED BY <1>2, <2>1, <2>3 DEF EvidenceOf
<1> QED BY <1>4, <1>5

\* Two counts up to the limit add up to the count of both, or to more than it.
LEMMA CountsAdd ==
  ASSUME NEW a \in Nat, NEW b \in Nat, NEW c \in Nat, NEW d \in Nat, NEW limit \in Nat,
         c = (IF a > limit THEN limit ELSE a) \/ c > limit,
         d = (IF b > limit THEN limit ELSE b) \/ d > limit
  PROVE  c + d = (IF a + b > limit THEN limit ELSE a + b) \/ c + d > limit
OBVIOUS

LEMMA MergedCounts ==
  ASSUME ExtractionInv, NEW s \in Keys, NEW m \in Keys, Merge(s, m),
         \A v \in Workers : Recounting(v)' = Recounting(v)
  PROVE  CountsMatchEvidence'
<1>1. s # m /\ TypeOf[s] = TypeOf[m] /\ RelsTyped /\ doubtful' = doubtful \cup InDoubt(s, m)
  BY DEF Merge, ExtractionInv
<1>2. ASSUME NEW x \in DOMAIN rel'
      PROVE  \/ x \in doubtful'
             \/ \E v \in Workers : x \in Recounting(v)'
             \/ rel'[x].count = Counted(x)'
             \/ rel'[x].count > EvidenceLimit
  <2>1. /\ x \in DOMAIN rel /\ x \notin Collided(s, m)
        /\ x \notin Absorbers(s, m) => rel'[x].count = rel[x].count
        /\ x \in Absorbers(s, m) => rel'[x].count = rel[x].count + rel[AbsorbedBy(x, s, m)].count
    BY <1>1, MergedRow
  <2>2. CASE x \notin Absorbers(s, m)
    <3>1. Counted(x)' = Counted(x)
      BY <1>1, <2>1, <2>2, MergedEvidence, CountedElsewhere
    <3> QED BY <1>1, <2>1, <2>2, <3>1 DEF ExtractionInv, CountsMatchEvidence
  <2>3. CASE x \in Absorbers(s, m) /\ x \notin InDoubt(s, m)
    <3>1. PICK t \in Collided(s, m) : t = AbsorbedBy(x, s, m)
      BY <1>1, <2>3, Absorbing
    <3>2. /\ t \in DOMAIN rel /\ t # x
          /\ EvidenceOf(x)' = EvidenceOf(x) \cup EvidenceOf(t)
      BY <1>1, <2>1, <2>3, <3>1, Absorbing, MergedEvidence
    <3>3. \A z \in {x, t} : z \notin doubtful /\ \A v \in Workers : z \notin Recounting(v)
      BY <2>3, <3>1 DEF InDoubt
    <3>4. /\ rel[x].count = Counted(x) \/ rel[x].count > EvidenceLimit
          /\ rel[t].count = Counted(t) \/ rel[t].count > EvidenceLimit
      BY <2>1, <3>2, <3>3 DEF ExtractionInv, CountsMatchEvidence
    <3>5. PICK A, B : A = EvidenceOf(x) /\ B = EvidenceOf(t)
      OBVIOUS
    <3>6. IsFiniteSet(A) /\ IsFiniteSet(B) /\ A \cap B = {}
      BY <1>1, <3>2, <3>5, CountedNat DEF EvidenceOf
    <3>7. PICK a \in Nat : a = Cardinality(A)
      BY <3>6, FS_CardinalityType
    <3>8. PICK b \in Nat : b = Cardinality(B)
      BY <3>6, FS_CardinalityType
    <3>9. Cardinality(A \cup B) = a + b
      <4>1. Cardinality(A \cup B) = Cardinality(A) + Cardinality(B) - Cardinality(A \cap B)
        BY <3>6, FS_Union
      <4> QED BY <3>6, <3>7, <3>8, <4>1, FS_EmptySet
    <3>10. PICK c \in Nat : c = rel[x].count
      BY <1>1, <2>1 DEF RelsTyped, Proper, RelRows
    <3>11. PICK d \in Nat : d = rel[t].count
      BY <1>1, <3>2 DEF RelsTyped, Proper, RelRows
    <3>12. EvidenceLimit \in Nat
      BY ExtractionAssumption
    <3>13. /\ c = (IF a > EvidenceLimit THEN EvidenceLimit ELSE a) \/ c > EvidenceLimit
           /\ d = (IF b > EvidenceLimit THEN EvidenceLimit ELSE b) \/ d > EvidenceLimit
      BY <3>4, <3>5, <3>7, <3>8, <3>10, <3>11 DEF Counted
    <3>14. c + d = (IF a + b > EvidenceLimit THEN EvidenceLimit ELSE a + b) \/ c + d > EvidenceLimit
      BY <3>12, <3>13, CountsAdd
    <3>15. Counted(x)' = IF a + b > EvidenceLimit THEN EvidenceLimit ELSE a + b
      <4>1. Cardinality(EvidenceOf(x)') = a + b
        BY <3>2, <3>5, <3>9
      <4> QED BY <4>1 DEF Counted
    <3>16. rel'[x].count = c + d
      BY <2>1, <2>3, <3>1, <3>10, <3>11
    <3> QED BY <3>14, <3>15, <3>16
  <2> QED BY <1>1, <2>2, <2>3
<1> QED BY <1>2 DEF CountsMatchEvidence

\* Entities, what is attached to them, and their merges.
LEMMA MergedEntities ==
  ASSUME ExtractionInv, NEW s \in Keys, NEW m \in Keys, Merge(s, m)
  PROVE  Grown /\ EntitiesTyped' /\ MergedStaysMerged'
<1>1. /\ s # m /\ {s, m} \subseteq DOMAIN entity /\ entity[m] = None
      /\ entity' = [entity EXCEPT ![m] = s] /\ merged' = Put(merged, m, s)
      /\ DOMAIN evidence' = DOMAIN evidence
      /\ UNCHANGED <<candidates, revived, unlisted>>
  BY DEF Merge
<1>2. /\ DOMAIN extraction' = DOMAIN extraction
      /\ \A x \in DOMAIN extraction : extraction'[x] \in {s, extraction[x]}
  BY DEF Merge
<1>3. /\ DOMAIN identifier' = DOMAIN identifier
      /\ \A v \in DOMAIN identifier :
           identifier'[v] = IF identifier[v].owner = m THEN [identifier[v] EXCEPT !.owner = s] ELSE identifier[v]
  BY DEF Merge
<1>4. /\ DOMAIN entity' = DOMAIN entity /\ entity'[m] = s
      /\ \A k \in DOMAIN entity : k # m => entity'[k] = entity[k]
  BY <1>1
<1>5. /\ DOMAIN merged' = DOMAIN merged \cup {m} /\ merged'[m] = s
      /\ \A k \in DOMAIN merged : k # m => merged'[k] = merged[k]
  BY <1>1 DEF Put
<1>6. Listed \subseteq Listed'
  <2>1. ASSUME NEW k \in Listed PROVE k \in Listed'
    <3>1. k \in Keys
      BY DEF Listed
    <3>2. CASE k \in DOMAIN identifier /\ identifier[k].owner = k /\ k # m
      <4>1. k \in DOMAIN identifier' /\ identifier'[k].owner = k
        BY <1>3, <3>2
      <4> QED BY <3>1, <4>1 DEF Listed
    <3>3. CASE (\E c \in candidates : k \in c) \/ k \in unlisted \/ k \in DOMAIN merged \/ k = m
      BY <1>1, <1>5, <3>1, <3>3 DEF Listed
    <3> QED BY <3>2, <3>3 DEF Listed
  <2> QED BY <2>1
<1>7. Grown
  BY <1>1, <1>2, <1>4, <1>6 DEF Grown
<1>8. EntitiesTyped'
  <2>1. ASSUME NEW v \in DOMAIN identifier'
        PROVE  v \in Keys /\ identifier'[v] \in [id : Keys \cup {None}, owner : Keys]
    <3>1. v \in Keys /\ identifier[v] \in [id : Keys \cup {None}, owner : Keys]
      BY <1>3, <2>1 DEF ExtractionInv, EntitiesTyped
    <3> QED BY <1>3, <2>1, <3>1
  <2>2. DOMAIN entity' \subseteq Keys /\ \A k \in DOMAIN entity' : entity'[k] \in DOMAIN entity' \cup {None}
    BY <1>1, <1>4 DEF ExtractionInv, EntitiesTyped
  <2>3. \A x \in DOMAIN extraction' : extraction'[x] \in DOMAIN entity'
    BY <1>1, <1>2, <1>4 DEF ExtractionInv, EntitiesTyped
  <2>4. DOMAIN merged' \subseteq DOMAIN entity'
    BY <1>1, <1>4, <1>5 DEF ExtractionInv, EntitiesTyped
  <2> QED BY <2>1, <2>2, <2>3, <2>4 DEF EntitiesTyped
<1>9. MergedStaysMerged'
  <2>1. ASSUME NEW k \in DOMAIN merged' PROVE entity'[k] = merged'[k] \/ k \in revived'
    <3>1. CASE k = m
      BY <1>4, <1>5, <3>1
    <3>2. CASE k # m
      <4>1. k \in DOMAIN merged /\ k \in DOMAIN entity /\ (entity[k] = merged[k] \/ k \in revived)
        BY <1>5, <2>1, <3>2 DEF ExtractionInv, EntitiesTyped, MergedStaysMerged
      <4> QED BY <1>1, <1>4, <1>5, <3>2, <4>1
    <3> QED BY <3>1, <3>2
  <2> QED BY <2>1 DEF MergedStaysMerged
<1> QED BY <1>7, <1>8, <1>9

LEMMA MergeInv ==
  ASSUME ExtractionInv, NEW s \in Keys, NEW m \in Keys, Merge(s, m)
  PROVE  ExtractionInv'
<1>1. PICK R : R = Collided(s, m) \cup Absorbers(s, m)
  OBVIOUS
<1>2. /\ worker' = Disturb(worker, R)
      /\ UNCHANGED <<claimed, extracted, changed, pending, failed, untold>>
  BY <1>1 DEF Merge, outbox, feed
<1>3. Grown /\ EntitiesTyped' /\ MergedStaysMerged' /\ RelsTyped'
  BY MergedEntities, MergedRels DEF ExtractionInv
<1>4. FeedTyped'
  <2>1. worker' = [v \in Workers |-> worker'[v]]
    BY <1>2 DEF Disturb
  <2> QED BY <1>2, <2>1 DEF ExtractionInv, FeedTyped
<1>5. ASSUME NEW v \in Workers
      PROVE  /\ worker'[v].pc = worker[v].pc /\ worker'[v].doc = worker[v].doc
             /\ RecountOf(worker'[v]) = RecountOf(worker[v])
             /\ Progress(worker'[v], DOMAIN entity', Listed', DOMAIN extraction', DOMAIN evidence')
  <2>1. PICK u : u = worker'[v] /\ u = Disturb(worker, R)[v]
    BY <1>2
  <2>2. /\ u.pc = worker[v].pc /\ u.doc = worker[v].doc /\ u.n = worker[v].n
        /\ u.derived = worker[v].derived
        /\ Progress(u, DOMAIN entity, Listed, DOMAIN extraction, DOMAIN evidence)
    BY <2>1, Disturbed
  <2>3. Progress(u, DOMAIN entity', Listed', DOMAIN extraction', DOMAIN evidence')
    BY <1>3, <2>2, ProgressStays DEF Grown
  <2>4. RecountOf(u) = RecountOf(worker[v])
    BY <2>2 DEF RecountOf
  <2> QED BY <2>1, <2>2, <2>3, <2>4
<1>6. AllProgress'
  BY <1>5 DEF AllProgress
<1>7. ClaimsKept'
  BY <1>2, <1>3, ClaimsMove
<1>8. Announced'
  BY <1>2, <1>5 DEF ExtractionInv, Announced
<1>9. FreshCounts'
  <2>1. \A x : x \notin R => Counted(x)' = Counted(x)
    BY <1>1, MergedEvidence, CountedElsewhere DEF ExtractionInv
  <2>2. ASSUME NEW v \in Workers, worker'[v].pc \in {"get", "back"}, ~worker'[v].stale
        PROVE  worker'[v].count = Counted(RelOf(v))'
    <3>1. PICK u : u = Disturb(worker, R)[v] /\ worker'[v] = u
      BY <1>2
    <3>2. u.pc \in {"get", "back"} /\ ~u.stale
      BY <2>2, <3>1
    <3>3. u.count = Counted(RelOf(v))'
      BY <2>1, <3>1, <3>2, FreshDisturbed
    <3> QED BY <3>1, <3>3
  <2> QED BY <2>2 DEF FreshCounts
<1>10. CountsMatchEvidence'
  <2>1. \A v \in Workers : Recounting(v)' = Recounting(v)
    BY <1>5, InHands, InHandsNext
  <2> QED BY <2>1, MergedCounts
<1> QED BY <1>3, <1>4, <1>6, <1>7, <1>8, <1>9, <1>10 DEF ExtractionInv

\* What the other programs that write entities have read and written.
OthersTyped ==
  /\ foreign \subseteq DOMAIN entity
  /\ import.left \subseteq Keys
  /\ import.pc \in {"put", "insert"} =>
       import.key \in Keys /\ import.found \in DOMAIN entity \cup {None}

LEMMA OthersStay ==
  ASSUME OthersTyped, UNCHANGED <<foreign, import>>, DOMAIN entity \subseteq DOMAIN entity'
  PROVE  OthersTyped'
BY DEF OthersTyped

\* A write to an entity by one of them.
LEMMA EntityWritten ==
  ASSUME ExtractionInv, NEW k \in Keys, NEW f \in DOMAIN entity \cup {None}, Upsert(k, f),
         UNCHANGED <<identifier, candidates, extraction, rel, evidence, claimed, outbox, feed,
                     worker, merged, doubtful, untold, unlisted>>
  PROVE  ExtractionInv' /\ DOMAIN entity \subseteq DOMAIN entity'
<1>1. DOMAIN entity' = DOMAIN entity \cup {k} /\ EntitiesTyped' /\ MergedStaysMerged'
  BY Upserted
<1>2. UNCHANGED <<extracted, changed, pending, failed>>
  BY DEF outbox, feed
<1>3. Grown
  BY <1>1 DEF Grown, Listed
<1>4. RelsTyped' /\ FeedTyped'
  BY <1>2 DEF ExtractionInv, RelsTyped, FeedTyped
<1>5. AllProgress'
  <2>1. ASSUME NEW v \in Workers
        PROVE  Progress(worker[v], DOMAIN entity', Listed', DOMAIN extraction', DOMAIN evidence')
    <3>1. Progress(worker[v], DOMAIN entity, Listed, DOMAIN extraction, DOMAIN evidence)
      BY DEF ExtractionInv, AllProgress
    <3> QED BY <1>3, <3>1, ProgressStays DEF Grown
  <2> QED BY <2>1 DEF AllProgress
<1>6. ClaimsKept'
  BY <1>3, ClaimsMove
<1>7. Announced'
  BY <1>2 DEF ExtractionInv, Announced
<1>8. FreshCounts'
  BY DEF ExtractionInv, FreshCounts, Counted, EvidenceOf, RelOf, Item, Doc
<1>9. CountsMatchEvidence'
  BY DEF ExtractionInv, CountsMatchEvidence, Counted, EvidenceOf, Recounting, RelOf, Item, Doc
<1> QED BY <1>1, <1>4, <1>5, <1>6, <1>7, <1>8, <1>9 DEF ExtractionInv

LEMMA StixPutInv ==
  ASSUME ExtractionInv, OthersTyped, StixPut
  PROVE  ExtractionInv' /\ OthersTyped'
<1>1. UNCHANGED <<foreign, identifier, candidates, extraction, rel, evidence, claimed, outbox, feed,
                  worker, merged, doubtful, untold, unlisted>>
  BY DEF StixPut
<1>2. ExtractionInv' /\ DOMAIN entity \subseteq DOMAIN entity'
  <2>1. CASE Refused(import.pc, import.key)
    <3>1. UNCHANGED <<entity, revived>>
      BY <2>1 DEF StixPut
    <3>2. UNCHANGED <<rows, claimed, outbox, worker, history>> /\ pending' \cup failed' \subseteq Docs
      BY <1>1, <3>1 DEF rows, history, feed, ExtractionInv, FeedTyped
    <3> QED BY <3>1, <3>2, RestInv
  <2>2. CASE ~Refused(import.pc, import.key)
    <3>1. PICK k \in Keys, f \in DOMAIN entity \cup {None} : k = import.key /\ f = import.found
      BY DEF StixPut, OthersTyped
    <3>2. Upsert(k, f)
      BY <2>2, <3>1 DEF StixPut
    <3> QED BY <1>1, <3>2, EntityWritten
  <2> QED BY <2>1, <2>2
<1>3. import'.pc = "idle" /\ import'.left = import.left
  BY DEF StixPut
<1> QED BY <1>1, <1>2, <1>3 DEF OthersTyped

LEMMA OldInsertInv ==
  ASSUME ExtractionInv, OthersTyped, NEW k \in Keys, OldInsert(k)
  PROVE  ExtractionInv' /\ OthersTyped'
<1>1. UNCHANGED <<identifier, candidates, extraction, rel, evidence, claimed, outbox, feed,
                  worker, import, merged, revived, doubtful, untold, unlisted>>
  BY DEF OldInsert, history
<1>2. PICK f \in DOMAIN entity \cup {None} : f = None
  OBVIOUS
<1>3. Upsert(k, f)
  BY <1>1, <1>2 DEF OldInsert, Upsert
<1>4. ExtractionInv' /\ DOMAIN entity \subseteq DOMAIN entity'
  BY <1>1, <1>3, EntityWritten
<1>5. DOMAIN entity' = DOMAIN entity \cup {k} /\ foreign' = foreign \cup {k}
  BY DEF OldInsert, Put
<1> QED BY <1>1, <1>4, <1>5 DEF OthersTyped

\* The entity worker and the merges leave the other programs alone.
LEMMA OthersKept ==
  ASSUME ExtractionInv, OthersTyped, NEW w \in Workers,
         \/ Step(w) \/ IdentifierErr(w) \/ ExtractErr(w) \/ Crash(w)
         \/ \E d \in Docs : TakeEvent(w, d) \/ Rebalance(w, d)
  PROVE  OthersTyped'
<1>1. CASE PutEntity(w)
  BY <1>1, OthersStay DEF PutEntity, Upsert, Put
<1>2. CASE ~PutEntity(w)
  <2>1. UNCHANGED <<entity, foreign, import>>
    BY <1>2 DEF Step, CommitEvent, FindEntity, KeepEntity, WriteIdentifier, WriteExtraction,
         UpsertRelationship, RelationshipConflict, PutEvidence, EvidenceRefused, CountEvidence,
         GetRelationship, WriteCount, Claim, PublishExtracted, PublishChanges, IdentifierErr,
         ExtractErr, Crash, TakeEvent, Rebalance, rows
  <2> QED BY <2>1, OthersStay
<1> QED BY <1>1, <1>2

LEMMA ExtractionStarts ==
  ASSUME ExtractionInit
  PROVE  ExtractionInv /\ OthersTyped
<1>1. /\ DOMAIN entity = {} /\ DOMAIN extraction = {} /\ DOMAIN rel = {} /\ DOMAIN evidence = {}
      /\ DOMAIN merged = {} /\ claimed = {} /\ pending = Docs /\ failed = {}
      /\ worker = [w \in Workers |-> Idle]
  BY DEF ExtractionInit
<1>2. EntitiesTyped
  <2>1. ASSUME NEW v \in DOMAIN identifier
        PROVE  v \in Keys /\ identifier[v] \in [id : Keys \cup {None}, owner : Keys]
    <3>1. v \in DOMAIN LegacyIdentifiers /\ identifier[v] = [id |-> None, owner |-> LegacyIdentifiers[v]]
      BY DEF ExtractionInit
    <3> QED BY <3>1, ExtractionAssumption
  <2> QED BY <1>1, <2>1 DEF EntitiesTyped
<1>3. RelsTyped
  BY <1>1, FS_EmptySet DEF RelsTyped
<1>4. FeedTyped
  BY <1>1 DEF FeedTyped
<1>5. \A w \in Workers : worker[w].pc = "idle"
  BY <1>1 DEF Idle
<1>6. AllProgress
  BY <1>5, IdleWorks DEF AllProgress
<1>7. ClaimsKept /\ Announced /\ MergedStaysMerged /\ FreshCounts /\ CountsMatchEvidence
  BY <1>1, <1>5 DEF ClaimsKept, Announced, MergedStaysMerged, FreshCounts, CountsMatchEvidence
<1>8. OthersTyped
  BY ExtractionAssumption DEF ExtractionInit, OthersTyped
<1> QED BY <1>2, <1>3, <1>4, <1>6, <1>7, <1>8 DEF ExtractionInv

LEMMA ExtractionSteps ==
  ASSUME ExtractionInv, OthersTyped, [ExtractionNext]_extractionVars
  PROVE  ExtractionInv' /\ OthersTyped'
<1>1. ASSUME NEW w \in Workers, Step(w)
      PROVE  ExtractionInv'
  <2>1. CASE CommitEvent(w)
    BY <2>1, CommitInv
  <2>2. CASE FindEntity(w)
    BY <2>2, FindInv
  <2>3. CASE PutEntity(w)
    BY <2>3, PutEntityInv
  <2>4. CASE WriteIdentifier(w)
    BY <2>4, IdentifierInv
  <2>5. CASE WriteExtraction(w)
    BY <2>5, ExtractInv
  <2>6. CASE UpsertRelationship(w)
    BY <2>6, UpsertInv
  <2>7. CASE RelationshipConflict(w) \/ EvidenceRefused(w)
    BY <2>7, FailsInv
  <2>8. CASE PutEvidence(w)
    BY <2>8, PutEvidenceInv
  <2>9. CASE CountEvidence(w)
    BY <2>9, CountInv
  <2>10. CASE GetRelationship(w)
    BY <2>10, GetInv
  <2>11. CASE WriteCount(w)
    BY <2>11, WriteCountInv
  <2>12. CASE Claim(w)
    BY <2>12, ClaimInv
  <2>13. CASE PublishExtracted(w) \/ PublishChanges(w)
    BY <2>13, PublishInv
  <2>14. CASE KeepEntity(w)
    BY <2>14, KeepEntityInv DEF OthersTyped
  <2> QED BY <1>1, <2>1, <2>2, <2>3, <2>4, <2>5, <2>6, <2>7, <2>8, <2>9, <2>10, <2>11, <2>12, <2>13, <2>14
    DEF Step
<1>2. ASSUME NEW w \in Workers, IdentifierErr(w)
      PROVE  ExtractionInv'
  BY <1>2, IdentifierInv
<1>3. ASSUME NEW w \in Workers, ExtractErr(w) \/ Crash(w)
      PROVE  ExtractionInv'
  BY <1>3, FailsInv
<1>4. ASSUME NEW w \in Workers, NEW d \in Docs, TakeEvent(w, d) \/ Rebalance(w, d)
      PROVE  ExtractionInv'
  BY <1>4, TakeInv
<1>5. ASSUME NEW d \in Docs, Replay(d)
      PROVE  ExtractionInv' /\ OthersTyped'
  <2>1. UNCHANGED <<rows, claimed, outbox, worker, history>> /\ pending' \cup failed' \subseteq Docs
    BY <1>5 DEF Replay, ExtractionInv, FeedTyped
  <2>2. OthersTyped'
    BY <1>5, OthersStay DEF Replay, rows
  <2> QED BY <2>1, <2>2, RestInv
<1>6. ASSUME NEW s \in Keys, NEW m \in Keys, Merge(s, m)
      PROVE  ExtractionInv' /\ OthersTyped'
  <2>1. OthersTyped'
    BY <1>6, OthersStay DEF Merge
  <2> QED BY <1>6, <2>1, MergeInv
<1>7. CASE UNCHANGED extractionVars
  <2>1. UNCHANGED <<rows, claimed, outbox, worker, history>> /\ pending' \cup failed' \subseteq Docs
    BY <1>7 DEF extractionVars, rows, outbox, history, ExtractionInv, FeedTyped
  <2>2. OthersTyped'
    BY <1>7, OthersStay DEF extractionVars
  <2> QED BY <2>1, <2>2, RestInv
<1>8. ASSUME NEW k \in Keys, StixFind(k)
      PROVE  ExtractionInv' /\ OthersTyped'
  <2>1. UNCHANGED <<rows, claimed, outbox, worker, history>> /\ pending' \cup failed' \subseteq Docs
    BY <1>8 DEF StixFind, feed, ExtractionInv, FeedTyped
  <2>2. UNCHANGED <<entity, foreign>>
    BY <2>1 DEF rows
  <2>3. /\ import'.left \subseteq import.left /\ import'.key = k /\ import'.found = Read(k)
    BY <1>8 DEF StixFind
  <2>4. Read(k) \in DOMAIN entity \cup {None}
    BY DEF Read, ExtractionInv, EntitiesTyped
  <2> QED BY <2>1, <2>2, <2>3, <2>4, RestInv DEF OthersTyped
<1>9. ASSUME NEW w \in Workers,
             \/ Step(w) \/ IdentifierErr(w) \/ ExtractErr(w) \/ Crash(w)
             \/ \E d \in Docs : TakeEvent(w, d) \/ Rebalance(w, d)
      PROVE  ExtractionInv' /\ OthersTyped'
  <2>1. OthersTyped'
    BY <1>9, OthersKept
  <2> QED BY <1>1, <1>2, <1>3, <1>4, <1>9, <2>1
<1> QED BY <1>5, <1>6, <1>7, <1>8, <1>9, StixPutInv, OldInsertInv DEF ExtractionNext

LEMMA ExtractionInvariant == ExtractionSpec => [](ExtractionInv /\ OthersTyped)
BY ExtractionStarts, ExtractionSteps, PTL DEF ExtractionSpec

LEMMA ExtractionTyped ==
  ASSUME ExtractionInv
  PROVE  ExtractionTypeOK
<1>1. \A v \in DOMAIN identifier : v \in Keys /\ identifier[v].owner \in Keys
  BY DEF ExtractionInv, EntitiesTyped
<1>2. \A r \in DOMAIN rel : r \in RelIds /\ rel[r].count \in Nat
  BY DEF ExtractionInv, RelsTyped, Proper, RelRows
<1> QED BY <1>1, <1>2 DEF ExtractionInv, ExtractionTypeOK, EntitiesTyped, RelsTyped, FeedTyped

\* However many workers there are and whatever is merged, rebalanced, cut off and
\* replayed in between, a document that is claimed has every row that its items
\* and derived links call for, and is announced unless the worker was cut off
\* after the claim: extract_document claims last, and nothing takes a row back.
THEOREM ClaimsAreDone == ExtractionSpec => []ClaimedIsDone
<1>1. ASSUME ExtractionInv PROVE ClaimedIsDone
  <2>1. ASSUME NEW d \in claimed, NEW n \in DOMAIN Items[d]
        PROVE  /\ <<d, Items[d][n].key, Items[d][n].off>> \in DOMAIN extraction
               /\ <<<<d, Items[d][n].key>>, d, Items[d][n].off>> \in DOMAIN evidence
               /\ n \in Derived(d) =>
                    <<<<Items[d][n].from, Items[d][n].key>>, d, Items[d][n].off>> \in DOMAIN evidence
    <3>1. /\ Mentioned(d, n, DOMAIN entity, Listed, DOMAIN extraction, DOMAIN evidence)
          /\ n \in Derived(d) => EvidenceFor(d, n, TRUE) \in DOMAIN evidence
      BY <1>1, <2>1 DEF ExtractionInv, ClaimsKept, AllWritten
    <3> QED BY <3>1 DEF Mentioned, EvidenceFor, FactOf
  <2>2. Announced
    BY <1>1 DEF ExtractionInv
  <2>3. ExtractionTypeOK
    BY <1>1, ExtractionTyped
  <2> QED BY <2>1, <2>2, <2>3 DEF ClaimedIsDone, Announced, Doc
<1> QED BY <1>1, ExtractionInvariant, PTL

\* Two attempts at a document, a merge of its entities and a recount in any order
\* leave evidence_count at the number of evidence rows, up to the limit, except
\* where a recount met another write or was cut off; the sum a merge writes is
\* right because every absorber absorbs one relationship only.
THEOREM RecountsMatch == ExtractionSpec => []CountsMatchEvidence
<1>1. ExtractionInv => CountsMatchEvidence
  BY DEF ExtractionInv
<1> QED BY <1>1, ExtractionInvariant, PTL

\* put_entity writes merged_into as find_entity_by_normalized_name read it: an
\* extraction or a STIX import revives a merged entity only when the row changed
\* between the two, and a row under another id is not written at all.
THEOREM MergesSurvive == ExtractionSpec => []MergedStaysMerged
<1>1. ExtractionInv => MergedStaysMerged
  BY DEF ExtractionInv
<1> QED BY <1>1, ExtractionInvariant, PTL

\* write_identifier_if_applicable comes before the claim: every identified entity
\* of a claimed document owns its identifier, is a candidate with its owner, was
\* merged, or met an error that is logged.
THEOREM ConflictsAreRecorded == ExtractionSpec => []ConflictIsRecorded
<1>1. ASSUME ExtractionInv PROVE ConflictIsRecorded
  <2>1. ASSUME NEW d \in claimed, NEW k \in KeysOf(d) \cap Identified
        PROVE  k \in Listed
    <3>1. PICK n \in DOMAIN Items[d] : k = Items[d][n].key
      BY DEF KeysOf
    <3>2. Mentioned(d, n, DOMAIN entity, Listed, DOMAIN extraction, DOMAIN evidence)
      BY <1>1, <3>1 DEF ExtractionInv, ClaimsKept, AllWritten
    <3> QED BY <3>1, <3>2 DEF Mentioned
  <2> QED BY <2>1 DEF ConflictIsRecorded, Listed
<1> QED BY <1>1, ExtractionInvariant, PTL

------------------------------------------------------------------------------
(* GraphWorker. *)

USE ConsumerAssumption, GraphAssumption

OffsetsInv ==
  \A p \in Partitions :
    /\ committed[p] <= high[p]
    /\ pc # "down" => committed[p] <= position[p] /\ position[p] <= high[p]

\* The message between its reading and its commit.
Handling == pc \in {"read", "write", "commit"}
InHand ==
  /\ Handling => /\ cur \in Messages /\ last = cur
                 /\ position[cur[1]] = cur[2] + 1 /\ committed[cur[1]] <= cur[2]
  /\ pc = "commit" => cur \in ok

\* Everything read was handled, one way or the other, or is in hand.
ReadInv ==
  /\ pc # "down" => \A m \in Messages : m[2] < position[m[1]] => m \in ok \cup err \/ (Handling /\ m = cur)
  /\ \A m \in Passed : m \in ok \cup err
  /\ \A p \in Partitions : committed[p] > 0 => <<p, committed[p] - 1>> \in ok

LogInv == TypeOK /\ OffsetsInv /\ InHand /\ ReadInv

\* What the edge should be.
Target(p) == IF p \in NonEntity THEN Absent ELSE canon[p]

Waiting(p) == \E c \in inflight : c.rel = p

\* A message not yet read, or to be read again.
Unread(p) == IF pc = "down" THEN committed[p] < high[p] ELSE position[p] < high[p]

\* The loop has a message of the relationship in hand and will write the edge.
InWork(p) == pc \in {"read", "write"} /\ cur[1] = p

\* The edge is right, or will be looked at again; what was read is right, or stale
\* because something came after it that will be looked at.
Conv(p) ==
  \/ Waiting(p) \/ Unread(p)
  \/ InWork(p) /\ (pc = "write" => Projected(p, snap[p]) = Target(p))
  \/ ~InWork(p) /\ graph[p] = Target(p)

\* A page of a rebuild is up to date, or what came after it is to be read.
PageFresh(p) == pc = "rebuild" /\ p \in todo => snap[p] = canon[p] \/ Waiting(p) \/ Unread(p)

\* A last message that says deleted is right.
LastTells(p) ==
  ~Waiting(p) /\ committed[p] < high[p] /\ kind[<<p, high[p] - 1>>] = "deleted" => canon[p] = Absent

EdgeOf(p) ==
  /\ p \in NonEntity => graph[p] = Absent
  /\ p \notin missed \cup overtaken => Conv(p) /\ PageFresh(p) /\ LastTells(p)

\* A deletion that is still the last change of its relationship is right.
InflightInv ==
  \A c \in inflight :
    /\ c.ver <= ver[c.rel]
    /\ c.kind = "deleted" /\ c.ver = ver[c.rel] => canon[c.rel] = Absent

EdgeInv == InflightInv /\ \A p \in Partitions : EdgeOf(p)


------------------------------------------------------------------------------
(* The offsets. *)

\* What the offsets have to do with each other and with the handling.
PlaceInv == OffsetsInv /\ InHand /\ ReadInv

\* The parts of the state that PlaceInv speaks of.
placeVars == <<high, committed, position, last, pc, cur, ok, err>>

\* The start.
LEMMA PlaceInit == Init => LogInv
  <1> SUFFICES ASSUME Init PROVE LogInv
    OBVIOUS
  <1>1. TypeOK
    BY DEF Init, TypeOK, ConsumerInit, ConsumerTypeOK, Nothing, Absent
  <1>2. OffsetsInv /\ InHand
    BY DEF Init, ConsumerInit, OffsetsInv, InHand, Handling
  <1>3. ReadInv
    BY DEF Init, ConsumerInit, ReadInv, Passed, Messages, Offsets
  <1> QED
    BY <1>1, <1>2, <1>3 DEF LogInv

\* Every step keeps the types.
LEMMA TypeKept == TypeOK /\ OffsetsInv /\ InHand /\ [Next]_vars => TypeOK'
  <1> SUFFICES ASSUME TypeOK, OffsetsInv, InHand, [Next]_vars PROVE TypeOK'
    OBVIOUS
  <1> DEFINE goal == TypeOK'
  <1>1. ASSUME NEW p \in Partitions, NEW k \in {"upserted", "deleted"}, CommitChange(p, k) PROVE goal
    <2>1. ver[p] + 1 \in Versions /\ ver[p] + 1 \in 0 .. MaxOffset
      BY <1>1 DEF CommitChange, TypeOK, Versions
    <2>2. ver' \in [Partitions -> 0 .. MaxOffset] /\ ver'[p] \in Versions
      BY <1>1, <2>1 DEF CommitChange, TypeOK
    <2>3. canon' \in [Partitions -> Versions \cup {Absent}]
      BY <1>1, <2>2 DEF CommitChange, TypeOK
    <2>4. inflight' \subseteq Changes
      BY <1>1, <2>2 DEF CommitChange, TypeOK, Changes
    <2> QED
      BY <1>1, <2>2, <2>3, <2>4 DEF CommitChange, TypeOK, consumerVars, loopVars, ConsumerTypeOK
  <1>2. ASSUME NEW c \in inflight, Publish(c) PROVE goal
    <2>1. c.rel \in Partitions /\ c.kind \in {"upserted", "deleted"}
      BY DEF TypeOK, Changes
    <2>2. /\ high' \in [Partitions -> 0 .. MaxOffset]
          /\ malformed' = malformed
      BY <1>2, <2>1 DEF Publish, AppendMessage, TypeOK, ConsumerTypeOK
    <2>3. kind' \in [Messages -> {"none", "upserted", "deleted"}]
      BY <1>2, <2>1 DEF Publish, TypeOK
    <2>4. overtaken' \subseteq Partitions
      BY <1>2, <2>1 DEF Publish, TypeOK
    <2> QED
      BY <1>2, <2>2, <2>3, <2>4 DEF Publish, TypeOK, ConsumerTypeOK, loopVars
  <1>3. ASSUME NEW c \in inflight, PublishErr(c) PROVE goal
    <2>1. c.rel \in Partitions
      BY DEF TypeOK, Changes
    <2> QED
      BY <1>3, <2>1 DEF PublishErr, TypeOK, ConsumerTypeOK, consumerVars, loopVars
  <1>4. ASSUME NEW p \in Partitions, Poll(p) PROVE goal
    <2>1. /\ Upcoming(p) \in Messages
          /\ position' \in [Partitions -> 0 .. MaxOffset]
      BY <1>4 DEF Poll, Receive, Readable, Advance, Upcoming, TypeOK, ConsumerTypeOK, Messages, Offsets
    <2>2. last' \in Messages /\ cur' \in Messages
      BY <1>4, <2>1 DEF Poll, Receive
    <2>3. snap' \in [Partitions -> Versions \cup {Absent}] /\ pc' \in {"read", "write"}
      BY <1>4 DEF Poll, Nothing
    <2> QED
      BY <1>4, <2>1, <2>2, <2>3 DEF Poll, TypeOK, ConsumerTypeOK, brokerVars, writerVars
  <1>5. ASSUME NEW p \in Partitions, RebuildRow(p) PROVE goal
    <2>1. graph' \in [Partitions -> Versions \cup {Absent}]
      BY <1>5 DEF RebuildRow, Projected, TypeOK
    <2>2. missed' \subseteq Partitions /\ todo' \subseteq Partitions
      BY <1>5 DEF RebuildRow, TypeOK
    <2> QED
      BY <1>5, <2>1, <2>2 DEF RebuildRow, TypeOK, ConsumerTypeOK, consumerVars, writerVars
  <1>6. ASSUME NEW p \in Partitions, RebuildRowErr(p) PROVE goal
    BY <1>6 DEF RebuildRowErr, TypeOK, ConsumerTypeOK, consumerVars, writerVars
  <1>7. ASSUME ReadRow PROVE goal
    <2>1. snap' \in [Partitions -> Versions \cup {Absent}]
      BY <1>7 DEF ReadRow, TypeOK, InHand, Handling, Messages
    <2> QED
      BY <1>7, <2>1 DEF ReadRow, TypeOK, ConsumerTypeOK, consumerVars, writerVars
  <1>8. ASSUME WriteEdge PROVE goal
    <2>1. cur \in Messages /\ cur[1] \in Partitions
      BY <1>8 DEF WriteEdge, InHand, Handling, Messages
    <2>2. graph' \in [Partitions -> Versions \cup {Absent}]
      BY <1>8, <2>1 DEF WriteEdge, Projected, TypeOK
    <2> QED
      BY <1>8, <2>1, <2>2 DEF WriteEdge, TypeOK, ConsumerTypeOK, consumerVars, writerVars
  <1>9. ASSUME HandleErr PROVE goal
    <2>1. cur \in Messages /\ cur[1] \in Partitions
      BY <1>9 DEF HandleErr, InHand, Handling, Messages
    <2>2. [graph EXCEPT ![cur[1]] = Projected(cur[1], snap[cur[1]])] \in [Partitions -> Versions \cup {Absent}]
      BY <2>1 DEF Projected, TypeOK
    <2>3. graph' \in [Partitions -> Versions \cup {Absent}]
      BY <1>9, <2>2 DEF HandleErr, TypeOK
    <2> QED
      BY <1>9, <2>1, <2>3 DEF HandleErr, TypeOK, ConsumerTypeOK, consumerVars, writerVars
  <1>10. ASSUME Commit PROVE goal
    <2>1. cur \in Messages /\ last = cur
      BY <1>10 DEF Commit, InHand, Handling
    <2>2. committed' \in [Partitions -> 0 .. MaxOffset]
      BY <1>10, <2>1 DEF Commit, CommitLast, TypeOK, ConsumerTypeOK, Messages, Offsets
    <2> QED
      BY <1>10, <2>2 DEF Commit, TypeOK, ConsumerTypeOK, brokerVars, writerVars
  <1>11. ASSUME CommitErr PROVE goal
    BY <1>11 DEF CommitErr, TypeOK, ConsumerTypeOK, consumerVars, writerVars
  <1>12. ASSUME RebuildPage PROVE goal
    BY <1>12 DEF RebuildPage, TypeOK, ConsumerTypeOK, consumerVars, writerVars
  <1>13. ASSUME RebuildEnd PROVE goal
    BY <1>13 DEF RebuildEnd, TypeOK, ConsumerTypeOK, consumerVars, writerVars
  <1>14. ASSUME Stop PROVE goal
    BY <1>14 DEF Stop, TypeOK, ConsumerTypeOK, consumerVars, writerVars, Nothing
  <1>15. ASSUME Start PROVE goal
    BY <1>15 DEF Start, Resume, TypeOK, ConsumerTypeOK, brokerVars, writerVars
  <1>16. ASSUME UNCHANGED vars PROVE goal
    BY <1>16 DEF vars, TypeOK, ConsumerTypeOK
  <1> HIDE DEF goal
  <1>17. goal
    BY <1>1, <1>2, <1>3, <1>4, <1>5, <1>6, <1>7, <1>8, <1>9, <1>10, <1>11, <1>12, <1>13, <1>14, <1>15, <1>16
       DEF Next, PutRelationship, DeleteRelationship
  <1> QED
    BY <1>17 DEF goal


\* Messages are numbered within a partition.
LEMMA MessageParts ==
  ASSUME NEW m \in Messages
  PROVE  m[1] \in Partitions /\ m[2] \in Nat /\ m[2] < MaxOffset /\ m = <<m[1], m[2]>>
  BY DEF Messages, Offsets

\* What PlaceInv needs of the types.
Typed ==
  /\ high \in [Partitions -> Nat] /\ committed \in [Partitions -> Nat] /\ position \in [Partitions -> Nat]
  /\ \A p \in Partitions : high[p] <= MaxOffset

LEMMA TypedHolds == TypeOK => Typed
  BY DEF TypeOK, ConsumerTypeOK, Typed

\* The loop goes from one place to another where it has no message in hand.
LEMMA PlaceIdle ==
  ASSUME PlaceInv, ~Handling, pc # "down", pc' \in {"poll", "rebuild"},
         UNCHANGED <<high, committed, position, ok, err>>
  PROVE  PlaceInv'
  BY DEF PlaceInv, OffsetsInv, InHand, ReadInv, Handling, Passed

\* Publish appends a message; nothing that was read changes.
LEMMA PlacePublish ==
  ASSUME PlaceInv, Typed, NEW c \in inflight, c.rel \in Partitions, Publish(c)
  PROVE  PlaceInv'
  <1>1. /\ high' = [high EXCEPT ![c.rel] = @ + 1]
        /\ UNCHANGED <<committed, position, last, pc, cur, ok, err>>
    BY DEF Publish, AppendMessage, loopVars
  <1>2. OffsetsInv'
    BY <1>1 DEF PlaceInv, OffsetsInv, Typed
  <1>3. InHand' /\ ReadInv'
    BY <1>1 DEF PlaceInv, InHand, ReadInv, Handling, Passed
  <1> QED
    BY <1>2, <1>3 DEF PlaceInv

\* Poll takes the next message in hand.
LEMMA PlacePoll ==
  ASSUME PlaceInv, Typed, NEW p \in Partitions, Poll(p)
  PROVE  PlaceInv'
  <1>1. /\ pc = "poll" /\ pc' \in {"read", "write"}
        /\ position[p] < high[p] /\ position' = [position EXCEPT ![p] = @ + 1]
        /\ last' = <<p, position[p]>> /\ cur' = <<p, position[p]>>
        /\ UNCHANGED <<high, committed, ok, err>>
    BY DEF Poll, Receive, Readable, Advance, Upcoming, brokerVars
  <1>2. OffsetsInv'
    BY <1>1 DEF PlaceInv, OffsetsInv, Typed
  <1>3. cur' \in Messages
    BY <1>1 DEF PlaceInv, OffsetsInv, Typed, Messages, Offsets
  <1>4. InHand'
    BY <1>1, <1>3 DEF PlaceInv, OffsetsInv, Typed, InHand, Handling
  <1>5. ASSUME NEW m \in Messages, m[2] < position'[m[1]] PROVE m \in ok \cup err \/ m = cur'
    <2>1. m[1] \in Partitions /\ m[2] \in Nat /\ m = <<m[1], m[2]>>
      BY MessageParts
    <2>2. CASE m[2] < position[m[1]]
      BY <1>1, <2>2 DEF PlaceInv, ReadInv, Handling
    <2>3. CASE ~(m[2] < position[m[1]])
      <3>1. m[1] = p /\ m[2] = position[p]
        BY <1>1, <1>5, <2>1, <2>3 DEF Typed
      <3> QED
        BY <1>1, <2>1, <3>1
    <2> QED
      BY <2>2, <2>3
  <1>6. Handling'
    BY <1>1 DEF Handling
  <1>7. ReadInv'
    BY <1>1, <1>5, <1>6 DEF PlaceInv, ReadInv, Passed
  <1> QED
    BY <1>2, <1>4, <1>7 DEF PlaceInv

\* ReadRow and WriteEdge keep the message in hand.
LEMMA PlaceStep ==
  ASSUME PlaceInv, Handling, Handling', pc' = "commit" => cur \in ok', ok \subseteq ok',
         UNCHANGED <<high, committed, position, last, cur, err>>
  PROVE  PlaceInv'
  <1>1. pc # "down" /\ pc' # "down"
    BY DEF Handling
  <1>2. OffsetsInv'
    BY <1>1 DEF PlaceInv, OffsetsInv
  <1>3. InHand'
    BY DEF PlaceInv, InHand
  <1>4. ReadInv'
    BY <1>1 DEF PlaceInv, ReadInv, Passed
  <1> QED
    BY <1>2, <1>3, <1>4 DEF PlaceInv

\* HandleErr and CommitErr put the message aside.
LEMMA PlaceAside ==
  ASSUME PlaceInv, Handling, pc' = "poll", cur \in ok \cup err', err \subseteq err',
         UNCHANGED <<high, committed, position, ok>>
  PROVE  PlaceInv'
  <1>1. pc # "down" /\ pc' # "down" /\ ~Handling'
    BY DEF Handling
  <1>2. OffsetsInv'
    BY <1>1 DEF PlaceInv, OffsetsInv
  <1>3. InHand'
    BY <1>1 DEF PlaceInv, InHand, Handling
  <1>4. ReadInv'
    BY <1>1 DEF PlaceInv, ReadInv, Passed
  <1> QED
    BY <1>2, <1>3, <1>4 DEF PlaceInv

\* Commit names the message in hand, which was handled well; what lies before it was read.
LEMMA PlaceCommit ==
  ASSUME PlaceInv, Typed, Commit
  PROVE  PlaceInv'
  <1>1. pc = "commit" /\ pc' = "poll" /\ UNCHANGED <<high, position, ok, err>>
    BY DEF Commit, brokerVars
  <1>2. /\ cur \in Messages /\ last = cur /\ cur \in ok
        /\ position[cur[1]] = cur[2] + 1 /\ committed[cur[1]] <= cur[2]
    BY <1>1 DEF PlaceInv, InHand, Handling
  <1> USE MessageParts
  <1>3. cur[1] \in Partitions /\ cur[2] \in Nat /\ cur = <<cur[1], cur[2]>>
    BY <1>2
  <1>4. committed' = [committed EXCEPT ![cur[1]] = cur[2] + 1]
    BY <1>2 DEF Commit, CommitLast
  <1>5. OffsetsInv'
    BY <1>1, <1>2, <1>3, <1>4 DEF PlaceInv, OffsetsInv, Typed
  <1>6. InHand'
    BY <1>1 DEF InHand, Handling
  <1>7. ASSUME NEW m \in Messages, m[2] < position[m[1]] PROVE m \in ok \cup err
    BY <1>1, <1>2, <1>7 DEF PlaceInv, ReadInv
  <1>8. ASSUME NEW m \in Messages, m[2] < committed'[m[1]] PROVE m \in ok \cup err
    <2>1. m[1] \in Partitions /\ m[2] \in Nat
      OBVIOUS
    <2>2. committed'[m[1]] <= position[m[1]]
      BY <1>1, <1>5, <2>1 DEF OffsetsInv
    <2>3. m[2] < position[m[1]]
      BY <1>1, <1>3, <1>4, <1>8, <2>1, <2>2 DEF Typed
    <2> QED
      BY <1>7, <2>3
  <1>9. ASSUME NEW p \in Partitions, committed'[p] > 0 PROVE <<p, committed'[p] - 1>> \in ok
    <2>1. CASE p = cur[1]
      <3>1. committed'[p] - 1 = cur[2]
        BY <1>3, <1>4, <2>1 DEF Typed
      <3> QED
        BY <1>2, <1>3, <2>1, <3>1
    <2>2. CASE p # cur[1]
      BY <1>3, <1>4, <1>9, <2>2 DEF Typed, PlaceInv, ReadInv
    <2> QED
      BY <2>1, <2>2
  <1>10. ReadInv'
    <2>1. \A m \in Passed' : m \in ok \cup err
      BY <1>8 DEF Passed
    <2> QED
      BY <1>1, <1>7, <1>9, <2>1 DEF ReadInv
  <1> QED
    BY <1>5, <1>6, <1>10 DEF PlaceInv

\* Stop forgets what was in hand, Start goes back to what was committed.
LEMMA PlaceRestart ==
  ASSUME PlaceInv, Typed, Stop \/ Start
  PROVE  PlaceInv'
  <1>1. CASE Stop
    BY <1>1 DEF Stop, consumerVars, PlaceInv, OffsetsInv, InHand, ReadInv, Handling, Passed
  <1>2. CASE Start
    <2>1. /\ pc' = "poll" /\ position' = committed
          /\ UNCHANGED <<high, committed, ok, err>>
      BY <1>2 DEF Start, Resume, brokerVars
    <2>2. OffsetsInv'
      BY <2>1 DEF PlaceInv, OffsetsInv, Typed
    <2>3. InHand'
      BY <2>1 DEF InHand, Handling
    <2>4. ReadInv'
      BY <2>1 DEF PlaceInv, ReadInv, Passed
    <2> QED
      BY <2>2, <2>3, <2>4 DEF PlaceInv
  <1> QED
    BY <1>1, <1>2

\* Every step keeps the invariant of the offsets.
LEMMA LogKept == LogInv /\ [Next]_vars => LogInv'
  <1> SUFFICES ASSUME LogInv, [Next]_vars PROVE LogInv'
    OBVIOUS
  <1>1. TypeOK /\ PlaceInv /\ Typed /\ TypeOK'
    BY TypeKept, TypedHolds DEF LogInv, PlaceInv
  <1> DEFINE goal == PlaceInv'
  <1>2. ASSUME UNCHANGED placeVars PROVE goal
    BY <1>1, <1>2 DEF placeVars, PlaceInv, OffsetsInv, InHand, ReadInv, Handling, Passed
  <1> HIDE DEF goal
  <1>3. ASSUME NEW p \in Partitions, NEW k \in {"upserted", "deleted"}, CommitChange(p, k) PROVE goal
    BY <1>2, <1>3 DEF CommitChange, placeVars, consumerVars, loopVars
  <1>4. ASSUME NEW c \in inflight, Publish(c) PROVE goal
    BY <1>1, <1>4, PlacePublish DEF goal, TypeOK, Changes
  <1>5. ASSUME NEW c \in inflight, PublishErr(c) PROVE goal
    BY <1>2, <1>5 DEF PublishErr, placeVars, consumerVars, loopVars
  <1>6. ASSUME NEW p \in Partitions, Poll(p) PROVE goal
    BY <1>1, <1>6, PlacePoll DEF goal
  <1>7. ASSUME NEW p \in Partitions, RebuildRow(p) \/ RebuildRowErr(p) PROVE goal
    BY <1>2, <1>7 DEF RebuildRow, RebuildRowErr, placeVars, consumerVars
  <1>8. ASSUME ReadRow PROVE goal
    <2>1. /\ Handling /\ Handling' /\ pc' # "commit" /\ ok = ok'
          /\ UNCHANGED <<high, committed, position, last, cur, err>>
      BY <1>8 DEF ReadRow, Handling, consumerVars
    <2> QED
      BY <1>1, <2>1, PlaceStep DEF goal
  <1>9. ASSUME WriteEdge PROVE goal
    <2>1. /\ Handling /\ Handling' /\ cur \in ok' /\ ok \subseteq ok'
          /\ UNCHANGED <<high, committed, position, last, cur, err>>
      BY <1>9 DEF WriteEdge, Handling, consumerVars
    <2> QED
      BY <1>1, <2>1, PlaceStep DEF goal
  <1>10. ASSUME HandleErr PROVE goal
    <2>1. /\ Handling /\ pc' = "poll" /\ cur \in err' /\ err \subseteq err'
          /\ UNCHANGED <<high, committed, position, ok>>
      BY <1>10 DEF HandleErr, Handling, consumerVars
    <2> QED
      BY <1>1, <2>1, PlaceAside DEF goal
  <1>11. ASSUME Commit PROVE goal
    BY <1>1, <1>11, PlaceCommit DEF goal
  <1>12. ASSUME CommitErr PROVE goal
    <2>1. /\ Handling /\ pc' = "poll" /\ cur \in ok /\ err = err'
          /\ UNCHANGED <<high, committed, position, ok>>
      BY <1>1, <1>12 DEF CommitErr, Handling, consumerVars, PlaceInv, InHand
    <2> QED
      BY <1>1, <2>1, PlaceAside DEF goal
  <1>13. ASSUME RebuildPage \/ RebuildEnd PROVE goal
    <2>1. /\ ~Handling /\ pc # "down" /\ pc' \in {"poll", "rebuild"}
          /\ UNCHANGED <<high, committed, position, ok, err>>
      BY <1>13 DEF RebuildPage, RebuildEnd, Handling, consumerVars
    <2> QED
      BY <1>1, <2>1, PlaceIdle DEF goal
  <1>14. ASSUME Stop \/ Start PROVE goal
    BY <1>1, <1>14, PlaceRestart DEF goal
  <1>15. ASSUME UNCHANGED vars PROVE goal
    BY <1>2, <1>15 DEF vars, placeVars
  <1>16. goal
    BY <1>3, <1>4, <1>5, <1>6, <1>7, <1>8, <1>9, <1>10, <1>11, <1>12, <1>13, <1>14, <1>15
       DEF Next, PutRelationship, DeleteRelationship
  <1> QED
    BY <1>1, <1>16 DEF goal, LogInv, PlaceInv

LEMMA LogHolds == Spec => []LogInv
  <1>1. LogInv /\ [Next]_vars => LogInv'
    BY LogKept
  <1> QED
    BY PlaceInit, <1>1, PTL DEF Spec

\* A change whose handling failed is passed over only after a later message of
\* its relationship was handled well (graph-worker/src/main.rs, the consume
\* loop; the consumer commits the last message it read and nothing in between).
THEOREM PassedChangesHaveLaterSuccess == Spec => []LossNeedsLaterSuccess
  <1>1. LogInv => LossNeedsLaterSuccess
    <2> SUFFICES ASSUME LogInv, NEW m \in Passed \ ok
                 PROVE  m \in err /\ \E n \in ok : n[1] = m[1] /\ n[2] > m[2]
      BY DEF LossNeedsLaterSuccess, LogInv
    <2>1. Typed /\ ReadInv
      BY TypedHolds DEF LogInv
    <2>2. m \in Messages /\ m[2] < committed[m[1]]
      BY DEF Passed
    <2>3. m[1] \in Partitions /\ m[2] \in Nat /\ m = <<m[1], m[2]>>
      BY <2>2, MessageParts
    <2>4. m \in err
      BY <2>1 DEF ReadInv
    <2> DEFINE n == <<m[1], committed[m[1]] - 1>>
    <2>5. n \in ok
      BY <2>1, <2>2, <2>3 DEF ReadInv, Typed
    <2>6. n[2] # m[2]
      BY <2>3, <2>5
    <2>7. n[1] = m[1] /\ n[2] > m[2]
      BY <2>1, <2>2, <2>3, <2>6 DEF Typed
    <2> QED
      BY <2>4, <2>5, <2>7
  <1> QED
    BY LogHolds, <1>1, PTL


------------------------------------------------------------------------------
(* The edges. *)

\* The start: no row, no edge.
LEMMA EdgeInit == Init => EdgeInv
  <1> SUFFICES ASSUME Init PROVE EdgeInv
    OBVIOUS
  <1>1. InflightInv
    BY DEF Init, InflightInv
  <1>2. ASSUME NEW p \in Partitions PROVE EdgeOf(p)
    BY DEF Init, ConsumerInit, Nothing, Absent, EdgeOf, Conv, InWork, Target, PageFresh, LastTells
  <1> QED
    BY <1>1, <1>2 DEF EdgeInv

\* A relationship the step does not touch: its row, edge and messages stay, and the
\* loop, if it is at work on it, stays at it.
SameRow(p) ==
  /\ graph'[p] = graph[p] /\ canon'[p] = canon[p] /\ high'[p] = high[p] /\ position'[p] = position[p]
  /\ committed[p] <= committed'[p]
  /\ Waiting(p) <=> Waiting(p)'
  /\ p \in missed' \cup overtaken' <=> p \in missed \cup overtaken
  /\ high[p] > 0 => kind'[<<p, high[p] - 1>>] = kind[<<p, high[p] - 1>>]

SameWork(p) ==
  /\ pc # "down" /\ pc' # "down"
  /\ \/ ~InWork(p) /\ ~InWork(p)'
     \/ pc' = pc /\ cur' = cur /\ snap'[p] = snap[p]
  /\ pc' = "rebuild" /\ p \in todo' => pc = "rebuild" /\ p \in todo /\ snap'[p] = snap[p]

LEMMA EdgeSame ==
  ASSUME Typed, Typed', NEW p \in Partitions, EdgeOf(p), SameRow(p),
         SameWork(p) \/ UNCHANGED <<pc, cur, snap, todo, committed>>
  PROVE  EdgeOf(p)'
  <1>1. Target(p)' = Target(p)
    BY DEF SameRow, Target
  <1>2. Waiting(p) \/ Unread(p) => (Waiting(p) \/ Unread(p))'
    BY DEF SameRow, SameWork, Unread
  <1>3. p \in NonEntity => graph'[p] = Absent
    BY DEF EdgeOf, SameRow
  <1> SUFFICES ASSUME p \notin missed' \cup overtaken' PROVE (Conv(p) /\ PageFresh(p) /\ LastTells(p))'
    BY <1>3 DEF EdgeOf
  <1>4. Conv(p) /\ PageFresh(p) /\ LastTells(p)
    BY DEF EdgeOf, SameRow
  <1>5. LastTells(p)'
    BY <1>4 DEF SameRow, LastTells, Typed
  <1>6. PageFresh(p)'
    BY <1>2, <1>4 DEF SameRow, SameWork, PageFresh
  <1>7. Conv(p)'
    <2>1. CASE Waiting(p) \/ Unread(p)
      BY <1>2, <2>1 DEF Conv
    <2>2. CASE InWork(p) /\ (pc = "write" => Projected(p, snap[p]) = Target(p))
      <3>1. pc' = pc /\ cur' = cur /\ snap'[p] = snap[p]
        BY <2>2 DEF SameWork
      <3>2. InWork(p)' /\ Projected(p, snap[p])' = Projected(p, snap[p])
        BY <2>2, <3>1 DEF InWork, Projected, SameRow
      <3> QED
        BY <1>1, <2>2, <3>1, <3>2 DEF Conv
    <2>3. CASE ~InWork(p) /\ graph[p] = Target(p)
      <3>1. ~InWork(p)'
        BY <2>3 DEF SameWork, InWork
      <3> QED
        BY <1>1, <2>3, <3>1 DEF Conv, SameRow
    <2> QED
      BY <1>4, <2>1, <2>2, <2>3 DEF Conv
  <1> QED
    BY <1>5, <1>6, <1>7


\* The facts every step starts from.
Context == Typed /\ Typed' /\ LogInv /\ EdgeInv

\* The project of the row as it is.
LEMMA ProjectedTarget ==
  ASSUME NEW p \in Partitions, p \in NonEntity => graph[p] = Absent
  PROVE  Projected(p, canon[p]) = Target(p)
  BY DEF Projected, Target

\* PutRelationship and DeleteRelationship: the change is now waiting.
LEMMA EdgeCommitChange ==
  ASSUME Context, NEW q \in Partitions, NEW k \in {"upserted", "deleted"}, CommitChange(q, k)
  PROVE  EdgeInv'
  <1>2. PICK c : c = [rel |-> q, ver |-> ver'[q], kind |-> k]
    OBVIOUS
  <1>3. inflight' = inflight \cup {c} /\ c.rel = q /\ c.kind = k /\ c.ver = ver'[q]
    BY <1>2 DEF CommitChange
  <1>4. /\ canon \in [Partitions -> Versions \cup {Absent}] /\ ver \in [Partitions -> 0 .. MaxOffset]
        /\ \A d \in inflight : d.rel \in Partitions /\ d.ver \in Nat
    BY DEF Context, LogInv, TypeOK, Changes, Versions
  <1>5. InflightInv'
    <2>1. ver'[q] = ver[q] + 1 /\ ver[q] \in Nat /\ \A p \in Partitions \ {q} : ver'[p] = ver[p]
      BY <1>4 DEF CommitChange
    <2>2. (k = "deleted" => canon'[q] = Absent) /\ \A p \in Partitions \ {q} : canon'[p] = canon[p]
      BY <1>4 DEF CommitChange
    <2>3. ASSUME NEW d \in inflight
          PROVE  /\ d.ver <= ver'[d.rel]
                 /\ d.kind = "deleted" /\ d.ver = ver'[d.rel] => canon'[d.rel] = Absent
      <3>1. d.ver <= ver[d.rel] /\ (d.kind = "deleted" /\ d.ver = ver[d.rel] => canon[d.rel] = Absent)
        BY DEF Context, EdgeInv, InflightInv
      <3> QED
        BY <1>4, <2>1, <2>2, <3>1
    <2> QED
      BY <1>3, <2>1, <2>2, <2>3 DEF InflightInv
  <1>6. ASSUME NEW p \in Partitions PROVE EdgeOf(p)'
    <2>1. EdgeOf(p)
      BY DEF Context, EdgeInv
    <2>2. UNCHANGED <<graph, missed, overtaken, high, position, committed, kind, pc, cur, snap, todo>>
      BY DEF CommitChange, consumerVars, loopVars
    <2>3. CASE p = q
      <3>1. Waiting(p)'
        BY <1>3, <2>3 DEF Waiting
      <3> QED
        BY <2>1, <2>2, <3>1 DEF EdgeOf, Conv, PageFresh, LastTells
    <2>4. CASE p # q
      <3>1. Waiting(p) <=> Waiting(p)'
        BY <1>3, <2>4 DEF Waiting
      <3>2. canon'[p] = canon[p]
        BY <1>4, <2>4 DEF CommitChange
      <3>3. SameRow(p)
        BY <2>2, <3>1, <3>2 DEF SameRow, Context, Typed
      <3> QED
        BY <2>1, <2>2, <3>3, EdgeSame DEF Context
    <2> QED
      BY <2>3, <2>4
  <1> QED
    BY <1>5, <1>6 DEF EdgeInv

\* Publish: the change is now unread, and says what the row is.
LEMMA EdgePublish ==
  ASSUME Context, NEW c \in inflight, Publish(c)
  PROVE  EdgeInv'
  <1>1. c.rel \in Partitions /\ kind \in [Messages -> {"none", "upserted", "deleted"}]
    BY DEF Context, LogInv, TypeOK, Changes
  <1>v. ver[c.rel] \in Nat /\ \A d \in inflight : d.ver \in Nat
    BY <1>1 DEF Context, LogInv, TypeOK, Changes, Versions
  <1>2. /\ high' = [high EXCEPT ![c.rel] = @ + 1]
        /\ kind' = [kind EXCEPT ![<<c.rel, high[c.rel]>>] = c.kind]
        /\ inflight' = inflight \ {c} /\ high[c.rel] < MaxOffset
        /\ overtaken' = IF Overtaken(c) THEN overtaken \cup {c.rel} ELSE overtaken \ {c.rel}
        /\ UNCHANGED <<graph, missed, canon, ver, position, committed, pc, cur, snap, todo>>
    BY DEF Publish, AppendMessage, loopVars
  <1>4. InflightInv'
    BY <1>2 DEF Context, EdgeInv, InflightInv
  <1>5. ASSUME NEW p \in Partitions PROVE EdgeOf(p)'
    <2>1. EdgeOf(p)
      BY DEF Context, EdgeInv
    <2>2. CASE p = c.rel
      <3>1. high'[p] = high[p] + 1 /\ high[p] \in Nat
        BY <1>2, <2>2 DEF Context, Typed
      <3>2. Unread(p)'
        BY <1>2, <3>1 DEF Context, LogInv, OffsetsInv, Unread, Typed
      <3>3. kind'[<<p, high'[p] - 1>>] = c.kind
        <4>1. high'[p] - 1 = high[p] /\ <<p, high[p]>> \in Messages
          BY <1>2, <2>2, <3>1 DEF Messages, Offsets
        <4> QED
          BY <1>1, <1>2, <2>2, <4>1
      <3>4. c.kind = "deleted" /\ ~Overtaken(c) => canon'[p] = Absent \/ Waiting(p)'
        <4> SUFFICES ASSUME c.kind = "deleted", ~Overtaken(c) PROVE canon'[p] = Absent \/ Waiting(p)'
          OBVIOUS
        <4>1. c.ver <= ver[p] /\ (c.ver = ver[p] => canon[p] = Absent)
          BY <2>2 DEF Context, EdgeInv, InflightInv
        <4>2. CASE c.ver = ver[p]
          BY <1>2, <4>1, <4>2
        <4>3. CASE c.ver # ver[p]
          <5>1. c.ver < ver[p]
            BY <1>v, <2>2, <4>1, <4>3
          <5>2. PICK d \in inflight : d.rel = p /\ ~(d.ver <= c.ver)
            BY <2>2, <5>1 DEF Overtaken
          <5>3. d # c
            BY <1>v, <5>2
          <5> QED
            BY <1>2, <5>2, <5>3 DEF Waiting
        <4> QED
          BY <4>2, <4>3
      <3>5. p \notin overtaken' => ~Overtaken(c)
        BY <1>2, <2>2
      <3>6. p \notin overtaken' => LastTells(p)'
        BY <3>3, <3>4, <3>5 DEF LastTells
      <3> QED
        BY <1>2, <2>1, <3>2, <3>6 DEF EdgeOf, Conv, PageFresh
    <2>3. CASE p # c.rel
      <3>1. Waiting(p) <=> Waiting(p)'
        BY <1>2, <2>3 DEF Waiting
      <3>2. high'[p] = high[p] /\ high[p] \in Nat /\ high[p] <= MaxOffset
        BY <1>1, <1>2, <2>3 DEF Context, Typed
      <3>3. high[p] > 0 => kind'[<<p, high[p] - 1>>] = kind[<<p, high[p] - 1>>]
        <4> SUFFICES ASSUME high[p] > 0 PROVE kind'[<<p, high[p] - 1>>] = kind[<<p, high[p] - 1>>]
          OBVIOUS
        <4>1. <<p, high[p] - 1>> \in Messages
          BY <3>2 DEF Messages, Offsets
        <4>2. <<p, high[p] - 1>> # <<c.rel, high[c.rel]>>
          BY <2>3
        <4> QED
          BY <1>1, <1>2, <4>1, <4>2
      <3>4. SameRow(p)
        BY <1>2, <3>1, <3>2, <3>3 DEF SameRow, Context, Typed
      <3> QED
        BY <1>2, <2>1, <3>4, EdgeSame DEF Context
    <2> QED
      BY <2>2, <2>3
  <1> QED
    BY <1>4, <1>5 DEF EdgeInv

\* PublishErr: the relationship has lost a change.
LEMMA EdgePublishErr ==
  ASSUME Context, NEW c \in inflight, PublishErr(c)
  PROVE  EdgeInv'
  <1>1. /\ inflight' = inflight \ {c} /\ missed' = missed \cup {c.rel}
        /\ UNCHANGED <<graph, kind, high, canon, ver, overtaken, position, committed, pc, cur, snap, todo>>
    BY DEF PublishErr, consumerVars, loopVars
  <1>3. InflightInv'
    BY <1>1 DEF Context, EdgeInv, InflightInv
  <1>4. ASSUME NEW p \in Partitions PROVE EdgeOf(p)'
    <2>1. EdgeOf(p)
      BY DEF Context, EdgeInv
    <2>2. CASE p = c.rel
      BY <1>1, <2>1, <2>2 DEF EdgeOf
    <2>3. CASE p # c.rel
      <3>1. Waiting(p) <=> Waiting(p)'
        BY <1>1, <2>3 DEF Waiting
      <3>2. SameRow(p)
        BY <1>1, <2>3, <3>1 DEF SameRow, Context, Typed
      <3> QED
        BY <1>1, <2>1, <3>2, EdgeSame DEF Context
    <2> QED
      BY <2>2, <2>3
  <1> QED
    BY <1>3, <1>4 DEF EdgeInv

\* The writers' side when only the loop moves.
LEMMA InflightSame ==
  ASSUME Context, UNCHANGED <<inflight, canon, ver>>
  PROVE  InflightInv' /\ \A p \in Partitions : (Waiting(p) <=> Waiting(p)') /\ Target(p)' = Target(p)
  BY DEF Context, EdgeInv, InflightInv, Waiting, Target

\* Poll: the message leads to a read of the row, or, if it is the last one and says
\* deleted, to a deletion that is right.
LEMMA EdgePoll ==
  ASSUME Context, NEW q \in Partitions, Poll(q)
  PROVE  EdgeInv'
  <1>1. /\ pc = "poll" /\ position[q] < high[q] /\ position' = [position EXCEPT ![q] = @ + 1]
        /\ cur' = <<q, position[q]>> /\ snap' = Nothing
        /\ pc' = IF kind[<<q, position[q]>>] = "deleted" THEN "write" ELSE "read"
        /\ UNCHANGED <<graph, kind, high, canon, ver, committed, inflight, missed, overtaken, todo>>
    BY DEF Poll, Receive, Readable, Advance, Upcoming, brokerVars, writerVars
  <1>2. InflightInv' /\ \A p \in Partitions : (Waiting(p) <=> Waiting(p)') /\ Target(p)' = Target(p)
    BY <1>1, InflightSame
  <1>3. pc' # "rebuild" /\ pc' # "down" /\ pc' \in {"read", "write"}
    BY <1>1
  <1>4. ASSUME NEW p \in Partitions PROVE EdgeOf(p)'
    <2>1. EdgeOf(p)
      BY DEF Context, EdgeInv
    <2>2. CASE p # q
      <3>1. SameRow(p)
        BY <1>1, <1>2, <2>2 DEF SameRow, Context, Typed
      <3>2. SameWork(p)
        BY <1>1, <1>3, <2>2 DEF SameWork, InWork
      <3> QED
        BY <2>1, <3>1, <3>2, EdgeSame DEF Context
    <2>3. CASE p = q
      <3> SUFFICES ASSUME p \notin missed \cup overtaken PROVE (Conv(p) /\ PageFresh(p) /\ LastTells(p))'
        BY <1>1, <2>1 DEF EdgeOf
      <3>1. PageFresh(p)'
        BY <1>3 DEF PageFresh
      <3>2. LastTells(p) /\ LastTells(p)'
        BY <1>1, <1>2, <2>1 DEF EdgeOf, LastTells
      <3>3. InWork(p)'
        BY <1>1, <1>3, <2>3 DEF InWork
      <3>4. position'[p] = position[p] + 1 /\ position[p] \in Nat /\ high[p] \in Nat /\ committed[p] \in Nat
        BY <1>1, <2>3 DEF Context, Typed
      <3>5. CASE position[p] + 1 < high[p]
        <4>1. Unread(p)'
          BY <1>1, <1>3, <3>4, <3>5 DEF Unread
        <4> QED
          BY <3>1, <3>2, <4>1 DEF Conv
      <3>6. CASE ~(position[p] + 1 < high[p])
        <4>1. position[p] = high[p] - 1 /\ committed[p] < high[p]
          BY <1>1, <2>3, <3>4, <3>6 DEF Context, LogInv, OffsetsInv
        <4>2. CASE kind[<<p, position[p]>>] = "deleted"
          <5>1. Waiting(p) \/ canon[p] = Absent
            BY <3>2, <4>1, <4>2 DEF LastTells
          <5>2. canon[p] = Absent => (Projected(p, snap[p]) = Target(p))'
            BY <1>1 DEF Nothing, Projected, Target
          <5> QED
            BY <1>2, <3>1, <3>2, <3>3, <5>1, <5>2 DEF Conv
        <4>3. CASE kind[<<p, position[p]>>] # "deleted"
          <5>1. pc' = "read"
            BY <1>1, <2>3, <4>3
          <5> QED
            BY <3>1, <3>2, <3>3, <5>1 DEF Conv
        <4> QED
          BY <4>2, <4>3
      <3> QED
        BY <3>5, <3>6
    <2> QED
      BY <2>2, <2>3
  <1> QED
    BY <1>2, <1>4 DEF EdgeInv

\* ReadRow: what was read is the row as it is.
LEMMA EdgeReadRow ==
  ASSUME Context, ReadRow
  PROVE  EdgeInv'
  <1>1. /\ pc = "read" /\ pc' = "write" /\ snap' = [snap EXCEPT ![cur[1]] = canon[cur[1]]]
        /\ UNCHANGED <<graph, kind, high, position, canon, ver, committed, inflight, missed, overtaken, todo, cur>>
    BY DEF ReadRow, consumerVars, writerVars
  <1>2. InflightInv' /\ \A p \in Partitions : (Waiting(p) <=> Waiting(p)') /\ Target(p)' = Target(p)
    BY <1>1, InflightSame
  <1>3. snap \in [Partitions -> Versions \cup {Absent}]
    BY DEF Context, LogInv, TypeOK
  <1>4. ASSUME NEW p \in Partitions PROVE EdgeOf(p)'
    <2>1. EdgeOf(p)
      BY DEF Context, EdgeInv
    <2>2. CASE p # cur[1]
      <3>1. SameRow(p)
        BY <1>1, <1>2 DEF SameRow, Context, Typed
      <3>2. SameWork(p)
        BY <1>1, <2>2 DEF SameWork, InWork
      <3> QED
        BY <2>1, <3>1, <3>2, EdgeSame DEF Context
    <2>3. CASE p = cur[1]
      <3>1. snap'[p] = canon[p]
        BY <1>1, <1>3, <2>3
      <3>2. (Projected(p, snap[p]) = Target(p))'
        BY <1>1, <2>1, <3>1 DEF EdgeOf, Projected, Target
      <3>3. InWork(p)' /\ PageFresh(p)'
        BY <1>1, <2>3 DEF InWork, PageFresh
      <3>4. LastTells(p) => LastTells(p)'
        BY <1>1, <1>2 DEF LastTells
      <3> QED
        BY <1>1, <2>1, <3>2, <3>3, <3>4 DEF EdgeOf, Conv
    <2> QED
      BY <2>2, <2>3
  <1> QED
    BY <1>2, <1>4 DEF EdgeInv

\* WriteEdge: what is written is right, or will be looked at again.
LEMMA EdgeWriteEdge ==
  ASSUME Context, WriteEdge
  PROVE  EdgeInv'
  <1>1. /\ pc = "write" /\ pc' = "commit"
        /\ graph' = [graph EXCEPT ![cur[1]] = Projected(cur[1], snap[cur[1]])]
        /\ UNCHANGED <<kind, high, position, canon, ver, committed, inflight, missed, overtaken, todo, cur, snap>>
    BY DEF WriteEdge, consumerVars, writerVars
  <1>2. InflightInv' /\ \A p \in Partitions : (Waiting(p) <=> Waiting(p)') /\ Target(p)' = Target(p)
    BY <1>1, InflightSame
  <1>3. graph \in [Partitions -> Versions \cup {Absent}]
    BY DEF Context, LogInv, TypeOK
  <1>4. ASSUME NEW p \in Partitions PROVE EdgeOf(p)'
    <2>1. EdgeOf(p)
      BY DEF Context, EdgeInv
    <2>2. CASE p # cur[1]
      <3>1. SameRow(p)
        BY <1>1, <1>2, <1>3, <2>2 DEF SameRow, Context, Typed
      <3>2. SameWork(p)
        BY <1>1, <2>2 DEF SameWork, InWork
      <3> QED
        BY <2>1, <3>1, <3>2, EdgeSame DEF Context
    <2>3. CASE p = cur[1]
      <3>1. graph'[p] = Projected(p, snap[p])
        BY <1>1, <1>3, <2>3
      <3>2. p \in NonEntity => graph'[p] = Absent
        BY <2>1, <3>1 DEF EdgeOf, Projected
      <3>3. InWork(p) /\ ~InWork(p)' /\ PageFresh(p)'
        BY <1>1, <2>3 DEF InWork, PageFresh
      <3>4. LastTells(p) => LastTells(p)'
        BY <1>1, <1>2 DEF LastTells
      <3>5. Unread(p) => Unread(p)'
        BY <1>1 DEF Unread
      <3>6. Conv(p) => Conv(p)'
        BY <1>1, <1>2, <3>1, <3>3, <3>5 DEF Conv
      <3> QED
        BY <1>1, <2>1, <3>2, <3>3, <3>4, <3>6 DEF EdgeOf
    <2> QED
      BY <2>2, <2>3
  <1> QED
    BY <1>2, <1>4 DEF EdgeInv

\* HandleErr: the relationship has lost a change, whether or not the write got through.
LEMMA EdgeHandleErr ==
  ASSUME Context, HandleErr
  PROVE  EdgeInv'
  <1>1. /\ pc \in {"read", "write"} /\ pc' = "poll" /\ missed' = missed \cup {cur[1]}
        /\ graph' = graph \/ graph' = [graph EXCEPT ![cur[1]] = Projected(cur[1], snap[cur[1]])]
        /\ UNCHANGED <<kind, high, position, canon, ver, committed, inflight, overtaken, todo, snap>>
    BY DEF HandleErr, consumerVars, writerVars
  <1>2. InflightInv' /\ \A p \in Partitions : (Waiting(p) <=> Waiting(p)') /\ Target(p)' = Target(p)
    BY <1>1, InflightSame
  <1>3. graph \in [Partitions -> Versions \cup {Absent}]
    BY DEF Context, LogInv, TypeOK
  <1>4. ASSUME NEW p \in Partitions PROVE EdgeOf(p)'
    <2>1. EdgeOf(p)
      BY DEF Context, EdgeInv
    <2>2. CASE p # cur[1]
      <3>0. graph'[p] = graph[p]
        BY <1>1, <1>3, <2>2
      <3>1. SameRow(p)
        BY <1>1, <1>2, <3>0, <2>2 DEF SameRow, Context, Typed
      <3>2. SameWork(p)
        BY <1>1, <2>2 DEF SameWork, InWork
      <3> QED
        BY <2>1, <3>1, <3>2, EdgeSame DEF Context
    <2>3. CASE p = cur[1]
      <3>1. graph'[p] = graph[p] \/ graph'[p] = Projected(p, snap[p])
        BY <1>1, <1>3, <2>3
      <3>2. p \in NonEntity => graph'[p] = Absent
        BY <2>1, <3>1 DEF EdgeOf, Projected
      <3> QED
        BY <1>1, <2>3, <3>2 DEF EdgeOf
    <2> QED
      BY <2>2, <2>3
  <1> QED
    BY <1>2, <1>4 DEF EdgeInv

\* Commit and CommitErr: what was committed was read, and an edge that was right stays so.
LEMMA EdgeCommitStep ==
  ASSUME Context, Commit \/ CommitErr
  PROVE  EdgeInv'
  <1>1. /\ pc = "commit" /\ pc' = "poll"
        /\ UNCHANGED <<graph, kind, high, position, canon, ver, inflight, missed, overtaken, todo, snap>>
    BY DEF Commit, CommitErr, consumerVars, brokerVars, writerVars
  <1>2. InflightInv' /\ \A p \in Partitions : (Waiting(p) <=> Waiting(p)') /\ Target(p)' = Target(p)
    BY <1>1, InflightSame
  <1>3. /\ cur \in Messages /\ last = cur /\ committed[cur[1]] <= cur[2]
        /\ cur[1] \in Partitions /\ cur[2] \in Nat
    BY <1>1, MessageParts DEF Context, LogInv, InHand, Handling
  <1>4. ASSUME NEW p \in Partitions PROVE committed[p] <= committed'[p]
    BY <1>3 DEF Commit, CommitErr, CommitLast, consumerVars, Context, Typed
  <1>5. ASSUME NEW p \in Partitions PROVE EdgeOf(p)'
    <2>1. EdgeOf(p)
      BY DEF Context, EdgeInv
    <2>2. SameRow(p)
      BY <1>1, <1>2, <1>4 DEF SameRow
    <2>3. SameWork(p)
      BY <1>1 DEF SameWork, InWork
    <2> QED
      BY <2>1, <2>2, <2>3, EdgeSame DEF Context
  <1> QED
    BY <1>2, <1>5 DEF EdgeInv


\* RebuildPage: the page is the rows as they are.
LEMMA EdgeRebuildPage ==
  ASSUME Context, RebuildPage
  PROVE  EdgeInv'
  <1>1. /\ pc = "poll" /\ pc' = "rebuild" /\ snap' = canon
        /\ UNCHANGED <<graph, kind, high, position, canon, ver, committed, inflight, missed, overtaken, cur>>
    BY DEF RebuildPage, consumerVars, writerVars
  <1>2. InflightInv' /\ \A p \in Partitions : (Waiting(p) <=> Waiting(p)') /\ Target(p)' = Target(p)
    BY <1>1, InflightSame
  <1>3. ASSUME NEW p \in Partitions PROVE EdgeOf(p)'
    <2>1. EdgeOf(p)
      BY DEF Context, EdgeInv
    <2>2. PageFresh(p)'
      BY <1>1 DEF PageFresh
    <2>3. LastTells(p) => LastTells(p)'
      BY <1>1, <1>2 DEF LastTells
    <2>4. (Unread(p) => Unread(p)') /\ ~InWork(p) /\ ~InWork(p)'
      BY <1>1 DEF Unread, InWork
    <2>5. Conv(p) => Conv(p)'
      BY <1>1, <1>2, <2>4 DEF Conv
    <2> QED
      BY <1>1, <2>1, <2>2, <2>3, <2>5 DEF EdgeOf
  <1> QED
    BY <1>2, <1>3 DEF EdgeInv

\* RebuildRow: the edge is the page's row; the page is up to date, or what came after
\* it will be looked at.  A relationship that was made up for has nothing to be read again.
LEMMA EdgeRebuildRow ==
  ASSUME Context, NEW q \in Partitions, RebuildRow(q)
  PROVE  EdgeInv'
  <1>1. /\ pc = "rebuild" /\ pc' = "rebuild" /\ q \in todo /\ todo' = todo \ {q}
        /\ graph' = [graph EXCEPT ![q] = Projected(q, snap[q])]
        /\ missed' = IF MadeUpFor(q) THEN missed \ {q} ELSE missed
        /\ overtaken' = IF MadeUpFor(q) THEN overtaken \ {q} ELSE overtaken
        /\ UNCHANGED <<kind, high, position, canon, ver, committed, inflight, snap, cur>>
    BY DEF RebuildRow, consumerVars, writerVars
  <1>2. InflightInv' /\ \A p \in Partitions : (Waiting(p) <=> Waiting(p)') /\ Target(p)' = Target(p)
    BY <1>1, InflightSame
  <1>3. graph \in [Partitions -> Versions \cup {Absent}]
    BY DEF Context, LogInv, TypeOK
  <1>4. ASSUME NEW p \in Partitions PROVE EdgeOf(p)'
    <2>1. EdgeOf(p)
      BY DEF Context, EdgeInv
    <2>2. CASE p # q
      <3>1. SameRow(p)
        BY <1>1, <1>2, <1>3, <2>2 DEF SameRow, Context, Typed
      <3>2. SameWork(p)
        BY <1>1, <2>2 DEF SameWork, InWork
      <3> QED
        BY <2>1, <3>1, <3>2, EdgeSame DEF Context
    <2>3. CASE p = q
      <3>1. graph'[p] = Projected(p, snap[p])
        BY <1>1, <1>3, <2>3
      <3>2. p \in NonEntity => graph'[p] = Absent
        BY <2>1, <3>1 DEF EdgeOf, Projected
      <3>3. PageFresh(p)' /\ ~InWork(p)'
        BY <1>1, <2>3 DEF PageFresh, InWork
      <3>4. snap[p] = canon[p] => Conv(p)'
        <4> SUFFICES ASSUME snap[p] = canon[p] PROVE Conv(p)'
          OBVIOUS
        <4>1. graph'[p] = Target(p)
          BY <2>1, <3>1, ProjectedTarget DEF EdgeOf
        <4> QED
          BY <1>2, <3>3, <4>1 DEF Conv
      <3>5. Waiting(p) \/ Unread(p) => Conv(p)'
        BY <1>1, <1>2 DEF Unread, Conv
      <3>6. LastTells(p) => LastTells(p)'
        BY <1>1, <1>2 DEF LastTells
      <3>7. CASE p \notin missed \cup overtaken
        <4>1. PageFresh(p) /\ LastTells(p)
          BY <2>1, <3>7 DEF EdgeOf
        <4>2. Conv(p)'
          BY <1>1, <2>3, <3>4, <3>5, <4>1 DEF PageFresh
        <4> QED
          BY <3>2, <3>3, <3>6, <4>1, <4>2 DEF EdgeOf
      <3>8. CASE p \in missed \cup overtaken /\ MadeUpFor(p)
        <4>1. Conv(p)'
          BY <3>4, <3>8 DEF MadeUpFor
        <4>2. committed'[p] = high'[p] /\ high'[p] \in Nat
          BY <1>1, <3>8 DEF MadeUpFor, Context, Typed
        <4>3. LastTells(p)'
          BY <4>2 DEF LastTells
        <4> QED
          BY <3>2, <3>3, <4>1, <4>3 DEF EdgeOf
      <3>9. CASE p \in missed \cup overtaken /\ ~MadeUpFor(p)
        BY <1>1, <2>3, <3>2, <3>9 DEF EdgeOf
      <3> QED
        BY <3>7, <3>8, <3>9
    <2> QED
      BY <2>2, <2>3
  <1> QED
    BY <1>2, <1>4 DEF EdgeInv

\* RebuildRowErr and RebuildEnd leave the edges alone.
LEMMA EdgeRebuildOn ==
  ASSUME Context, (\E q \in Partitions : RebuildRowErr(q)) \/ RebuildEnd
  PROVE  EdgeInv'
  <1>1. /\ pc = "rebuild" /\ pc' \in {"rebuild", "poll"} /\ todo' \subseteq todo
        /\ UNCHANGED <<graph, kind, high, position, canon, ver, committed, inflight, missed, overtaken, snap, cur>>
    BY DEF RebuildRowErr, RebuildEnd, consumerVars, writerVars
  <1>2. InflightInv' /\ \A p \in Partitions : (Waiting(p) <=> Waiting(p)') /\ Target(p)' = Target(p)
    BY <1>1, InflightSame
  <1>3. ASSUME NEW p \in Partitions PROVE EdgeOf(p)'
    <2>1. EdgeOf(p)
      BY DEF Context, EdgeInv
    <2>2. SameRow(p)
      BY <1>1, <1>2 DEF SameRow, Context, Typed
    <2>3. SameWork(p)
      BY <1>1 DEF SameWork, InWork
    <2> QED
      BY <2>1, <2>2, <2>3, EdgeSame DEF Context
  <1> QED
    BY <1>2, <1>3 DEF EdgeInv

\* Stop: what was in hand or unread will be read again.
LEMMA EdgeStop ==
  ASSUME Context, Stop
  PROVE  EdgeInv'
  <1>1. /\ pc # "down" /\ pc' = "down"
        /\ UNCHANGED <<graph, kind, high, position, canon, ver, committed, inflight, missed, overtaken>>
    BY DEF Stop, consumerVars, writerVars
  <1>2. InflightInv' /\ \A p \in Partitions : (Waiting(p) <=> Waiting(p)') /\ Target(p)' = Target(p)
    BY <1>1, InflightSame
  <1>3. ASSUME NEW p \in Partitions PROVE EdgeOf(p)'
    <2>1. EdgeOf(p)
      BY DEF Context, EdgeInv
    <2>2. ~InWork(p)' /\ PageFresh(p)'
      BY <1>1 DEF InWork, PageFresh
    <2>3. LastTells(p) => LastTells(p)'
      BY <1>1, <1>2 DEF LastTells
    <2>4. committed[p] <= position[p] /\ position[p] <= high[p] /\ Unread(p)' = (committed[p] < high[p])
      BY <1>1 DEF Context, LogInv, OffsetsInv, Unread
    <2>5. committed[p] \in Nat /\ position[p] \in Nat /\ high[p] \in Nat
      BY DEF Context, Typed
    <2>6. Unread(p) => Unread(p)'
      BY <1>1, <2>4, <2>5 DEF Unread
    <2>7. InWork(p) => Unread(p)'
      <3> SUFFICES ASSUME InWork(p) PROVE committed[p] < high[p]
        BY <2>4
      <3>1. /\ cur \in Messages /\ cur[1] = p
            /\ position[p] = cur[2] + 1 /\ committed[p] <= cur[2]
        BY DEF InWork, Context, LogInv, InHand, Handling
      <3>2. cur[2] \in Nat
        BY <3>1, MessageParts
      <3> QED
        BY <2>4, <2>5, <3>1, <3>2
    <2>8. Conv(p) => Conv(p)'
      BY <1>1, <1>2, <2>2, <2>6, <2>7 DEF Conv
    <2> QED
      BY <1>1, <2>1, <2>2, <2>3, <2>8 DEF EdgeOf
  <1> QED
    BY <1>2, <1>3 DEF EdgeInv

\* Start: what is not committed is unread.
LEMMA EdgeStart ==
  ASSUME Context, Start
  PROVE  EdgeInv'
  <1>1. /\ pc = "down" /\ pc' = "poll" /\ position' = committed
        /\ UNCHANGED <<graph, kind, high, canon, ver, committed, inflight, missed, overtaken>>
    BY DEF Start, Resume, brokerVars, writerVars
  <1>2. InflightInv' /\ \A p \in Partitions : (Waiting(p) <=> Waiting(p)') /\ Target(p)' = Target(p)
    BY <1>1, InflightSame
  <1>3. ASSUME NEW p \in Partitions PROVE EdgeOf(p)'
    <2>1. EdgeOf(p)
      BY DEF Context, EdgeInv
    <2>2. ~InWork(p) /\ ~InWork(p)' /\ PageFresh(p)'
      BY <1>1 DEF InWork, PageFresh
    <2>3. LastTells(p) => LastTells(p)'
      BY <1>1, <1>2 DEF LastTells
    <2>4. Unread(p) => Unread(p)'
      BY <1>1 DEF Unread
    <2>5. Conv(p) => Conv(p)'
      BY <1>1, <1>2, <2>2, <2>4 DEF Conv
    <2> QED
      BY <1>1, <2>1, <2>2, <2>3, <2>5 DEF EdgeOf
  <1> QED
    BY <1>2, <1>3 DEF EdgeInv

\* Every step keeps the invariant of the edges.
LEMMA EdgeKept ==
  ASSUME LogInv, EdgeInv, [Next]_vars
  PROVE  EdgeInv'
  <1>0. TypeOK /\ TypeOK'
    BY LogKept DEF LogInv
  <1>1. Context
    BY <1>0, TypedHolds, PTL DEF Context
  <1>2. ASSUME UNCHANGED vars PROVE EdgeInv'
    BY <1>2 DEF vars, EdgeInv, InflightInv, EdgeOf, Conv, InWork, PageFresh, LastTells, Waiting,
                Unread, Target, Projected
  <1>3. ASSUME NEW p \in Partitions, PutRelationship(p) \/ DeleteRelationship(p) PROVE EdgeInv'
    BY <1>1, <1>3, EdgeCommitChange DEF PutRelationship, DeleteRelationship
  <1>4. ASSUME Next PROVE EdgeInv'
    BY <1>1, <1>3, <1>4, EdgePublish, EdgePublishErr, EdgePoll, EdgeReadRow, EdgeWriteEdge,
       EdgeHandleErr, EdgeCommitStep, EdgeRebuildPage, EdgeRebuildRow, EdgeRebuildOn, EdgeStop, EdgeStart
       DEF Next
  <1> QED
    BY <1>2, <1>4

\* For any number of concurrent writers, a relationship that lost no change and whose
\* last message is no overtaken deletion has the edge its row calls for whenever
\* nothing about it is under way (graph-worker/src/service.rs, apply_change and
\* rebuild; the row is read again for every event but a deletion).
THEOREM EdgesAlwaysConverge == Spec => []EdgeConverges
  <1>1. LogInv /\ EdgeInv /\ [Next]_vars => EdgeInv'
    BY EdgeKept
  <1>2. Spec => []EdgeInv
    BY EdgeInit, <1>1, LogHolds, PTL DEF Spec
  <1>3. LogInv /\ EdgeInv => EdgeConverges
    <2> SUFFICES ASSUME LogInv, EdgeInv, NEW p \in Partitions \ (missed \cup overtaken), Quiet(p)
                 PROVE  graph[p] = Target(p)
      BY DEF EdgeConverges, Target
    <2>1. Conv(p)
      BY DEF EdgeInv, EdgeOf
    <2>2. ~Waiting(p) /\ ~InWork(p)
      BY DEF Quiet, Waiting, InWork
    <2>3. ~Unread(p)
      BY TypedHolds DEF Quiet, Unread, LogInv, Typed
    <2> QED
      BY <2>1, <2>2, <2>3 DEF Conv
  <1> QED
    BY <1>2, <1>3, LogHolds, PTL
==============================================================================
