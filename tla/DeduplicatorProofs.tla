------------------------- MODULE DeduplicatorProofs --------------------------
(***************************************************************************)
(* The normalizer and the deduplicator, for any evidence, any number of    *)
(* workers, documents and faults.                                          *)
(*                                                                         *)
(* A row of the documents table never disappears and never changes its     *)
(* evidence or its content (RowsStay), so what a lookup has found stays    *)
(* there to be found: the argument rests on what does not change between a *)
(* step and its repetition after a crash.                                  *)
(***************************************************************************)
EXTENDS Deduplicator, FiniteSetTheorems, WellFoundedInduction, TLAPS

Building == [pc : {"persist", "publish"}, raw : Supported, ids : Seq(Ids)]
Reading == [pc : {"next"}, raw : Raws, todo : Seq(Ids)]
Judging == [pc : {"resolve", "group", "put", "claim", "publish"}, raw : Raws,
            todo : Seq(Ids), row : Rows, hit : Ids \cup {None}, unseen : SUBSET Ids]

WorkersTyped ==
  /\ nw \in [Normalizers -> {Idle} \cup Building]
  /\ dw \in [Deduplicators -> {Idle} \cup Reading \cup Judging]
  /\ \A w \in Deduplicators : dw[w] \in Judging =>
       dw[w].todo # << >> /\ (dw[w].pc \in {"resolve", "group"} => dw[w].hit # None)

\* ids names the documents of evidence r, each once.
IsBatch(r, ids) ==
  /\ ids \in Seq(Ids)
  /\ Len(ids) = Len(Items[r])
  /\ \A i \in DOMAIN ids : ids[i] < nextId
  /\ \A i, j \in DOMAIN ids : ids[i] = ids[j] => i = j

ClaimOf(r) ==
  /\ normalized[r] # None => r \in Supported /\ IsBatch(r, normalized[r])
  /\ events[r] # "none" => normalized[r] # None

\* The ids a normalizer is about to write are its own.
BuildOf(w) ==
  nw[w] # Idle =>
    /\ IsBatch(nw[w].raw, nw[w].ids)
    /\ nw[w].pc = "persist" => \A i \in DOMAIN nw[w].ids : documents[nw[w].ids[i]] = None
    /\ nw[w].pc = "publish" => normalized[nw[w].raw] = nw[w].ids

Apart(v, w) ==
  nw[v].pc = "persist" /\ nw[w].pc = "persist" /\ v # w =>
    \A i \in DOMAIN nw[v].ids, j \in DOMAIN nw[w].ids : nw[v].ids[i] # nw[w].ids[j]

NormalizerInv ==
  /\ normalized \in [Raws -> Seq(Ids) \cup {None}]
  /\ DocumentsOfClaim
  /\ \A r \in Raws : ClaimOf(r)
  /\ \A w \in Normalizers : BuildOf(w)
  /\ \A v, w \in Normalizers : Apart(v, w)

\* A deduplicator works on documents of the evidence it was told of.
HandOf(w) ==
  dw[w] # Idle =>
    /\ normalized[dw[w].raw] # None
    /\ \A i \in DOMAIN dw[w].todo :
         dw[w].todo[i] \in Present /\ documents[dw[w].todo[i]].raw = dw[w].raw
    /\ dw[w].pc # "next" => /\ dw[w].row.content = documents[Doc(w)].content
                            /\ dw[w].row.raw = documents[Doc(w)].raw
                            /\ dw[w].row.content.url = None => dw[w].row.url = documents[Doc(w)].url
                            /\ dw[w].hit # None => dw[w].hit \in Present

\* duplicate_of names a row.
Linked == \A d \in Present : documents[d].duplicate_of # None => documents[d].duplicate_of \in Present

BaseInv == TypeOK /\ WorkersTyped /\ NormalizerInv /\ Linked /\ \A w \in Deduplicators : HandOf(w)

\* What a deduplicator holds as its candidate is older, unless it came through a
\* neighbour.
Judged(w) == dw[w] # Idle /\ dw[w].pc # "next"
HitOlder(w) == Judged(w) /\ dw[w].hit # None => dw[w].hit \in Older(Doc(w)) \/ Doc(w) \in drifted
OlderInv == DuplicateOfOlder /\ \A w \in Deduplicators : HitOlder(w)

\* The keys are there before the claim is.
KeyedInv ==
  /\ \A d \in Ids : claims[d] # Unclaimed => d \in Present /\ documents[d].keyed
  /\ \A w \in Deduplicators : dw[w].pc = "claim" => documents[Doc(w)].keyed

\* What two workers have in hand is in doubt.
InDoubt(w) == \A i \in DOMAIN dw[w].todo : dw[w].todo[i] \in doubted
Shared == \A v, w \in Deduplicators :
            v # w /\ dw[v] # Idle /\ dw[w] # Idle /\ dw[v].raw = dw[w].raw => InDoubt(w)

\* What was there to be seen when d was looked up has another external key.
Searched(d, missed) ==
  \A e \in Ids : e < d /\ e \notin missed =>
    e \in Present /\ (documents[d].content.ext = None
                      \/ documents[e].content.ext # documents[d].content.ext)

SearchOf(w) == dw[w].pc \in {"put", "claim"} /\ dw[w].hit = None => Searched(Doc(w), dw[w].unseen)
UnseenInv ==
  /\ \A d \in Ids : claims[d] = None => Searched(d, unseen[d])
  /\ \A w \in Deduplicators : SearchOf(w)

\* Some stage finds an older document, or would if the scan went back far enough.
Findable(d) == ByExternalKey(d) # {} \/ ByCanonicalUrl(d) # {} \/ ByContentHash(d) # {} \/ BySimhash(d) # {}
Hittable(d) == ByExternalKey(d) # {} \/ ByCanonicalUrl(d) # {} \/ ByContentHash(d) # {} \/ Similar(d) # {}

Excused(d) == d \in drifted \cup doubted
Group(hit) == IF hit = None THEN Unclaimed ELSE hit

\* What is recorded about d.
RecordOf(d) ==
  /\ groups[d] # Unclaimed => d \in Present /\ Hittable(d)
  /\ claims[d] # Unclaimed => /\ documents[d].duplicate_of = claims[d]
                              /\ groups[d] = Group(claims[d])
  /\ completed[d] # Unclaimed => claims[d] = completed[d]
VerdictOf(d) == ~Excused(d) => RecordOf(d)

\* What a worker is about to record.
IntentOf(w) ==
  /\ dw[w].pc \in {"resolve", "group", "put", "claim"} => claims[Doc(w)] = Unclaimed
  /\ dw[w].pc \in {"resolve", "group", "put", "claim"} /\ dw[w].hit # None => Hittable(Doc(w))
  /\ dw[w].pc \in {"put", "claim"} => groups[Doc(w)] = Group(dw[w].hit)
  /\ dw[w].pc = "claim" => documents[Doc(w)].duplicate_of = dw[w].hit
  /\ dw[w].pc = "publish" => claims[Doc(w)] = dw[w].hit
WorkOf(w) == Judged(w) /\ ~Excused(Doc(w)) => IntentOf(w)

VerdictInv == (\A d \in Ids : VerdictOf(d)) /\ \A w \in Deduplicators : WorkOf(w)

------------------------------------------------------------------------------
(* Constants, and what the records of the workers tell apart. *)

\* Facts about the constants.
LEMMA Constants ==
  /\ MaxId \in Nat /\ MaxFaults \in Nat /\ MaxChainDepth \in Nat /\ MaxChainDepth >= 1
  /\ Supported \subseteq Raws
  /\ \A d \in Ids : d \in Nat /\ 1 <= d /\ d <= MaxId /\ d # None /\ d # Unclaimed
  /\ None # Unclaimed /\ None \notin Rows
<1>1. None \notin Int /\ MaxId \in Nat /\ MaxFaults \in Nat /\ Supported \subseteq Raws
  BY NormalizerAssumption
<1>2. MaxChainDepth \in Nat \ {0} /\ None \notin Rows
  BY DeduplicatorAssumption
<1>3. \A d \in Ids : d \in Nat /\ 1 <= d /\ d <= MaxId /\ d # None /\ d # Unclaimed
  BY <1>1 DEF Ids, Unclaimed
<1> QED BY <1>1, <1>2, <1>3 DEF Unclaimed

\* What an evidence yields.
LEMMA ItemsTyped ==
  ASSUME NEW r \in Supported
  PROVE  /\ Items[r] \in Seq(Contents) /\ Len(Items[r]) \in Nat
         /\ DOMAIN Items[r] = 1 .. Len(Items[r])
         /\ \A i \in 1 .. Len(Items[r]) : Items[r][i] \in Contents
<1>1. Items[r] \in Seq(Contents)
  BY NormalizerAssumption
<1> QED BY <1>1

\* A list of ids is told from its absence.
LEMMA BatchIsSome ==
  ASSUME NEW ids \in Seq(Ids), Len(ids) <= MaxId
  PROVE  ids # None
<1>1. ids \in [1 .. Len(ids) -> Ids] /\ Len(ids) \in 0 .. MaxId
  BY NormalizerAssumption
<1> QED BY <1>1, NormalizerAssumption

LEMMA NewDocumentRow ==
  ASSUME NEW r \in Supported, NEW i \in 1 .. Len(Items[r])
  PROVE  /\ NewDocument(r, Items[r][i]) \in Rows
         /\ NewDocument(r, Items[r][i]) # None
         /\ NewDocument(r, Items[r][i]).raw = r
         /\ NewDocument(r, Items[r][i]).content = Items[r][i]
         /\ NewDocument(r, Items[r][i]).duplicate_of = None
         /\ NewDocument(r, Items[r][i]).url = Items[r][i].rawUrl
<1>1. Items[r][i] \in Contents /\ r \in Raws
  BY ItemsTyped, Constants
<1>2. NewDocument(r, Items[r][i]) \in Rows
  BY <1>1 DEF NewDocument, Rows
<1> QED BY <1>2, Constants DEF NewDocument

\* Where a normalizer is tells what it holds.
LEMMA Builder ==
  ASSUME WorkersTyped, NEW w \in Normalizers
  PROVE  /\ nw[w] \in {Idle} \cup Building
         /\ nw[w] # Idle <=> nw[w] \in Building
         /\ nw[w].pc \in {"persist", "publish"} <=> nw[w] \in Building
         /\ nw[w] \in Building => /\ nw[w].raw \in Supported /\ nw[w].raw \in Raws
                                  /\ nw[w].ids \in Seq(Ids)
                                  /\ nw[w].pc \in {"persist", "publish"}
<1>1. nw[w] \in {Idle} \cup Building
  BY DEF WorkersTyped
<1>2. Idle.pc = "idle"
  BY DEF Idle
<1>3. \A x \in Building : /\ x.pc \in {"persist", "publish"} /\ x.raw \in Supported /\ x.ids \in Seq(Ids)
                          /\ x # Idle
  BY <1>2 DEF Building
<1> QED BY <1>1, <1>2, <1>3, Constants

\* Where a deduplicator is tells what it holds.
LEMMA Holder ==
  ASSUME WorkersTyped, NEW w \in Deduplicators
  PROVE  /\ dw[w] \in {Idle} \cup Reading \cup Judging
         /\ dw[w] # Idle <=> dw[w] \in Reading \cup Judging
         /\ dw[w].pc = "next" <=> dw[w] \in Reading
         /\ Judged(w) <=> dw[w] \in Judging
         /\ dw[w].pc \in {"resolve", "group", "put", "claim", "publish"} <=> dw[w] \in Judging
         /\ dw[w] \in Reading \cup Judging => dw[w].raw \in Raws /\ dw[w].todo \in Seq(Ids)
         /\ dw[w] \in Judging => /\ dw[w].todo # << >>
                                 /\ dw[w].pc \in {"resolve", "group"} => dw[w].hit # None
                                 /\ dw[w].row \in Rows /\ dw[w].hit \in Ids \cup {None}
                                 /\ dw[w].unseen \in SUBSET Ids
<1>1. dw[w] \in {Idle} \cup Reading \cup Judging
      /\ (dw[w] \in Judging => dw[w].todo # << >> /\ (dw[w].pc \in {"resolve", "group"} => dw[w].hit # None))
  BY DEF WorkersTyped
<1>2. Idle.pc = "idle"
  BY DEF Idle
<1>3. \A x \in Reading : x.pc = "next" /\ x.raw \in Raws /\ x.todo \in Seq(Ids) /\ x # Idle
  BY <1>2 DEF Reading
<1>4. \A x \in Judging : /\ x.pc \in {"resolve", "group", "put", "claim", "publish"} /\ x.raw \in Raws
                         /\ x.todo \in Seq(Ids) /\ x.row \in Rows /\ x.hit \in Ids \cup {None}
                         /\ x.unseen \in SUBSET Ids /\ x # Idle
  BY <1>2 DEF Judging
<1> QED BY <1>1, <1>2, <1>3, <1>4 DEF Judged

\* The document in hand, and the rest.
LEMMA HeadTail ==
  ASSUME NEW s \in Seq(Ids), s # << >>
  PROVE  /\ Head(s) \in Ids /\ Tail(s) \in Seq(Ids)
         /\ 1 \in DOMAIN s /\ Head(s) = s[1]
         /\ \A i \in DOMAIN Tail(s) : i + 1 \in DOMAIN s /\ Tail(s)[i] = s[i + 1]
  OBVIOUS


------------------------------------------------------------------------------
(* The steps of the normalizer. *)

\* Rows stay, with their evidence and content, and their keys once they are there.
RowsStay ==
  \A d \in Present :
    /\ documents'[d] # None
    /\ documents'[d].raw = documents[d].raw
    /\ documents'[d].content = documents[d].content
    /\ documents[d].keyed => documents'[d].keyed
    /\ \/ documents'[d].url = documents[d].url
       \/ documents[d].content.url # None /\ documents'[d].url = documents[d].content.url

LEMMA RowsStayUnchanged ==
  ASSUME documents' = documents
  PROVE  RowsStay
  BY DEF RowsStay, Present

\* The transaction of persist_documents adds the rows of the claim and no others.
Written(w) ==
  LET r == nw[w].raw
      ids == nw[w].ids
  IN /\ normalized[r] = None
     /\ normalized' = [normalized EXCEPT ![r] = ids]
     /\ nw' = [nw EXCEPT ![w].pc = "publish"]
     /\ documents' \in [Ids -> Rows \cup {None}]
     /\ \A i \in DOMAIN ids : documents'[ids[i]] = NewDocument(r, Items[r][i])
     /\ \A d \in Ids : (\A i \in DOMAIN ids : ids[i] # d) => documents'[d] = documents[d]

LEMMA PersistWrites ==
  ASSUME BaseInv, NEW w \in Normalizers, PersistDocuments(w), normalized[nw[w].raw] = None
  PROVE  Written(w)
<1> DEFINE r == nw[w].raw
           ids == nw[w].ids
           at(d) == CHOOSE i \in DOMAIN ids : ids[i] = d
<1>1. r \in Supported /\ ids \in Seq(Ids) /\ nw[w] # Idle
  BY Builder DEF BaseInv, PersistDocuments
<1>2. IsBatch(r, ids)
  BY <1>1 DEF BaseInv, NormalizerInv, BuildOf
<1>3. Len(ids) \in Nat /\ DOMAIN ids = 1 .. Len(ids) /\ Len(ids) = Len(Items[r])
  BY <1>1, <1>2 DEF IsBatch
<1>4. \A i, j \in DOMAIN ids : ids[i] = ids[j] => i = j
  BY <1>2 DEF IsBatch
<1>5. documents' = [d \in Ids |-> IF \E i \in DOMAIN ids : ids[i] = d
                                    THEN NewDocument(r, Items[r][at(d)]) ELSE documents[d]]
  BY DEF PersistDocuments
<1>6. \A i \in DOMAIN ids : at(ids[i]) = i
  BY <1>4
<1>7. \A d \in Ids : (\E i \in DOMAIN ids : ids[i] = d) => at(d) \in DOMAIN ids
  OBVIOUS
<1> HIDE DEF at, r, ids
<1>8. \A i \in DOMAIN ids : NewDocument(r, Items[r][i]) \in Rows
  BY <1>1, <1>3, NewDocumentRow
<1>9. documents \in [Ids -> Rows \cup {None}]
  BY DEF BaseInv, TypeOK
<1>10. documents' \in [Ids -> Rows \cup {None}]
  BY <1>5, <1>7, <1>8, <1>9
<1>11. \A i \in DOMAIN ids : ids[i] \in Ids
  BY <1>1
<1>12. \A i \in DOMAIN ids : documents'[ids[i]] = NewDocument(r, Items[r][i])
  BY <1>5, <1>6, <1>11
<1>13. \A d \in Ids : (\A i \in DOMAIN ids : ids[i] # d) => documents'[d] = documents[d]
  BY <1>5
<1> QED BY <1>10, <1>12, <1>13 DEF Written, PersistDocuments, r, ids

\* What the normalizer writes keeps the types.
LEMMA NormalizerTypes ==
  ASSUME BaseInv, NormalizerNext, UNCHANGED dedupVars
  PROVE  TypeOK' /\ WorkersTyped' /\ normalized' \in [Raws -> Seq(Ids) \cup {None}]
<1> USE DEF BaseInv
<1>1. inbox \in [Raws -> {"queued", "failed", "lost", "done"}] /\ events \in [Raws -> {"none", "queued", "done"}]
      /\ nextId \in 1 .. MaxId + 1 /\ unannounced \subseteq Raws /\ faults \in 0 .. MaxFaults
      /\ documents \in [Ids -> Rows \cup {None}] /\ nw \in [Normalizers -> {Idle} \cup Building]
      /\ normalized \in [Raws -> Seq(Ids) \cup {None}]
  BY DEF TypeOK, WorkersTyped, NormalizerInv
<1> DEFINE goal == /\ inbox' \in [Raws -> {"queued", "failed", "lost", "done"}]
                   /\ events' \in [Raws -> {"none", "queued", "done"}]
                   /\ nextId' \in 1 .. MaxId + 1 /\ unannounced' \subseteq Raws /\ faults' \in 0 .. MaxFaults
                   /\ documents' \in [Ids -> Rows \cup {None}] /\ nw' \in [Normalizers -> {Idle} \cup Building]
                   /\ normalized' \in [Raws -> Seq(Ids) \cup {None}]
<1>2. ASSUME goal PROVE TypeOK' /\ WorkersTyped' /\ normalized' \in [Raws -> Seq(Ids) \cup {None}]
  BY <1>2 DEF TypeOK, WorkersTyped, dedupVars
<1>3. ASSUME NEW w \in Normalizers, NEW r \in Raws, NormalizeSkips(w, r) PROVE goal
  BY <1>1, <1>3 DEF NormalizeSkips, Done
<1>4. ASSUME NEW w \in Normalizers, NEW r \in Raws, NormalizeRaw(w, r) PROVE goal
  <2> DEFINE n == Len(Items[r])
             ids == [i \in 1 .. n |-> nextId + i - 1]
  <2>1. r \in Supported /\ n \in Nat /\ nextId + n - 1 <= MaxId /\ nextId' = nextId + n
        /\ faults' <= MaxFaults /\ faults' \in {faults, faults + 1}
        /\ nw' = [nw EXCEPT ![w] = [pc |-> "persist", raw |-> r, ids |-> ids]]
    BY <1>4, ItemsTyped DEF NormalizeRaw
  <2>2. \A i \in 1 .. n : nextId + i - 1 \in Ids
    BY <1>1, <2>1, Constants DEF Ids
  <2>3. ids \in Seq(Ids)
    BY <2>1, <2>2
  <2>4. [pc |-> "persist", raw |-> r, ids |-> ids] \in Building
    BY <2>1, <2>3 DEF Building
  <2>5. nextId' \in 1 .. MaxId + 1 /\ faults' \in 0 .. MaxFaults
    BY <1>1, <2>1, Constants
  <2> HIDE DEF n, ids
  <2>6. nw' \in [Normalizers -> {Idle} \cup Building]
    BY <1>1, <2>1, <2>4
  <2> QED BY <1>1, <1>4, <2>5, <2>6 DEF NormalizeRaw
<1>5. ASSUME NEW w \in Normalizers, PersistDocuments(w) PROVE goal
  <2>1. nw[w] \in Building /\ nw[w].raw \in Raws /\ nw[w].ids \in Seq(Ids)
    BY <1>5, Builder DEF PersistDocuments
  <2>2. CASE normalized[nw[w].raw] = None
    <3>1. Written(w)
      BY <1>5, <2>2, PersistWrites
    <3>2. [nw[w] EXCEPT !.pc = "publish"] \in Building
      BY <2>1 DEF Building
    <3>3. nw' \in [Normalizers -> {Idle} \cup Building]
      BY <1>1, <3>1, <3>2 DEF Written
    <3>4. normalized' \in [Raws -> Seq(Ids) \cup {None}] /\ documents' \in [Ids -> Rows \cup {None}]
      BY <1>1, <2>1, <3>1 DEF Written
    <3>5. UNCHANGED <<inbox, events, nextId, unannounced, faults>>
      BY <1>5, <2>2 DEF PersistDocuments
    <3> QED BY <1>1, <3>3, <3>4, <3>5
  <2>3. CASE normalized[nw[w].raw] # None
    <3>1. nw' = [nw EXCEPT ![w] = Idle] /\ Done(nw[w].raw)
          /\ UNCHANGED <<documents, normalized, events, nextId, unannounced, faults>>
      BY <1>5, <2>3 DEF PersistDocuments
    <3> QED BY <1>1, <2>1, <3>1 DEF Done
  <2> QED BY <2>2, <2>3
<1>6. ASSUME NEW w \in Normalizers, PublishNormalized(w) PROVE goal
  <2>1. nw[w].raw \in Raws
    BY <1>6, Builder DEF PublishNormalized
  <2> QED BY <1>1, <1>6, <2>1 DEF PublishNormalized, Done
<1>7. ASSUME NEW w \in Normalizers, NormalizeErr(w) \/ NormalizerCrash(w) PROVE goal
  <2>1. nw[w].raw \in Raws
    BY <1>7, Builder DEF NormalizeErr, NormalizerCrash
  <2>2. LeftBehind(w) \subseteq Raws
    BY <2>1 DEF LeftBehind
  <2>3. faults' \in 0 .. MaxFaults
    BY <1>1, <1>7, Constants DEF NormalizeErr, NormalizerCrash
  <2> QED BY <1>1, <1>7, <2>1, <2>2, <2>3 DEF NormalizeErr, NormalizerCrash
<1>8. ASSUME NEW r \in Raws, ReplayRaw(r) PROVE goal
  BY <1>1, <1>8 DEF ReplayRaw
<1> HIDE DEF goal
<1> QED BY <1>2, <1>3, <1>4, <1>5, <1>6, <1>7, <1>8 DEF NormalizerNext, NormalizerStep


\* Everything NormalizerInv says but the type.
ClaimsHold ==
  /\ DocumentsOfClaim
  /\ \A r \in Raws : ClaimOf(r)
  /\ \A w \in Normalizers : BuildOf(w)
  /\ \A v, w \in Normalizers : Apart(v, w)

LEMMA BatchStays ==
  ASSUME NEW r, NEW ids, IsBatch(r, ids), nextId \in Nat, nextId' \in Nat, nextId' >= nextId
  PROVE  IsBatch(r, ids)'
<1>1. \A i \in DOMAIN ids : ids[i] \in Nat
  BY Constants DEF IsBatch
<1>2. \A i \in DOMAIN ids : ids[i] < nextId'
  BY <1>1 DEF IsBatch
<1> QED BY <1>2 DEF IsBatch

LEMMA BatchNotNone ==
  ASSUME NEW r, NEW ids, IsBatch(r, ids)
  PROVE  ids # None
<1>1. ids \in Seq(Ids) /\ \A i, j \in DOMAIN ids : ids[i] = ids[j] => i = j
  BY DEF IsBatch
<1>2. ids \in [1 .. Len(ids) -> Ids] /\ Len(ids) \in Nat /\ DOMAIN ids = 1 .. Len(ids)
  BY <1>1
<1>3. MaxId \in Nat
  BY Constants
<1>4. IsFiniteSet(1 .. Len(ids)) /\ Cardinality(1 .. Len(ids)) = Len(ids)
  <2>1. PICK n \in Nat : n = Len(ids)
    BY <1>2
  <2>2. IsFiniteSet(1 .. n) /\ Cardinality(1 .. n) = IF 1 > n THEN 0 ELSE n - 1 + 1
    BY FS_Interval
  <2> QED BY <2>1, <2>2
<1>5. IsFiniteSet(Ids) /\ Cardinality(Ids) = MaxId
  BY <1>3, FS_Interval DEF Ids
<1>6. ~(MaxId < Len(ids))
  BY <1>1, <1>2, <1>4, <1>5, FS_PigeonHole
<1> QED BY <1>1, <1>2, <1>3, <1>6, BatchIsSome

LEMMA NextIdNat == BaseInv => nextId \in Nat
  BY Constants DEF BaseInv, TypeOK

\* A step that adds no row and no claim.
LEMMA QuietKeeps ==
  ASSUME BaseInv, RowsStay, Present' \subseteq Present, normalized' = normalized, nextId' = nextId,
         \A w \in Normalizers : nw'[w] = nw[w] \/ nw'[w] = Idle,
         \A r \in Raws : events'[r] # "none" => normalized[r] # None
  PROVE  ClaimsHold'
<1>1. \A r, ids : IsBatch(r, ids) => IsBatch(r, ids)'
  BY DEF IsBatch
<1>2. \A r \in Raws : ClaimOf(r)'
  BY <1>1 DEF BaseInv, NormalizerInv, ClaimOf
<1>3. DocumentsOfClaim'
  <2>1. DocumentsOfClaim
    BY DEF BaseInv, NormalizerInv
  <2>2. ASSUME NEW d \in Present' 
        PROVE  LET ids == normalized'[documents'[d].raw] IN ids # None /\ \E i \in DOMAIN ids : ids[i] = d
    <3>1. d \in Present /\ documents'[d].raw = documents[d].raw
      BY <2>2 DEF RowsStay
    <3> QED BY <2>1, <3>1 DEF DocumentsOfClaim
  <2>3. ASSUME NEW r \in Raws, normalized'[r] # None, NEW i \in DOMAIN normalized'[r]
        PROVE  normalized'[r][i] \in Present' /\ documents'[normalized'[r][i]].raw = r
               /\ documents'[normalized'[r][i]].content = Items[r][i]
    <3>1. normalized[r][i] \in Present /\ documents[normalized[r][i]].raw = r
          /\ documents[normalized[r][i]].content = Items[r][i]
      BY <2>1, <2>3 DEF DocumentsOfClaim
    <3> QED BY <3>1 DEF RowsStay, Present
  <2> QED BY <2>2, <2>3 DEF DocumentsOfClaim
<1>4. ASSUME NEW w \in Normalizers PROVE BuildOf(w)'
  <2>1. CASE nw'[w] = Idle
    BY <2>1 DEF BuildOf, Idle
  <2>2. CASE nw'[w] = nw[w] /\ nw[w] # Idle
    <3>1. nw[w].ids \in Seq(Ids) /\ BuildOf(w)
      BY <2>2, Builder DEF BaseInv, NormalizerInv
    <3>2. \A i \in DOMAIN nw[w].ids : nw[w].ids[i] \in Ids
      BY <3>1
    <3>3. \A d \in Ids : documents[d] = None => documents'[d] = None
      BY DEF Present
    <3> QED BY <1>1, <2>2, <3>1, <3>2, <3>3 DEF BuildOf
  <2> QED BY <2>1, <2>2
<1>5. ASSUME NEW v \in Normalizers, NEW w \in Normalizers PROVE Apart(v, w)'
  <2>1. Idle.pc # "persist"
    BY DEF Idle
  <2> QED BY <2>1 DEF BaseInv, NormalizerInv, Apart
<1> QED BY <1>2, <1>3, <1>4, <1>5 DEF ClaimsHold

\* NormalizeRaw hands out ids nobody has.
LEMMA BuildKeeps ==
  ASSUME BaseInv, NEW w \in Normalizers, NEW r \in Raws, NormalizeRaw(w, r)
  PROVE  ClaimsHold'
<1> DEFINE n == Len(Items[r])
           ids == [i \in 1 .. n |-> nextId + i - 1]
<1>1. r \in Supported /\ n \in Nat /\ nextId + n - 1 <= MaxId /\ nextId' = nextId + n
      /\ nw' = [nw EXCEPT ![w] = [pc |-> "persist", raw |-> r, ids |-> ids]]
      /\ UNCHANGED <<documents, normalized, events>>
  BY ItemsTyped DEF NormalizeRaw
<1>2. nextId \in Nat /\ nextId >= 1 /\ nw \in [Normalizers -> {Idle} \cup Building]
  BY Constants DEF BaseInv, TypeOK, WorkersTyped
<1>3. nextId' \in Nat /\ nextId' >= nextId
  BY <1>1, <1>2
<1>4. \A q, s : IsBatch(q, s) => IsBatch(q, s)'
  BY <1>2, <1>3, BatchStays
<1>5. \A q \in Raws : ClaimOf(q)'
  BY <1>1, <1>4 DEF BaseInv, NormalizerInv, ClaimOf
<1>6. DocumentsOfClaim'
  BY <1>1 DEF BaseInv, NormalizerInv, DocumentsOfClaim, Present
<1>7. ids \in Seq(Ids) /\ DOMAIN ids = 1 .. n /\ Len(ids) = n
      /\ \A i \in 1 .. n : ids[i] = nextId + i - 1 /\ ids[i] \in Ids
  <2>1. \A i \in 1 .. n : nextId + i - 1 \in Ids
    BY <1>1, <1>2, Constants DEF Ids
  <2> QED BY <1>1, <2>1
<1>8. \A d \in Present : d < nextId
  <2>1. ASSUME NEW d \in Present PROVE d < nextId
    <3>1. PICK q : q = documents[d].raw OBVIOUS
    <3>2. documents[d] \in Rows
      BY DEF BaseInv, TypeOK, Present
    <3>3. q \in Raws
      BY <3>1, <3>2 DEF Rows
    <3>4. normalized[q] # None /\ \E i \in DOMAIN normalized[q] : normalized[q][i] = d
      BY <3>1 DEF BaseInv, NormalizerInv, DocumentsOfClaim
    <3>5. IsBatch(q, normalized[q])
      BY <3>3, <3>4 DEF BaseInv, NormalizerInv, ClaimOf
    <3> QED BY <3>4, <3>5 DEF IsBatch
  <2> QED BY <2>1
<1>0. PICK b : b = ids OBVIOUS
<1> HIDE DEF ids, n
<1>9. \A v \in Normalizers : v # w => nw'[v] = nw[v]
  BY <1>1, <1>2
<1>10. nw'[w] = [pc |-> "persist", raw |-> r, ids |-> b]
  BY <1>0, <1>1, <1>2
<1>11. \A i \in 1 .. n : nextId <= b[i] /\ b[i] < nextId' /\ b[i] \in Nat
  BY <1>0, <1>1, <1>2, <1>7
<1>12. ASSUME NEW v \in Normalizers PROVE BuildOf(v)'
  <2>1. CASE v = w
    <3>1. IsBatch(r, b)'
      <4>1. \A i, j \in DOMAIN b : b[i] = b[j] => i = j
        BY <1>2, <1>0, <1>7
      <4> QED BY <1>0, <1>7, <1>11, <4>1 DEF IsBatch, n
    <3>2. \A i \in DOMAIN b : documents'[b[i]] = None
      <4>1. ASSUME NEW i \in 1 .. n PROVE documents'[b[i]] = None
        <5>1. b[i] \in Ids /\ ~(b[i] < nextId)
          BY <1>2, <1>0, <1>7, <1>11
        <5> QED BY <1>1, <1>8, <5>1 DEF Present
      <4> QED BY <1>0, <1>7, <4>1
    <3> QED BY <1>10, <2>1, <3>1, <3>2 DEF BuildOf
  <2>2. CASE v # w
    <3>1. BuildOf(v)
      BY DEF BaseInv, NormalizerInv
    <3> QED BY <1>1, <1>4, <1>9, <2>2, <3>1 DEF BuildOf
  <2> QED BY <2>1, <2>2
<1>13. ASSUME NEW v \in Normalizers, v # w, nw[v].pc = "persist",
              NEW i \in DOMAIN nw[v].ids, NEW j \in 1 .. n
       PROVE  nw[v].ids[i] # b[j]
  <2>1. IsBatch(nw[v].raw, nw[v].ids)
    BY <1>13, Builder DEF BaseInv, NormalizerInv, BuildOf
  <2>2. nw[v].ids[i] < nextId /\ nw[v].ids[i] \in Nat
    BY <2>1, Constants DEF IsBatch
  <2> QED BY <1>2, <1>11, <2>2
<1>14. ASSUME NEW u \in Normalizers, NEW v \in Normalizers PROVE Apart(u, v)'
  <2>1. Apart(u, v)
    BY DEF BaseInv, NormalizerInv
  <2>2. CASE u # w /\ v # w
    BY <1>9, <2>1, <2>2 DEF Apart
  <2>3. CASE u = w /\ v # w
    BY <1>0, <1>7, <1>9, <1>10, <1>13, <2>3 DEF Apart
  <2>4. CASE u # w /\ v = w
    BY <1>0, <1>7, <1>9, <1>10, <1>13, <2>4 DEF Apart
  <2>5. CASE u = v
    BY <2>5 DEF Apart
  <2> QED BY <2>2, <2>3, <2>4, <2>5
<1> QED BY <1>5, <1>6, <1>12, <1>14 DEF ClaimsHold

\* persist_documents turns the batch of one normalizer into the claim.
LEMMA PersistKeeps ==
  ASSUME BaseInv, NEW w \in Normalizers, nw[w].pc = "persist", Written(w),
         UNCHANGED <<events, nextId>>
  PROVE  ClaimsHold'
<1> PICK r : r = nw[w].raw OBVIOUS
<1> PICK ids : ids = nw[w].ids OBVIOUS
<1>1. nw[w] \in Building /\ nw[w] # Idle /\ r \in Supported /\ r \in Raws /\ ids \in Seq(Ids)
  BY Builder DEF BaseInv
<1>2. IsBatch(r, ids) /\ \A i \in DOMAIN ids : documents[ids[i]] = None
  BY <1>1 DEF BaseInv, NormalizerInv, BuildOf
<1>3. /\ normalized[r] = None
      /\ normalized' = [normalized EXCEPT ![r] = ids]
      /\ nw' = [nw EXCEPT ![w].pc = "publish"]
      /\ \A i \in DOMAIN ids : documents'[ids[i]] = NewDocument(r, Items[r][i])
      /\ \A d \in Ids : (\A i \in DOMAIN ids : ids[i] # d) => documents'[d] = documents[d]
  BY DEF Written
<1>4. normalized \in [Raws -> Seq(Ids) \cup {None}] /\ nw \in [Normalizers -> {Idle} \cup Building]
  BY DEF BaseInv, NormalizerInv, WorkersTyped
<1>5. normalized'[r] = ids /\ \A q \in Raws : q # r => normalized'[q] = normalized[q]
  BY <1>1, <1>3, <1>4
<1>6. nw'[w] = [nw[w] EXCEPT !.pc = "publish"] /\ \A v \in Normalizers : v # w => nw'[v] = nw[v]
  BY <1>3, <1>4
<1>7. nw'[w].pc = "publish" /\ nw'[w].raw = r /\ nw'[w].ids = ids
  BY <1>1, <1>6 DEF Building
<1>8. DOMAIN ids = 1 .. Len(Items[r]) /\ Len(Items[r]) \in Nat /\ \A i \in DOMAIN ids : ids[i] \in Ids
  BY <1>1, <1>2 DEF IsBatch
<1>9. \A i \in DOMAIN ids : documents'[ids[i]] # None /\ documents'[ids[i]].raw = r
                            /\ documents'[ids[i]].content = Items[r][i]
  BY <1>1, <1>3, <1>8, NewDocumentRow
<1>10. \A q, s : IsBatch(q, s) => IsBatch(q, s)'
  BY DEF IsBatch
<1>11. ASSUME NEW q \in Raws PROVE ClaimOf(q)'
  <2>1. ClaimOf(q)
    BY DEF BaseInv, NormalizerInv
  <2>2. CASE q = r
    BY <1>1, <1>2, <1>3, <1>5, <1>10, <2>1, <2>2 DEF ClaimOf
  <2>3. CASE q # r
    BY <1>5, <1>10, <2>1, <2>3 DEF ClaimOf
  <2> QED BY <2>2, <2>3
<1>12. DocumentsOfClaim
  BY DEF BaseInv, NormalizerInv
<1>13. DocumentsOfClaim'
  <2>1. ASSUME NEW d \in Present'
        PROVE  LET s == normalized'[documents'[d].raw] IN s # None /\ \E i \in DOMAIN s : s[i] = d
    <3>1. CASE \E i \in DOMAIN ids : ids[i] = d
      <4>1. PICK i \in DOMAIN ids : ids[i] = d
        BY <3>1
      <4>2. documents'[d].raw = r /\ normalized'[r] = ids
        BY <1>5, <1>9, <4>1
      <4>3. ids # None
        BY <1>2, BatchNotNone
      <4> QED BY <4>1, <4>2, <4>3
    <3>2. CASE \A i \in DOMAIN ids : ids[i] # d
      <4>1. documents'[d] = documents[d] /\ d \in Present
        BY <1>3, <2>1, <3>2 DEF Present
      <4>2. documents[d].raw \in Raws
        BY <4>1 DEF BaseInv, TypeOK, Present, Rows
      <4>3. normalized[documents[d].raw] # None
            /\ \E i \in DOMAIN normalized[documents[d].raw] : normalized[documents[d].raw][i] = d
        BY <1>12, <4>1 DEF DocumentsOfClaim
      <4>4. documents[d].raw # r
        BY <1>3, <4>3
      <4> QED BY <1>5, <4>1, <4>2, <4>3, <4>4
    <3> QED BY <3>1, <3>2
  <2>2. ASSUME NEW q \in Raws, normalized'[q] # None, NEW i \in DOMAIN normalized'[q]
        PROVE  normalized'[q][i] \in Present' /\ documents'[normalized'[q][i]].raw = q
               /\ documents'[normalized'[q][i]].content = Items[q][i]
    <3>1. CASE q = r
      BY <1>5, <1>8, <1>9, <2>2, <3>1 DEF Present
    <3>2. CASE q # r
      <4>1. normalized'[q] = normalized[q]
        BY <1>5, <3>2
      <4>2. normalized[q][i] \in Present /\ documents[normalized[q][i]].raw = q
            /\ documents[normalized[q][i]].content = Items[q][i]
        BY <1>12, <2>2, <4>1 DEF DocumentsOfClaim
      <4>3. documents'[normalized[q][i]] = documents[normalized[q][i]]
        BY <1>2, <1>3, <4>2 DEF Present
      <4> QED BY <4>1, <4>2, <4>3 DEF Present
    <3> QED BY <3>1, <3>2
  <2> QED BY <2>1, <2>2 DEF DocumentsOfClaim
<1>14. ASSUME NEW v \in Normalizers PROVE BuildOf(v)'
  <2>1. CASE v = w
    BY <1>2, <1>5, <1>7, <1>10, <2>1 DEF BuildOf
  <2>2. CASE v # w /\ nw[v] # Idle
    <3>1. nw'[v] = nw[v] /\ BuildOf(v) /\ nw[v] \in Building /\ nw[v].ids \in Seq(Ids) /\ nw[v].raw \in Raws
      BY <1>6, <2>2, Builder DEF BaseInv, NormalizerInv
    <3>2. IsBatch(nw[v].raw, nw[v].ids)'
      BY <1>10, <2>2, <3>1 DEF BuildOf
    <3>3. ASSUME nw[v].pc = "persist", NEW i \in DOMAIN nw[v].ids PROVE documents'[nw[v].ids[i]] = None
      <4>1. Apart(v, w)
        BY DEF BaseInv, NormalizerInv
      <4>2. \A j \in DOMAIN ids : nw[v].ids[i] # ids[j]
        BY <2>2, <3>3, <4>1 DEF Apart
      <4>3. documents[nw[v].ids[i]] = None /\ nw[v].ids[i] \in Ids
        BY <2>2, <3>1, <3>3 DEF BuildOf
      <4> QED BY <1>3, <4>2, <4>3
    <3>4. ASSUME nw[v].pc = "publish" PROVE normalized'[nw[v].raw] = nw[v].ids
      <4>1. normalized[nw[v].raw] = nw[v].ids
        BY <2>2, <3>1, <3>4 DEF BuildOf
      <4>2. nw[v].ids # None
        BY <2>2, <3>1, BatchNotNone DEF BuildOf
      <4> QED BY <1>3, <1>5, <3>1, <4>1, <4>2
    <3> QED BY <3>1, <3>2, <3>3, <3>4 DEF BuildOf
  <2>3. CASE v # w /\ nw[v] = Idle
    BY <1>6, <2>3 DEF BuildOf
  <2> QED BY <2>1, <2>2, <2>3
<1>15. ASSUME NEW u \in Normalizers, NEW v \in Normalizers PROVE Apart(u, v)'
  <2>1. Apart(u, v)
    BY DEF BaseInv, NormalizerInv
  <2>2. CASE u = w \/ v = w
    BY <1>7, <2>2 DEF Apart
  <2>3. CASE u # w /\ v # w
    BY <1>6, <2>1, <2>3 DEF Apart
  <2> QED BY <2>2, <2>3
<1> QED BY <1>11, <1>13, <1>14, <1>15 DEF ClaimsHold


ClaimsStay == \A r \in Raws : normalized[r] # None => normalized'[r] # None

\* A deduplicator that does not move keeps what it holds.
LEMMA HandStays ==
  ASSUME WorkersTyped, RowsStay, ClaimsStay, NEW w \in Deduplicators, HandOf(w), dw'[w] = dw[w]
  PROVE  HandOf(w)'
<1>1. CASE dw[w] = Idle
  BY <1>1 DEF HandOf
<1>2. CASE dw[w] # Idle
  <2>1. \A i \in DOMAIN dw[w].todo : dw[w].todo[i] \in Present' /\ documents'[dw[w].todo[i]].raw = dw[w].raw
    BY <1>2 DEF HandOf, RowsStay, Present
  <2>2. ASSUME dw[w].pc # "next" PROVE /\ dw[w].row.content = documents'[Doc(w)].content
                                       /\ dw[w].row.raw = documents'[Doc(w)].raw
                                       /\ dw[w].row.content.url = None => dw[w].row.url = documents'[Doc(w)].url
                                       /\ dw[w].hit # None => dw[w].hit \in Present'
    <3>1. dw[w].todo \in Seq(Ids) /\ dw[w].todo # << >>
      BY <1>2, <2>2, Holder
    <3>2. Doc(w) \in Present
      BY <1>2, <3>1, HeadTail DEF HandOf, Doc
    <3> QED BY <1>2, <2>2, <3>2 DEF HandOf, RowsStay, Present
  <2>3. Doc(w)' = Doc(w)
    BY DEF Doc
  <2>4. normalized'[dw[w].raw] # None
    BY <1>2, Holder DEF HandOf, ClaimsStay
  <2> QED BY <1>2, <2>1, <2>2, <2>3, <2>4 DEF HandOf
<1> QED BY <1>1, <1>2

\* Rows that are there stay as they are; new ones are canonical so far.
RowsAdded ==
  /\ \A d \in Present : documents'[d] = documents[d]
  /\ \A d \in Present' \ Present : documents'[d].duplicate_of = None

LEMMA PersistRowsAdded ==
  ASSUME BaseInv, NEW w \in Normalizers, nw[w].pc = "persist", Written(w)
  PROVE  RowsAdded
<1>1. nw[w] # Idle /\ nw[w].raw \in Supported /\ nw[w].ids \in Seq(Ids)
  BY Builder DEF BaseInv
<1>2. IsBatch(nw[w].raw, nw[w].ids) /\ \A i \in DOMAIN nw[w].ids : documents[nw[w].ids[i]] = None
  BY <1>1 DEF BaseInv, NormalizerInv, BuildOf
<1>3. \A d \in Present : documents'[d] = documents[d]
  BY <1>2 DEF Written, Present
<1>4. ASSUME NEW d \in Present', d \notin Present
      PROVE  documents'[d].duplicate_of = None
  <2>1. PICK i \in DOMAIN nw[w].ids : nw[w].ids[i] = d
    BY <1>4 DEF Written, Present
  <2>2. i \in 1 .. Len(Items[nw[w].raw])
    BY <1>1, <1>2 DEF IsBatch
  <2> QED BY <1>1, <2>1, <2>2, NewDocumentRow DEF Written
<1> QED BY <1>3, <1>4 DEF RowsAdded

\* The normalizer keeps the claims and the rows.
LEMMA NormalizerClaims ==
  ASSUME BaseInv, NormalizerNext
  PROVE  ClaimsHold' /\ RowsAdded /\ ClaimsStay
<1> DEFINE goal == ClaimsHold' /\ RowsAdded /\ ClaimsStay
           quiet == /\ UNCHANGED <<documents, normalized, nextId>>
                    /\ \A w \in Normalizers : nw'[w] = nw[w] \/ nw'[w] = Idle
                    /\ \A r \in Raws : events'[r] # "none" => normalized[r] # None
<1>1. events \in [Raws -> {"none", "queued", "done"}] /\ nw \in [Normalizers -> {Idle} \cup Building]
      /\ \A r \in Raws : events[r] # "none" => normalized[r] # None
  BY DEF BaseInv, TypeOK, WorkersTyped, NormalizerInv, ClaimOf
<1>2. ASSUME documents' = documents PROVE RowsAdded
  BY <1>2 DEF RowsAdded, Present
<1>3. ASSUME quiet PROVE goal
  BY <1>2, <1>3, RowsStayUnchanged, QuietKeeps DEF Present, ClaimsStay
<1>4. ASSUME NEW w \in Normalizers, NEW r \in Raws, NormalizeSkips(w, r) PROVE quiet
  BY <1>1, <1>4 DEF NormalizeSkips
<1>5. ASSUME NEW w \in Normalizers, NEW r \in Raws, NormalizeRaw(w, r) PROVE goal
  BY <1>2, <1>5, BuildKeeps DEF NormalizeRaw, ClaimsStay
<1>6. ASSUME NEW w \in Normalizers, PersistDocuments(w), normalized[nw[w].raw] = None PROVE goal
  <2>1. Written(w) /\ ClaimsHold'
    BY <1>6, PersistWrites, PersistKeeps DEF PersistDocuments
  <2>2. RowsAdded
    BY <1>6, <2>1, PersistRowsAdded DEF PersistDocuments
  <2>3. ClaimsStay
    <3>1. normalized \in [Raws -> Seq(Ids) \cup {None}] /\ nw[w].raw \in Raws
      BY <1>6, Builder DEF BaseInv, NormalizerInv, PersistDocuments
    <3> QED BY <2>1, <3>1 DEF Written, ClaimsStay
  <2> QED BY <2>1, <2>2, <2>3
<1>7. ASSUME NEW w \in Normalizers, PersistDocuments(w), normalized[nw[w].raw] # None PROVE quiet
  BY <1>1, <1>7 DEF PersistDocuments
<1>8. ASSUME NEW w \in Normalizers, PublishNormalized(w) PROVE quiet
  <2>1. nw[w] # Idle /\ nw[w].raw \in Raws /\ BuildOf(w)
    BY <1>8, Builder DEF BaseInv, NormalizerInv, PublishNormalized
  <2>2. normalized[nw[w].raw] # None
    BY <1>8, <2>1, BatchNotNone DEF BuildOf, PublishNormalized
  <2> QED BY <1>1, <1>8, <2>1, <2>2 DEF PublishNormalized
<1>9. ASSUME NEW w \in Normalizers, NormalizeErr(w) \/ NormalizerCrash(w) PROVE quiet
  BY <1>1, <1>9 DEF NormalizeErr, NormalizerCrash
<1>10. ASSUME NEW r \in Raws, ReplayRaw(r) PROVE quiet
  BY <1>1, <1>10 DEF ReplayRaw
<1> HIDE DEF goal, quiet
<1>11. goal
  BY <1>3, <1>4, <1>5, <1>6, <1>7, <1>8, <1>9, <1>10 DEF NormalizerNext, NormalizerStep
<1> QED BY <1>11 DEF goal

LEMMA AddedStay ==
  ASSUME RowsAdded
  PROVE  RowsStay /\ (Linked => Linked')
  BY DEF RowsAdded, RowsStay, Linked, Present

LEMMA NormalizerKeepsBase ==
  ASSUME BaseInv, NormalizerNext, UNCHANGED dedupVars
  PROVE  BaseInv' /\ RowsAdded /\ RowsStay
<1>1. TypeOK' /\ WorkersTyped' /\ normalized' \in [Raws -> Seq(Ids) \cup {None}]
  BY NormalizerTypes
<1>2. ClaimsHold' /\ RowsAdded /\ RowsStay /\ ClaimsStay /\ Linked'
  BY NormalizerClaims, AddedStay DEF BaseInv
<1>3. \A w \in Deduplicators : HandOf(w)'
  BY <1>2, HandStays DEF BaseInv, dedupVars
<1>4. NormalizerInv'
  BY <1>1, <1>2 DEF ClaimsHold, NormalizerInv
<1> QED BY <1>1, <1>2, <1>3, <1>4 DEF BaseInv


------------------------------------------------------------------------------
(* find_duplicate: what the stages and the chain of duplicate_of yield.    *)

LEMMA Smallest ==
  ASSUME NEW S \in SUBSET Nat, S # {}
  PROVE  \E m \in S : \A k \in S : m <= k
<1> DEFINE R == {p \in Nat \X Nat : p[1] < p[2]}
<1>1. IsWellFoundedOn(R, Nat)
  BY NatLessThanWellFounded DEF OpToRel
<1> HIDE DEF R
<1>2. PICK m \in S : \A k \in S : ~(<<k, m>> \in R)
  BY <1>1, WFMin
<1>3. \A k \in S : k < m => <<k, m>> \in R
  BY DEF R
<1>4. \A k \in S : k \in Nat /\ m \in Nat
  OBVIOUS
<1>5. \A k \in S : ~(k < m)
  BY <1>2, <1>3
<1>6. \A k \in S : m <= k
  BY <1>4, <1>5
<1> QED BY <1>6

LEMMA OldestIn ==
  ASSUME NEW S \in SUBSET Ids, S # {}
  PROVE  Oldest(S) \in S
<1>1. S \in SUBSET Nat
  BY Constants
<1>2. \E d \in S : \A e \in S : d <= e
  BY <1>1, Smallest
<1> QED BY <1>2 DEF Oldest

LEMMA RowOf ==
  ASSUME TypeOK, NEW d \in Present
  PROVE  /\ d \in Ids /\ documents[d] \in Rows /\ documents[d].content \in Contents
         /\ documents[d].raw \in Raws /\ documents[d].keyed \in BOOLEAN
         /\ documents[d].duplicate_of \in Ids \cup {None}
<1>1. documents[d] \in Rows /\ d \in Ids
  BY DEF TypeOK, Present
<1> QED BY <1>1 DEF Rows

LEMMA NearestIn ==
  ASSUME TypeOK, NEW d \in Present, BySimhash(d) # {}
  PROVE  Nearest(d) \in BySimhash(d)
<1> DEFINE S == BySimhash(d)
<1>1. \A e \in S : e \in Present /\ documents[d].content.sim # None /\ documents[e].content.sim # None
  BY DEF BySimhash, Similar, Fingerprinted, Older
<1>2. \A e \in S : Distance(d, e) \in Nat
  <2>1. ASSUME NEW e \in S PROVE Distance(d, e) \in Nat
    <3>1. documents[d].content.sim \in Int /\ documents[e].content.sim \in Int
      BY <1>1, RowOf, DeduplicatorAssumption
    <3> QED BY <3>1 DEF Distance
  <2> QED BY <2>1
<1>3. S \in SUBSET Ids
  BY <1>1, RowOf
<1> HIDE DEF S
<1> DEFINE D == {Distance(d, e) : e \in S}
<1>4. D \in SUBSET Nat /\ D # {}
  BY <1>2 DEF S
<1>5. PICK m \in D : \A k \in D : m <= k
  BY <1>4, Smallest
<1>6. PICK e \in S : m = Distance(d, e)
  OBVIOUS
<1>7. e \in {x \in S : \A f \in S : Distance(d, x) <= Distance(d, f)}
  BY <1>5, <1>6
<1>8. Oldest({x \in S : \A f \in S : Distance(d, x) <= Distance(d, f)}) \in S
  BY <1>3, <1>7, OldestIn
<1> QED BY <1>8 DEF S, Nearest

\* What a lookup can answer.
LEMMA CandidateKinds ==
  ASSUME TypeOK, NEW d \in Present, NEW hit \in Candidates(d)
  PROVE  /\ hit = None \/ hit \in Present
         /\ Findable(d) => hit # None
         /\ ByExternalKey(d) # {} => hit # None
         /\ Findable(d) => hit \in Older(d)
         /\ LeftToStage5(d) <=> ~Findable(d)
<1>1. ByExternalKey(d) \subseteq Older(d) /\ ByCanonicalUrl(d) \subseteq Older(d)
      /\ ByContentHash(d) \subseteq Older(d) /\ BySimhash(d) \subseteq Older(d)
  BY DEF ByExternalKey, ByCanonicalUrl, ByContentHash, BySimhash, Similar, Fingerprinted
<1>2. Older(d) \subseteq Present /\ Present \subseteq Ids
  BY DEF Older, Present
<1>3. \A S \in SUBSET Older(d) : S # {} => Oldest(S) \in Older(d)
  BY <1>2, OldestIn
<1>4. BySimhash(d) # {} => Nearest(d) \in Older(d)
  BY <1>1, NearestIn
<1>5. None \notin Present
  BY <1>2, Constants
<1>8. LeftToStage5(d) <=> ~Findable(d)
  BY DEF LeftToStage5, Findable
<1>6. CASE Findable(d)
  <2>1. hit \in Older(d)
    BY <1>1, <1>3, <1>4, <1>6 DEF Findable, Candidates
  <2> QED BY <1>2, <1>5, <1>6, <1>8, <2>1
<1>7. CASE ~Findable(d)
  <2>1. hit \in Neighbours(d) \cup {None}
    BY <1>7 DEF Findable, Candidates
  <2>2. Neighbours(d) \subseteq Present
    BY DEF Neighbours
  <2> QED BY <1>7, <1>8, <2>1, <2>2 DEF Findable
<1> QED BY <1>6, <1>7


\* duplicate_of followed n times from d, for n up to m.
IsChain(g, d, m) ==
  /\ g \in [0 .. m -> Present]
  /\ g[0] = d
  /\ \A n \in 1 .. m : g[n] = Up(g[n - 1])

LEMMA UpPresent ==
  ASSUME TypeOK, Linked, NEW d \in Present
  PROVE  Up(d) \in Present
  BY DEF Up, Linked

\* There is such a chain of any length: the least length without one would be one
\* more than a length with one.
LEMMA ChainsExist ==
  ASSUME TypeOK, Linked, NEW d \in Present, NEW m \in Nat
  PROVE  \E g : IsChain(g, d, m)
<1> DEFINE bad == {n \in Nat : ~\E g : IsChain(g, d, n)}
<1>1. SUFFICES ASSUME bad # {} PROVE FALSE
  BY <1>1
<1>2. PICK n \in bad : \A k \in bad : n <= k
  BY <1>1, Smallest
<1>3. CASE n = 0
  <2>1. IsChain([i \in 0 .. 0 |-> d], d, 0)
    BY DEF IsChain
  <2> QED BY <1>2, <1>3, <2>1
<1>4. CASE n # 0
  <2>1. n \in Nat /\ n - 1 \in Nat /\ n - 1 \notin bad
    BY <1>2, <1>4
  <2>2. PICK g : IsChain(g, d, n - 1)
    BY <2>1
  <2>3. PICK p : p = n - 1 OBVIOUS
  <2>4. p \in Nat /\ n = p + 1 /\ IsChain(g, d, p)
    BY <2>1, <2>2, <2>3
  <2> DEFINE h == [i \in 0 .. n |-> IF i = n THEN Up(g[p]) ELSE g[i]]
  <2>5. \A i \in 0 .. p : g[i] \in Present
    BY <2>4 DEF IsChain
  <2>6. Up(g[p]) \in Present
    BY <2>4, <2>5, UpPresent
  <2>7. \A i \in 0 .. n : i # n => i \in 0 .. p
    BY <2>4
  <2>8. h \in [0 .. n -> Present]
    BY <2>5, <2>6, <2>7
  <2>9. h[0] = d
    BY <2>4 DEF IsChain
  <2>10. ASSUME NEW i \in 1 .. n PROVE h[i] = Up(h[i - 1])
    <3>1. i - 1 \in 0 .. p /\ i - 1 \in 0 .. n /\ i - 1 # n /\ i \in 0 .. n
      BY <2>4
    <3>2. h[i - 1] = g[i - 1]
      BY <3>1
    <3>3. CASE i = n
      <4>1. i - 1 = p
        BY <2>4, <3>3
      <4> QED BY <3>1, <3>2, <3>3, <4>1
    <3>4. CASE i # n
      <4>1. i \in 1 .. p
        BY <2>4, <3>4
      <4>2. g[i] = Up(g[i - 1])
        BY <2>4, <4>1 DEF IsChain
      <4> QED BY <3>1, <3>2, <3>4, <4>2
    <3> QED BY <3>3, <3>4
  <2>11. IsChain(h, d, n)
    BY <2>8, <2>9, <2>10 DEF IsChain
  <2> QED BY <1>2, <2>11
<1> QED BY <1>3, <1>4

\* Chain is what its definition says.
LEMMA ChainIsChain ==
  ASSUME TypeOK, Linked, NEW d \in Present
  PROVE  IsChain(Chain(d), d, MaxChainDepth)
<1> DEFINE M == MaxChainDepth
           body(f) == [n \in 0 .. M |-> IF n = 0 THEN d ELSE Up(f[n - 1])]
<1>1. M \in Nat
  BY Constants
<1>2. PICK g : IsChain(g, d, M)
  BY <1>1, ChainsExist
<1>3. g = body(g)
  <2>1. \A n \in 0 .. M : n # 0 => n \in 1 .. M
    BY <1>1
  <2> QED BY <1>2, <2>1 DEF IsChain
<1>4. Chain(d) = CHOOSE f : f = body(f)
  BY DEF Chain
<1>5. Chain(d) = body(Chain(d))
  BY <1>3, <1>4
<1>6. PICK c : c = Chain(d) OBVIOUS
<1>7. c = body(c)
  BY <1>5, <1>6
<1>8. DOMAIN c = 0 .. M /\ c[0] = d /\ \A n \in 1 .. M : c[n] = Up(c[n - 1])
  BY <1>1, <1>7
<1> DEFINE bad == {n \in Nat : n <= M /\ c[n] \notin Present}
<1>9. bad = {}
  <2>1. SUFFICES ASSUME bad # {} PROVE FALSE
    OBVIOUS
  <2>2. PICK n \in bad : \A k \in bad : n <= k
    BY <2>1, Smallest
  <2>3. n # 0
    BY <1>8, <2>2
  <2>4. n - 1 \in Nat /\ n - 1 <= M /\ n \in 1 .. M /\ n - 1 \notin bad
    BY <1>1, <2>2, <2>3
  <2>5. c[n - 1] \in Present
    BY <2>4
  <2> QED BY <1>8, <2>2, <2>4, <2>5, UpPresent
<1>10. \A n \in 0 .. M : c[n] \in Present
  BY <1>1, <1>9
<1>11. c \in [0 .. M -> Present]
  BY <1>7, <1>8, <1>10
<1> QED BY <1>6, <1>8, <1>11 DEF IsChain

\* Where it ends is a row; if duplicate_of is older all along, it is not newer.
Straight(d) == \A n \in 0 .. MaxChainDepth : Chain(d)[n] \notin drifted

LEMMA ChainEnd ==
  ASSUME TypeOK, Linked, NEW d \in Present
  PROVE  /\ Chain(d)[MaxChainDepth] \in Present
         /\ DuplicateOfOlder /\ Straight(d) => Chain(d)[MaxChainDepth] <= d
<1>1. PICK c : c = Chain(d) OBVIOUS
<1>2. IsChain(c, d, MaxChainDepth)
  BY <1>1, ChainIsChain
<1>3. MaxChainDepth \in Nat /\ \A n \in 0 .. MaxChainDepth : c[n] \in Present
  BY <1>2, Constants DEF IsChain
<1>4. \A e \in Present : e \in Nat
  BY RowOf, Constants
<1>5. ASSUME DuplicateOfOlder, Straight(d) PROVE c[MaxChainDepth] <= d
  <2> DEFINE bad == {n \in Nat : n <= MaxChainDepth /\ ~(c[n] <= d)}
  <2>1. SUFFICES ASSUME bad # {} PROVE FALSE
    BY <1>3
  <2>2. PICK n \in bad : \A k \in bad : n <= k
    BY <2>1, Smallest
  <2>3. n # 0
    BY <1>2, <1>4, <2>2 DEF IsChain
  <2>4. n - 1 \in Nat /\ n - 1 <= MaxChainDepth /\ n - 1 \in 0 .. MaxChainDepth /\ n \in 1 .. MaxChainDepth
        /\ n - 1 \notin bad
    BY <1>3, <2>2, <2>3
  <2>5. c[n - 1] \in Present /\ c[n - 1] <= d /\ c[n] = Up(c[n - 1]) /\ c[n] \in Present
    BY <1>2, <1>3, <2>4 DEF IsChain
  <2>6. c[n - 1] \notin drifted
    BY <1>1, <1>5, <2>4 DEF Straight
  <2>7. Up(c[n - 1]) <= c[n - 1]
    BY <1>4, <1>5, <2>5, <2>6 DEF Up, DuplicateOfOlder
  <2> QED BY <1>4, <2>2, <2>5, <2>7
<1> QED BY <1>1, <1>3, <1>5


------------------------------------------------------------------------------
(* The steps of the deduplicator. *)

\* The document a worker is at.
LEMMA InHand ==
  ASSUME BaseInv, NEW w \in Deduplicators, dw[w] # Idle, dw[w].todo # << >>
  PROVE  /\ Doc(w) \in Present /\ Doc(w) \in Ids /\ documents[Doc(w)].raw = dw[w].raw
         /\ NextDocument(w) \in Reading /\ dw[w].raw \in Raws
         /\ documents[Doc(w)] \in Rows
<1>1. dw[w].todo \in Seq(Ids) /\ dw[w].raw \in Raws
  BY Holder DEF BaseInv
<1>2. Doc(w) \in Present /\ documents[Doc(w)].raw = dw[w].raw
  BY <1>1, HeadTail DEF BaseInv, HandOf, Doc
<1>3. NextDocument(w) \in Reading
  BY <1>1, HeadTail DEF NextDocument, Reading
<1> QED BY <1>1, <1>2, <1>3, RowOf DEF BaseInv

\* A worker that has looked up has a document.
LEMMA InJudgement ==
  ASSUME BaseInv, NEW w \in Deduplicators, dw[w].pc \in {"resolve", "group", "put", "claim", "publish"}
  PROVE  /\ dw[w] \in Judging /\ dw[w] # Idle /\ dw[w].todo # << >>
         /\ dw[w].row \in Rows /\ dw[w].hit \in Ids \cup {None}
         /\ dw[w].row.content = documents[Doc(w)].content /\ dw[w].row.raw = documents[Doc(w)].raw
         /\ dw[w].row.content.url = None => dw[w].row.url = documents[Doc(w)].url
         /\ dw[w].hit # None => dw[w].hit \in Present
         /\ dw[w].pc \in {"resolve", "group"} => dw[w].hit # None
<1>1. dw[w] \in Judging /\ dw[w] # Idle /\ dw[w].todo # << >> /\ dw[w].pc # "next"
      /\ dw[w].row \in Rows /\ dw[w].hit \in Ids \cup {None}
      /\ (dw[w].pc \in {"resolve", "group"} => dw[w].hit # None)
  BY Holder DEF BaseInv
<1> QED BY <1>1 DEF BaseInv, HandOf

\* put_document writes one row, with the evidence and the content it had.
PutRow(w) == [dw[w].row EXCEPT !.keyed = TRUE,
                !.url = IF dw[w].row.content.url = None THEN @ ELSE dw[w].row.content.url,
                !.duplicate_of = dw[w].hit]

LEMMA PutWrites ==
  ASSUME BaseInv, NEW w \in Deduplicators, PutDocument(w)
  PROVE  /\ PutRow(w) \in Rows
         /\ documents' = [documents EXCEPT ![Doc(w)] = PutRow(w)]
         /\ documents'[Doc(w)] = PutRow(w)
         /\ \A d \in Ids : d # Doc(w) => documents'[d] = documents[d]
         /\ documents'[Doc(w)].duplicate_of = dw[w].hit
         /\ documents'[Doc(w)].keyed
         /\ Present' = Present
<1>1. dw[w].row \in Rows /\ dw[w].hit \in Ids \cup {None} /\ Doc(w) \in Present /\ Doc(w) \in Ids
  BY InJudgement, InHand DEF PutDocument
<1>2. PutRow(w) \in Rows /\ PutRow(w).duplicate_of = dw[w].hit /\ PutRow(w).keyed
  BY <1>1 DEF PutRow, Rows
<1>3. documents' = [documents EXCEPT ![Doc(w)] = PutRow(w)]
  BY DEF PutDocument, PutRow
<1>4. documents \in [Ids -> Rows \cup {None}]
  BY DEF BaseInv, TypeOK
<1>5. documents'[Doc(w)] = PutRow(w) /\ \A d \in Ids : d # Doc(w) => documents'[d] = documents[d]
  BY <1>1, <1>3, <1>4
<1>6. PutRow(w) # None
  BY <1>2, Constants
<1>7. Present' = Present
  BY <1>1, <1>5, <1>6 DEF Present
<1> QED BY <1>2, <1>3, <1>5, <1>7

LEMMA PutRowStays ==
  ASSUME BaseInv, NEW w \in Deduplicators, PutDocument(w)
  PROVE  RowsStay
<1>1. dw[w].row \in Rows /\ Doc(w) \in Present
      /\ dw[w].row.content = documents[Doc(w)].content /\ dw[w].row.raw = documents[Doc(w)].raw
      /\ (dw[w].row.content.url = None => dw[w].row.url = documents[Doc(w)].url)
  BY InJudgement, InHand DEF PutDocument
<1>2. PutRow(w).raw = documents[Doc(w)].raw /\ PutRow(w).content = documents[Doc(w)].content
      /\ PutRow(w).url = IF documents[Doc(w)].content.url = None THEN documents[Doc(w)].url
                         ELSE documents[Doc(w)].content.url
  BY <1>1 DEF PutRow, Rows
<1>3. \A d \in Present : d \in Ids /\ documents[d] # None
  BY DEF Present
<1>4. documents'[Doc(w)] # None /\ documents'[Doc(w)] = PutRow(w) /\ PutRow(w).keyed
      /\ \A d \in Ids : d # Doc(w) => documents'[d] = documents[d]
  BY PutWrites, Constants
<1> HIDE DEF PutRow
<1> QED BY <1>2, <1>3, <1>4 DEF RowsStay


Steps(w) == DeduplicatorStep(w) \/ DocumentErr(w) \/ DeduplicatorCrash(w)

\* Only put_document touches the documents, only the end of a message the events.
LEMMA RowsAfter ==
  ASSUME BaseInv, NEW w \in Deduplicators, Steps(w)
  PROVE  /\ RowsStay /\ Present' = Present /\ Linked'
         /\ UNCHANGED <<normalized, nextId, nw, inbox, unannounced>>
         /\ ~PutDocument(w) => documents' = documents
<1>1. UNCHANGED <<normalized, nextId, nw, inbox, unannounced>> /\ (PutDocument(w) \/ documents' = documents)
  BY DEF Steps, DeduplicatorStep, normalizerVars, TakeEvent, EndEvent, AlreadyDone, FindDuplicate,
         ResolveCanonical, WriteGroup, PutDocument, Claim, PublishCompleted, DocumentErr, DeduplicatorCrash
<1>2. CASE documents' = documents
  BY <1>1, <1>2, RowsStayUnchanged DEF Present, Linked, BaseInv
<1>3. CASE PutDocument(w)
  <2>1. RowsStay /\ Present' = Present
    BY <1>3, PutRowStays, PutWrites
  <2>2. dw[w].hit # None => dw[w].hit \in Present
    BY <1>3, InJudgement DEF PutDocument
  <2>3. documents'[Doc(w)].duplicate_of = dw[w].hit
        /\ \A d \in Ids : d # Doc(w) => documents'[d] = documents[d]
    BY <1>3, PutWrites
  <2>4. Present \subseteq Ids
    BY DEF Present
  <2>5. Linked'
    BY <2>1, <2>2, <2>3, <2>4 DEF Linked, BaseInv
  <2> QED BY <1>1, <1>3, <2>1, <2>5
<1> QED BY <1>1, <1>2, <1>3


\* Where a step takes the worker: it takes a message, goes on with the document in
\* hand, or leaves it.
Takes(w) ==
  \E r \in Raws : /\ dw[w] = Idle /\ events[r] = "queued"
                  /\ Held(r) => \A i \in DOMAIN normalized[r] : normalized[r][i] \in doubted'
                  /\ dw'[w] = [pc |-> "next", raw |-> r, todo |-> normalized[r]]

GoesOn(w) ==
  /\ dw[w] # Idle /\ dw[w].todo # << >>
  /\ dw'[w] \in Judging /\ dw'[w].raw = dw[w].raw /\ dw'[w].todo = dw[w].todo
  /\ dw'[w].row = IF dw[w].pc = "next" THEN documents[Doc(w)] ELSE dw[w].row
  /\ dw'[w].hit # None => dw'[w].hit \in Present
  /\ dw'[w].pc \in {"resolve", "group"} => dw'[w].hit # None

Leaves(w) == dw[w] # Idle /\ dw[w].todo # << >> /\ dw'[w] = NextDocument(w)

Moves(w) ==
  /\ dw' = [v \in Deduplicators |-> dw'[v]]
  /\ \A v \in Deduplicators : v # w => dw'[v] = dw[v]
  /\ dw'[w] = Idle \/ Takes(w) \/ GoesOn(w) \/ Leaves(w)

LEMMA FindMoves ==
  ASSUME BaseInv, NEW w \in Deduplicators, FindDuplicate(w)
  PROVE  /\ GoesOn(w) /\ dw'[w].hit \in Candidates(Doc(w))
         /\ dw'[w].pc = IF dw'[w].hit = None THEN "put" ELSE "resolve"
         /\ dw'[w].unseen = {e \in Ids : e < Doc(w) /\ claims[e] = Unclaimed}
         /\ LeftToStage5(Doc(w)) /\ dw'[w].hit # None => Doc(w) \in drifted'
         /\ LeftToStage5(Doc(w)) /\ Similar(Doc(w)) # {} => Doc(w) \in doubted'
         /\ \A v \in Deduplicators : v # w => dw'[v] = dw[v]
         /\ dw' = [v \in Deduplicators |-> dw'[v]]
<1>1. dw[w] # Idle /\ dw[w].todo # << >> /\ dw[w].pc = "next" /\ dw[w].todo \in Seq(Ids) /\ dw[w].raw \in Raws
      /\ dw \in [Deduplicators -> {Idle} \cup Reading \cup Judging]
  BY Holder DEF BaseInv, FindDuplicate, WorkersTyped
<1>2. Doc(w) \in Present /\ documents[Doc(w)] \in Rows
  BY <1>1, InHand
<1>3. PICK hit \in Candidates(Doc(w)) :
        /\ dw' = [dw EXCEPT ![w] =
                    [pc |-> IF hit = None THEN "put" ELSE "resolve", raw |-> dw[w].raw,
                     todo |-> dw[w].todo, row |-> documents[Doc(w)], hit |-> hit,
                     unseen |-> {e \in Ids : e < Doc(w) /\ claims[e] = Unclaimed}]]
        /\ LeftToStage5(Doc(w)) /\ hit # None => Doc(w) \in drifted'
  BY DEF FindDuplicate
<1>4. hit = None \/ hit \in Present
  BY <1>2, CandidateKinds DEF BaseInv
<1>5. hit \in Ids \cup {None}
  BY <1>4 DEF Present
<1>6. dw'[w] = [pc |-> IF hit = None THEN "put" ELSE "resolve", raw |-> dw[w].raw,
                 todo |-> dw[w].todo, row |-> documents[Doc(w)], hit |-> hit,
                 unseen |-> {e \in Ids : e < Doc(w) /\ claims[e] = Unclaimed}]
      /\ dw' = [v \in Deduplicators |-> dw'[v]] /\ \A v \in Deduplicators : v # w => dw'[v] = dw[v]
  BY <1>1, <1>3
<1>7. dw'[w] \in Judging
  BY <1>1, <1>2, <1>5, <1>6 DEF Judging
<1>8. LeftToStage5(Doc(w)) /\ Similar(Doc(w)) # {} => Doc(w) \in doubted'
  BY DEF FindDuplicate
<1> QED BY <1>1, <1>3, <1>4, <1>6, <1>7, <1>8 DEF GoesOn

LEMMA ResolveMoves ==
  ASSUME BaseInv, NEW w \in Deduplicators, ResolveCanonical(w)
  PROVE  /\ dw' = [v \in Deduplicators |-> dw'[v]]
         /\ \A v \in Deduplicators : v # w => dw'[v] = dw[v]
         /\ \/ Leaves(w)
            \/ /\ GoesOn(w) /\ dw'[w].pc = "group" /\ dw'[w].hit = Chain(dw[w].hit)[MaxChainDepth]
               /\ dw'[w].hit \in Present
         /\ Straight(dw[w].hit) \/ Doc(w) \in drifted'
<1>1. dw[w] \in Judging /\ dw[w] # Idle /\ dw[w].todo # << >> /\ dw[w].hit \in Present /\ dw[w].pc # "next"
      /\ dw \in [Deduplicators -> {Idle} \cup Reading \cup Judging]
  BY InJudgement DEF ResolveCanonical, BaseInv, WorkersTyped
<1>2. PICK h : h = Chain(dw[w].hit)[MaxChainDepth] OBVIOUS
<1>3. h \in Present /\ h \in Ids
  BY <1>1, <1>2, ChainEnd DEF BaseInv, Present
<1>6. Straight(dw[w].hit) \/ Doc(w) \in drifted'
  BY DEF ResolveCanonical, Straight
<1>4. CASE TooDeep(dw[w].hit)
  <2>1. dw' = [dw EXCEPT ![w] = NextDocument(w)]
    BY <1>4 DEF ResolveCanonical
  <2> QED BY <1>1, <1>6, <2>1 DEF Leaves
<1>5. CASE ~TooDeep(dw[w].hit)
  <2>1. dw' = [dw EXCEPT ![w].pc = "group", ![w].hit = h]
    BY <1>2, <1>5 DEF ResolveCanonical
  <2>2. dw'[w] = [dw[w] EXCEPT !.pc = "group", !.hit = h] /\ dw' = [v \in Deduplicators |-> dw'[v]]
        /\ \A v \in Deduplicators : v # w => dw'[v] = dw[v]
    BY <1>1, <2>1
  <2>3. /\ dw'[w] \in Judging /\ dw'[w].pc = "group" /\ dw'[w].raw = dw[w].raw /\ dw'[w].todo = dw[w].todo
        /\ dw'[w].row = dw[w].row /\ dw'[w].hit = h
    BY <1>1, <1>3, <2>2 DEF Judging
  <2> QED BY <1>1, <1>2, <1>3, <1>6, <2>2, <2>3, Constants DEF GoesOn
<1> QED BY <1>4, <1>5


\* WriteGroup, PutDocument and Claim go on with the document, another pc apart.
Advances(w, from, to) ==
  /\ dw[w].pc = from
  /\ GoesOn(w)
  /\ dw'[w].pc = to /\ dw'[w].hit = dw[w].hit /\ dw'[w].unseen = dw[w].unseen

LEMMA PcMoves ==
  ASSUME BaseInv, NEW w \in Deduplicators, NEW from \in {"resolve", "group", "put", "claim", "publish"},
         NEW to \in {"put", "claim", "publish"},
         dw[w].pc = from, dw' = [dw EXCEPT ![w].pc = to]
  PROVE  /\ Advances(w, from, to)
         /\ dw' = [v \in Deduplicators |-> dw'[v]]
         /\ \A v \in Deduplicators : v # w => dw'[v] = dw[v]
<1>1. dw[w] \in Judging /\ dw[w] # Idle /\ dw[w].todo # << >> /\ (dw[w].hit # None => dw[w].hit \in Present)
      /\ dw \in [Deduplicators -> {Idle} \cup Reading \cup Judging] /\ dw[w].pc # "next"
  BY InJudgement DEF BaseInv, WorkersTyped
<1>2. dw'[w] = [dw[w] EXCEPT !.pc = to] /\ dw' = [v \in Deduplicators |-> dw'[v]]
      /\ \A v \in Deduplicators : v # w => dw'[v] = dw[v]
  BY <1>1
<1>3. /\ dw'[w] \in Judging /\ dw'[w].pc = to /\ dw'[w].raw = dw[w].raw /\ dw'[w].todo = dw[w].todo
      /\ dw'[w].row = dw[w].row /\ dw'[w].hit = dw[w].hit /\ dw'[w].unseen = dw[w].unseen
  BY <1>1, <1>2 DEF Judging
<1> QED BY <1>1, <1>2, <1>3 DEF Advances, GoesOn

LEMMA StepsMove ==
  ASSUME BaseInv, NEW w \in Deduplicators, Steps(w)
  PROVE  Moves(w)
<1>1. dw \in [Deduplicators -> {Idle} \cup Reading \cup Judging]
  BY DEF BaseInv, WorkersTyped
<1>2. ASSUME NEW r \in Raws, TakeEvent(w, r) PROVE Moves(w)
  BY <1>1, <1>2 DEF TakeEvent, Moves, Takes
<1>3. ASSUME EndEvent(w) \/ DeduplicatorCrash(w) PROVE Moves(w)
  BY <1>1, <1>3 DEF EndEvent, DeduplicatorCrash, Moves
<1>4. ASSUME dw[w] # Idle, dw[w].todo # << >>, dw' = [dw EXCEPT ![w] = NextDocument(w)] PROVE Moves(w)
  BY <1>1, <1>4 DEF Moves, Leaves
<1>5. ASSUME AlreadyDone(w) PROVE Moves(w)
  BY <1>4, <1>5, Holder DEF AlreadyDone, BaseInv
<1>6. ASSUME FindDuplicate(w) PROVE Moves(w)
  BY <1>6, FindMoves DEF Moves
<1>7. ASSUME ResolveCanonical(w) PROVE Moves(w)
  BY <1>7, ResolveMoves DEF Moves
<1>8. ASSUME WriteGroup(w) \/ PutDocument(w) PROVE Moves(w)
  BY <1>8, PcMoves DEF WriteGroup, PutDocument, Moves, Advances
<1>9. ASSUME Claim(w) PROVE Moves(w)
  <2>1. dw[w] # Idle /\ dw[w].todo # << >> /\ dw[w].pc = "claim"
    BY <1>9, InJudgement DEF Claim
  <2>2. CASE claims[Doc(w)] = Unclaimed
    BY <1>9, <2>1, <2>2, PcMoves DEF Claim, Moves, Advances
  <2>3. CASE claims[Doc(w)] # Unclaimed
    BY <1>4, <1>9, <2>1, <2>3 DEF Claim
  <2> QED BY <2>2, <2>3
<1>10. ASSUME PublishCompleted(w) PROVE Moves(w)
  BY <1>4, <1>10, InJudgement DEF PublishCompleted
<1>11. ASSUME DocumentErr(w) PROVE Moves(w)
  BY <1>4, <1>11, Holder DEF DocumentErr, BaseInv
<1> QED BY <1>2, <1>3, <1>5, <1>6, <1>7, <1>8, <1>9, <1>10, <1>11 DEF Steps, DeduplicatorStep

\* Only a lookup and the chain change the candidate.
LEMMA OtherwiseSameHit ==
  ASSUME BaseInv, NEW w \in Deduplicators, Steps(w), GoesOn(w), ~FindDuplicate(w), ~ResolveCanonical(w)
  PROVE  /\ dw'[w].hit = dw[w].hit /\ Judged(w)
         /\ \/ WriteGroup(w) /\ Advances(w, "group", "put")
            \/ PutDocument(w) /\ Advances(w, "put", "claim")
            \/ Claim(w) /\ claims[Doc(w)] = Unclaimed /\ Advances(w, "claim", "publish")
<1>1. dw \in [Deduplicators -> {Idle} \cup Reading \cup Judging]
  BY DEF BaseInv, WorkersTyped
<1>2. dw'[w] # Idle /\ dw'[w].pc # "next"
  BY DEF GoesOn, Judging, Idle
<1>3. dw' # [dw EXCEPT ![w] = Idle] /\ dw' # [dw EXCEPT ![w] = NextDocument(w)]
  BY <1>1, <1>2 DEF NextDocument
<1>4. ~\E r \in Raws : TakeEvent(w, r)
  BY <1>1, <1>2 DEF TakeEvent
<1>5. WriteGroup(w) \/ PutDocument(w) \/ (Claim(w) /\ claims[Doc(w)] = Unclaimed)
  BY <1>3, <1>4 DEF Steps, DeduplicatorStep, EndEvent, AlreadyDone, Claim, PublishCompleted, DocumentErr,
                    DeduplicatorCrash
<1>6. \/ WriteGroup(w) /\ Advances(w, "group", "put")
      \/ PutDocument(w) /\ Advances(w, "put", "claim")
      \/ Claim(w) /\ claims[Doc(w)] = Unclaimed /\ Advances(w, "claim", "publish")
  BY <1>5, PcMoves DEF WriteGroup, PutDocument, Claim
<1> QED BY <1>6, Holder DEF Advances, BaseInv

\* What the moving worker holds afterwards.
LEMMA MovedHand ==
  ASSUME BaseInv, NEW w \in Deduplicators, Moves(w), RowsStay, normalized' = normalized
  PROVE  /\ dw'[w] \in {Idle} \cup Reading \cup Judging
         /\ dw'[w] \in Judging => /\ dw'[w].todo # << >>
                                  /\ dw'[w].pc \in {"resolve", "group"} => dw'[w].hit # None
         /\ HandOf(w)'
<1>1. CASE dw'[w] = Idle
  <2>1. Idle \notin Judging
    BY DEF Judging, Idle
  <2> QED BY <1>1, <2>1 DEF HandOf
<1>2. CASE Takes(w)
  <2>1. PICK r \in Raws : events[r] = "queued" /\ dw'[w] = [pc |-> "next", raw |-> r, todo |-> normalized[r]]
    BY <1>2 DEF Takes
  <2>2. normalized[r] # None /\ normalized[r] \in Seq(Ids)
    BY <2>1 DEF BaseInv, NormalizerInv, ClaimOf
  <2>3. dw'[w] \in Reading /\ dw'[w] \notin Judging
    BY <2>1, <2>2 DEF Reading, Judging
  <2>4. \A i \in DOMAIN normalized[r] : normalized[r][i] \in Present /\ documents[normalized[r][i]].raw = r
    BY <2>2 DEF BaseInv, NormalizerInv, DocumentsOfClaim
  <2>5. \A i \in DOMAIN normalized[r] : normalized[r][i] \in Present' /\ documents'[normalized[r][i]].raw = r
    BY <2>4 DEF RowsStay, Present
  <2> QED BY <2>1, <2>2, <2>3, <2>5 DEF HandOf
<1>3. CASE Leaves(w)
  <2>1. dw[w].todo \in Seq(Ids) /\ dw[w].todo # << >> /\ HandOf(w) /\ dw[w] # Idle
    BY <1>3, Holder DEF Leaves, BaseInv
  <2>2. dw'[w] \in Reading /\ dw'[w] \notin Judging /\ dw'[w].pc = "next" /\ dw'[w].raw = dw[w].raw
        /\ dw'[w].todo = Tail(dw[w].todo)
    BY <1>3, <2>1, InHand DEF Leaves, NextDocument, Reading, Judging
  <2>3. \A i \in DOMAIN Tail(dw[w].todo) :
          Tail(dw[w].todo)[i] \in Present /\ documents[Tail(dw[w].todo)[i]].raw = dw[w].raw
    <3>1. ASSUME NEW i \in DOMAIN Tail(dw[w].todo)
          PROVE  Tail(dw[w].todo)[i] \in Present /\ documents[Tail(dw[w].todo)[i]].raw = dw[w].raw
      <4>1. i + 1 \in DOMAIN dw[w].todo /\ Tail(dw[w].todo)[i] = dw[w].todo[i + 1]
        BY <2>1, HeadTail
      <4> QED BY <2>1, <4>1 DEF HandOf
    <3> QED BY <3>1
  <2>4. \A i \in DOMAIN Tail(dw[w].todo) :
          Tail(dw[w].todo)[i] \in Present' /\ documents'[Tail(dw[w].todo)[i]].raw = dw[w].raw
    BY <2>3 DEF RowsStay, Present
  <2>5. normalized'[dw[w].raw] # None
    BY <2>1 DEF HandOf
  <2> QED BY <2>2, <2>4, <2>5 DEF HandOf
<1>4. CASE GoesOn(w)
  <2>1. HandOf(w) /\ dw[w] # Idle /\ dw[w].todo # << >> /\ dw'[w] \in Judging /\ dw'[w].raw = dw[w].raw
        /\ dw'[w].todo = dw[w].todo /\ Doc(w) \in Present
        /\ (dw'[w].hit # None => dw'[w].hit \in Present')
        /\ (dw'[w].pc \in {"resolve", "group"} => dw'[w].hit # None)
    BY <1>4, InHand DEF GoesOn, BaseInv, RowsStay, Present
  <2>2. Doc(w)' = Doc(w)
    BY <2>1 DEF Doc
  <2>3. \A i \in DOMAIN dw[w].todo : dw[w].todo[i] \in Present' /\ documents'[dw[w].todo[i]].raw = dw[w].raw
    BY <2>1 DEF HandOf, RowsStay, Present
  <2>4. dw'[w].row.content = documents[Doc(w)].content /\ dw'[w].row.raw = documents[Doc(w)].raw
        /\ (dw'[w].row.content.url = None => dw'[w].row.url = documents[Doc(w)].url)
    BY <1>4, <2>1 DEF GoesOn, HandOf
  <2>5. dw'[w].row.content = documents'[Doc(w)].content /\ dw'[w].row.raw = documents'[Doc(w)].raw
        /\ (dw'[w].row.content.url = None => dw'[w].row.url = documents'[Doc(w)].url)
    BY <2>1, <2>4 DEF RowsStay
  <2>6. normalized'[dw[w].raw] # None
    BY <2>1 DEF HandOf
  <2>7. HandOf(w)'
    BY <2>1, <2>2, <2>3, <2>5, <2>6 DEF HandOf
  <2> QED BY <2>1, <2>7
<1> QED BY <1>1, <1>2, <1>3, <1>4 DEF Moves


\* The deduplicator keeps the types of the tables it writes.
LEMMA TablesTyped ==
  ASSUME BaseInv, NEW w \in Deduplicators, Steps(w)
  PROVE  /\ events' \in [Raws -> {"none", "queued", "done"}] /\ faults' \in 0 .. MaxFaults
         /\ \A r \in Raws : events'[r] # "none" => normalized[r] # None
         /\ documents' \in [Ids -> Rows \cup {None}]
         /\ groups' \in [Ids -> Ids \cup {Unclaimed}]
         /\ claims' \in [Ids -> Ids \cup {None, Unclaimed}]
         /\ completed' \in [Ids -> Ids \cup {None, Unclaimed}]
         /\ skipped' \subseteq Ids /\ silent' \subseteq Ids
         /\ unseen' \in [Ids -> SUBSET Ids]
         /\ drifted' \subseteq Ids /\ doubted' \subseteq Ids
<1> DEFINE goal == /\ events' \in [Raws -> {"none", "queued", "done"}] /\ faults' \in 0 .. MaxFaults
                   /\ \A r \in Raws : events'[r] # "none" => normalized[r] # None
                   /\ documents' \in [Ids -> Rows \cup {None}]
                   /\ groups' \in [Ids -> Ids \cup {Unclaimed}]
                   /\ claims' \in [Ids -> Ids \cup {None, Unclaimed}]
                   /\ completed' \in [Ids -> Ids \cup {None, Unclaimed}]
                   /\ skipped' \subseteq Ids /\ silent' \subseteq Ids
                   /\ unseen' \in [Ids -> SUBSET Ids]
                   /\ drifted' \subseteq Ids /\ doubted' \subseteq Ids
<1>1. /\ events \in [Raws -> {"none", "queued", "done"}] /\ faults \in 0 .. MaxFaults
      /\ documents \in [Ids -> Rows \cup {None}]
      /\ groups \in [Ids -> Ids \cup {Unclaimed}]
      /\ claims \in [Ids -> Ids \cup {None, Unclaimed}]
      /\ completed \in [Ids -> Ids \cup {None, Unclaimed}]
      /\ skipped \subseteq Ids /\ silent \subseteq Ids
      /\ unseen \in [Ids -> SUBSET Ids]
      /\ drifted \subseteq Ids /\ doubted \subseteq Ids
      /\ \A r \in Raws : events[r] # "none" => normalized[r] # None
  BY DEF BaseInv, TypeOK, NormalizerInv, ClaimOf
<1>2. ASSUME NEW r \in Raws, TakeEvent(w, r) PROVE goal
  <2>1. normalized[r] \in Seq(Ids)
    BY <1>2 DEF TakeEvent, BaseInv, NormalizerInv, ClaimOf
  <2>2. doubted' \subseteq Ids
    BY <1>1, <1>2, <2>1 DEF TakeEvent
  <2>3. faults' \in 0 .. MaxFaults
    BY <1>1, <1>2, Constants DEF TakeEvent
  <2> QED BY <1>1, <1>2, <2>2, <2>3 DEF TakeEvent
<1>3. ASSUME EndEvent(w) PROVE goal
  <2>1. dw[w] # Idle /\ dw[w].raw \in Raws
    BY <1>3, Holder DEF EndEvent, BaseInv
  <2>2. normalized[dw[w].raw] # None
    BY <2>1 DEF BaseInv, HandOf
  <2>3. events' \in [Raws -> {"none", "queued", "done"}] /\ \A r \in Raws : events'[r] # "none" => normalized[r] # None
    BY <1>1, <1>3, <2>1, <2>2 DEF EndEvent
  <2> QED BY <1>1, <1>3, <2>3 DEF EndEvent
<1>4. ASSUME AlreadyDone(w) PROVE goal
  BY <1>1, <1>4 DEF AlreadyDone, normalizerVars
<1>5. ASSUME FindDuplicate(w) PROVE goal
  <2>1. Doc(w) \in Ids
    BY <1>5, Holder, InHand DEF FindDuplicate, BaseInv
  <2>2. drifted' \subseteq Ids /\ doubted' \subseteq Ids
    BY <1>1, <1>5, <2>1 DEF FindDuplicate
  <2> QED BY <1>1, <1>5, <2>2 DEF FindDuplicate, normalizerVars
<1>6. ASSUME ResolveCanonical(w) PROVE goal
  <2>1. Doc(w) \in Ids
    BY <1>6, InJudgement, InHand DEF ResolveCanonical
  <2>2. skipped' \subseteq Ids /\ drifted' \subseteq Ids
    BY <1>1, <1>6, <2>1 DEF ResolveCanonical
  <2> QED BY <1>1, <1>6, <2>2 DEF ResolveCanonical, normalizerVars
<1>7. ASSUME WriteGroup(w) PROVE goal
  <2>1. dw[w].hit \in Ids
    BY <1>7, InJudgement DEF WriteGroup
  <2>2. groups' \in [Ids -> Ids \cup {Unclaimed}]
    BY <1>1, <1>7, <2>1 DEF WriteGroup
  <2> QED BY <1>1, <1>7, <2>2 DEF WriteGroup, normalizerVars
<1>8. ASSUME PutDocument(w) PROVE goal
  <2>1. documents' \in [Ids -> Rows \cup {None}]
    BY <1>1, <1>8, PutWrites
  <2>2. doubted' \subseteq Ids
    BY <1>1, <1>8 DEF PutDocument, LosesUrl, Present
  <2> QED BY <1>1, <1>8, <2>1, <2>2 DEF PutDocument
<1>9. ASSUME Claim(w) PROVE goal
  <2>1. dw[w].hit \in Ids \cup {None}
    BY <1>9, InJudgement DEF Claim
  <2>2. claims' \in [Ids -> Ids \cup {None, Unclaimed}]
    BY <1>1, <1>9, <2>1 DEF Claim
  <2>3. dw[w].unseen \in SUBSET Ids
    BY <1>9, InJudgement, Holder DEF Claim, BaseInv
  <2>4. unseen' \in [Ids -> SUBSET Ids]
    BY <1>1, <1>9, <2>3 DEF Claim
  <2> QED BY <1>1, <1>9, <2>2, <2>4 DEF Claim, normalizerVars
<1>10. ASSUME PublishCompleted(w) PROVE goal
  <2>1. dw[w].hit \in Ids \cup {None}
    BY <1>10, InJudgement DEF PublishCompleted
  <2>2. completed' \in [Ids -> Ids \cup {None, Unclaimed}]
    BY <1>1, <1>10, <2>1 DEF PublishCompleted
  <2> QED BY <1>1, <1>10, <2>2 DEF PublishCompleted, normalizerVars
<1>11. ASSUME DocumentErr(w) \/ DeduplicatorCrash(w) PROVE goal
  <2>1. faults' \in 0 .. MaxFaults
    BY <1>1, <1>11, Constants DEF DocumentErr, DeduplicatorCrash
  <2>2. dw[w].pc = "publish" => Doc(w) \in Ids
    BY InJudgement, InHand
  <2>3. DocumentErr(w) => Doc(w) \in Ids
    BY Holder, InHand DEF DocumentErr, BaseInv
  <2>4. skipped' \subseteq Ids /\ silent' \subseteq Ids
    BY <1>1, <1>11, <2>2, <2>3 DEF DocumentErr, DeduplicatorCrash, ClaimLeft
  <2> QED BY <1>1, <1>11, <2>1, <2>4 DEF DocumentErr, DeduplicatorCrash
<1> HIDE DEF goal
<1>12. goal
  BY <1>2, <1>3, <1>4, <1>5, <1>6, <1>7, <1>8, <1>9, <1>10, <1>11 DEF Steps, DeduplicatorStep
<1> QED BY <1>12 DEF goal

LEMMA DeduplicatorKeepsBase ==
  ASSUME BaseInv, NEW w \in Deduplicators, Steps(w)
  PROVE  BaseInv'
<1>1. /\ RowsStay /\ Present' = Present /\ Linked'
      /\ UNCHANGED <<normalized, nextId, nw, inbox, unannounced>>
  BY RowsAfter
<1>2. Moves(w)
  BY StepsMove
<1>3. /\ dw'[w] \in {Idle} \cup Reading \cup Judging
      /\ dw'[w] \in Judging => /\ dw'[w].todo # << >>
                               /\ dw'[w].pc \in {"resolve", "group"} => dw'[w].hit # None
      /\ HandOf(w)'
  BY <1>1, <1>2, MovedHand
<1>4. dw \in [Deduplicators -> {Idle} \cup Reading \cup Judging]
  BY DEF BaseInv, WorkersTyped
<1>5. \A v \in Deduplicators : HandOf(v)'
  <2>1. ASSUME NEW v \in Deduplicators, v # w PROVE HandOf(v)'
    BY <1>1, <1>2, <2>1, HandStays DEF Moves, BaseInv, ClaimsStay
  <2> QED BY <1>3, <2>1
<1>6. WorkersTyped'
  <2>1. \A v \in Deduplicators : dw'[v] \in {Idle} \cup Reading \cup Judging
    BY <1>2, <1>3, <1>4 DEF Moves
  <2>2. \A v \in Deduplicators : dw'[v] \in Judging =>
          dw'[v].todo # << >> /\ (dw'[v].pc \in {"resolve", "group"} => dw'[v].hit # None)
    BY <1>2, <1>3 DEF Moves, BaseInv, WorkersTyped
  <2>3. dw' \in [Deduplicators -> {Idle} \cup Reading \cup Judging]
    <3>1. dw' = [v \in Deduplicators |-> dw'[v]]
      BY <1>2 DEF Moves
    <3> QED BY <2>1, <3>1
  <2> QED BY <1>1, <2>2, <2>3 DEF WorkersTyped, BaseInv
<1>7. TypeOK'
  BY <1>1, TablesTyped DEF TypeOK, BaseInv
<1>8. ClaimsHold'
  BY <1>1, TablesTyped, QuietKeeps
<1>9. NormalizerInv'
  BY <1>1, <1>8 DEF ClaimsHold, NormalizerInv, BaseInv
<1> QED BY <1>1, <1>5, <1>6, <1>7, <1>9 DEF BaseInv


LEMMA InitBase == Init => BaseInv
<1> SUFFICES ASSUME Init PROVE BaseInv
  OBVIOUS
<1> USE DEF Init, NormalizerInit
<1>1. /\ documents = [d \in Ids |-> None] /\ normalized = [r \in Raws |-> None]
      /\ events = [r \in Raws |-> "none"] /\ nw = [w \in Normalizers |-> Idle]
      /\ dw = [w \in Deduplicators |-> Idle]
  OBVIOUS
<1>2. Present = {}
  BY <1>1 DEF Present
<1>3. TypeOK
  BY Constants DEF TypeOK
<1>4. Idle.pc = "idle" /\ Idle \notin Judging
  BY DEF Idle, Judging
<1>5. WorkersTyped
  BY <1>1, <1>4 DEF WorkersTyped
<1>6. NormalizerInv
  BY <1>1, <1>2, <1>4 DEF NormalizerInv, DocumentsOfClaim, ClaimOf, BuildOf, Apart
<1>7. Linked /\ \A w \in Deduplicators : HandOf(w)
  BY <1>1, <1>2 DEF Linked, HandOf
<1> QED BY <1>3, <1>5, <1>6, <1>7 DEF BaseInv

\* Every step is one of the normalizer, of one deduplicator, or none.
LEMMA StepKinds ==
  ASSUME [Next]_vars
  PROVE  \/ NormalizerNext /\ UNCHANGED dedupVars
         \/ \E w \in Deduplicators : Steps(w)
         \/ UNCHANGED vars
  BY DEF Next, DeduplicatorNext, Steps

LEMMA BaseStep == BaseInv /\ [Next]_vars => BaseInv'
<1> SUFFICES ASSUME BaseInv, [Next]_vars PROVE BaseInv'
  OBVIOUS
<1>1. CASE UNCHANGED vars
  BY <1>1 DEF vars, BaseInv, TypeOK, WorkersTyped, NormalizerInv, Linked, HandOf, DocumentsOfClaim, ClaimOf,
              BuildOf, Apart, IsBatch, Present, Doc
<1> QED BY <1>1, StepKinds, NormalizerKeepsBase, DeduplicatorKeepsBase

THEOREM BaseHolds == Spec => []BaseInv
  BY InitBase, BaseStep, PTL DEF Spec

\* However many workers normalise one evidence, crash, or are handed it again, the
\* documents that exist are those its one claim names (persist_documents).
THEOREM DocumentsAreClaimed == Spec => []DocumentsOfClaim
<1>1. BaseInv => DocumentsOfClaim
  BY DEF BaseInv, NormalizerInv
<1> QED BY <1>1, BaseHolds, PTL

------------------------------------------------------------------------------
(* duplicate_of is older. *)

\* What is excused stays excused.
LEMMA ExcusesStay ==
  ASSUME [Next]_vars
  PROVE  drifted \subseteq drifted' /\ doubted \subseteq doubted'
<1>1. CASE UNCHANGED vars \/ UNCHANGED dedupVars
  BY <1>1 DEF vars, dedupVars
<1>2. ASSUME NEW w \in Deduplicators, Steps(w) PROVE drifted \subseteq drifted' /\ doubted \subseteq doubted'
  BY <1>2 DEF Steps, DeduplicatorStep, TakeEvent, EndEvent, AlreadyDone, FindDuplicate,
         ResolveCanonical, WriteGroup, PutDocument, Claim, PublishCompleted, DocumentErr, DeduplicatorCrash
<1> QED BY <1>1, <1>2, StepKinds

LEMMA OlderStep ==
  ASSUME BaseInv, BaseInv', OlderInv, [Next]_vars
  PROVE  OlderInv'
<1>1. \A d \in Present : d \in Nat
  BY RowOf, Constants DEF BaseInv
<1>5. drifted \subseteq drifted'
  BY ExcusesStay
<1>2. CASE UNCHANGED vars
  BY <1>2 DEF vars, OlderInv, DuplicateOfOlder, HitOlder, Judged, Older, Doc, Present
<1>3. CASE NormalizerNext /\ UNCHANGED dedupVars
  <2>1. RowsAdded /\ RowsStay
    BY <1>3, NormalizerKeepsBase
  <2>2. Present \subseteq Present'
    BY <2>1 DEF RowsStay, Present
  <2>3. DuplicateOfOlder'
    BY <1>5, <2>1, <2>2 DEF RowsAdded, OlderInv, DuplicateOfOlder
  <2>4. \A w \in Deduplicators : HitOlder(w)'
    BY <1>3, <2>2 DEF dedupVars, OlderInv, HitOlder, Judged, Older, Doc
  <2> QED BY <2>3, <2>4 DEF OlderInv
<1>4. ASSUME NEW w \in Deduplicators, Steps(w) PROVE OlderInv'
  <2>1. RowsStay /\ Present' = Present /\ (~PutDocument(w) => documents' = documents)
    BY <1>4, RowsAfter
  <2>2. Moves(w)
    BY <1>4, StepsMove
  <2>3. DuplicateOfOlder'
    <3>1. CASE ~PutDocument(w)
      BY <1>5, <2>1, <3>1 DEF OlderInv, DuplicateOfOlder
    <3>2. CASE PutDocument(w)
      <4>1. documents'[Doc(w)].duplicate_of = dw[w].hit
            /\ \A d \in Ids : d # Doc(w) => documents'[d] = documents[d]
        BY <3>2, PutWrites
      <4>2. dw[w].hit # None => dw[w].hit \in Present /\ (dw[w].hit < Doc(w) \/ Doc(w) \in drifted)
        BY <3>2, Holder, InJudgement DEF OlderInv, HitOlder, Judged, Older, PutDocument, BaseInv
      <4>3. Present \subseteq Ids
        BY DEF Present
      <4> QED BY <1>5, <2>1, <4>1, <4>2, <4>3 DEF OlderInv, DuplicateOfOlder
    <3> QED BY <3>1, <3>2
  <2>4. ASSUME NEW v \in Deduplicators, v # w PROVE HitOlder(v)'
    <3>1. dw'[v] = dw[v] /\ HitOlder(v)
      BY <2>2, <2>4 DEF Moves, OlderInv
    <3> QED BY <1>5, <2>1, <3>1 DEF HitOlder, Judged, Older, Doc
  <2>5. HitOlder(w)'
    <3>1. CASE ~GoesOn(w)
      <4>1. ~Judged(w)'
        BY <2>2, <3>1 DEF Moves, Takes, Leaves, NextDocument, Judged
      <4> QED BY <4>1 DEF HitOlder
    <3>2. CASE GoesOn(w)
      <4>1. Doc(w)' = Doc(w) /\ Doc(w) \in Present /\ Older(Doc(w))' = Older(Doc(w))
        BY <2>1, <3>2, InHand DEF GoesOn, Doc, Older
      <4>2. SUFFICES ASSUME dw'[w].hit # None, Doc(w) \notin drifted' PROVE dw'[w].hit \in Older(Doc(w))
        BY <4>1 DEF HitOlder
      <4>3. CASE FindDuplicate(w)
        BY <4>1, <4>2, <4>3, FindMoves, CandidateKinds DEF BaseInv
      <4>4. CASE ResolveCanonical(w)
        <5>1. dw[w].hit \in Older(Doc(w))
          BY <1>5, <4>2, <4>4, InJudgement, Holder DEF ResolveCanonical, OlderInv, HitOlder, BaseInv
        <5>2. PICK h : h = dw[w].hit OBVIOUS
        <5>3. h \in Present /\ h < Doc(w)
          BY <5>1, <5>2 DEF Older
        <5>4. Chain(h)[MaxChainDepth] \in Present /\ Chain(h)[MaxChainDepth] <= h
          BY <4>2, <4>4, <5>2, <5>3, ChainEnd, ResolveMoves DEF BaseInv, OlderInv
        <5>5. ~Leaves(w)
          BY <3>2 DEF GoesOn, Leaves, NextDocument, Judging
        <5>6. dw'[w].hit = Chain(h)[MaxChainDepth]
          BY <4>4, <5>2, <5>5, ResolveMoves
        <5> QED BY <1>1, <4>1, <5>3, <5>4, <5>6 DEF Older
      <4>5. CASE ~FindDuplicate(w) /\ ~ResolveCanonical(w)
        <5>1. dw'[w].hit = dw[w].hit /\ Judged(w)
          BY <1>4, <3>2, <4>5, OtherwiseSameHit
        <5> QED BY <1>5, <4>2, <5>1 DEF OlderInv, HitOlder
      <4> QED BY <4>3, <4>4, <4>5
    <3> QED BY <3>1, <3>2
  <2> QED BY <2>3, <2>4, <2>5 DEF OlderInv
<1> QED BY <1>2, <1>3, <1>4, StepKinds


\* Documents handled in any order, by any number of workers, again and again, get a
\* duplicate_of that is older, except those that Stage 5 answered for or that were
\* resolved through one: resolve_canonical follows a chain that decreases.
THEOREM DuplicatesAreOlder == Spec => []DuplicateOfOlder
<1>1. Init => OlderInv
  <2> SUFFICES ASSUME Init PROVE OlderInv
    OBVIOUS
  <2>1. Present = {} /\ dw = [w \in Deduplicators |-> Idle]
    BY DEF Init, NormalizerInit, Present
  <2> QED BY <2>1 DEF OlderInv, DuplicateOfOlder, HitOlder, Judged
<1>2. BaseInv /\ BaseInv' /\ OlderInv /\ [Next]_vars => OlderInv'
  BY OlderStep
<1>3. OlderInv => DuplicateOfOlder
  BY DEF OlderInv
<1> QED BY <1>1, <1>2, <1>3, BaseHolds, PTL DEF Spec

------------------------------------------------------------------------------
(* Keys, and messages in two workers' hands. *)

\* A claim is made by Claim alone, for the document in hand.
LEMMA ClaimsAfter ==
  ASSUME BaseInv, NEW w \in Deduplicators, Steps(w)
  PROVE  \/ claims' = claims /\ ~(Claim(w) /\ claims[Doc(w)] = Unclaimed)
         \/ /\ Claim(w) /\ claims[Doc(w)] = Unclaimed /\ Doc(w) \in Ids
            /\ claims'[Doc(w)] = dw[w].hit /\ \A d \in Ids : d # Doc(w) => claims'[d] = claims[d]
<1>1. CASE Claim(w) /\ claims[Doc(w)] = Unclaimed
  <2>1. Doc(w) \in Ids /\ claims \in [Ids -> Ids \cup {None, Unclaimed}]
    BY <1>1, InJudgement, InHand DEF Claim, BaseInv, TypeOK
  <2> QED BY <1>1, <2>1 DEF Claim
<1>2. CASE ~(Claim(w) /\ claims[Doc(w)] = Unclaimed)
  BY <1>2 DEF Steps, DeduplicatorStep, TakeEvent, EndEvent, AlreadyDone, FindDuplicate,
         ResolveCanonical, WriteGroup, PutDocument, Claim, PublishCompleted, DocumentErr, DeduplicatorCrash
<1> QED BY <1>1, <1>2

LEMMA KeyedStep ==
  ASSUME BaseInv, KeyedInv, [Next]_vars
  PROVE  KeyedInv'
<1>1. CASE UNCHANGED vars
  BY <1>1 DEF vars, KeyedInv, Doc, Present
<1>2. ASSUME NEW w \in Deduplicators, dw[w].pc = "claim" PROVE Doc(w) \in Present
  BY <1>2, InJudgement, InHand
<1>3. CASE NormalizerNext /\ UNCHANGED dedupVars
  <2>1. RowsStay
    BY <1>3, NormalizerKeepsBase
  <2>2. \A d \in Ids : claims'[d] # Unclaimed => d \in Present' /\ documents'[d].keyed
    BY <1>3, <2>1 DEF dedupVars, KeyedInv, RowsStay, Present
  <2>3. ASSUME NEW w \in Deduplicators, dw'[w].pc = "claim" PROVE documents'[Doc(w)'].keyed
    <3>1. dw[w].pc = "claim" /\ Doc(w)' = Doc(w)
      BY <1>3, <2>3 DEF dedupVars, Doc
    <3> QED BY <1>2, <2>1, <3>1 DEF KeyedInv, RowsStay
  <2> QED BY <2>2, <2>3 DEF KeyedInv
<1>4. ASSUME NEW w \in Deduplicators, Steps(w) PROVE KeyedInv'
  <2>1. RowsStay /\ Present' = Present
    BY <1>4, RowsAfter
  <2>2. Moves(w)
    BY <1>4, StepsMove
  <2>3. ASSUME NEW d \in Ids, claims'[d] # Unclaimed PROVE d \in Present' /\ documents'[d].keyed
    <3>1. d \in Present /\ documents[d].keyed
      <4>1. CASE claims[d] # Unclaimed
        BY <4>1 DEF KeyedInv
      <4>2. CASE claims[d] = Unclaimed
        <5>1. Claim(w) /\ d = Doc(w)
          BY <1>4, <2>3, <4>2, ClaimsAfter
        <5> QED BY <1>2, <5>1 DEF Claim, KeyedInv
      <4> QED BY <4>1, <4>2
    <3> QED BY <2>1, <3>1 DEF RowsStay
  <2>4. ASSUME NEW v \in Deduplicators, dw'[v].pc = "claim" PROVE documents'[Doc(v)'].keyed
    <3>1. CASE v # w
      <4>1. dw[v].pc = "claim" /\ Doc(v)' = Doc(v)
        BY <2>2, <2>4, <3>1 DEF Moves, Doc
      <4> QED BY <1>2, <2>1, <4>1 DEF KeyedInv, RowsStay
    <3>2. CASE v = w
      <4>1. GoesOn(w)
        BY <2>2, <2>4, <3>2 DEF Moves, Takes, Leaves, NextDocument, Idle
      <4>2. Doc(w)' = Doc(w)
        BY <4>1 DEF GoesOn, Doc
      <4>3. ~FindDuplicate(w)
        BY <2>4, <3>2, FindMoves
      <4>4. ~ResolveCanonical(w)
        <5>1. ~Leaves(w)
          BY <4>1 DEF GoesOn, Leaves, NextDocument, Judging
        <5> QED BY <2>4, <3>2, <5>1, ResolveMoves
      <4>5. PutDocument(w)
        BY <1>4, <2>4, <3>2, <4>1, <4>3, <4>4, OtherwiseSameHit DEF Advances
      <4> QED BY <3>2, <4>2, <4>5, PutWrites
    <3> QED BY <3>1, <3>2
  <2> QED BY <2>3, <2>4 DEF KeyedInv
<1> QED BY <1>1, <1>3, <1>4, StepKinds

\* The documents of a message are those of its evidence.
LEMMA OfMessage ==
  ASSUME BaseInv, NEW w \in Deduplicators, dw[w] # Idle, NEW i \in DOMAIN dw[w].todo
  PROVE  \E k \in DOMAIN normalized[dw[w].raw] : normalized[dw[w].raw][k] = dw[w].todo[i]
<1>1. dw[w].todo[i] \in Present /\ documents[dw[w].todo[i]].raw = dw[w].raw
  BY DEF BaseInv, HandOf
<1> QED BY <1>1 DEF BaseInv, NormalizerInv, DocumentsOfClaim

LEMMA SharedStep ==
  ASSUME BaseInv, Shared, [Next]_vars
  PROVE  Shared'
<1>1. CASE UNCHANGED vars \/ UNCHANGED dedupVars
  BY <1>1 DEF vars, dedupVars, Shared, InDoubt
<1>2. ASSUME NEW w \in Deduplicators, Steps(w) PROVE Shared'
  <2>1. Moves(w)
    BY <1>2, StepsMove
  <2>2. doubted \subseteq doubted'
    BY ExcusesStay
  <2>3. \A v \in Deduplicators : v # w => dw'[v] = dw[v]
    BY <2>1 DEF Moves
  <2>4. ASSUME NEW v \in Deduplicators, v # w, dw[v] # Idle, dw'[w] # Idle, dw'[w].raw = dw[v].raw
        PROVE  InDoubt(v)' /\ InDoubt(w)'
    <3>1. dw'[v] = dw[v]
      BY <2>3, <2>4
    <3>2. CASE Takes(w)
      <4>1. PICK r \in Raws : /\ Held(r) => \A i \in DOMAIN normalized[r] : normalized[r][i] \in doubted'
                              /\ dw'[w] = [pc |-> "next", raw |-> r, todo |-> normalized[r]]
        BY <3>2 DEF Takes
      <4>2. dw[v].raw = r /\ \A i \in DOMAIN normalized[r] : normalized[r][i] \in doubted'
        BY <2>4, <4>1 DEF Held
      <4>3. \A i \in DOMAIN dw[v].todo : dw[v].todo[i] \in doubted'
        BY <2>4, <4>2, OfMessage
      <4> QED BY <3>1, <4>1, <4>2, <4>3 DEF InDoubt
    <3>3. CASE GoesOn(w) \/ Leaves(w)
      <4>1. dw[w] # Idle /\ dw'[w].raw = dw[w].raw /\ dw[w].todo # << >>
            /\ (dw'[w].todo = dw[w].todo \/ dw'[w].todo = Tail(dw[w].todo))
        <5>1. CASE GoesOn(w)
          BY <5>1 DEF GoesOn
        <5>2. CASE Leaves(w)
          BY <5>2 DEF Leaves, NextDocument
        <5> QED BY <3>3, <5>1, <5>2
      <4>2. InDoubt(v) /\ InDoubt(w)
        BY <2>4, <4>1 DEF Shared
      <4>3. dw[w].todo \in Seq(Ids)
        BY <4>1, Holder DEF BaseInv
      <4>4. \A i \in DOMAIN Tail(dw[w].todo) : Tail(dw[w].todo)[i] \in doubted
        BY <4>1, <4>2, <4>3, HeadTail DEF InDoubt
      <4> QED BY <2>2, <3>1, <4>1, <4>2, <4>4 DEF InDoubt
    <3> QED BY <2>1, <2>4, <3>2, <3>3 DEF Moves
  <2>5. ASSUME NEW u \in Deduplicators, NEW v \in Deduplicators, u # v, u # w, v # w,
               dw[u] # Idle, dw[v] # Idle, dw[u].raw = dw[v].raw
        PROVE  InDoubt(v)'
    BY <2>2, <2>3, <2>5 DEF Shared, InDoubt
  <2> QED BY <2>3, <2>4, <2>5 DEF Shared
<1> QED BY <1>1, <1>2, StepKinds

\* A document two workers are at is in doubt.
LEMMA DocShared ==
  ASSUME BaseInv, Shared, NEW v \in Deduplicators, NEW w \in Deduplicators, v # w,
         dw[v] # Idle, dw[v].todo # << >>, dw[w] # Idle, dw[w].todo # << >>, Doc(v) = Doc(w)
  PROVE  Doc(v) \in doubted
<1>1. dw[v].raw = dw[w].raw /\ dw[v].todo \in Seq(Ids)
  BY InHand, Holder DEF BaseInv
<1>2. 1 \in DOMAIN dw[v].todo /\ Doc(v) = dw[v].todo[1]
  BY <1>1, HeadTail DEF Doc
<1> QED BY <1>1, <1>2 DEF Shared, InDoubt


------------------------------------------------------------------------------
(* What a document misses was not to be seen. *)

LEMMA SearchedStays ==
  ASSUME RowsStay, NEW d \in Present, NEW missed, Searched(d, missed)
  PROVE  \A e \in Ids : e < d /\ e \notin missed =>
           e \in Present' /\ (documents'[d].content.ext = None
                              \/ documents'[e].content.ext # documents'[d].content.ext)
<1>1. documents'[d].content = documents[d].content
      /\ \A e \in Present : e \in Present' /\ documents'[e].content = documents[e].content
  BY DEF RowsStay, Present
<1> QED BY <1>1 DEF Searched

\* Only a claim says what its attempt could not see.
LEMMA UnseenAfter ==
  ASSUME BaseInv, NEW w \in Deduplicators, Steps(w)
  PROVE  \A d \in Ids : \/ claims'[d] = claims[d] /\ unseen'[d] = unseen[d]
                        \/ Claim(w) /\ d = Doc(w) /\ claims'[d] = dw[w].hit /\ unseen'[d] = dw[w].unseen
<1>1. CASE Claim(w)
  <2>1. unseen \in [Ids -> SUBSET Ids] /\ claims \in [Ids -> Ids \cup {None, Unclaimed}]
    BY DEF BaseInv, TypeOK
  <2> QED BY <1>1, <2>1 DEF Claim
<1>2. CASE ~Claim(w)
  BY <1>2 DEF Steps, DeduplicatorStep, TakeEvent, EndEvent, AlreadyDone, FindDuplicate,
         ResolveCanonical, WriteGroup, PutDocument, PublishCompleted, DocumentErr, DeduplicatorCrash
<1> QED BY <1>1, <1>2

\* A lookup without an answer has seen no claimed document with the key.
LEMMA LookupSearches ==
  ASSUME BaseInv, KeyedInv, NEW w \in Deduplicators, FindDuplicate(w), dw'[w].hit = None
  PROVE  Searched(Doc(w), dw'[w].unseen)
<1>1. dw[w] # Idle /\ dw[w].todo # << >>
  BY Holder DEF FindDuplicate, BaseInv
<1>2. Doc(w) \in Present /\ Doc(w) \in Ids
  BY <1>1, InHand
<1>3. ByExternalKey(Doc(w)) = {}
  BY <1>2, FindMoves, CandidateKinds DEF BaseInv
<1>4. PICK d : d = Doc(w) OBVIOUS
<1>5. dw'[w].unseen = {e \in Ids : e < d /\ claims[e] = Unclaimed}
  BY <1>4, FindMoves
<1>6. ASSUME NEW e \in Ids, e < d, e \notin dw'[w].unseen
      PROVE  e \in Present /\ (documents[d].content.ext = None
                               \/ documents[e].content.ext # documents[d].content.ext)
  <2>1. e \in Present /\ documents[e].keyed
    BY <1>5, <1>6 DEF KeyedInv
  <2>2. e \notin ByExternalKey(d) /\ e \in Older(d)
    BY <1>3, <1>4, <1>6, <2>1 DEF Older
  <2> QED BY <2>1, <2>2 DEF ByExternalKey
<1> QED BY <1>4, <1>6 DEF Searched

LEMMA UnseenStep ==
  ASSUME BaseInv, KeyedInv, UnseenInv, [Next]_vars
  PROVE  UnseenInv'
<1>1. \A d \in Ids : claims[d] = None => d \in Present /\ Searched(d, unseen[d])
  BY Constants DEF KeyedInv, UnseenInv
<1>2. \A w \in Deduplicators : dw[w].pc \in {"put", "claim"} =>
        Doc(w) \in Present /\ dw[w] # Idle /\ dw[w].todo # << >>
  BY InJudgement, InHand
<1>3. CASE UNCHANGED vars
  BY <1>3 DEF vars, UnseenInv, SearchOf, Searched, Doc, Present
<1> DEFINE Seen(d, missed) == \A e \in Ids : e < d /\ e \notin missed =>
              e \in Present' /\ (documents'[d].content.ext = None
                                 \/ documents'[e].content.ext # documents'[d].content.ext)
<1>4. ASSUME RowsStay, NEW d \in Present, NEW missed, Searched(d, missed) PROVE Seen(d, missed)
  BY <1>4, SearchedStays
<1>5. \A d \in Ids : Seen(d, unseen'[d]) <=> Searched(d, unseen[d])'
  BY DEF Searched
<1>6. \A w \in Deduplicators : Seen(Doc(w)', dw'[w].unseen) <=> Searched(Doc(w), dw[w].unseen)'
  BY DEF Searched
<1> HIDE DEF Seen
<1>7. ASSUME RowsStay, NEW w \in Deduplicators, dw'[w] = dw[w] PROVE SearchOf(w)'
  <2>1. SUFFICES ASSUME dw[w].pc \in {"put", "claim"}, dw[w].hit = None
                 PROVE  Seen(Doc(w)', dw'[w].unseen)
    BY <1>6, <1>7 DEF SearchOf
  <2>2. Doc(w) \in Present /\ Searched(Doc(w), dw[w].unseen)
    BY <1>2, <2>1 DEF UnseenInv, SearchOf
  <2>3. Seen(Doc(w), dw[w].unseen)
    BY <1>4, <1>7, <2>2
  <2>4. Doc(w)' = Doc(w)
    BY <1>7 DEF Doc
  <2> QED BY <1>7, <2>3, <2>4
<1>8. CASE NormalizerNext /\ UNCHANGED dedupVars
  <2>1. RowsStay
    BY <1>8, NormalizerKeepsBase
  <2>2. ASSUME NEW d \in Ids, claims'[d] = None PROVE Searched(d, unseen[d])'
    <3>1. claims[d] = None /\ unseen'[d] = unseen[d]
      BY <1>8, <2>2 DEF dedupVars
    <3>2. Seen(d, unseen[d])
      BY <1>1, <1>4, <2>1, <3>1
    <3> QED BY <1>5, <3>1, <3>2
  <2>3. \A w \in Deduplicators : SearchOf(w)'
    BY <1>7, <1>8, <2>1 DEF dedupVars
  <2> QED BY <2>2, <2>3 DEF UnseenInv
<1>9. ASSUME NEW w \in Deduplicators, Steps(w) PROVE UnseenInv'
  <2>1. RowsStay /\ Moves(w)
    BY <1>9, RowsAfter, StepsMove
  <2>2. ASSUME NEW d \in Ids, claims'[d] = None PROVE Searched(d, unseen[d])'
    <3>1. CASE claims[d] = None /\ unseen'[d] = unseen[d]
      <4>1. Seen(d, unseen[d])
        BY <1>1, <1>4, <2>1, <3>1
      <4> QED BY <1>5, <3>1, <4>1
    <3>2. CASE Claim(w) /\ d = Doc(w) /\ dw[w].hit = None /\ unseen'[d] = dw[w].unseen
      <4>1. d \in Present /\ Searched(d, dw[w].unseen)
        BY <1>2, <3>2 DEF Claim, UnseenInv, SearchOf
      <4>2. Seen(d, dw[w].unseen)
        BY <1>4, <2>1, <4>1
      <4> QED BY <1>5, <3>2, <4>2
    <3> QED BY <1>9, <2>2, <3>1, <3>2, UnseenAfter
  <2>3. \A v \in Deduplicators : v # w => SearchOf(v)'
    BY <1>7, <2>1 DEF Moves
  <2>4. SearchOf(w)'
    <3>1. SUFFICES ASSUME dw'[w].pc \in {"put", "claim"}, dw'[w].hit = None
                   PROVE  Seen(Doc(w)', dw'[w].unseen)
      BY <1>6 DEF SearchOf
    <3>2. GoesOn(w)
      BY <2>1, <3>1 DEF Moves, Takes, Leaves, NextDocument, Idle
    <3>3. Doc(w)' = Doc(w)
      BY <3>2 DEF GoesOn, Doc
    <3>4. CASE FindDuplicate(w)
      <4>1. Doc(w) \in Present
        BY <3>2, InHand DEF GoesOn
      <4>2. Seen(Doc(w), dw'[w].unseen)
        BY <1>4, <2>1, <3>1, <3>4, <4>1, LookupSearches
      <4> QED BY <3>3, <4>2
    <3>5. CASE ~FindDuplicate(w)
      <4>1. ~ResolveCanonical(w)
        <5>1. ~Leaves(w)
          BY <3>2 DEF GoesOn, Leaves, NextDocument, Judging
        <5> QED BY <3>1, <5>1, ResolveMoves
      <4>2. dw[w].hit = None /\ dw[w].pc \in {"group", "put"} /\ dw'[w].unseen = dw[w].unseen
        BY <1>9, <3>1, <3>2, <3>5, <4>1, OtherwiseSameHit DEF Advances
      <4>3. dw[w].pc = "put"
        BY <4>2, InJudgement
      <4>4. Doc(w) \in Present /\ Searched(Doc(w), dw[w].unseen)
        BY <1>2, <4>2, <4>3 DEF UnseenInv, SearchOf
      <4>5. Seen(Doc(w), dw[w].unseen)
        BY <1>4, <2>1, <4>4
      <4> QED BY <3>3, <4>2, <4>5
    <3> QED BY <3>4, <3>5
  <2> QED BY <2>2, <2>3, <2>4 DEF UnseenInv
<1> QED BY <1>3, <1>8, <1>9, StepKinds

LEMMA AllIdle ==
  ASSUME Init
  PROVE  /\ \A w \in Deduplicators : dw[w] = Idle
         /\ \A d \in Ids : claims[d] = Unclaimed /\ groups[d] = Unclaimed /\ completed[d] = Unclaimed
         /\ Idle.pc = "idle"
  BY DEF Init, Idle

\* Two documents with one external key are both canonical only when the older was
\* not claimed yet as the worker that claimed the newer looked it up, however many
\* workers have a message in hand (dedup_document writes the keys back before it
\* claims, and no later write takes them away).
THEOREM MissedWereUnseen == Spec => []MissedOnlyUnseen
<1>1. Init => KeyedInv /\ UnseenInv
  BY AllIdle, Constants DEF KeyedInv, UnseenInv, SearchOf
<1>2. BaseInv /\ KeyedInv /\ UnseenInv /\ [Next]_vars => KeyedInv' /\ UnseenInv'
  BY KeyedStep, UnseenStep
<1>3. BaseInv /\ KeyedInv /\ UnseenInv => MissedOnlyUnseen
  <2> SUFFICES ASSUME KeyedInv, UnseenInv, NEW d \in Ids, NEW e \in Ids, d < e, claims[d] = None, claims[e] = None,
                      documents[d].content.ext = documents[e].content.ext, documents[d].content.ext # None
               PROVE  d \in unseen[e]
    BY DEF MissedOnlyUnseen
  <2>1. Searched(e, unseen[e])
    BY DEF UnseenInv
  <2> QED BY <2>1 DEF Searched
<1> QED BY <1>1, <1>2, <1>3, BaseHolds, PTL DEF Spec


------------------------------------------------------------------------------
(* The verdict on a document. *)

\* A URL that is taken away leaves in doubt what was found under it.
UrlsStay ==
  \A e \in Present : documents'[e].url = documents[e].url
    \/ \A d \in Present : documents[d].content.url = documents[e].url => d \in doubted'

LEMMA UrlsAfter ==
  ASSUME BaseInv, NEW w \in Deduplicators, Steps(w)
  PROVE  UrlsStay
<1>1. CASE ~PutDocument(w)
  BY <1>1, RowsAfter DEF UrlsStay
<1>2. CASE PutDocument(w)
  <2>1. \A d \in Ids : d # Doc(w) => documents'[d] = documents[d]
    BY <1>2, PutWrites
  <2>2. \A d \in Present : documents[d].content.url = documents[Doc(w)].url
          /\ documents'[Doc(w)].url # documents[Doc(w)].url => d \in doubted'
    BY <1>2 DEF PutDocument, LosesUrl
  <2> QED BY <2>1, <2>2 DEF UrlsStay, Present
<1> QED BY <1>1, <1>2

\* What a stage finds it finds again, the window of the scan apart.
LEMMA HittableStays ==
  ASSUME RowsStay, UrlsStay, NEW d \in Present, Hittable(d), d \notin doubted'
  PROVE  Hittable(d)'
<1>1. /\ documents'[d].content = documents[d].content
      /\ \A e \in Present : /\ e \in Present' /\ documents'[e].content = documents[e].content
                            /\ documents[e].keyed => documents'[e].keyed
  BY DEF RowsStay, Present
<1>2. CASE ByExternalKey(d) # {}
  <2>1. PICK e \in ByExternalKey(d) : TRUE
    BY <1>2
  <2>2. e \in ByExternalKey(d)'
    BY <1>1, <2>1 DEF ByExternalKey, Older
  <2> QED BY <2>2 DEF Hittable
<1>3. CASE ByCanonicalUrl(d) # {}
  <2>1. PICK e \in ByCanonicalUrl(d) : TRUE
    BY <1>3
  <2>2. e \in Present /\ e < d /\ documents[d].content.url # None /\ documents[e].url = documents[d].content.url
    BY <2>1 DEF ByCanonicalUrl, Older
  <2>3. documents'[e].url = documents[d].content.url
    BY <2>2 DEF UrlsStay
  <2>4. e \in ByCanonicalUrl(d)'
    BY <1>1, <2>2, <2>3 DEF ByCanonicalUrl, Older
  <2> QED BY <2>4 DEF Hittable
<1>4. CASE ByContentHash(d) # {}
  <2>1. PICK e \in ByContentHash(d) : TRUE
    BY <1>4
  <2>2. e \in ByContentHash(d)'
    BY <1>1, <2>1 DEF ByContentHash, Older
  <2> QED BY <2>2 DEF Hittable
<1>5. CASE Similar(d) # {}
  <2>1. PICK e \in Similar(d) : TRUE
    BY <1>5
  <2>2. e \in Fingerprinted(d) /\ e \in Present /\ documents[d].content.sim # None /\ Distance(d, e) <= SimDistance
    BY <2>1 DEF Similar, Fingerprinted, Older
  <2>3. (e \in Fingerprinted(d))'
    BY <1>1, <2>2 DEF Fingerprinted, Older
  <2>4. Distance(d, e)' = Distance(d, e)
    BY <1>1, <2>2 DEF Distance
  <2>5. (e \in Similar(d))'
    BY <1>1, <2>2, <2>3, <2>4 DEF Similar
  <2> QED BY <2>5 DEF Hittable
<1> QED BY <1>2, <1>3, <1>4, <1>5 DEF Hittable

\* A lookup that is not left in doubt answers exactly when something is to be hit.
LEMMA LookupHits ==
  ASSUME BaseInv, NEW w \in Deduplicators, FindDuplicate(w),
         Doc(w) \notin drifted', Doc(w) \notin doubted'
  PROVE  dw'[w].hit # None <=> Hittable(Doc(w))
<1>1. Doc(w) \in Present
  BY Holder, InHand DEF FindDuplicate, BaseInv
<1>2. dw'[w].hit \in Candidates(Doc(w))
      /\ (LeftToStage5(Doc(w)) => dw'[w].hit = None /\ Similar(Doc(w)) = {})
  BY FindMoves
<1>3. (Findable(Doc(w)) => dw'[w].hit # None) /\ (LeftToStage5(Doc(w)) <=> ~Findable(Doc(w)))
  BY <1>1, <1>2, CandidateKinds DEF BaseInv
<1>4. BySimhash(Doc(w)) \subseteq Similar(Doc(w))
  BY DEF BySimhash
<1>5. CASE Findable(Doc(w))
  BY <1>3, <1>4, <1>5 DEF Findable, Hittable
<1>6. CASE ~Findable(Doc(w))
  BY <1>2, <1>3, <1>6 DEF Findable, Hittable
<1> QED BY <1>5, <1>6


\* The step leaves what is recorded about d.
SameRecord(d) ==
  /\ groups'[d] = groups[d] /\ claims'[d] = claims[d] /\ completed'[d] = completed[d]
  /\ d \in Present => documents'[d].duplicate_of = documents[d].duplicate_of

LEMMA VerdictStays ==
  ASSUME KeyedInv, RowsStay, UrlsStay, [Next]_vars, NEW d \in Ids, VerdictOf(d), SameRecord(d)
  PROVE  VerdictOf(d)'
<1>1. SUFFICES ASSUME ~Excused(d)' PROVE RecordOf(d)'
  BY DEF VerdictOf
<1>2. d \notin doubted' /\ ~Excused(d)
  BY <1>1, ExcusesStay DEF Excused
<1>3. RecordOf(d)
  BY <1>2 DEF VerdictOf
<1>4. ASSUME groups'[d] # Unclaimed PROVE d \in Present' /\ Hittable(d)'
  <2>1. d \in Present /\ Hittable(d)
    BY <1>3, <1>4 DEF SameRecord, RecordOf
  <2> QED BY <1>2, <2>1, HittableStays DEF RowsStay, Present
<1>5. claims[d] # Unclaimed => d \in Present
  BY DEF KeyedInv
<1> QED BY <1>3, <1>4, <1>5 DEF RecordOf, SameRecord

LEMMA WorkStays ==
  ASSUME BaseInv, RowsStay, UrlsStay, [Next]_vars, NEW w \in Deduplicators, WorkOf(w),
         dw'[w] = dw[w], Judged(w) /\ ~Excused(Doc(w)) => SameRecord(Doc(w))
  PROVE  WorkOf(w)'
<1>1. PICK d : d = Doc(w) OBVIOUS
<1>2. Doc(w)' = d
  BY <1>1 DEF Doc
<1>3. SUFFICES ASSUME Judged(w), ~(d \in drifted' \cup doubted') PROVE IntentOf(w)'
  BY <1>2 DEF WorkOf, Judged, Excused
<1>4. d \notin doubted' /\ ~Excused(d)
  BY <1>3, ExcusesStay DEF Excused
<1>5. IntentOf(w) /\ SameRecord(d)
  BY <1>1, <1>3, <1>4 DEF WorkOf
<1>6. dw[w].pc \in {"resolve", "group", "put", "claim", "publish"}
  BY <1>3, Holder DEF BaseInv, Judging
<1>7. d \in Present
  BY <1>1, <1>6, InJudgement, InHand
<1>8. Hittable(d) => Hittable(d)'
  BY <1>4, <1>7, HittableStays
<1> QED BY <1>1, <1>2, <1>5, <1>7, <1>8 DEF IntentOf, SameRecord

\* A step of a deduplicator touches the records of its document only.
LEMMA OthersSame ==
  ASSUME BaseInv, NEW w \in Deduplicators, Steps(w), NEW d \in Ids
  PROVE  /\ d # Doc(w) \/ ~Judged(w) => SameRecord(d)
         /\ FindDuplicate(w) \/ ResolveCanonical(w) => SameRecord(d)
<1>1. groups \in [Ids -> Ids \cup {Unclaimed}] /\ completed \in [Ids -> Ids \cup {None, Unclaimed}]
  BY DEF BaseInv, TypeOK
<1>2. ASSUME dw[w].pc \in {"resolve", "group", "put", "claim", "publish"} PROVE Judged(w)
  BY <1>2, Holder DEF BaseInv
<1>3. groups'[d] = groups[d] \/ (WriteGroup(w) /\ d = Doc(w))
  BY <1>1 DEF Steps, DeduplicatorStep, TakeEvent, EndEvent, AlreadyDone, FindDuplicate,
         ResolveCanonical, WriteGroup, PutDocument, Claim, PublishCompleted, DocumentErr, DeduplicatorCrash
<1>4. completed'[d] = completed[d] \/ (PublishCompleted(w) /\ d = Doc(w))
  BY <1>1 DEF Steps, DeduplicatorStep, TakeEvent, EndEvent, AlreadyDone, FindDuplicate,
         ResolveCanonical, WriteGroup, PutDocument, Claim, PublishCompleted, DocumentErr, DeduplicatorCrash
<1>5. claims'[d] = claims[d] \/ (Claim(w) /\ d = Doc(w))
  BY ClaimsAfter
<1>6. documents'[d] = documents[d] \/ (PutDocument(w) /\ d = Doc(w))
  BY RowsAfter, PutWrites
<1>7. ASSUME WriteGroup(w) \/ PublishCompleted(w) \/ Claim(w) \/ PutDocument(w)
      PROVE  dw[w].pc \in {"group", "publish", "claim", "put"}
  BY <1>7 DEF WriteGroup, PublishCompleted, Claim, PutDocument
<1>8. ASSUME FindDuplicate(w) \/ ResolveCanonical(w) PROVE dw[w].pc \in {"next", "resolve"}
  BY <1>8 DEF FindDuplicate, ResolveCanonical
<1> QED BY <1>2, <1>3, <1>4, <1>5, <1>6, <1>7, <1>8 DEF SameRecord

\* The verdict moves from one place to the next.
LEMMA WorkMoves ==
  ASSUME BaseInv, KeyedInv, VerdictInv, [Next]_vars, NEW w \in Deduplicators, Steps(w)
  PROVE  WorkOf(w)' /\ \A d \in Ids : VerdictOf(d)'
<1>1. RowsStay /\ Present' = Present /\ Moves(w) /\ UrlsStay
  BY RowsAfter, StepsMove, UrlsAfter
<1>2. WorkOf(w) /\ \A d \in Ids : VerdictOf(d)
  BY DEF VerdictInv
<1>3. \A d \in Ids : SameRecord(d) => VerdictOf(d)'
  BY <1>1, <1>2, VerdictStays
<1>4. ASSUME NEW d \in Ids, d \notin drifted', d \notin doubted'
      PROVE  RecordOf(d) /\ (Judged(w) /\ d = Doc(w) => IntentOf(w))
  <2>1. ~Excused(d)
    BY <1>4, ExcusesStay DEF Excused
  <2>2. RecordOf(d)
    BY <1>2, <2>1 DEF VerdictOf
  <2> QED BY <1>2, <2>1, <2>2 DEF WorkOf
<1>5. CASE ~GoesOn(w)
  <2>1. dw'[w] = Idle \/ dw'[w].pc = "next"
    BY <1>1, <1>5 DEF Moves, Takes, Leaves, NextDocument
  <2>2. WorkOf(w)'
    BY <2>1 DEF WorkOf, Judged
  <2>3. ASSUME NEW d \in Ids, ~SameRecord(d), ~Excused(d)' PROVE RecordOf(d)'
    <3>1. Judged(w) /\ d = Doc(w) /\ RecordOf(d) /\ IntentOf(w) /\ d \notin doubted'
      <4>1. d \notin drifted' /\ d \notin doubted'
        BY <2>3 DEF Excused
      <4>2. Judged(w) /\ d = Doc(w)
        BY <2>3, OthersSame
      <4> QED BY <1>4, <4>1, <4>2
    <3>2. ~WriteGroup(w) /\ ~PutDocument(w) /\ ~(Claim(w) /\ claims[Doc(w)] = Unclaimed)
      BY <1>5, PcMoves DEF WriteGroup, PutDocument, Claim, Advances
    <3>3. claims' = claims /\ documents' = documents
      BY <3>2, ClaimsAfter, RowsAfter
    <3>4. groups' = groups
      BY <3>2 DEF Steps, DeduplicatorStep, TakeEvent, EndEvent, AlreadyDone, FindDuplicate,
         ResolveCanonical, WriteGroup, PutDocument, Claim, PublishCompleted, DocumentErr, DeduplicatorCrash
    <3>5. PublishCompleted(w)
      BY <2>3, <3>3, <3>4 DEF SameRecord, Steps, DeduplicatorStep, TakeEvent, EndEvent, AlreadyDone, FindDuplicate,
         ResolveCanonical, WriteGroup, PutDocument, Claim, PublishCompleted, DocumentErr, DeduplicatorCrash
    <3>6. completed'[d] = dw[w].hit /\ claims[d] = dw[w].hit
      BY <3>1, <3>5 DEF PublishCompleted, IntentOf, BaseInv, TypeOK
    <3>7. groups'[d] # Unclaimed => d \in Present' /\ Hittable(d)'
      BY <1>1, <3>1, <3>4, HittableStays DEF RecordOf
    <3> QED BY <3>1, <3>3, <3>4, <3>6, <3>7 DEF RecordOf
  <2> QED BY <1>3, <2>2, <2>3 DEF VerdictOf
<1>6. CASE GoesOn(w)
  <2>1. PICK d : d = Doc(w) OBVIOUS
  <2>2. Doc(w)' = d /\ d \in Present /\ d \in Ids /\ d \in Present'
    BY <1>1, <1>6, <2>1, InHand DEF GoesOn, Doc
  <2>3. \A e \in Ids : e # d => VerdictOf(e)'
    BY <1>3, <2>1, OthersSame
  <2>4. SUFFICES ASSUME ~Excused(d)' PROVE IntentOf(w)' /\ RecordOf(d)'
    BY <2>2, <2>3 DEF VerdictOf, WorkOf, Excused
  <2>5. RecordOf(d) /\ d \notin drifted' /\ d \notin doubted' /\ (Judged(w) => IntentOf(w))
    <3>1. d \notin drifted' /\ d \notin doubted'
      BY <2>4 DEF Excused
    <3> QED BY <1>4, <2>1, <2>2, <3>1
  <2>6. Hittable(d) => Hittable(d)'
    BY <1>1, <2>2, <2>5, HittableStays
  <2>7. CASE FindDuplicate(w)
    <3>1. SameRecord(d) /\ claims[d] = Unclaimed
      BY <2>1, <2>2, <2>7, OthersSame DEF FindDuplicate
    <3>2. RecordOf(d)'
      BY <1>3, <2>2, <2>4, <3>1 DEF VerdictOf
    <3>3. dw'[w].pc = (IF dw'[w].hit = None THEN "put" ELSE "resolve") /\ (dw'[w].hit # None <=> Hittable(d))
      BY <2>1, <2>5, <2>7, FindMoves, LookupHits
    <3>4. dw'[w].hit = None => groups'[d] = Group(dw'[w].hit)
      BY <2>5, <3>1, <3>3 DEF RecordOf, SameRecord, Group
    <3>5. IntentOf(w)'
      BY <2>2, <2>6, <3>1, <3>3, <3>4 DEF IntentOf, SameRecord
    <3> QED BY <3>2, <3>5
  <2>8. CASE ResolveCanonical(w)
    <3>1. SameRecord(d) /\ RecordOf(d)'
      BY <1>3, <2>2, <2>4, <2>8, OthersSame DEF VerdictOf
    <3>2. Judged(w) /\ dw[w].pc = "resolve" /\ dw[w].hit # None
      BY <2>8, InJudgement, Holder DEF ResolveCanonical, BaseInv
    <3>3. claims[d] = Unclaimed /\ Hittable(d)
      BY <2>1, <2>5, <3>2 DEF IntentOf
    <3>4. ~Leaves(w)
      BY <1>6 DEF GoesOn, Leaves, NextDocument, Judging
    <3>5. dw'[w].pc = "group"
      BY <2>8, <3>4, ResolveMoves
    <3> QED BY <2>2, <2>6, <3>1, <3>3, <3>5 DEF IntentOf, SameRecord
  <2>9. CASE ~FindDuplicate(w) /\ ~ResolveCanonical(w)
    <3>1. dw'[w].hit = dw[w].hit /\ Judged(w)
          /\ \/ WriteGroup(w) /\ Advances(w, "group", "put")
             \/ PutDocument(w) /\ Advances(w, "put", "claim")
             \/ Claim(w) /\ claims[d] = Unclaimed /\ Advances(w, "claim", "publish")
      BY <1>6, <2>1, <2>9, OtherwiseSameHit
    <3>2. /\ groups \in [Ids -> Ids \cup {Unclaimed}] /\ claims \in [Ids -> Ids \cup {None, Unclaimed}]
          /\ documents \in [Ids -> Rows \cup {None}]
      BY DEF BaseInv, TypeOK
    <3>3. CASE WriteGroup(w) /\ Advances(w, "group", "put")
      <4>1. dw[w].pc = "group" /\ dw'[w].pc = "put" /\ dw[w].hit # None
        BY <3>3, InJudgement DEF Advances
      <4>2. claims[d] = Unclaimed /\ Hittable(d)
        BY <2>1, <2>5, <3>1, <4>1 DEF IntentOf
      <4>3. groups'[d] = dw[w].hit /\ claims' = claims /\ completed' = completed /\ documents' = documents
        BY <2>1, <2>2, <3>2, <3>3 DEF WriteGroup, normalizerVars
      <4>4. RecordOf(d)'
        BY <2>2, <2>6, <2>5, <4>2, <4>3 DEF RecordOf
      <4>5. IntentOf(w)'
        BY <2>2, <2>6, <3>1, <4>1, <4>2, <4>3 DEF IntentOf, Group
      <4> QED BY <4>4, <4>5
    <3>4. CASE PutDocument(w) /\ Advances(w, "put", "claim")
      <4>1. dw[w].pc = "put" /\ dw'[w].pc = "claim"
        BY <3>4 DEF Advances
      <4>2. claims[d] = Unclaimed /\ (dw[w].hit # None => Hittable(d)) /\ groups[d] = Group(dw[w].hit)
        BY <2>1, <2>5, <3>1, <4>1 DEF IntentOf
      <4>3. groups' = groups /\ claims' = claims /\ completed' = completed
            /\ documents'[d].duplicate_of = dw[w].hit
        BY <2>1, <3>4, PutWrites DEF PutDocument
      <4>4. RecordOf(d)'
        BY <2>2, <2>6, <2>5, <4>2, <4>3 DEF RecordOf
      <4>5. IntentOf(w)'
        BY <2>2, <2>6, <3>1, <4>1, <4>2, <4>3 DEF IntentOf
      <4> QED BY <4>4, <4>5
    <3>5. CASE Claim(w) /\ claims[d] = Unclaimed /\ Advances(w, "claim", "publish")
      <4>1. dw[w].pc = "claim" /\ dw'[w].pc = "publish"
        BY <3>5 DEF Advances
      <4>2. groups[d] = Group(dw[w].hit) /\ documents[d].duplicate_of = dw[w].hit
        BY <2>1, <2>5, <3>1, <4>1 DEF IntentOf
      <4>3. groups' = groups /\ claims'[d] = dw[w].hit /\ completed' = completed /\ documents' = documents
        BY <2>1, <2>2, <3>2, <3>5 DEF Claim, normalizerVars
      <4>4. completed[d] = Unclaimed
        BY <2>5, <3>5 DEF RecordOf
      <4>5. RecordOf(d)'
        BY <2>2, <2>6, <2>5, <4>2, <4>3, <4>4 DEF RecordOf
      <4>6. IntentOf(w)'
        BY <2>2, <3>1, <4>1, <4>3 DEF IntentOf
      <4> QED BY <4>5, <4>6
    <3> QED BY <3>1, <3>3, <3>4, <3>5
  <2> QED BY <2>7, <2>8, <2>9
<1> QED BY <1>5, <1>6

LEMMA VerdictStep ==
  ASSUME BaseInv, KeyedInv, Shared, VerdictInv, [Next]_vars
  PROVE  VerdictInv'
<1>1. ASSUME RowsStay, UrlsStay, dw' = dw, \A d \in Ids : SameRecord(d) PROVE VerdictInv'
  <2>1. \A d \in Ids : VerdictOf(d)'
    BY <1>1, VerdictStays DEF VerdictInv
  <2>2. ASSUME NEW w \in Deduplicators PROVE WorkOf(w)'
    <3>1. Judged(w) => SameRecord(Doc(w))
      BY <1>1, Holder, InHand DEF BaseInv
    <3> QED BY <1>1, <3>1, WorkStays DEF VerdictInv
  <2> QED BY <2>1, <2>2 DEF VerdictInv
<1>2. CASE UNCHANGED vars
  <2>1. RowsStay /\ UrlsStay /\ \A d \in Ids : SameRecord(d)
    BY <1>2, RowsStayUnchanged DEF vars, SameRecord, UrlsStay
  <2> QED BY <1>1, <1>2, <2>1 DEF vars
<1>3. CASE NormalizerNext /\ UNCHANGED dedupVars
  <2>1. RowsStay /\ UrlsStay /\ \A d \in Ids : SameRecord(d)
    BY <1>3, NormalizerKeepsBase DEF dedupVars, RowsAdded, SameRecord, UrlsStay
  <2> QED BY <1>1, <1>3, <2>1 DEF dedupVars
<1>4. ASSUME NEW w \in Deduplicators, Steps(w) PROVE VerdictInv'
  <2>1. WorkOf(w)' /\ \A d \in Ids : VerdictOf(d)'
    BY <1>4, WorkMoves
  <2>2. RowsStay /\ Moves(w) /\ UrlsStay
    BY <1>4, RowsAfter, StepsMove, UrlsAfter
  <2>3. ASSUME NEW v \in Deduplicators, v # w PROVE WorkOf(v)'
    <3>1. ASSUME Judged(v), ~Excused(Doc(v)) PROVE SameRecord(Doc(v))
      <4>1. dw[v] # Idle /\ dw[v].todo # << >>
        BY <3>1, Holder DEF BaseInv
      <4>2. Doc(v) \in Ids
        BY <4>1, InHand
      <4>3. CASE Judged(w)
        <5>1. dw[w] # Idle /\ dw[w].todo # << >>
          BY <4>3, Holder DEF BaseInv
        <5>2. Doc(v) # Doc(w)
          BY <2>3, <3>1, <4>1, <5>1, DocShared DEF Excused
        <5> QED BY <1>4, <4>2, <5>2, OthersSame
      <4>4. CASE ~Judged(w)
        BY <1>4, <4>2, <4>4, OthersSame
      <4> QED BY <4>3, <4>4
    <3>2. dw'[v] = dw[v] /\ WorkOf(v)
      BY <2>2, <2>3 DEF Moves, VerdictInv
    <3> QED BY <2>2, <3>1, <3>2, WorkStays
  <2> QED BY <2>1, <2>3 DEF VerdictInv
<1> QED BY <1>2, <1>3, <1>4, StepKinds

\* duplicate_of, the claim, the duplicate group and dedup.completed agree, although
\* each is written by itself and a crash may come in between: a document that was
\* found to be a duplicate is found to be one again, unless Stage 5 had a say
\* (drifted), or the scan window or a rewritten URL hides what was found, or two
\* workers had it at once (doubted).
THEOREM VerdictsAlwaysAgree == Spec => []VerdictsAgree
<1>1. Init => KeyedInv /\ Shared /\ VerdictInv
  <2> SUFFICES ASSUME Init PROVE KeyedInv /\ Shared /\ VerdictInv
    OBVIOUS
  <2> QED BY AllIdle DEF KeyedInv, Shared, VerdictInv, VerdictOf, RecordOf, WorkOf, Judged
<1>2. BaseInv /\ KeyedInv /\ Shared /\ VerdictInv /\ [Next]_vars => KeyedInv' /\ Shared' /\ VerdictInv'
  BY KeyedStep, SharedStep, VerdictStep
<1>3. BaseInv /\ VerdictInv => VerdictsAgree
  <2> SUFFICES ASSUME BaseInv, VerdictInv, NEW d \in Ids, ~Excused(d), claims[d] # Unclaimed
               PROVE  /\ documents[d].duplicate_of = claims[d]
                      /\ groups[d] = IF claims[d] = None THEN Unclaimed ELSE claims[d]
                      /\ completed[d] \in {Unclaimed, claims[d]}
    BY DEF VerdictsAgree, BaseInv, Excused
  <2>1. RecordOf(d)
    BY DEF VerdictInv, VerdictOf
  <2> QED BY <2>1 DEF RecordOf, Group
<1> QED BY <1>1, <1>2, <1>3, BaseHolds, PTL DEF Spec
==============================================================================
