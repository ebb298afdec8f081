---------------------------- MODULE Deduplicator -----------------------------
(***************************************************************************)
(* The deduplicator (deduplicator/src/service.rs), fed by the normalizer:   *)
(* for each document of an object.normalized message, look for an older     *)
(* document with the same external key, canonical URL or content hash, or a *)
(* similar fingerprint, then (Stage 5, when it is switched on) for a        *)
(* neighbour in the vector index; write the duplicate group, the document   *)
(* with its keys and duplicate_of, and the deduplicated claim, each in a    *)
(* statement of its own; publish dedup.completed.                           *)
(*                                                                         *)
(* The stages are read in one step and duplicate_of is followed in another. *)
(* Documents are not deleted while they are deduplicated, so a lookup never *)
(* ends at a missing row.  The offset is committed in any case: an error in *)
(* one document is logged and the next one handled.                         *)
(***************************************************************************)
EXTENDS Normalizer

CONSTANTS Deduplicators, \* deduplicator instances
          Semantic,      \* Stage 5 is configured
          SimDistance,   \* simhash_max_distance
          ScanLimit,     \* simhash_scan_limit
          MaxChainDepth  \* MAX_CHAIN_DEPTH

\* The documents table.
Rows == [raw : Raws, content : Contents, url : {c.url : c \in Contents} \cup {c.rawUrl : c \in Contents},
         keyed : BOOLEAN, duplicate_of : Ids \cup {None}]

ASSUME DeduplicatorAssumption ==
  /\ None \notin Rows
  /\ \A c \in Contents : c.sim \in Int \cup {None}
  /\ Semantic \in BOOLEAN
  /\ SimDistance \in Nat
  /\ ScanLimit \in Nat \ {0}
  /\ MaxChainDepth \in Nat \ {0}

VARIABLES dw,        \* what each deduplicator is doing
          groups,    \* duplicate_groups, by member: the canonical document
          claims,    \* deduplicated claims: duplicate_of as claimed
          completed, \* dedup.completed as published
          skipped,   \* documents given up after an error: history variable
          silent,    \* claims whose announcement was lost: history variable
          unseen,    \* older documents not claimed when the attempt that claimed this
                     \* one looked it up: history variable
          drifted,   \* documents whose verdict came through a neighbour: history variable
          doubted    \* documents of which a second attempt may see less than the first,
                     \* or that two workers had in hand at once: history variable

dedupVars == <<dw, groups, claims, completed, skipped, silent, unseen, drifted, doubted>>
vars == <<inbox, documents, normalized, events, nextId, nw, unannounced, faults,
          dw, groups, claims, completed, skipped, silent, unseen, drifted, doubted>>

\* A row not there, as opposed to None, the duplicate_of of a canonical document.
Unclaimed == 0

Init ==
  /\ NormalizerInit
  /\ dw = [w \in Deduplicators |-> Idle]
  /\ groups = [d \in Ids |-> Unclaimed]
  /\ claims = [d \in Ids |-> Unclaimed]
  /\ completed = [d \in Ids |-> Unclaimed]
  /\ skipped = {}
  /\ silent = {}
  /\ unseen = [d \in Ids |-> {}]
  /\ drifted = {}
  /\ doubted = {}

------------------------------------------------------------------------------
(* find_duplicate *)

\* find_document_ids_by_*: only ids before the document's own.
Older(d) == {e \in Present : e < d}

Oldest(S) == CHOOSE d \in S : \A e \in S : d <= e

ByExternalKey(d) ==
  LET key == documents[d].content.ext
  IN {e \in Older(d) : key # None /\ documents[e].keyed /\ documents[e].content.ext = key}

ByCanonicalUrl(d) ==
  {e \in Older(d) : documents[d].content.url # None
                    /\ documents[e].url = documents[d].content.url}

\* normalized_content_hash is there as soon as the document is.
ByContentHash(d) == {e \in Older(d) : documents[e].content.hash = documents[d].content.hash}

\* find_simhash_candidates: among the newest ScanLimit fingerprints.
Fingerprinted(d) == {e \in Older(d) : documents[e].keyed /\ documents[e].content.sim # None}

Distance(d, e) ==
  LET x == documents[d].content.sim
      y == documents[e].content.sim
  IN IF x < y THEN y - x ELSE x - y

Similar(d) ==
  {e \in Fingerprinted(d) : documents[d].content.sim # None /\ Distance(d, e) <= SimDistance}

BySimhash(d) ==
  {e \in Similar(d) : Cardinality({f \in Fingerprinted(d) : f > e}) < ScanLimit}

\* min_by_key (distance, id)
Nearest(d) ==
  Oldest({e \in BySimhash(d) : \A f \in BySimhash(d) : Distance(d, e) <= Distance(d, f)})

\* Stage 5 answers with whatever neighbour is in the index, of any age (canonical
\* documents are embedded when they are announced, and a rebuild job embeds every
\* document without a duplicate_of, deduplicated or not), or with none (not
\* indexed, below the threshold, inference or search failed).
Neighbours(d) ==
  {e \in Present \ {d} : Semantic /\ documents[e].content.topic = documents[d].content.topic}

\* No stage but the fifth has a hit.
LeftToStage5(d) ==
  ByExternalKey(d) \cup ByCanonicalUrl(d) \cup ByContentHash(d) \cup BySimhash(d) = {}

\* Faulty variant: the own row and newer ones are candidates as well.
CandidatesAnyAge(d) ==
  LET same == {e \in Present : documents[e].content.hash = documents[d].content.hash}
  IN IF same = {} THEN {None} ELSE {CHOOSE e \in same : TRUE}

\* The stages in order; the first that hits decides.
Candidates(d) ==
  IF ByExternalKey(d) # {} THEN {Oldest(ByExternalKey(d))}
  ELSE IF ByCanonicalUrl(d) # {} THEN {Oldest(ByCanonicalUrl(d))}
  ELSE IF ByContentHash(d) # {} THEN {Oldest(ByContentHash(d))}
  ELSE IF BySimhash(d) # {} THEN {Nearest(d)}
  ELSE Neighbours(d) \cup {None}

\* resolve_canonical: follow duplicate_of; a document that names itself ends it.
Up(d) == IF documents[d].duplicate_of = None THEN d ELSE documents[d].duplicate_of

Chain(d) ==
  LET hop[n \in 0 .. MaxChainDepth] == IF n = 0 THEN d ELSE Up(hop[n - 1])
  IN hop

TooDeep(d) == Chain(d)[MaxChainDepth] # Chain(d)[MaxChainDepth - 1]

------------------------------------------------------------------------------
(* handle_payload *)

Held(r) == \E w \in Deduplicators : dw[w] # Idle /\ dw[w].raw = r

\* After a rebalance a message may be in two workers' hands.
TakeEvent(w, r) ==
  /\ dw[w] = Idle
  /\ events[r] = "queued"
  /\ faults' = IF Held(r) THEN faults + 1 ELSE faults
  /\ faults' <= MaxFaults
  /\ dw' = [dw EXCEPT ![w] = [pc |-> "next", raw |-> r, todo |-> normalized[r]]]
  /\ doubted' = IF Held(r) THEN doubted \cup {normalized[r][i] : i \in DOMAIN normalized[r]}
                ELSE doubted
  /\ UNCHANGED <<inbox, documents, normalized, events, nextId, nw, unannounced,
                 groups, claims, completed, skipped, silent, unseen, drifted>>

\* All documents have been handled: commit_last.
EndEvent(w) ==
  /\ dw[w].pc = "next"
  /\ dw[w].todo = << >>
  /\ events' = [events EXCEPT ![dw[w].raw] = "done"]
  /\ dw' = [dw EXCEPT ![w] = Idle]
  /\ UNCHANGED <<inbox, documents, normalized, nextId, nw, unannounced, faults,
                 groups, claims, completed, skipped, silent, unseen, drifted, doubted>>

Doc(w) == Head(dw[w].todo)

NextDocument(w) == [pc |-> "next", raw |-> dw[w].raw, todo |-> Tail(dw[w].todo)]

\* existing_claim: AlreadyDone, nothing is published.
AlreadyDone(w) ==
  /\ dw[w].pc = "next"
  /\ dw[w].todo # << >>
  /\ claims[Doc(w)] # Unclaimed
  /\ dw' = [dw EXCEPT ![w] = NextDocument(w)]
  /\ UNCHANGED <<normalizerVars, groups, claims, completed, skipped, silent, unseen, drifted, doubted>>

\* Faulty variant: a claim that is already there is not looked for.
FindDuplicateAgain(w) ==
  /\ dw[w].pc = "next"
  /\ dw[w].todo # << >>
  /\ \E hit \in Candidates(Doc(w)) :
       /\ dw' = [dw EXCEPT ![w] =
                   [pc |-> IF hit = None THEN "put" ELSE "resolve", raw |-> dw[w].raw,
                    todo |-> dw[w].todo, row |-> documents[Doc(w)], hit |-> hit,
                    unseen |-> {e \in Ids : e < Doc(w) /\ claims[e] = Unclaimed}]]
       /\ drifted' = IF LeftToStage5(Doc(w)) /\ hit # None THEN drifted \cup {Doc(w)} ELSE drifted
  /\ doubted' = IF LeftToStage5(Doc(w)) /\ Similar(Doc(w)) # {}
                  THEN doubted \cup {Doc(w)} ELSE doubted
  /\ UNCHANGED <<normalizerVars, groups, claims, completed, skipped, silent, unseen>>

\* get_document, derive_keys and the stages of find_duplicate.
FindDuplicate(w) ==
  /\ dw[w].pc = "next"
  /\ dw[w].todo # << >>
  /\ claims[Doc(w)] = Unclaimed
  /\ \E hit \in Candidates(Doc(w)) :
       /\ dw' = [dw EXCEPT ![w] =
                   [pc |-> IF hit = None THEN "put" ELSE "resolve", raw |-> dw[w].raw,
                    todo |-> dw[w].todo, row |-> documents[Doc(w)], hit |-> hit,
                    unseen |-> {e \in Ids : e < Doc(w) /\ claims[e] = Unclaimed}]]
       /\ drifted' = IF LeftToStage5(Doc(w)) /\ hit # None THEN drifted \cup {Doc(w)} ELSE drifted
  /\ doubted' = IF LeftToStage5(Doc(w)) /\ Similar(Doc(w)) # {}
                  THEN doubted \cup {Doc(w)} ELSE doubted
  /\ UNCHANGED <<normalizerVars, groups, claims, completed, skipped, silent, unseen>>

\* DuplicateChainTooDeep is an error like any other in one document.
ResolveCanonical(w) ==
  /\ dw[w].pc = "resolve"
  /\ IF TooDeep(dw[w].hit)
       THEN /\ dw' = [dw EXCEPT ![w] = NextDocument(w)]
            /\ skipped' = skipped \cup {Doc(w)}
       ELSE /\ dw' = [dw EXCEPT ![w].pc = "group", ![w].hit = Chain(dw[w].hit)[MaxChainDepth]]
            /\ UNCHANGED skipped
  /\ drifted' = IF \E n \in 0 .. MaxChainDepth : Chain(dw[w].hit)[n] \in drifted
                  THEN drifted \cup {Doc(w)} ELSE drifted
  /\ UNCHANGED <<normalizerVars, groups, claims, completed, silent, unseen, doubted>>

\* put_duplicate_group: its id is derived from the member, so a retry upserts.
WriteGroup(w) ==
  /\ dw[w].pc = "group"
  /\ groups' = [groups EXCEPT ![Doc(w)] = dw[w].hit]
  /\ dw' = [dw EXCEPT ![w].pc = "put"]
  /\ UNCHANGED <<normalizerVars, claims, completed, skipped, silent, unseen, drifted, doubted>>

\* Documents that were found under the URL this one had until now.
LosesUrl(w) ==
  {d \in Present : /\ documents[d].content.url = documents[Doc(w)].url
                   /\ documents'[Doc(w)].url # documents[Doc(w)].url}

\* Faulty variant: the keys are only written back for a duplicate.
PutDocumentOnHit(w) ==
  /\ dw[w].pc = "put"
  /\ documents' = [documents EXCEPT ![Doc(w)] =
       [dw[w].row EXCEPT !.keyed = dw[w].hit # None,
                         !.url = IF dw[w].row.content.url = None THEN @ ELSE dw[w].row.content.url,
                         !.duplicate_of = dw[w].hit]]
  /\ doubted' = doubted \cup LosesUrl(w)
  /\ dw' = [dw EXCEPT ![w].pc = "claim"]
  /\ UNCHANGED <<inbox, normalized, events, nextId, nw, unannounced, faults,
                 groups, claims, completed, skipped, silent, unseen, drifted>>

\* put_document: the row as read, with its keys and duplicate_of.
PutDocument(w) ==
  /\ dw[w].pc = "put"
  /\ documents' = [documents EXCEPT ![Doc(w)] =
       [dw[w].row EXCEPT !.keyed = TRUE,
                         !.url = IF dw[w].row.content.url = None THEN @ ELSE dw[w].row.content.url,
                         !.duplicate_of = dw[w].hit]]
  /\ doubted' = doubted \cup LosesUrl(w)
  /\ dw' = [dw EXCEPT ![w].pc = "claim"]
  /\ UNCHANGED <<inbox, normalized, events, nextId, nw, unannounced, faults,
                 groups, claims, completed, skipped, silent, unseen, drifted>>

\* idx_provenance_dedup_subject: the first claim stays; the other worker goes on
\* to the next document with what it has written left as it is.
Claim(w) ==
  /\ dw[w].pc = "claim"
  /\ IF claims[Doc(w)] = Unclaimed
       THEN /\ claims' = [claims EXCEPT ![Doc(w)] = dw[w].hit]
            /\ unseen' = [unseen EXCEPT ![Doc(w)] = dw[w].unseen]
            /\ dw' = [dw EXCEPT ![w].pc = "publish"]
       ELSE /\ dw' = [dw EXCEPT ![w] = NextDocument(w)]
            /\ UNCHANGED <<claims, unseen>>
  /\ UNCHANGED <<normalizerVars, groups, completed, skipped, silent, drifted, doubted>>

PublishCompleted(w) ==
  /\ dw[w].pc = "publish"
  /\ completed' = [completed EXCEPT ![Doc(w)] = dw[w].hit]
  /\ dw' = [dw EXCEPT ![w] = NextDocument(w)]
  /\ UNCHANGED <<normalizerVars, groups, claims, skipped, silent, unseen, drifted, doubted>>

\* What an interrupted worker leaves behind: a claim nobody will announce.
ClaimLeft(w) == IF dw[w].pc = "publish" THEN {Doc(w)} ELSE {}

\* Storage, hashing or publish error: logged, and the next document is handled.
DocumentErr(w) ==
  /\ dw[w].pc \in {"next", "resolve", "group", "put", "claim", "publish"}
  /\ dw[w].todo # << >>
  /\ faults < MaxFaults
  /\ faults' = faults + 1
  /\ dw' = [dw EXCEPT ![w] = NextDocument(w)]
  /\ silent' = silent \cup ClaimLeft(w)
  /\ skipped' = skipped \cup ({Doc(w)} \ ClaimLeft(w))
  /\ UNCHANGED <<inbox, documents, normalized, events, nextId, nw, unannounced,
                 groups, claims, completed, unseen, drifted, doubted>>

\* The process dies; the message is delivered again.
DeduplicatorCrash(w) ==
  /\ dw[w] # Idle
  /\ faults < MaxFaults
  /\ faults' = faults + 1
  /\ dw' = [dw EXCEPT ![w] = Idle]
  /\ silent' = silent \cup ClaimLeft(w)
  /\ UNCHANGED <<inbox, documents, normalized, events, nextId, nw, unannounced,
                 groups, claims, completed, skipped, unseen, drifted, doubted>>

DeduplicatorStep(w) ==
  \/ \E r \in Raws : TakeEvent(w, r)
  \/ EndEvent(w) \/ AlreadyDone(w) \/ FindDuplicate(w) \/ ResolveCanonical(w)
  \/ WriteGroup(w) \/ PutDocument(w) \/ Claim(w) \/ PublishCompleted(w)

DeduplicatorNext ==
  \E w \in Deduplicators : DeduplicatorStep(w) \/ DocumentErr(w) \/ DeduplicatorCrash(w)

Next ==
  \/ NormalizerNext /\ UNCHANGED dedupVars
  \/ DeduplicatorNext

\* A handler that is not interrupted goes on, and a queued message is taken up;
\* nothing makes an operator replay.
Fairness ==
  /\ \A w \in Normalizers : WF_vars(NormalizerStep(w) /\ UNCHANGED dedupVars)
  /\ \A w \in Deduplicators : WF_vars(DeduplicatorStep(w))

Spec == Init /\ [][Next]_vars /\ Fairness

------------------------------------------------------------------------------
(* Properties. *)

TypeOK ==
  /\ inbox \in [Raws -> {"queued", "failed", "lost", "done"}]
  /\ documents \in [Ids -> Rows \cup {None}]
  /\ \A r \in Raws : normalized[r] # None => normalized[r] \in Seq(Ids)
  /\ events \in [Raws -> {"none", "queued", "done"}]
  /\ nextId \in 1 .. MaxId + 1
  /\ unannounced \subseteq Raws
  /\ faults \in 0 .. MaxFaults
  /\ groups \in [Ids -> Ids \cup {Unclaimed}]
  /\ claims \in [Ids -> Ids \cup {None, Unclaimed}]
  /\ completed \in [Ids -> Ids \cup {None, Unclaimed}]
  /\ skipped \subseteq Ids
  /\ silent \subseteq Ids
  /\ unseen \in [Ids -> SUBSET Ids]
  /\ drifted \subseteq Ids
  /\ doubted \subseteq Ids

\* duplicate_of names an older document, so that following it ends
\* (resolve_canonical: "the chain is decreasing and cannot form a cycle"), for
\* documents handled in any order, by any number of workers, again and again.  Only
\* Stage 5 breaks it, for the document whose neighbour it is and for those that are
\* resolved through it.
DuplicateOfOlder ==
  \A d \in Present : documents[d].duplicate_of # None =>
    /\ documents[d].duplicate_of \in Present
    /\ documents[d].duplicate_of < d \/ d \in drifted

\* The four places that record the verdict on a document agree once it is
\* claimed: duplicate_of, the claim, the duplicate group and dedup.completed,
\* although each is written by itself and a crash may come in between: what the
\* first attempt found, the second finds.  It may not when Stage 5 had a say
\* (drifted), when the scan window cut off all that is similar, when the URL under
\* which it was found was rewritten, or when two workers had it at once (doubted);
\* nothing else leaves them apart.  (TypeOK rides along.)
VerdictsAgree ==
  /\ TypeOK
  /\ \A d \in Ids \ (drifted \cup doubted) : claims[d] # Unclaimed =>
       /\ documents[d].duplicate_of = claims[d]
       /\ groups[d] = IF claims[d] = None THEN Unclaimed ELSE claims[d]
       /\ completed[d] \in {Unclaimed, claims[d]}

\* Two documents with one external key are both taken for canonical only when
\* the older was not yet claimed while the newer was looked up by the worker that
\* claimed it: the keys are written back for canonical documents too.
MissedOnlyUnseen ==
  \A d, e \in Ids :
    /\ d < e
    /\ claims[d] = None
    /\ claims[e] = None
    /\ documents[d].content.ext = documents[e].content.ext
    /\ documents[d].content.ext # None
    => d \in unseen[e]

\* The fate of an evidence: in failed_events or in the log, or its announcement was lost, or
\* every document of it went through with its verdict published, its claim's
\* announcement lost or an error logged.
Settled(r) ==
  \/ inbox[r] \in {"failed", "lost"}
  \/ r \in unannounced
  \/ /\ normalized[r] # None
     /\ \A i \in DOMAIN normalized[r] :
          completed[normalized[r][i]] # Unclaimed \/ normalized[r][i] \in skipped \cup silent

\* Every supported evidence is settled in the end, whatever crashes and
\* redeliveries there were.
EventuallySettled == \A r \in Supported : <>[]Settled(r)
==============================================================================
