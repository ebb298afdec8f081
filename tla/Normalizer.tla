----------------------------- MODULE Normalizer ------------------------------
(***************************************************************************)
(* The normalizer (normalizer/src/service.rs): a raw.collected message is   *)
(* turned into documents, which are written together with the normalized    *)
(* claim in one transaction (the claim is unique per raw evidence), and     *)
(* then announced in object.normalized.                                     *)
(*                                                                         *)
(* The consume loop around the handler is DeadLetterWorker's.  Of it this   *)
(* module keeps what a handler can see: a message is queued until a worker   *)
(* ends it (a crash leaves it queued, a rebalance hands it to a second       *)
(* worker while the first still runs), an error puts it in failed_events    *)
(* (or is only logged), and an operator may replay it.  Document ids are    *)
(* UUID v7: they grow with the time at which normalize_raw builds the       *)
(* documents.                                                               *)
(***************************************************************************)
EXTENDS Integers, Sequences, FiniteSets

CONSTANTS Raws,        \* raw evidence rows, each announced by raw.collected
          Items,       \* what parsing the body of a supported evidence yields
          Supported,   \* feed, HTML or import that parses; the others are skipped
          Normalizers, \* normalizer instances
          None,        \* no row, no value
          MaxId,       \* bound: document ids handed out
          MaxFaults    \* bound: errors, crashes and rebalances in a behaviour

Ids == 1 .. MaxId

\* The keys deduplication compares: external_key, source_url before and after
\* canonicalisation, content hash, simhash fingerprint, meaning.
Contents == UNION {{Items[r][i] : i \in DOMAIN Items[r]} : r \in Supported}

ASSUME NormalizerAssumption ==
  /\ Supported \subseteq Raws
  /\ None \notin Int
  /\ \A n \in 0 .. MaxId : None \notin [1 .. n -> Ids]
  /\ \A r \in Supported : Items[r] \in Seq(Contents)
  /\ MaxId \in Nat
  /\ MaxFaults \in Nat

VARIABLES inbox,      \* raw.collected messages
          documents,  \* documents table
          normalized, \* normalized claims: the ids of the documents
          events,     \* object.normalized messages, one for a claim
          nextId,     \* the next UUID v7
          nw,         \* what each normalizer is doing
          unannounced,\* claims whose announcement was lost: history variable
          faults      \* number of errors, crashes and rebalances so far

normalizerVars == <<inbox, documents, normalized, events, nextId, nw, unannounced, faults>>

Idle == [pc |-> "idle"]

NormalizerInit ==
  /\ inbox = [r \in Raws |-> "queued"]
  /\ documents = [d \in Ids |-> None]
  /\ normalized = [r \in Raws |-> None]
  /\ events = [r \in Raws |-> "none"]
  /\ nextId = 1
  /\ nw = [w \in Normalizers |-> Idle]
  /\ unannounced = {}
  /\ faults = 0

\* The document the normalizer writes: canonical_url is the source_url as it
\* was found, the other keys are left to the deduplicator.
NewDocument(r, c) ==
  [raw |-> r, content |-> c, url |-> c.rawUrl, keyed |-> FALSE, duplicate_of |-> None]

\* handle_payload returns Ok and the offset is committed.
Done(r) == inbox' = [inbox EXCEPT ![r] = "done"]

\* AlreadyDone, or content that is not turned into documents: the handler
\* returns Ok and publishes nothing.
NormalizeSkips(w, r) ==
  /\ nw[w] = Idle
  /\ inbox[r] = "queued"
  /\ normalized[r] # None \/ r \notin Supported
  /\ Done(r)
  /\ UNCHANGED <<documents, normalized, events, nextId, nw, unannounced, faults>>

\* After a rebalance a message may be in two workers' hands.
Rebalanced(r) == \E w \in Normalizers : nw[w] # Idle /\ nw[w].raw = r

\* No claim yet: the body is parsed and the documents built, with their ids.
NormalizeRaw(w, r) ==
  /\ nw[w] = Idle
  /\ inbox[r] = "queued"
  /\ normalized[r] = None
  /\ r \in Supported
  /\ faults' = IF Rebalanced(r) THEN faults + 1 ELSE faults
  /\ faults' <= MaxFaults
  /\ LET n == Len(Items[r])
     IN /\ nextId + n - 1 <= MaxId
        /\ nw' = [nw EXCEPT ![w] =
                    [pc |-> "persist", raw |-> r, ids |-> [i \in 1 .. n |-> nextId + i - 1]]]
        /\ nextId' = nextId + n
  /\ UNCHANGED <<inbox, documents, normalized, events, unannounced>>

\* Faulty variant: the documents are written before the transaction begins.
PersistDocumentsOutside(w) ==
  /\ nw[w].pc = "persist"
  /\ LET r == nw[w].raw
         ids == nw[w].ids
     IN /\ documents' = [d \in Ids |->
              IF \E i \in DOMAIN ids : ids[i] = d
                THEN NewDocument(r, Items[r][CHOOSE i \in DOMAIN ids : ids[i] = d])
                ELSE documents[d]]
        /\ IF normalized[r] = None
             THEN /\ normalized' = [normalized EXCEPT ![r] = ids]
                  /\ nw' = [nw EXCEPT ![w].pc = "publish"]
                  /\ UNCHANGED inbox
             ELSE /\ nw' = [nw EXCEPT ![w] = Idle]
                  /\ Done(r)
                  /\ UNCHANGED normalized
  /\ UNCHANGED <<events, nextId, unannounced, faults>>

\* persist_documents, the transaction: documents, links, derived_from rows and
\* the claim.  A claim that is already there rolls everything back.
PersistDocuments(w) ==
  /\ nw[w].pc = "persist"
  /\ LET r == nw[w].raw
         ids == nw[w].ids
     IN IF normalized[r] = None
          THEN /\ documents' = [d \in Ids |->
                    IF \E i \in DOMAIN ids : ids[i] = d
                      THEN NewDocument(r, Items[r][CHOOSE i \in DOMAIN ids : ids[i] = d])
                      ELSE documents[d]]
               /\ normalized' = [normalized EXCEPT ![r] = ids]
               /\ nw' = [nw EXCEPT ![w].pc = "publish"]
               /\ UNCHANGED inbox
          ELSE /\ nw' = [nw EXCEPT ![w] = Idle]
               /\ Done(r)
               /\ UNCHANGED <<documents, normalized>>
  /\ UNCHANGED <<events, nextId, unannounced, faults>>

\* object.normalized, then the offset of raw.collected.
PublishNormalized(w) ==
  /\ nw[w].pc = "publish"
  /\ events' = [events EXCEPT ![nw[w].raw] = "queued"]
  /\ Done(nw[w].raw)
  /\ nw' = [nw EXCEPT ![w] = Idle]
  /\ UNCHANGED <<documents, normalized, nextId, unannounced, faults>>

\* What an interrupted worker leaves behind: a claim nobody will announce.
LeftBehind(w) == IF nw[w].pc = "publish" THEN {nw[w].raw} ELSE {}

\* Evidence or body missing, storage or publish error: failed_events, where that can
\* be written; the offset is committed all the same.
NormalizeErr(w) ==
  /\ nw[w] # Idle
  /\ faults < MaxFaults
  /\ \E fate \in {"failed", "lost"} : inbox' = [inbox EXCEPT ![nw[w].raw] = fate]
  /\ unannounced' = unannounced \cup LeftBehind(w)
  /\ nw' = [nw EXCEPT ![w] = Idle]
  /\ faults' = faults + 1
  /\ UNCHANGED <<documents, normalized, events, nextId>>

\* Faulty variant: the offset is committed when the message is received.
NormalizerCrashCommitted(w) ==
  /\ nw[w] # Idle
  /\ faults < MaxFaults
  /\ Done(nw[w].raw)
  /\ unannounced' = unannounced \cup LeftBehind(w)
  /\ nw' = [nw EXCEPT ![w] = Idle]
  /\ faults' = faults + 1
  /\ UNCHANGED <<documents, normalized, events, nextId>>

\* The process dies: the offset was not committed.
NormalizerCrash(w) ==
  /\ nw[w] # Idle
  /\ faults < MaxFaults
  /\ unannounced' = unannounced \cup LeftBehind(w)
  /\ nw' = [nw EXCEPT ![w] = Idle]
  /\ faults' = faults + 1
  /\ UNCHANGED <<inbox, documents, normalized, events, nextId>>

\* POST /ops/failed-events/{id}/replay.
ReplayRaw(r) ==
  /\ inbox[r] = "failed"
  /\ inbox' = [inbox EXCEPT ![r] = "queued"]
  /\ UNCHANGED <<documents, normalized, events, nextId, nw, unannounced, faults>>

NormalizerStep(w) ==
  \/ \E r \in Raws : NormalizeSkips(w, r) \/ NormalizeRaw(w, r)
  \/ PersistDocuments(w)
  \/ PublishNormalized(w)

NormalizerNext ==
  \/ \E w \in Normalizers : NormalizerStep(w) \/ NormalizeErr(w) \/ NormalizerCrash(w)
  \/ \E r \in Raws : ReplayRaw(r)

------------------------------------------------------------------------------
(* Properties. *)

Present == {d \in Ids : documents[d] # None}

\* The documents that exist are those the claims name, each in one claim, however
\* many workers normalised the same evidence: no second set of documents, no
\* document without its claim and no claim without its documents.
DocumentsOfClaim ==
  /\ \A d \in Present :
       LET ids == normalized[documents[d].raw]
       IN ids # None /\ \E i \in DOMAIN ids : ids[i] = d
  /\ \A r \in Raws : normalized[r] # None =>
       \A i \in DOMAIN normalized[r] :
         LET d == normalized[r][i]
         IN d \in Present /\ documents[d].raw = r /\ documents[d].content = Items[r][i]
==============================================================================
