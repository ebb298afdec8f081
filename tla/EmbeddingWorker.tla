--------------------------- MODULE EmbeddingWorker ---------------------------
(***************************************************************************)
(* The vectors of documents and entities (embedding-worker/src/service.rs,   *)
(* main.rs).  For every entity.extracted event the worker reads the document  *)
(* and its entities again, asks the embeddings table which texts were         *)
(* embedded before, embeds the others, records them and only then writes the   *)
(* vector to OpenSearch.  A document's vector goes on top of the document the   *)
(* indexer writes, which is another consumer group and may be late; `--rebuild`  *)
(* is a process of its own that may run beside the worker.                   *)
(*                                                                         *)
(* The texts of a document do not change and a description is set once, so a    *)
(* text is named by its target and part.  A vector found in the Redis cache is   *)
(* used only for the same text and model: it is the vector that would have been  *)
(* computed.  The indexer is reduced to what it does to the index; BatchIndexer   *)
(* looks inside.                                                            *)
(***************************************************************************)
EXTENDS EventConsumer, Sequences, FiniteSets

CONSTANTS Docs, Ents,
          Described,    \* entities with a description
          Parts,        \* target -> its texts in the order they are embedded
          DocOf,        \* offset -> document_id of the event
          EntsOf,       \* offset -> entity_ids of the event
          MaxRetries,   \* update_fields_backoffs
          None,
          MaxFaults,    \* bound: errors and crashes
          MaxRebuilds,  \* bound: rebuilds of the vectors
          MaxDrops      \* bound: indexer --rebuild --drop

Targets == Docs \cup Ents
Actors == {"worker", "rebuild"}

Texts == {"title", "body", "description"}

ASSUME EmbeddingAssumption ==
  /\ IsFiniteSet(Targets) /\ Docs \cap Ents = {} /\ Described \subseteq Ents
  /\ \A t \in Targets :
       /\ Parts[t] \in Seq(Texts) /\ Parts[t] # << >>
       /\ \A i, j \in DOMAIN Parts[t] : Parts[t][i] = Parts[t][j] => i = j
  /\ None \notin Texts
  /\ \A o \in Offsets : DocOf[o] \in Docs /\ EntsOf[o] \in Seq(Ents)
  /\ {MaxRetries, MaxFaults, MaxRebuilds, MaxDrops} \subseteq Nat

VARIABLES duplicate,  \* documents with duplicate_of
          merged,     \* entities with merged_into
          rows,       \* embeddings: target, part
          indexed,    \* documents in osint-documents
          vector,     \* target -> the text its vector is of, in either index
          prepared,   \* documents the indexer has prepared
          act,        \* the worker and the rebuild
          run,        \* the rebuild: phase, whether something failed, and (history) the
                      \* documents it cannot have met in the index
          excused,    \* targets whose vector the log, a drop or a race accounts for: history
          faults, rebuilds, drops

tables == <<duplicate, merged>>
counts == <<rebuilds, drops>>
search == <<indexed, vector, prepared>>
embeddingVars == <<high, malformed, committed, position, last, duplicate, merged, rows,
                   indexed, vector, prepared, act, run, excused, faults, rebuilds, drops>>

Idle == [pc |-> "idle", left |-> << >>, todo |-> << >>, pending |-> << >>, attempt |-> 0]

EmbeddingInit ==
  /\ ConsumerInit
  /\ duplicate = {}
  /\ merged = {}
  /\ rows = {}
  /\ indexed = {}
  /\ vector = [t \in Targets |-> None]
  /\ prepared = {}
  /\ act = [a \in Actors |-> Idle]
  /\ run = [phase |-> "off", failed |-> FALSE, fresh |-> {}]
  /\ excused = {}
  /\ faults = 0
  /\ rebuilds = 0
  /\ drops = 0

Fault == faults < MaxFaults /\ faults' = faults + 1

Target(a) == Head(act[a].left)
OnTarget(a, t) == act[a].pc \in {"check", "embed", "persist", "write"} /\ Target(a) = t
Alone(a, t) == \A b \in Actors \ {a} : ~OnTarget(b, t)

\* The actor goes on to its next target.
NextTarget(a) == act' = [act EXCEPT ![a] = [Idle EXCEPT !.pc = "next", !.left = Tail(act[a].left)]]

------------------------------------------------------------------------------
(* The worker's loop. *)

ProduceEvent(p) ==
  /\ AppendMessage(p, FALSE)
  /\ UNCHANGED <<committed, position, last, tables, rows, search, act, run, excused, faults, counts>>

\* next_envelope and parse_extracted.
Take(p) ==
  /\ act["worker"].pc = "idle"
  /\ Receive(p)
  /\ act' = [act EXCEPT !["worker"] = [Idle EXCEPT !.pc = "next",
                                        !.left = <<DocOf[position[p]]>> \o EntsOf[position[p]]]]
  /\ UNCHANGED <<brokerVars, committed, tables, rows, search, run, excused, faults, counts>>

\* Every target is done: commit_last, which may fail.
CommitEmbedded ==
  /\ act["worker"].pc = "next"
  /\ act["worker"].left = << >>
  /\ \/ CommitLast /\ UNCHANGED faults
     \/ Fault /\ UNCHANGED committed
  /\ act' = [act EXCEPT !["worker"] = Idle]
  /\ UNCHANGED <<brokerVars, position, last, tables, rows, search, excused, run, counts>>

\* SIGINT, and a new process later.
StopEmbedding ==
  /\ act["worker"].pc = "idle"
  /\ Resume
  /\ UNCHANGED <<brokerVars, committed, tables, rows, search, act, excused, faults, run, counts>>

\* The embeddings row is there and the vector is not.
Unwritten(a) == IF act[a].pc = "write" THEN {Target(a)} ELSE {}

Crash ==
  /\ act["worker"].pc # "idle"
  /\ Fault
  /\ Resume
  /\ excused' = excused \cup Unwritten("worker")
  /\ act' = [act EXCEPT !["worker"] = Idle]
  /\ UNCHANGED <<brokerVars, committed, tables, rows, search, run, counts>>

------------------------------------------------------------------------------
(* embed_document_fields and embed_one_entity, for both actors. *)

Skipped(t) == IF t \in Docs THEN t \in duplicate ELSE t \in merged \/ t \notin Described

\* Faulty variant: a rebuild asks the embeddings table, too.
ReadUnforced(a) ==
  /\ act[a].pc = "next"
  /\ act[a].left # << >>
  /\ IF Skipped(Target(a)) /\ ~(a = "rebuild" /\ Target(a) \in Docs)
       THEN NextTarget(a) /\ UNCHANGED excused
       ELSE /\ act' = [act EXCEPT ![a] = [@ EXCEPT !.pc = "check", !.todo = Parts[Target(a)]]]
            /\ excused' = IF Alone(a, Target(a)) THEN excused ELSE excused \cup {Target(a)}
  /\ UNCHANGED <<consumerVars, tables, rows, search, run, faults, counts>>

\* The target is read again; a rebuild has its documents from the page it listed,
\* and embeds every text.
Read(a) ==
  /\ act[a].pc = "next"
  /\ act[a].left # << >>
  /\ IF Skipped(Target(a)) /\ ~(a = "rebuild" /\ Target(a) \in Docs)
       THEN NextTarget(a) /\ UNCHANGED excused
       ELSE /\ act' = [act EXCEPT ![a] = IF a = "rebuild"
                                           THEN [@ EXCEPT !.pc = "embed", !.pending = Parts[Target(a)]]
                                           ELSE [@ EXCEPT !.pc = "check", !.todo = Parts[Target(a)]]]
            /\ excused' = IF Alone(a, Target(a)) THEN excused ELSE excused \cup {Target(a)}
  /\ UNCHANGED <<consumerVars, tables, rows, search, run, faults, counts>>

\* should_embed, one text after the other.
Check(a) ==
  /\ act[a].pc = "check"
  /\ LET part == Head(act[a].todo)
         rest == Tail(act[a].todo)
         pending == IF <<Target(a), part>> \in rows THEN act[a].pending ELSE act[a].pending \o <<part>>
     IN IF rest = << >> /\ pending = << >> THEN NextTarget(a)
        ELSE act' = [act EXCEPT ![a] = [@ EXCEPT !.pc = IF rest = << >> THEN "embed" ELSE "check",
                                                 !.todo = rest, !.pending = pending]]
  /\ UNCHANGED <<consumerVars, tables, rows, search, run, excused, faults, counts>>

\* The vectors, from the cache or computed.
Embed(a) ==
  /\ act[a].pc = "embed"
  /\ act' = [act EXCEPT ![a] = [@ EXCEPT !.pc = "persist", !.todo = act[a].pending]]
  /\ UNCHANGED <<consumerVars, tables, rows, search, run, excused, faults, counts>>

AfterRow(a) ==
  LET rest == Tail(act[a].todo)
  IN act' = [act EXCEPT ![a] = [@ EXCEPT !.todo = rest,
                                         !.pc = IF rest = << >> THEN "write" ELSE "persist"]]

\* persist_embedding_record: a conflict says that the row is there.
Persist(a) ==
  /\ act[a].pc = "persist"
  /\ rows' = rows \cup {<<Target(a), Head(act[a].todo)>>}
  /\ AfterRow(a)
  /\ UNCHANGED <<consumerVars, tables, search, run, excused, faults, counts>>

LastOf(s) == s[Len(s)]

\* The texts of a document share one field: the last one stays.
Overlay(a) == LastOf(act[a].pending)

\* Faulty variant: the update creates the document it does not find.
WritableUpsert(t) == TRUE

\* update_fields needs the indexer's document; index makes its own.
Writable(t) == t \in indexed \cup Ents

Write(a) ==
  /\ act[a].pc = "write"
  /\ Writable(Target(a))
  /\ vector' = [vector EXCEPT ![Target(a)] = Overlay(a)]
  /\ excused' = IF Alone(a, Target(a)) /\ Overlay(a) = LastOf(Parts[Target(a)])
                  THEN excused \ {Target(a)} ELSE excused
  /\ NextTarget(a)
  /\ UNCHANGED <<consumerVars, tables, rows, indexed, prepared, run, faults, counts>>

\* NotFound: tried again after a pause, given up with a log in the end.
NotFound(a) ==
  /\ act[a].pc = "write"
  /\ ~Writable(Target(a))
  /\ IF act[a].attempt < MaxRetries
       THEN act' = [act EXCEPT ![a].attempt = @ + 1] /\ UNCHANGED excused
       ELSE NextTarget(a) /\ excused' = excused \cup {Target(a)}
  /\ UNCHANGED <<consumerVars, tables, rows, search, run, faults, counts>>

\* Any other error: the worker leaves the event, without a commit; a rebuild counts
\* it and goes on.
Fail(a) ==
  /\ act[a].pc \in {"next", "check", "embed", "persist", "write"}
  /\ act[a].left # << >>
  /\ Fault
  /\ excused' = excused \cup Unwritten(a)
  /\ IF a = "worker"
       THEN /\ act' = [act EXCEPT ![a] = Idle]
            /\ UNCHANGED run
       ELSE /\ NextTarget(a)
            /\ run' = [run EXCEPT !.failed = TRUE]
  /\ UNCHANGED <<consumerVars, tables, rows, search, counts>>

------------------------------------------------------------------------------
(* --rebuild *)

\* A set as a sequence, in some order.
InOrder(S) == CHOOSE q \in [1 .. Cardinality(S) -> S] : \A t \in S : \E i \in DOMAIN q : q[i] = t

\* With --drop the entities' index is deleted first.  list_documents, less the
\* duplicates.
StartRebuild(drop) ==
  /\ act["rebuild"].pc = "idle"
  /\ rebuilds < MaxRebuilds
  /\ rebuilds' = rebuilds + 1
  /\ vector' = [t \in Targets |-> IF drop /\ t \in Ents THEN None ELSE vector[t]]
  /\ excused' = IF drop THEN excused \cup Ents ELSE excused
  /\ act' = [act EXCEPT !["rebuild"] = [Idle EXCEPT !.pc = "next", !.left = InOrder(Docs \ duplicate)]]
  /\ run' = [phase |-> "documents", failed |-> FALSE, fresh |-> duplicate]
  /\ UNCHANGED <<consumerVars, tables, rows, indexed, prepared, faults, drops>>

\* list_entities, less the merged ones; after them the report.
NextPhase ==
  /\ act["rebuild"].pc = "next"
  /\ act["rebuild"].left = << >>
  /\ IF run.phase = "documents"
       THEN /\ act' = [act EXCEPT !["rebuild"].left = InOrder(Ents \ merged)]
            /\ run' = [run EXCEPT !.phase = "entities"]
       ELSE /\ act' = [act EXCEPT !["rebuild"] = Idle]
            /\ run' = [run EXCEPT !.phase = "done"]
  /\ UNCHANGED <<consumerVars, tables, rows, search, excused, faults, counts>>

\* The process dies, or a page cannot be listed.
CrashRebuild ==
  /\ act["rebuild"].pc # "idle"
  /\ Fault
  /\ excused' = excused \cup Unwritten("rebuild")
  /\ act' = [act EXCEPT !["rebuild"] = Idle]
  /\ run' = [run EXCEPT !.phase = "off"]
  /\ UNCHANGED <<consumerVars, tables, rows, search, counts>>

------------------------------------------------------------------------------
(* The indexer and what changes the tables. *)

Removed(D) ==
  /\ indexed' = indexed \ D
  /\ vector' = [t \in Targets |-> IF t \in D THEN None ELSE vector[t]]
  /\ excused' = excused \cup D

\* prepare: a duplicate is deleted from the index at once.
Prepare(d) ==
  /\ IF d \in duplicate THEN Removed({d}) /\ UNCHANGED prepared
     ELSE prepared' = prepared \cup {d} /\ UNCHANGED <<indexed, vector, excused>>
  /\ UNCHANGED <<consumerVars, tables, rows, act, run, faults, counts>>

\* Faulty variant: bulk_index replaces the document.
FlushReplaces ==
  /\ prepared # {}
  /\ indexed' = indexed \cup prepared
  /\ run' = [run EXCEPT !.fresh = @ \cup (prepared \ indexed)]
  /\ vector' = [t \in Targets |-> IF t \in prepared THEN None ELSE vector[t]]
  /\ prepared' = {}
  /\ UNCHANGED <<consumerVars, tables, rows, act, excused, faults, counts>>

\* flush, bulk_upsert_fields: other fields of the document stay.
Flush ==
  /\ prepared # {}
  /\ indexed' = indexed \cup prepared
  /\ run' = [run EXCEPT !.fresh = @ \cup (prepared \ indexed)]
  /\ prepared' = {}
  /\ UNCHANGED <<consumerVars, tables, rows, vector, act, excused, faults, counts>>

\* osint-indexer --rebuild --drop; its pages are flushed like a batch.
DropIndex ==
  /\ drops < MaxDrops
  /\ drops' = drops + 1
  /\ Removed(Docs)
  /\ prepared' = prepared \cup (Docs \ duplicate)
  /\ UNCHANGED <<consumerVars, tables, rows, act, run, faults, rebuilds>>

others == <<consumerVars, rows, search, act, run, excused, faults, counts>>

\* The deduplicator finds out late.
MarkDuplicate(d) ==
  /\ duplicate' = duplicate \cup {d}
  /\ UNCHANGED <<merged, others>>

\* A merge, or its undo.
Merge(e) ==
  /\ merged' = IF e \in merged THEN merged \ {e} ELSE merged \cup {e}
  /\ UNCHANGED <<duplicate, others>>

EmbedStep(a) ==
  Read(a) \/ Check(a) \/ Embed(a) \/ Persist(a) \/ Write(a) \/ NotFound(a)

WorkerStep == (\E p \in Partitions : Take(p)) \/ EmbedStep("worker") \/ CommitEmbedded

EmbeddingNext ==
  \/ \E p \in Partitions : ProduceEvent(p)
  \/ WorkerStep \/ StopEmbedding \/ Crash \/ Fail("worker")
  \/ EmbedStep("rebuild") \/ NextPhase \/ CrashRebuild \/ Fail("rebuild")
  \/ \E drop \in BOOLEAN : StartRebuild(drop)
  \/ \E d \in Docs : Prepare(d) \/ MarkDuplicate(d)
  \/ Flush \/ DropIndex
  \/ \E e \in Ents : Merge(e)

EmbeddingSpec == EmbeddingInit /\ [][EmbeddingNext]_embeddingVars

------------------------------------------------------------------------------
(* Properties. *)

EmbeddingTypeOK ==
  /\ ConsumerTypeOK
  /\ duplicate \subseteq Docs /\ merged \subseteq Ents
  /\ indexed \subseteq Docs /\ prepared \subseteq Docs
  /\ \A t \in Targets : vector[t] = None \/ \E i \in DOMAIN Parts[t] : vector[t] = Parts[t][i]
  /\ \A a \in Actors :
       /\ act[a].pc \in {"idle", "next", "check", "embed", "persist", "write"}
       /\ act[a].pc \in {"embed", "persist", "write"} => act[a].pending # << >>
       /\ act[a].attempt \in 0 .. MaxRetries

\* Every vector in either index is of a text the embeddings table knows, whatever
\* fails: without the row nobody could tell which model it came from.  And it never
\* stands alone in osint-documents: the worker does not bring back a document the
\* indexer has removed, or not written yet.  (EmbeddingTypeOK rides along.)
VectorGrounded ==
  /\ EmbeddingTypeOK
  /\ \A t \in Targets : vector[t] # None => <<t, vector[t]>> \in rows
  /\ \A d \in Docs : vector[d] # None => d \in indexed

\* The embeddings table is the only thing that keeps a text from being embedded
\* again, so what it lists must be in the index: a document that is there has the
\* vector of its body (of its title if it has none) and an entity that of its
\* description, once all its texts are listed and unless a failed or given up
\* write, a drop, or a rebuild at the same time accounts for it.
RecordedIsIndexed ==
  \A t \in indexed \cup Ents :
    (\A i \in DOMAIN Parts[t] : <<t, Parts[t][i]>> \in rows)
      => \/ vector[t] = LastOf(Parts[t])
         \/ t \in excused
         \/ \E a \in Actors : act[a].pc = "write" /\ Target(a) = t

\* A rebuild that reports no failure leaves no document without a vector among
\* those that were in the index all the time, also where the embeddings table
\* listed their texts before.
RebuildRepairs ==
  [][run'.phase = "done" /\ run.phase # "done" /\ ~run.failed
       => \A d \in indexed \ run.fresh : vector[d] # None]_embeddingVars
==============================================================================
