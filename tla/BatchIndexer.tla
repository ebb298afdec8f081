---------------------------- MODULE BatchIndexer -----------------------------
(***************************************************************************)
(* The indexer's consume loop (indexer/src/main.rs, batch.rs, service.rs):  *)
(* entity.extracted events are turned into documents, collected in a batch, *)
(* and written to OpenSearch with bulk requests when the batch is full, has *)
(* waited long enough or the process shuts down.  The offset of the last    *)
(* event read is committed after a successful flush only.                   *)
(***************************************************************************)
EXTENDS EventConsumer, FiniteSets

CONSTANTS BatchSize,       \* batch_size
          BulkMaxRetries   \* bulk_max_retries

ASSUME IndexerAssumption == BatchSize \in Nat \ {0} /\ BulkMaxRetries \in Nat

VARIABLES stage,     \* control state of the loop
          batch,     \* events whose documents wait for the next flush
          pending,   \* documents of the flush still to be written
          flushing,  \* all events of the flush under way
          attempt,   \* bulk requests this flush has made
          closing,   \* the flush was asked for by SIGINT
          settled,   \* events that need no index write, or got one
          skipped,   \* events prepare failed on (logged)
          rejected,  \* documents with a permanent bulk failure (logged)
          dropped    \* events of flushes that failed

loopVars   == <<stage, batch, pending, flushing, attempt, closing>>
resultVars == <<settled, skipped, rejected, dropped>>
indexerVars == <<high, malformed, committed, position, last, stage, batch, pending,
                 flushing, attempt, closing, settled, skipped, rejected, dropped>>

IndexerTypeOK ==
  /\ ConsumerTypeOK
  /\ stage \in {"poll", "flush", "finish", "down"}
  /\ batch \subseteq Messages
  /\ Cardinality(batch) < BatchSize
  /\ pending \subseteq flushing
  /\ flushing \subseteq Messages
  /\ Cardinality(flushing) <= BatchSize
  /\ attempt \in 0 .. BulkMaxRetries + 1
  /\ closing \in BOOLEAN
  /\ settled \subseteq Messages
  /\ skipped \subseteq Messages
  /\ rejected \subseteq Messages
  /\ dropped \subseteq Messages

IndexerInit ==
  /\ ConsumerInit
  /\ stage = "poll"
  /\ batch = {}
  /\ pending = {}
  /\ flushing = {}
  /\ attempt = 0
  /\ closing = FALSE
  /\ settled = {}
  /\ skipped = {}
  /\ rejected = {}
  /\ dropped = {}

ProduceExtracted(p) ==
  /\ AppendMessage(p, FALSE)
  /\ UNCHANGED <<committed, position, last, loopVars, resultVars>>

------------------------------------------------------------------------------
(* One turn of consume_loop. *)

\* flush_once takes the batch; controller.reset.
BeginFlush(documents, shutdown) ==
  /\ stage' = "flush"
  /\ flushing' = documents
  /\ pending' = documents
  /\ batch' = {}
  /\ attempt' = 0
  /\ closing' = shutdown

\* should_flush after an event: the batch is full or its first document has
\* waited for batch_timeout, which may or may not be the case by now.
AfterEvent(documents, timedOut) ==
  IF documents # {} /\ (Cardinality(documents) >= BatchSize \/ timedOut)
    THEN BeginFlush(documents, FALSE)
    ELSE /\ batch' = documents
         /\ UNCHANGED <<stage, pending, flushing, attempt, closing>>

\* PrepareOutcome::Ready
ReceiveReady(p, timedOut) ==
  /\ stage = "poll"
  /\ Receive(p)
  /\ AfterEvent(batch \cup {Upcoming(p)}, timedOut)
  /\ UNCHANGED <<brokerVars, committed, resultVars>>

\* PrepareOutcome::RemovedDuplicate or Missing: nothing to index.
ReceiveNothing(p, timedOut) ==
  /\ stage = "poll"
  /\ Receive(p)
  /\ AfterEvent(batch, timedOut)
  /\ settled' = settled \cup {Upcoming(p)}
  /\ UNCHANGED <<brokerVars, committed, skipped, rejected, dropped>>

\* prepare fails: logged, the event is skipped.
ReceiveSkip(p, timedOut) ==
  /\ stage = "poll"
  /\ Receive(p)
  /\ AfterEvent(batch, timedOut)
  /\ skipped' = skipped \cup {Upcoming(p)}
  /\ UNCHANGED <<brokerVars, committed, settled, rejected, dropped>>

\* Faulty variant: an idle poll only measures the lag.
PollTimeoutIdle ==
  /\ stage = "poll"
  /\ UNCHANGED indexerVars

\* ConsumeTimeout with documents waiting.
PollTimeout ==
  /\ stage = "poll"
  /\ batch # {}
  /\ BeginFlush(batch, FALSE)
  /\ UNCHANGED <<consumerVars, resultVars>>

\* SIGINT: what is in hand is flushed first ...
Shutdown ==
  /\ stage = "poll"
  /\ batch # {}
  /\ BeginFlush(batch, TRUE)
  /\ UNCHANGED <<consumerVars, resultVars>>

\* ... and with nothing in hand the last offset is committed, if that works.
ShutdownEmpty ==
  /\ stage = "poll"
  /\ batch = {}
  /\ CommitLast \/ UNCHANGED committed
  /\ stage' = "down"
  /\ UNCHANGED <<high, malformed, position, last, batch, pending, flushing, attempt, closing, resultVars>>

------------------------------------------------------------------------------
(* Indexer::flush, and what flush_once does with its result. *)

\* The flush is over; SIGINT ends the loop after it.
EndFlush ==
  /\ stage' = IF closing THEN "down" ELSE "poll"
  /\ pending' = {}
  /\ flushing' = {}
  /\ attempt' = 0
  /\ closing' = FALSE
  /\ UNCHANGED batch

\* bulk_upsert_fields: some documents are written, some fail for good, the
\* others may be tried again until the retries are used up.
Bulk(written, permanent) ==
  /\ stage = "flush"
  /\ settled' = settled \cup written
  /\ rejected' = rejected \cup permanent
  /\ LET retryable == pending \ (written \cup permanent)
     IN CASE retryable = {} ->
               /\ stage' = "finish"
               /\ pending' = {}
               /\ attempt' = attempt + 1
               /\ UNCHANGED <<flushing, batch, closing, dropped>>
          [] retryable # {} /\ attempt < BulkMaxRetries ->
               /\ pending' = retryable
               /\ attempt' = attempt + 1
               /\ UNCHANGED <<stage, flushing, batch, closing, dropped>>
          [] OTHER ->
               /\ dropped' = dropped \cup flushing
               /\ EndFlush
  /\ UNCHANGED <<consumerVars, skipped>>

\* The request as a whole fails: `?`, no retry; a part of it may be written.
BulkErr(written) ==
  /\ stage = "flush"
  /\ settled' = settled \cup written
  /\ dropped' = dropped \cup flushing
  /\ EndFlush
  /\ UNCHANGED <<consumerVars, skipped, rejected>>

\* Faulty variant: the offset is committed before the documents are written.
CommitEarly ==
  /\ stage \in {"flush", "finish"}
  /\ CommitLast
  /\ IF stage = "finish" THEN EndFlush ELSE UNCHANGED loopVars
  /\ UNCHANGED <<brokerVars, position, last, resultVars>>

\* Ok(report): checkpoint, search.index.completed, commit_last.
CommitFlush ==
  /\ stage = "finish"
  /\ CommitLast
  /\ EndFlush
  /\ UNCHANGED <<brokerVars, position, last, resultVars>>

CommitFlushErr ==
  /\ stage = "finish"
  /\ EndFlush
  /\ UNCHANGED <<consumerVars, resultVars>>

CrashIndexer ==
  /\ stage # "down"
  /\ stage' = "down"
  /\ batch' = {}
  /\ pending' = {}
  /\ flushing' = {}
  /\ attempt' = 0
  /\ closing' = FALSE
  /\ UNCHANGED <<consumerVars, resultVars>>

StartIndexer ==
  /\ stage = "down"
  /\ Resume
  /\ stage' = "poll"
  /\ UNCHANGED <<brokerVars, committed, batch, pending, flushing, attempt, closing, resultVars>>

Subsets == {w \in (SUBSET pending) \X (SUBSET pending) : w[1] \cap w[2] = {}}

IndexerLoopStep ==
  \/ \E p \in Partitions, late \in BOOLEAN :
       ReceiveReady(p, late) \/ ReceiveNothing(p, late) \/ ReceiveSkip(p, late)
  \/ PollTimeout
  \/ \E w \in Subsets : Bulk(w[1], w[2])
  \/ \E w \in SUBSET pending : BulkErr(w)
  \/ CommitFlush \/ CommitFlushErr \/ StartIndexer

IndexerNext ==
  \/ \E p \in Partitions : ProduceExtracted(p)
  \/ IndexerLoopStep
  \/ Shutdown \/ ShutdownEmpty \/ CrashIndexer

IndexerSpec == IndexerInit /\ [][IndexerNext]_indexerVars

\* The loop keeps running: polls return, by timeout at the latest.
IndexerFairSpec == IndexerSpec /\ WF_indexerVars(IndexerLoopStep)

------------------------------------------------------------------------------
(* Properties. *)

\* No event the group has moved past is still waiting in memory: a crash would
\* lose it without a trace.  It is indexed or needs no document, or it is one
\* of those the log names: prepare failed, rejected for good, flush failed.
\* (IndexerTypeOK, with the bounds of the batch, rides along.)
CommitAfterFlush ==
  /\ IndexerTypeOK
  /\ Passed \cap (batch \cup flushing) = {}
  /\ Passed \subseteq settled \cup skipped \cup rejected \cup dropped

\* A document that waits in the batch is flushed sooner or later even if no
\* other event arrives.
BatchIsFlushed == batch # {} ~> batch = {}
==============================================================================
