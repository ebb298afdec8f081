----------------------------- MODULE GraphWorker -----------------------------
(***************************************************************************)
(* The graph projection: writers change relationships in PostgreSQL and,    *)
(* after their commit, publish relationship.changed (merge, entity-worker,  *)
(* stix-worker); graph-worker re-reads the row and writes the edge to Neo4j *)
(* (graph-worker/src/main.rs, service.rs).  The partition key is the        *)
(* relationship id, so partition p carries the changes of relationship p    *)
(* and of no other.  A relationship version stands for the row's content;   *)
(* Absent for no row or no edge.                                            *)
(*                                                                         *)
(* An event whose handling fails is not committed.  The consumer does not   *)
(* seek back, though: its position has moved on.                            *)
(***************************************************************************)
EXTENDS EventConsumer, FiniteSets

CONSTANTS NonEntity,    \* relationships with an end that is not an Entity
          MaxRequests,  \* bound: writers between their commit and their publish
          MaxWrites     \* bound: writes to each relationship

Absent == 0
Versions == 1 .. MaxOffset    \* every write publishes at most once

ASSUME GraphAssumption ==
  /\ NonEntity \subseteq Partitions
  /\ MaxRequests \in Nat \ {0}
  /\ MaxWrites \in [Partitions -> 0 .. MaxOffset]

VARIABLES canon,     \* relationships table
          ver,       \* number of writes to each row
          inflight,  \* changes committed and not yet published
          kind,      \* change_kind of each message
          graph,     \* edges in Neo4j
          missed,    \* relationships that lost a change: history for the properties
          overtaken, \* relationships whose last message is a deletion that a newer
                     \* change was published before: history for the properties
          pc, cur,   \* the loop and the envelope in hand
          snap,      \* row the loop read; during a rebuild, the page it read
          todo,      \* rows of that page still to write
          ok, err    \* messages whose handling ended well, and badly

writerVars == <<canon, ver, inflight, kind>>
loopVars   == <<pc, cur, snap, todo>>
vars == <<high, malformed, committed, position, last, canon, ver, inflight, kind,
          graph, missed, overtaken, pc, cur, snap, todo, ok, err>>

Changes == [rel : Partitions, ver : Versions, kind : {"upserted", "deleted"}]

TypeOK ==
  /\ ConsumerTypeOK
  /\ canon \in [Partitions -> Versions \cup {Absent}]
  /\ ver \in [Partitions -> 0 .. MaxOffset]
  /\ inflight \subseteq Changes
  /\ kind \in [Messages -> {"none", "upserted", "deleted"}]
  /\ graph \in [Partitions -> Versions \cup {Absent}]
  /\ missed \subseteq Partitions
  /\ overtaken \subseteq Partitions
  /\ pc \in {"poll", "read", "write", "commit", "rebuild", "down"}
  /\ cur \in Messages \cup {NoMessage}
  /\ snap \in [Partitions -> Versions \cup {Absent}]
  /\ todo \subseteq Partitions
  /\ ok \subseteq Messages
  /\ err \subseteq Messages

Nothing == [p \in Partitions |-> Absent]

Init ==
  /\ ConsumerInit
  /\ canon = Nothing
  /\ ver = [p \in Partitions |-> 0]
  /\ inflight = {}
  /\ kind = [m \in Messages |-> "none"]
  /\ graph = Nothing
  /\ missed = {}
  /\ overtaken = {}
  /\ pc = "poll"
  /\ cur = NoMessage
  /\ snap = Nothing
  /\ todo = {}
  /\ ok = {}
  /\ err = {}

------------------------------------------------------------------------------
(* Writers: the transaction commits, then the change is published. *)

CommitChange(p, k) ==
  /\ ver[p] < MaxWrites[p]
  /\ Cardinality(inflight) < MaxRequests
  /\ k = "deleted" => canon[p] # Absent
  /\ ver' = [ver EXCEPT ![p] = @ + 1]
  /\ canon' = [canon EXCEPT ![p] = IF k = "deleted" THEN Absent ELSE ver'[p]]
  /\ inflight' = inflight \cup {[rel |-> p, ver |-> ver'[p], kind |-> k]}
  /\ UNCHANGED <<consumerVars, kind, graph, missed, overtaken, loopVars, ok, err>>

\* execute_merge and undo_merge: rows are put (repointed, restored) ...
PutRelationship(p) == CommitChange(p, "upserted")

\* ... or deleted, when a merge finds a self loop or a collision.
DeleteRelationship(p) == CommitChange(p, "deleted")

\* A deletion is published after the changes that were committed later: nothing
\* orders the requests between their commit and their publish.
Overtaken(c) ==
  /\ c.kind = "deleted" /\ c.ver < ver[c.rel]
  /\ \A d \in inflight : d.rel = c.rel => d.ver <= c.ver

Publish(c) ==
  /\ c \in inflight
  /\ AppendMessage(c.rel, FALSE)
  /\ kind' = [kind EXCEPT ![<<c.rel, high[c.rel]>>] = c.kind]
  /\ inflight' = inflight \ {c}
  /\ overtaken' = IF Overtaken(c) THEN overtaken \cup {c.rel} ELSE overtaken \ {c.rel}
  /\ UNCHANGED <<committed, position, last, canon, ver, graph, missed, loopVars, ok, err>>

\* The error is logged and the request succeeds.
PublishErr(c) ==
  /\ c \in inflight
  /\ inflight' = inflight \ {c}
  /\ missed' = missed \cup {c.rel}
  /\ UNCHANGED <<consumerVars, canon, ver, kind, graph, loopVars, ok, err, overtaken>>

------------------------------------------------------------------------------
(* The consume loop: process_change, apply_change, apply_relationship. *)

Poll(p) ==
  /\ pc = "poll"
  /\ Receive(p)
  /\ cur' = Upcoming(p)
  /\ pc' = IF kind[Upcoming(p)] = "deleted" THEN "write" ELSE "read"
  /\ snap' = Nothing
  /\ UNCHANGED <<brokerVars, committed, writerVars, graph, missed, overtaken, todo, ok, err>>

\* get_relationship; no row is handled like a deletion (SkippedRace).
ReadRow ==
  /\ pc = "read"
  /\ snap' = [snap EXCEPT ![cur[1]] = canon[cur[1]]]
  /\ pc' = "write"
  /\ UNCHANGED <<consumerVars, writerVars, graph, missed, overtaken, cur, todo, ok, err>>

\* upsert_edge or delete_edge with what was read; nothing is written for an
\* edge with an end that is no Entity, except that a deletion still deletes.
Projected(p, v) == IF p \in NonEntity /\ v # Absent THEN graph[p] ELSE v

\* Faulty variant: the edge is only written when it does not exist yet.
WriteEdgeOnce ==
  /\ pc = "write"
  /\ graph' = [graph EXCEPT ![cur[1]] =
                 IF @ = Absent THEN Projected(cur[1], snap[cur[1]]) ELSE @]
  /\ ok' = ok \cup {cur}
  /\ pc' = "commit"
  /\ UNCHANGED <<consumerVars, writerVars, missed, overtaken, cur, snap, todo, err>>

WriteEdge ==
  /\ pc = "write"
  /\ graph' = [graph EXCEPT ![cur[1]] = Projected(cur[1], snap[cur[1]])]
  /\ ok' = ok \cup {cur}
  /\ pc' = "commit"
  /\ UNCHANGED <<consumerVars, writerVars, missed, overtaken, cur, snap, todo, err>>

\* Faulty variant: the failed event is committed like a handled one.
HandleErrCommits ==
  /\ pc \in {"read", "write"}
  /\ graph' = graph
  /\ missed' = missed \cup {cur[1]}
  /\ err' = err \cup {cur}
  /\ pc' = "commit"
  /\ UNCHANGED <<consumerVars, writerVars, cur, snap, todo, ok, overtaken>>

\* Payload, PostgreSQL or Neo4j error (the write may have got through): a
\* metric and a log line, no commit.
HandleErr ==
  /\ pc \in {"read", "write"}
  /\ graph' \in {graph} \cup
       (IF pc = "write" THEN {[graph EXCEPT ![cur[1]] = Projected(cur[1], snap[cur[1]])]} ELSE {})
  /\ missed' = missed \cup {cur[1]}
  /\ err' = err \cup {cur}
  /\ pc' = "poll"
  /\ cur' = NoMessage
  /\ UNCHANGED <<consumerVars, writerVars, snap, todo, ok, overtaken>>

Commit ==
  /\ pc = "commit"
  /\ CommitLast
  /\ pc' = "poll"
  /\ cur' = NoMessage
  /\ UNCHANGED <<brokerVars, position, last, writerVars, graph, missed, overtaken, snap, todo, ok, err>>

CommitErr ==
  /\ pc = "commit"
  /\ pc' = "poll"
  /\ cur' = NoMessage
  /\ UNCHANGED <<consumerVars, writerVars, graph, missed, overtaken, snap, todo, ok, err>>

\* A graph_rebuild job, run inside the loop with drop_graph = false:
\* list_relationships, then every row of the page.
RebuildPage ==
  /\ pc = "poll"
  /\ snap' = canon
  /\ todo' = {p \in Partitions : canon[p] # Absent}
  /\ pc' = "rebuild"
  /\ UNCHANGED <<consumerVars, writerVars, graph, missed, overtaken, cur, ok, err>>

\* What earlier losses cost is made up for when the row is written as it is and
\* no event of it can arrive, or arrive again, any more.
MadeUpFor(p) ==
  /\ snap[p] = canon[p]
  /\ committed[p] = high[p]
  /\ \A c \in inflight : c.rel # p

RebuildRow(p) ==
  /\ pc = "rebuild"
  /\ p \in todo
  /\ graph' = [graph EXCEPT ![p] = Projected(p, snap[p])]
  /\ missed' = IF MadeUpFor(p) THEN missed \ {p} ELSE missed
  /\ overtaken' = IF MadeUpFor(p) THEN overtaken \ {p} ELSE overtaken
  /\ todo' = todo \ {p}
  /\ UNCHANGED <<consumerVars, writerVars, pc, cur, snap, ok, err>>

\* The row is counted as failed and the rebuild goes on.
RebuildRowErr(p) ==
  /\ pc = "rebuild"
  /\ p \in todo
  /\ todo' = todo \ {p}
  /\ UNCHANGED <<consumerVars, writerVars, graph, missed, overtaken, pc, cur, snap, ok, err>>

RebuildEnd ==
  /\ pc = "rebuild"
  /\ todo = {}
  /\ pc' = "poll"
  /\ UNCHANGED <<consumerVars, writerVars, graph, missed, overtaken, cur, snap, todo, ok, err>>

\* SIGINT between two events (no extra commit) or a crash.
Stop ==
  /\ pc # "down"
  /\ pc' = "down"
  /\ cur' = NoMessage
  /\ todo' = {}
  /\ snap' = Nothing
  /\ UNCHANGED <<consumerVars, writerVars, graph, missed, overtaken, ok, err>>

Start ==
  /\ pc = "down"
  /\ Resume
  /\ pc' = "poll"
  /\ UNCHANGED <<brokerVars, committed, writerVars, graph, missed, overtaken, cur, snap, todo, ok, err>>

Next ==
  \/ \E p \in Partitions : PutRelationship(p) \/ DeleteRelationship(p)
  \/ \E c \in inflight : Publish(c) \/ PublishErr(c)
  \/ \E p \in Partitions : Poll(p) \/ RebuildRow(p) \/ RebuildRowErr(p)
  \/ ReadRow \/ WriteEdge \/ HandleErr \/ Commit \/ CommitErr
  \/ RebuildPage \/ RebuildEnd
  \/ Stop \/ Start

Spec == Init /\ [][Next]_vars

------------------------------------------------------------------------------
(* Properties. *)

\* Nothing about relationship p is under way any more.
Quiet(p) ==
  /\ pc = "poll"
  /\ position[p] = high[p]
  /\ \A c \in inflight : c.rel # p

\* Once every change of a relationship has been published and handled without
\* an error, or a later rebuild has made up for that, the graph shows the row
\* as it is in PostgreSQL, whatever crashes, redeliveries and rebuilds happened
\* in between and however requests publish out of order.  Except while the last
\* message is a deletion that a newer change was published before: it is applied
\* without reading the row (docs/developer/graph-worker.md takes the order of the
\* partition for the order of the commits).
EdgeConverges ==
  \A p \in Partitions \ (missed \cup overtaken) : Quiet(p) =>
    graph[p] = IF p \in NonEntity THEN Absent ELSE canon[p]

\* A change whose handling failed is passed over only because a later event of
\* the same relationship was handled well and committed: a crash or a restart
\* right after the failure still has it redelivered.  (TypeOK rides along.)
LossNeedsLaterSuccess ==
  /\ TypeOK
  /\ \A m \in Passed \ ok : m \in err /\ \E n \in ok : n[1] = m[1] /\ n[2] > m[2]
==============================================================================
