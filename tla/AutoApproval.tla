---------------------------- MODULE AutoApproval ----------------------------
(***************************************************************************)
(* Entity resolution and automatic approval: resolve_entity writes            *)
(* resolution candidates (resolver/src/service.rs, persist.rs), the API         *)
(* (core-api/src/resources/merge.rs) and the STIX import                       *)
(* (stix-worker/src/service.rs) group the pending ones by the other entity and   *)
(* have evaluate_pair (resolver/src/auto_approval.rs) decide each pair, in the   *)
(* middle band by asking the model through the AI gateway.  An operator merges   *)
(* and undoes merges at the same time.                                       *)
(*                                                                         *)
(* Entities are numbers, which order the groups as the ids do.  A candidate is   *)
(* named by its pair and method, which a unique index keeps unique.  A merge is   *)
(* its checks and its transaction here; EntityMerge looks inside.               *)
(***************************************************************************)
EXTENDS Integers, Sequences, FiniteSets

CONSTANTS EntityIds,
          TypeOf,         \* entity -> entity_type
          Matches,        \* what the checks find: pair, method, score
          ReviewScore,    \* llm_review_score
          ConfirmScore,   \* auto_confirm_score
          MaxAutoMerges,  \* max_auto_merges_per_resolve
          Sessions,       \* resolve requests and imports, each of which runs once
          Imports,        \* those of the STIX worker
          Todo,           \* session -> its entities: one for the API, a bundle's for STIX
          Unset,          \* NULL
          MaxOperator,    \* bound: merges and undos by hand
          MaxFaults       \* bound: errors and crashes

Pairs == {{a, b} : a, b \in EntityIds}
Candidates == {[pair |-> m.pair, method |-> m.method] : m \in Matches}

ASSUME ApprovalAssumption ==
  /\ EntityIds \subseteq Nat
  /\ Unset \notin EntityIds \cup Sessions
  /\ \A m \in Matches : m.pair \in Pairs /\ Cardinality(m.pair) = 2 /\ m.score \in Nat
  /\ \A m, n \in Matches : m.pair = n.pair /\ m.method = n.method => m = n
  /\ ReviewScore \in Nat /\ ConfirmScore \in Nat
  /\ Imports \subseteq Sessions
  /\ \A s \in Sessions : Todo[s] \in Seq(EntityIds)
  /\ {MaxAutoMerges, MaxOperator, MaxFaults} \subseteq Nat

VARIABLES survivorOf,  \* entities.merged_into
          status,      \* resolution_candidates: status, for the rows there are
          merges,      \* merge_history, in the order of the commits
          aiRuns,      \* ai_runs: session, pair, verdict
          events,      \* outbox: ai.requested, ai.completed, ai.failed
          session,
          verdicts,    \* answers of the model: history
          unwritten,   \* ai runs whose row or event was not written: history
          unmarked,    \* candidates a merge was not marked on: history
          merging,     \* merges by hand past their checks
          undoing,     \* undos past their checks
          raced,       \* entities written after a check that had gone stale: history
          operator, faults

told == <<aiRuns, events, verdicts, unwritten>>
hand == <<merging, undoing, operator>>
approvalVars == <<survivorOf, status, merges, aiRuns, events, session, verdicts, unwritten, unmarked,
                  merging, undoing, raced, operator, faults>>

Ready(s) == [pc |-> "ready", todo |-> Todo[s], found |-> {}, written |-> {},
             groups |-> {}, verdict |-> "no", group |-> {}, count |-> 0, settled |-> {}]

ApprovalInit ==
  /\ survivorOf = [e \in EntityIds |-> Unset]
  /\ status = << >>
  /\ merges = << >>
  /\ aiRuns = {}
  /\ events = {}
  /\ session = [s \in Sessions |-> Ready(s)]
  /\ verdicts = {}
  /\ unwritten = {}
  /\ unmarked = {}
  /\ merging = {}
  /\ undoing = {}
  /\ raced = {}
  /\ operator = 0
  /\ faults = 0

Fault == faults < MaxFaults /\ faults' = faults + 1

Goto(s, pc) == session' = [session EXCEPT ![s].pc = pc]

Score(c) == (CHOOSE m \in Matches : m.pair = c.pair /\ m.method = c.method).score

------------------------------------------------------------------------------
(* resolve_entity *)

Entity(s) == Head(session[s].todo)

FoundFor(e) == {c \in Candidates : e \in c.pair}

\* Faulty variant: what is found again is pending again.
PersistUpsert(c) ==
  status' = [d \in DOMAIN status \cup {c} |-> IF d = c THEN "pending" ELSE status[d]]

\* persist_candidate: a row there is stays as it is.
Persist(c) ==
  status' = [d \in DOMAIN status \cup {c} |-> IF d \in DOMAIN status THEN status[d] ELSE "pending"]

\* The pairs that have been confirmed, by every method there is.
Settled ==
  {p \in Pairs : LET C == {c \in Candidates : c.pair = p}
                 IN C # {} /\ \A c \in C : c \in DOMAIN status /\ status[c] = "auto_confirmed"}

Resolve(s) ==
  /\ session[s].pc = "ready"
  /\ session[s].todo # << >>
  /\ session' = [session EXCEPT ![s].pc = "persist", ![s].found = FoundFor(Entity(s)),
                                ![s].settled = Settled]
  /\ UNCHANGED <<survivorOf, status, merges, told, unmarked, raced, hand, faults>>

\* The API keeps what it has written itself.
PersistNext(s, c) ==
  /\ session[s].pc = "persist"
  /\ Persist(c)
  /\ session' = [session EXCEPT ![s].found = @ \ {c},
                                ![s].written = IF s \in Imports \/ c \in DOMAIN status THEN @ ELSE @ \cup {c}]
  /\ UNCHANGED <<survivorOf, merges, told, unmarked, raced, hand, faults>>

NextEntity(s) ==
  session' = [session EXCEPT ![s].pc = "ready", ![s].todo = Tail(@), ![s].found = {}, ![s].written = {}]

\* Candidates written before the error stay; this entity is left to a later request.
ResolveErr(s) ==
  /\ session[s].pc = "persist"
  /\ session[s].found # {}
  /\ Fault
  /\ NextEntity(s)
  /\ UNCHANGED <<survivorOf, status, merges, told, unmarked, raced, hand>>

------------------------------------------------------------------------------
(* Groups *)

\* list_resolution_candidates_by_entity, with status Pending.
Pending(e) == {c \in DOMAIN status : e \in c.pair /\ status[c] = "pending"}

Other(e, c) == CHOOSE x \in c.pair : x # e

\* group_candidates_for_auto_approval: by the other entity ...
Groups(e, C) ==
  {[other |-> x, cands |-> {c \in C : Other(e, c) = x}] : x \in {Other(e, c) : c \in C}}

\* The API adds the candidates it has just written, as it wrote them.
List(s) ==
  /\ session[s].pc = "persist"
  /\ session[s].found = {}
  /\ session' = [session EXCEPT ![s].pc = "groups",
                                ![s].groups = Groups(Entity(s), Pending(Entity(s)) \cup session[s].written)]
  /\ UNCHANGED <<survivorOf, status, merges, told, unmarked, raced, hand, faults>>

ListErr(s) ==
  /\ session[s].pc = "persist"
  /\ session[s].found = {}
  /\ Fault
  /\ NextEntity(s)
  /\ UNCHANGED <<survivorOf, status, merges, told, unmarked, raced, hand>>

\* No group is left, or the limit is reached, which an import's entities share (the
\* import does not even list the candidates then).
GroupsDone(s) ==
  /\ session[s].pc = "groups"
  /\ session[s].groups = {} \/ session[s].count >= MaxAutoMerges
  /\ NextEntity(s)
  /\ UNCHANGED <<survivorOf, status, merges, told, unmarked, raced, hand, faults>>

\* ... in the order of ids.
Group(s) == CHOOSE g \in session[s].groups : \A h \in session[s].groups : g.other <= h.other

PairOf(s) == {Entity(s), Group(s).other}

------------------------------------------------------------------------------
(* evaluate_pair *)

\* The best score is at least t.
Reaches(C, t) == \E c \in C : Score(c) >= t

\* Faulty variant: the middle band is not told apart from the high one.
DecideUnasked(C, p) ==
  IF ~Reaches(C, ReviewScore) \/ \E a, b \in p : TypeOf[a] # TypeOf[b] THEN "pending" ELSE "merge"

\* The pair's best score and types decide.
Decide(C, p) ==
  IF ~Reaches(C, ReviewScore) \/ \E a, b \in p : TypeOf[a] # TypeOf[b] THEN "pending"
  ELSE IF Reaches(C, ConfirmScore) THEN "merge" ELSE "ask"

NextGroup(s) == session' = [session EXCEPT ![s].pc = "groups", ![s].groups = @ \ {Group(s)}]

EvaluatePair(s) ==
  /\ session[s].pc = "groups"
  /\ session[s].groups # {}
  /\ session[s].count < MaxAutoMerges
  /\ LET d == Decide(Group(s).cands, PairOf(s))
     IN IF d = "pending" THEN NextGroup(s) ELSE Goto(s, d)
  /\ UNCHANGED <<survivorOf, status, merges, told, unmarked, raced, hand, faults>>

\* load_entity failed.
EvaluateErr(s) ==
  /\ session[s].pc = "groups"
  /\ session[s].groups # {}
  /\ session[s].count < MaxAutoMerges
  /\ Fault
  /\ NextGroup(s)
  /\ UNCHANGED <<survivorOf, status, merges, told, unmarked, raced, hand>>

Call(s) == <<s, PairOf(s)>>

\* enqueue_ai_requested; without the model ai_gateway answers Unsupported.
Ask(s) ==
  /\ session[s].pc = "ask"
  /\ \/ events' = events \cup {<<"requested", Call(s)>>} /\ UNCHANGED faults
     \/ Fault /\ UNCHANGED events
  /\ Goto(s, "answer")
  /\ UNCHANGED <<survivorOf, status, merges, aiRuns, verdicts, unwritten, unmarked, raced, hand>>

\* persist_ai_run_with_outbox: the row and the event in one transaction.
PersistRun(s, v) ==
  /\ aiRuns' = aiRuns \cup {<<Call(s), v>>}
  /\ events' = events \cup {<<IF v = "error" THEN "failed" ELSE "completed", Call(s)>>}
  /\ UNCHANGED <<unwritten, faults>>

\* Only logged.
PersistRunErr(s) ==
  /\ Fault
  /\ unwritten' = unwritten \cup {Call(s)}
  /\ UNCHANGED <<aiRuns, events>>

\* chat_completion returns: yes, no (or what parse_llm_verdict cannot read), or an
\* error.
Answered(s, v) ==
  /\ session[s].pc = "answer"
  /\ verdicts' = verdicts \cup {<<Call(s), v>>}
  /\ session' = [session EXCEPT ![s].pc = "record", ![s].verdict = v]
  /\ UNCHANGED <<survivorOf, status, merges, aiRuns, events, unwritten, unmarked, raced, hand, faults>>

\* persist_ai_run, and then the verdict counts.
AnswerRecorded(s) ==
  /\ session[s].pc = "record"
  /\ PersistRun(s, session[s].verdict) \/ PersistRunErr(s)
  /\ IF session[s].verdict = "yes" THEN Goto(s, "merge") ELSE NextGroup(s)
  /\ UNCHANGED <<survivorOf, status, merges, verdicts, unmarked, raced, hand>>

------------------------------------------------------------------------------
(* commit_auto_merge *)

\* execute_merge's checks: SelfMerge, TypeMismatch, AlreadyMerged.
Mergeable(a, b) ==
  /\ a # b
  /\ TypeOf[a] = TypeOf[b]
  /\ survivorOf[a] = Unset
  /\ survivorOf[b] = Unset

\* execute_in_tx, which checks nothing again, for the request by.
ExecuteMerge(a, b, C, by) ==
  /\ survivorOf' = [survivorOf EXCEPT ![b] = a]
  /\ merges' = Append(merges, [survivor |-> a, merged |-> b, cands |-> C, by |-> by, undone |-> FALSE])
  /\ raced' = IF survivorOf[b] = Unset THEN raced ELSE raced \cup {b}

\* The checks of execute_merge_with_audit; what they refuse leaves the pair pending.
AutoMergeCheck(s) ==
  /\ session[s].pc = "merge"
  /\ IF Mergeable(Entity(s), Group(s).other) THEN Goto(s, "commit") ELSE NextGroup(s)
  /\ UNCHANGED <<survivorOf, status, merges, told, unmarked, raced, hand, faults>>

\* Its transaction.
AutoMerge(s) ==
  /\ session[s].pc = "commit"
  /\ ExecuteMerge(Entity(s), Group(s).other, Group(s).cands, s)
  /\ session' = [session EXCEPT ![s].pc = "mark", ![s].group = Group(s).cands, ![s].count = @ + 1]
  /\ UNCHANGED <<status, told, unmarked, hand, faults>>

\* Any other error of the merge.
AutoMergeErr(s) ==
  /\ session[s].pc \in {"merge", "commit"}
  /\ Fault
  /\ NextGroup(s)
  /\ UNCHANGED <<survivorOf, status, merges, told, unmarked, raced, hand>>

\* Faulty variant: the first candidate stands for the group.
MarkFirst(s, c) ==
  /\ session[s].pc = "mark"
  /\ c \in session[s].group
  /\ status' = [status EXCEPT ![c] = "auto_confirmed"]
  /\ session' = [session EXCEPT ![s].group = {}]
  /\ UNCHANGED <<survivorOf, merges, told, unmarked, raced, hand, faults>>

\* mark_candidates_auto_confirmed, one candidate after the other; a failure is
\* logged.
Mark(s, c) ==
  /\ session[s].pc = "mark"
  /\ c \in session[s].group
  /\ \/ /\ status' = [status EXCEPT ![c] = "auto_confirmed"]
        /\ UNCHANGED <<unmarked, faults>>
     \/ /\ Fault
        /\ unmarked' = unmarked \cup {c}
        /\ UNCHANGED status
  /\ session' = [session EXCEPT ![s].group = @ \ {c}]
  /\ UNCHANGED <<survivorOf, merges, told, raced, hand>>

Marked(s) ==
  /\ session[s].pc = "mark"
  /\ session[s].group = {}
  /\ NextGroup(s)
  /\ UNCHANGED <<survivorOf, status, merges, told, unmarked, raced, hand, faults>>

------------------------------------------------------------------------------
(* Around the sessions. *)

\* The process dies, or the client of the API goes away.
Crash(s) ==
  /\ session[s].pc # "ready"
  /\ Fault
  /\ unmarked' = unmarked \cup session[s].group
  /\ unwritten' = IF session[s].pc = "record" THEN unwritten \cup {Call(s)} ELSE unwritten
  /\ session' = [session EXCEPT ![s] = [Ready(s) EXCEPT !.todo = << >>]]
  /\ UNCHANGED <<survivorOf, status, merges, aiRuns, events, verdicts, raced, hand>>

\* POST /entities/merge: its checks ...
CheckByHand(a, b) ==
  /\ operator < MaxOperator /\ operator' = operator + 1
  /\ Mergeable(a, b)
  /\ merging' = merging \cup {<<operator', a, b>>}
  /\ UNCHANGED <<survivorOf, status, merges, session, told, unmarked, undoing, raced, faults>>

\* ... and its transaction, which leaves the candidates alone.
MergeByHand(n, a, b) ==
  /\ <<n, a, b>> \in merging
  /\ merging' = merging \ {<<n, a, b>>}
  /\ ExecuteMerge(a, b, {}, Unset)
  /\ UNCHANGED <<status, session, told, unmarked, undoing, operator, faults>>

\* undo_merge: the history is not undone and the survivor not merged ...
CheckUndoByHand(i) ==
  /\ operator < MaxOperator /\ operator' = operator + 1
  /\ ~merges[i].undone
  /\ survivorOf[merges[i].survivor] = Unset
  /\ undoing' = undoing \cup {<<operator', i>>}
  /\ UNCHANGED <<survivorOf, status, merges, session, told, unmarked, merging, raced, faults>>

\* ... and undo_in_tx, which leaves the candidates alone, too.
Undo(n, i) ==
  /\ <<n, i>> \in undoing
  /\ undoing' = undoing \ {<<n, i>>}
  /\ survivorOf' = [survivorOf EXCEPT ![merges[i].merged] = Unset]
  /\ merges' = [merges EXCEPT ![i].undone = TRUE]
  /\ raced' = IF merges[i].undone THEN raced \cup {merges[i].merged} ELSE raced
  /\ UNCHANGED <<status, session, told, unmarked, merging, operator, faults>>

Step(s) ==
  \/ Resolve(s) \/ (\E c \in session[s].found : PersistNext(s, c)) \/ List(s) \/ GroupsDone(s) \/ EvaluatePair(s) \/ Ask(s)
  \/ (\E v \in {"yes", "no", "error"} : Answered(s, v)) \/ AnswerRecorded(s)
  \/ AutoMergeCheck(s) \/ AutoMerge(s) \/ (\E c \in session[s].group : Mark(s, c)) \/ Marked(s)

ApprovalNext ==
  \/ \E s \in Sessions :
       Step(s) \/ ResolveErr(s) \/ ListErr(s) \/ EvaluateErr(s) \/ AutoMergeErr(s) \/ Crash(s)
  \/ \E a, b \in EntityIds : CheckByHand(a, b) \/ \E n \in 1 .. MaxOperator : MergeByHand(n, a, b)
  \/ \E i \in DOMAIN merges : CheckUndoByHand(i) \/ \E n \in 1 .. MaxOperator : Undo(n, i)

ApprovalSpec == ApprovalInit /\ [][ApprovalNext]_approvalVars

------------------------------------------------------------------------------
(* Properties. *)

\* The state has its types; merged_into is what the history says is in force, but
\* for entities that two requests past their checks wrote.
ApprovalTypeOK ==
  /\ DOMAIN status \subseteq Candidates
  /\ \A e \in EntityIds \ raced :
       survivorOf[e] = (IF \E i \in DOMAIN merges : merges[i].merged = e /\ ~merges[i].undone
                          THEN (CHOOSE m \in {merges[i] : i \in DOMAIN merges} : m.merged = e /\ ~m.undone).survivor
                          ELSE Unset)
  /\ \A s \in Sessions : session[s].group \subseteq DOMAIN status

Automatic == {i \in DOMAIN merges : merges[i].by # Unset}
PairAt(i) == {merges[i].survivor, merges[i].merged}

\* An automatic merge joins entities of one type for which some check found a
\* high score, or a middling one and the model said yes in that very session; and
\* one request, or one whole import, merges no more than
\* max_auto_merges_per_resolve pairs, whatever else merges and undoes.
AutoMergesAllowed ==
  /\ \A i \in Automatic :
       /\ TypeOf[merges[i].survivor] = TypeOf[merges[i].merged]
       /\ \E m \in Matches :
            /\ m.pair = PairAt(i)
            /\ \/ m.score >= ConfirmScore
               \/ m.score >= ReviewScore /\ <<<<merges[i].by, PairAt(i)>>, "yes">> \in verdicts
  /\ \A s \in Sessions : Cardinality({i \in Automatic : merges[i].by = s}) <= MaxAutoMerges

\* A candidate says auto_confirmed only if its pair was merged automatically, and
\* every candidate of the group a merge rested on says so once its session is past
\* marking them, except where the update failed or the process died.  Every answer of
\* the model has its ai_runs row and the event that belongs to it once its session
\* goes on, except where their transaction failed or the process died before it.
\* (ApprovalTypeOK rides along.)
RecordsAgree ==
  /\ ApprovalTypeOK
  /\ \A c \in DOMAIN status : status[c] = "auto_confirmed" => \E i \in Automatic : PairAt(i) = c.pair
  /\ \A i \in Automatic :
       /\ merges[i].cands # {}
       /\ \A c \in merges[i].cands :
            /\ c \in DOMAIN status /\ c.pair = PairAt(i)
            /\ \/ status[c] = "auto_confirmed"
               \/ c \in unmarked
               \/ c \in session[merges[i].by].group
  /\ \A r \in verdicts :
       \/ r[1] \in unwritten
       \/ session[r[1][1]].pc = "record" /\ r = <<Call(r[1][1]), session[r[1][1]].verdict>>
       \/ /\ r \in aiRuns
          /\ <<IF r[2] = "error" THEN "failed" ELSE "completed", r[1]>> \in events

\* What an operator undid is not merged again by a request made afterwards: the
\* candidates stay confirmed and a second find does not reopen them.
UndoSticks ==
  [][\A s \in Sessions :
       Len(merges') > Len(merges) /\ merges'[Len(merges')].by = s
         => PairOf(s) \notin session[s].settled]_approvalVars
==============================================================================
