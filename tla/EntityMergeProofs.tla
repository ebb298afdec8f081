-------------------------- MODULE EntityMergeProofs --------------------------
(***************************************************************************)
(* What merge and undo guarantee, for any number of entities, references,  *)
(* merges and requests that overlap in any way.  execute_merge checks      *)
(* merged_into and reads its rows before it commits, so a guarantee can be *)
(* lost exactly when a request commits on findings that another commit has *)
(* changed; the theorems name those commits and say that nothing else      *)
(* breaks it.                                                              *)
(*                                                                         *)
(* And what automatic approval guarantees, which merges by itself, for any *)
(* number of sessions that share the tables with each other and with an    *)
(* operator, and any number of errors and crashes.                         *)
(***************************************************************************)
EXTENDS EntityMerge, AutoApproval, WellFoundedInduction, FiniteSetTheorems, TLAPS

\* What a request under way was asked for.
Addressed(q) ==
  /\ req[q].pc \in {"begin", "merge"} =>
       req[q].survivor \in Entities /\ req[q].merged \in Entities /\ req[q].survivor # req[q].merged
  /\ req[q].pc = "undo" => req[q].which \in DOMAIN history

\* What it has checked and read is what the tables hold now.
Fresh(q) ==
  /\ req[q].pc \in {"begin", "merge"} =>
       mergedInto[req[q].survivor] = None /\ mergedInto[req[q].merged] = None
  /\ req[q].pc = "merge" =>
       /\ req[q].rows = RowsOf(req[q].survivor, req[q].merged)
       /\ req[q].refs = Owned(req[q].merged)
  /\ req[q].pc = "undo" => ~history[req[q].which].undone

\* A request's findings hold unless the commit of another has outdated them.
ChecksHold ==
  /\ mergedInto \in [Entities -> Entities \cup {None}]
  /\ owner \in [Refs -> Entities]
  /\ \A q \in Requests : Addressed(q) /\ (q \in outdated \/ Fresh(q))

\* A sequence of whatever its elements are.
IsSequence(seq) == seq \in Seq({seq[h] : h \in DOMAIN seq})

\* The undo half: an undo writes the entity its history row names.
HistoryTyped ==
  /\ DOMAIN req = Requests
  /\ IsSequence(history)
  /\ \A h \in DOMAIN history : history[h].merged \in Entities
  /\ overlap \in BOOLEAN

IInv == ChecksHold /\ HistoryTyped /\ NoMergeCycle /\ RefsFollowSurvivor

------------------------------------------------------------------------------
(* Facts about the operators the actions are built from. *)

\* Giving an entity a survivor that is its own survivor closes no cycle: the cycle
\* would have to pass through the new survivor.
LEMMA MergingClosesNoCycle ==
  ASSUME mergedInto \in [Entities -> Entities \cup {None}],
         None \notin Entities, NoMergeCycle,
         NEW s \in Entities, NEW m \in Entities, s # m, mergedInto[s] = None,
         mergedInto' = [mergedInto EXCEPT ![m] = s],
         staleMerged' = staleMerged \ {m}
  PROVE  NoMergeCycle'
<1> SUFFICES ASSUME NEW S \in (SUBSET Entities) \ {{}},
                    \A e \in S : mergedInto'[e] \in S
             PROVE  S \cap staleMerged' # {}
  BY DEF NoMergeCycle
<1>1. m \notin S
  OBVIOUS
<1>2. \A e \in S : mergedInto[e] \in S
  BY <1>1
<1>3. S \cap staleMerged # {}
  BY <1>2 DEF NoMergeCycle
<1> QED
  BY <1>1, <1>3

\* If the findings were outdated, whatever cycle the merge closes passes through the
\* entity it merged.
LEMMA StaleMergeIsNamed ==
  ASSUME mergedInto \in [Entities -> Entities \cup {None}], NoMergeCycle,
         NEW s \in Entities, NEW m \in Entities,
         mergedInto' = [mergedInto EXCEPT ![m] = s],
         staleMerged' = staleMerged \cup {m}
  PROVE  NoMergeCycle'
<1> SUFFICES ASSUME NEW S \in (SUBSET Entities) \ {{}},
                    \A e \in S : mergedInto'[e] \in S, m \notin S
             PROVE  S \cap staleMerged' # {}
  BY DEF NoMergeCycle
<1>1. \A e \in S : mergedInto[e] \in S
  OBVIOUS
<1>2. S \cap staleMerged # {}
  BY <1>1 DEF NoMergeCycle
<1> QED
  BY <1>2

\* Clearing merged_into closes no cycle either.
LEMMA UndoingClosesNoCycle ==
  ASSUME mergedInto \in [Entities -> Entities \cup {None}],
         None \notin Entities, NoMergeCycle,
         NEW m \in Entities,
         mergedInto' = [mergedInto EXCEPT ![m] = None],
         staleMerged' = staleMerged \ {m}
  PROVE  NoMergeCycle'
<1> SUFFICES ASSUME NEW S \in (SUBSET Entities) \ {{}},
                    \A e \in S : mergedInto'[e] \in S
             PROVE  S \cap staleMerged' # {}
  BY DEF NoMergeCycle
<1>1. m \notin S
  OBVIOUS
<1>2. \A e \in S : mergedInto[e] \in S
  BY <1>1
<1>3. S \cap staleMerged # {}
  BY <1>2 DEF NoMergeCycle
<1> QED
  BY <1>1, <1>3

\* What another request found still holds after a step, unless it counts as
\* outdated from then on.
LEMMA OthersHold ==
  ASSUME NEW p \in Requests, ChecksHold,
         req'[p] = req[p], DOMAIN history \subseteq DOMAIN history',
         p \notin outdated' => p \notin outdated /\ Findings(p)' = Findings(p)
  PROVE  Addressed(p)' /\ (p \in outdated' \/ Fresh(p)')
<1>1. Addressed(p) /\ (p \in outdated \/ Fresh(p))
  BY DEF ChecksHold
<1>2. Addressed(p)'
  BY <1>1 DEF Addressed
<1>3. ASSUME p \notin outdated' PROVE Fresh(p)'
  <2>1. Fresh(p) /\ Findings(p)' = Findings(p)
    BY <1>1, <1>3
  <2>2. CASE req[p].pc = "begin"
    BY <2>1, <2>2 DEF Fresh, Findings
  <2>3. CASE req[p].pc = "merge"
    <3>1. <<mergedInto'[req[p].survivor], mergedInto'[req[p].merged],
            RowsOf(req[p].survivor, req[p].merged)', Owned(req[p].merged)'>>
        = <<mergedInto[req[p].survivor], mergedInto[req[p].merged],
            RowsOf(req[p].survivor, req[p].merged), Owned(req[p].merged)>>
      BY <2>1, <2>3 DEF Findings
    <3>2. /\ mergedInto'[req[p].survivor] = mergedInto[req[p].survivor]
          /\ mergedInto'[req[p].merged] = mergedInto[req[p].merged]
          /\ RowsOf(req[p].survivor, req[p].merged)' = RowsOf(req[p].survivor, req[p].merged)
          /\ Owned(req[p].merged)' = Owned(req[p].merged)
      BY <3>1
    <3> QED BY <2>1, <2>3, <3>2 DEF Fresh
  <2>4. CASE req[p].pc = "undo"
    BY <2>1, <2>4 DEF Fresh, Findings
  <2>5. CASE req[p].pc \notin {"begin", "merge", "undo"}
    BY <2>5 DEF Fresh
  <2> QED BY <2>2, <2>3, <2>4, <2>5
<1> QED BY <1>2, <1>3

\* A step that changes neither tables nor history outdates nobody.
LEMMA QuietFindings ==
  ASSUME NEW p, req'[p] = req[p], UNCHANGED <<tables, history>>
  PROVE  Findings(p)' = Findings(p)
BY DEF Findings, RowsOf, Touching, Present, Owned, tables

\* Appending to a sequence keeps its rows and adds the new one.
LEMMA AppendKeepsRows ==
  ASSUME NEW seq, IsSequence(seq), NEW e
  PROVE  /\ IsSequence(Append(seq, e))
         /\ DOMAIN Append(seq, e) = DOMAIN seq \cup {Len(seq) + 1}
         /\ \A h \in DOMAIN seq : Append(seq, e)[h] = seq[h]
         /\ Append(seq, e)[Len(seq) + 1] = e
<1> DEFINE R == {seq[h] : h \in DOMAIN seq}
<1>1. seq \in Seq(R \cup {e})
  BY DEF IsSequence
<1>2. /\ Append(seq, e) \in Seq(R \cup {e})
      /\ DOMAIN Append(seq, e) = 1..(Len(seq) + 1)
      /\ DOMAIN seq = 1..Len(seq)
      /\ Len(seq) \in Nat
      /\ \A h \in 1..Len(seq) : Append(seq, e)[h] = seq[h]
      /\ Append(seq, e)[Len(seq) + 1] = e
  BY <1>1
<1>3. IsSequence(Append(seq, e))
  BY <1>2 DEF IsSequence
<1> QED
  BY <1>2, <1>3

\* A function on the indices of a sequence is a sequence of its values.
LEMMA SameDomainIsSequence ==
  ASSUME NEW seq, IsSequence(seq),
         NEW new, new = [h \in DOMAIN seq |-> new[h]]
  PROVE  IsSequence(new)
<1>1. Len(seq) \in Nat /\ DOMAIN seq = 1..Len(seq)
  BY DEF IsSequence
<1>2. new \in [1..Len(seq) -> {new[h] : h \in DOMAIN new}]
  BY <1>1
<1> QED
  BY <1>1, <1>2 DEF IsSequence

------------------------------------------------------------------------------
(* The invariant. *)

\* The tables begin with no merged entity.
LEMMA InitIInv == Init => IInv
<1> SUFFICES ASSUME Init PROVE IInv
  OBVIOUS
<1> USE MergeAssumption DEF Init
<1>1. ChecksHold
  BY DEF ChecksHold, Addressed, Fresh, Idle
<1>2. HistoryTyped
  <2>1. overlap \in BOOLEAN
    OBVIOUS
  <2>2. IsSequence(history) /\ DOMAIN history = {} /\ DOMAIN req = Requests
    BY DEF IsSequence
  <2> QED BY ONLY <2>1, <2>2 DEF HistoryTyped
<1>3. NoMergeCycle
  BY DEF NoMergeCycle
<1>4. RefsFollowSurvivor
  BY DEF RefsFollowSurvivor
<1> QED
  BY <1>1, <1>2, <1>3, <1>4 DEF IInv

\* A step that writes neither tables nor history keeps the invariant if it keeps
\* its own request's part.
LEMMA QuietIInv ==
  ASSUME IInv, NEW q \in Requests, UNCHANGED <<tables, history, overlap, staleMerged>>,
         \A p \in Requests \ {q} : req'[p] = req[p] /\ (p \in outdated' <=> p \in outdated),
         DOMAIN req' = DOMAIN req,
         Addressed(q)' /\ (q \in outdated' \/ Fresh(q)')
  PROVE  IInv'
<1>1. UNCHANGED <<owner, mergedInto, history, overlap, staleMerged>>
  BY DEF tables
<1>2. ChecksHold'
  <2>1. ASSUME NEW p \in Requests, p # q
        PROVE  Addressed(p)' /\ (p \in outdated' \/ Fresh(p)')
    <3>1. Findings(p)' = Findings(p)
      BY <2>1, QuietFindings
    <3> QED BY <1>1, <2>1, <3>1, OthersHold DEF IInv
  <2> QED BY <1>1, <2>1 DEF IInv, ChecksHold
<1>3. HistoryTyped'
  BY <1>1 DEF IInv, HistoryTyped, IsSequence
<1>4. NoMergeCycle' /\ RefsFollowSurvivor'
  BY <1>1 DEF IInv, NoMergeCycle, RefsFollowSurvivor
<1> QED BY <1>2, <1>3, <1>4 DEF IInv

\* Any number of requests, in any interleaving.
LEMMA StepIInv ==
  ASSUME IInv, [Next]_vars
  PROVE  IInv'
<1> USE MergeAssumption
<1>t. DOMAIN req = Requests
  BY DEF IInv, HistoryTyped
<1>1. CASE UNCHANGED vars
  <2>1. UNCHANGED <<tables, history, overlap, staleMerged, req, outdated>>
    BY <1>1 DEF vars, tables
  <2>2. ChecksHold'
    <3>1. ASSUME NEW p \in Requests
          PROVE  Addressed(p)' /\ (p \in outdated' \/ Fresh(p)')
      BY <2>1, QuietFindings, OthersHold DEF IInv
    <3> QED BY <2>1, <3>1 DEF IInv, ChecksHold, tables
  <2> QED BY <2>1, <2>2 DEF IInv, HistoryTyped, IsSequence, NoMergeCycle, RefsFollowSurvivor, tables
<1>2. ASSUME NEW q \in Requests, NEW s \in Entities, NEW m \in Entities, CheckMerge(q, s, m)
      PROVE  IInv'
  <2>1. /\ req' = [req EXCEPT ![q] = [pc |-> "begin", survivor |-> s, merged |-> m]]
        /\ UNCHANGED <<tables, history, outdated, overlap, staleMerged>>
        /\ s # m /\ mergedInto[m] = None /\ mergedInto[s] = None
    BY <1>2 DEF CheckMerge, past
  <2>2. req'[q] = [pc |-> "begin", survivor |-> s, merged |-> m]
    BY <1>t, <2>1
  <2>3. Addressed(q)' /\ Fresh(q)'
    BY <2>1, <2>2 DEF Addressed, Fresh, tables
  <2> QED
    BY <1>t, <2>1, <2>3, QuietIInv
<1>3. ASSUME NEW q \in Requests, CollectRefs(q)
      PROVE  IInv'
  <2> DEFINE s == req[q].survivor
             m == req[q].merged
  <2>1. /\ req' = [req EXCEPT ![q] = [pc |-> "merge", survivor |-> s, merged |-> m,
                                      rows |-> RowsOf(s, m), refs |-> Owned(m)]]
        /\ UNCHANGED <<tables, history, outdated, overlap, staleMerged>>
        /\ req[q].pc = "begin"
    BY <1>3 DEF CollectRefs, past
  <2>2. req'[q] = [pc |-> "merge", survivor |-> s, merged |-> m,
                   rows |-> RowsOf(s, m), refs |-> Owned(m)]
    BY <1>t, <2>1
  <2>3. /\ s \in Entities /\ m \in Entities /\ s # m
        /\ q \in outdated \/ (mergedInto[s] = None /\ mergedInto[m] = None)
    BY <2>1 DEF IInv, ChecksHold, Addressed, Fresh
  <2>4. Addressed(q)' /\ (q \in outdated' \/ Fresh(q)')
    BY <2>1, <2>2, <2>3 DEF Addressed, Fresh, RowsOf, Touching, Present, Owned, tables
  <2> QED
    BY <1>t, <2>1, <2>4, QuietIInv
<1>4. ASSUME NEW q \in Requests, CollectionTruncated(q) \/ TxFails(q)
      PROVE  IInv'
  <2>1. /\ req' = [req EXCEPT ![q] = Idle] /\ outdated' = outdated \ {q}
        /\ UNCHANGED <<tables, history, overlap, staleMerged>>
    BY <1>4 DEF CollectionTruncated, TxFails, Refuse
  <2>2. Addressed(q)' /\ Fresh(q)'
    BY <1>t, <2>1 DEF Addressed, Fresh, Idle
  <2> QED
    BY <1>t, <2>1, <2>2, QuietIInv
<1>5. ASSUME NEW q \in Requests, ExecuteInTx(q)
      PROVE  IInv'
  <2> DEFINE s == req[q].survivor
             m == req[q].merged
  <2>1. PICK row : /\ history' = Append(history, row)
                   /\ row.merged = m
    BY <1>5 DEF ExecuteInTx
  <2>2. /\ mergedInto' = [mergedInto EXCEPT ![m] = s]
        /\ owner' = [r \in Refs |-> IF r \in req[q].refs THEN s ELSE owner[r]]
        /\ req' = [req EXCEPT ![q] = Idle]
        /\ req[q].pc = "merge"
        /\ staleMerged' = IF q \in outdated THEN staleMerged \cup {m} ELSE staleMerged \ {m}
        /\ overlap' = (overlap \/ q \in outdated)
        /\ outdated' = {p \in Requests \ {q} : p \in outdated \/ Findings(p)' # Findings(p)}
    BY <1>5 DEF ExecuteInTx, Outdates
  <2>3. /\ s \in Entities /\ m \in Entities /\ s # m
        /\ mergedInto \in [Entities -> Entities \cup {None}] /\ owner \in [Refs -> Entities]
    BY <2>2 DEF IInv, ChecksHold, Addressed
  <2>4. q \notin outdated =>
          mergedInto[s] = None /\ mergedInto[m] = None /\ req[q].refs = Owned(m)
    BY <2>2 DEF IInv, ChecksHold, Fresh
  <2>5. /\ IsSequence(history')
        /\ DOMAIN history' = DOMAIN history \cup {Len(history) + 1}
        /\ \A h \in DOMAIN history : history'[h] = history[h]
        /\ history'[Len(history) + 1] = row
    <3>1. IsSequence(history)
      BY DEF IInv, HistoryTyped
    <3> QED
      BY <2>1, <3>1, AppendKeepsRows
  <2>6. ChecksHold'
    <3>1. ASSUME NEW p \in Requests, p # q
          PROVE  Addressed(p)' /\ (p \in outdated' \/ Fresh(p)')
      <4>1. req'[p] = req[p]
        BY <1>t, <2>2, <3>1
      <4>2. p \notin outdated' => p \notin outdated /\ Findings(p)' = Findings(p)
        BY <2>2, <3>1
      <4> QED BY <2>5, <4>1, <4>2, OthersHold DEF IInv
    <3>2. Addressed(q)' /\ Fresh(q)'
      BY <1>t, <2>2 DEF Addressed, Fresh, Idle
    <3> QED BY <2>2, <2>3, <3>1, <3>2 DEF ChecksHold
  <2>7. HistoryTyped'
    BY <1>t, <2>1, <2>2, <2>3, <2>5 DEF IInv, HistoryTyped
  <2>8. NoMergeCycle'
    <3>1. CASE q \in outdated
      BY <2>2, <2>3, <3>1, StaleMergeIsNamed DEF IInv
    <3>2. CASE q \notin outdated
      BY <2>2, <2>3, <2>4, <3>2, MergingClosesNoCycle DEF IInv
    <3> QED BY <3>1, <3>2
  <2>9. RefsFollowSurvivor'
    <3>1. CASE overlap \/ q \in outdated
      BY <2>2, <3>1 DEF RefsFollowSurvivor
    <3>2. CASE ~overlap /\ q \notin outdated
      <4>1. \A r \in Refs : mergedInto[owner[r]] = None
        BY <3>2 DEF IInv, RefsFollowSurvivor
      <4>2. \A r \in Refs : mergedInto'[owner'[r]] = None
        BY <2>2, <2>3, <2>4, <3>2, <4>1 DEF Owned
      <4> QED BY <4>2 DEF RefsFollowSurvivor
    <3> QED BY <3>1, <3>2
  <2> QED
    BY <2>6, <2>7, <2>8, <2>9 DEF IInv
<1>6. ASSUME NEW q \in Requests, NEW h \in DOMAIN history, CheckUndo(q, h)
      PROVE  IInv'
  <2>1. /\ req' = [req EXCEPT ![q] = [pc |-> "undo", which |-> h]]
        /\ UNCHANGED <<tables, history, outdated, overlap, staleMerged>>
        /\ ~history[h].undone
    BY <1>6 DEF CheckUndo, past
  <2>2. req'[q] = [pc |-> "undo", which |-> h]
    BY <1>t, <2>1
  <2>3. Addressed(q)' /\ Fresh(q)'
    BY <2>1, <2>2 DEF Addressed, Fresh
  <2> QED
    BY <1>t, <2>1, <2>3, QuietIInv
<1>7. ASSUME NEW q \in Requests, UndoInTx(q)
      PROVE  IInv'
  <2> DEFINE w == req[q].which
             m == history[w].merged
  <2>1. /\ mergedInto' = [mergedInto EXCEPT ![m] = None]
        /\ owner' = [r \in Refs |-> IF r \in history[w].refs THEN m ELSE owner[r]]
        /\ history' = [history EXCEPT ![w].undone = TRUE]
        /\ req' = [req EXCEPT ![q] = Idle]
        /\ req[q].pc = "undo"
        /\ staleMerged' = staleMerged \ {m}
        /\ overlap' = (overlap \/ q \in outdated)
        /\ outdated' = {p \in Requests \ {q} : p \in outdated \/ Findings(p)' # Findings(p)}
    BY <1>7 DEF UndoInTx, Outdates
  <2>2. /\ w \in DOMAIN history /\ m \in Entities
        /\ mergedInto \in [Entities -> Entities \cup {None}] /\ owner \in [Refs -> Entities]
    BY <2>1 DEF IInv, HistoryTyped, ChecksHold, Addressed
  <2>3. /\ DOMAIN history' = DOMAIN history
        /\ \A h \in DOMAIN history : h # w => history'[h] = history[h]
        /\ history'[w] = [history[w] EXCEPT !.undone = TRUE]
    BY <2>1, <2>2
  <2>4. ChecksHold'
    <3>1. ASSUME NEW p \in Requests, p # q
          PROVE  Addressed(p)' /\ (p \in outdated' \/ Fresh(p)')
      <4>1. req'[p] = req[p]
        BY <1>t, <2>1, <3>1
      <4>2. p \notin outdated' => p \notin outdated /\ Findings(p)' = Findings(p)
        BY <2>1, <3>1
      <4> QED BY <2>3, <4>1, <4>2, OthersHold DEF IInv
    <3>2. Addressed(q)' /\ Fresh(q)'
      BY <1>t, <2>1 DEF Addressed, Fresh, Idle
    <3> QED BY <2>1, <2>2, <3>1, <3>2 DEF ChecksHold
  <2>5. HistoryTyped'
    <3>2. history'[w].merged = m
      BY <2>3
    <3>3. IsSequence(history')
      <4>1. IsSequence(history)
        BY DEF IInv, HistoryTyped
      <4>2. history' = [h \in DOMAIN history |-> history'[h]]
        BY <2>1, <4>1
      <4> QED
        BY <4>1, <4>2, SameDomainIsSequence
    <3> QED
      BY <1>t, <2>1, <2>2, <2>3, <3>2, <3>3 DEF IInv, HistoryTyped
  <2>6. NoMergeCycle'
    BY <2>1, <2>2, UndoingClosesNoCycle DEF IInv
  <2>7. RefsFollowSurvivor'
    <3>1. CASE overlap
      BY <2>1, <3>1 DEF RefsFollowSurvivor
    <3>2. CASE ~overlap
      <4>1. \A r \in Refs : mergedInto[owner[r]] = None
        BY <3>2 DEF IInv, RefsFollowSurvivor
      <4>2. \A r \in Refs : mergedInto'[owner'[r]] = None
        BY <2>1, <2>2, <4>1
      <4> QED BY <4>2 DEF RefsFollowSurvivor
    <3> QED BY <3>1, <3>2
  <2> QED
    BY <2>4, <2>5, <2>6, <2>7 DEF IInv
<1> QED
  BY <1>1, <1>2, <1>3, <1>4, <1>5, <1>6, <1>7 DEF Next

\* However merges and undos overlap, merged_into never leads back to where it
\* started except through an entity merged by a request whose findings another
\* commit had changed: looking up the survivor of any other entity ends.
THEOREM MergesDoNotCycle == Spec => []NoMergeCycle
<1>1. Init => IInv
  BY InitIInv
<1>2. IInv /\ [Next]_vars => IInv'
  BY StepIInv
<1>3. IInv => NoMergeCycle
  BY DEF IInv
<1> QED
  BY <1>1, <1>2, <1>3, PTL DEF Spec

\* Nor does a merge or an undo, in whichever order, leave an alias, identifier
\* or extraction on an entity that has been merged away, until a request commits on
\* what another has outdated.
THEOREM RefsAlwaysFollow == Spec => []RefsFollowSurvivor
<1>1. Init => IInv
  BY InitIInv
<1>2. IInv /\ [Next]_vars => IInv'
  BY StepIInv
<1>3. IInv => RefsFollowSurvivor
  BY DEF IInv
<1> QED
  BY <1>1, <1>2, <1>3, PTL DEF Spec

------------------------------------------------------------------------------
(* Undo puts back what the merge changed.  The merges in force form a      *)
(* stack: undoing the last one leads to the tables it was done on, and on  *)
(* those the one before it can be undone in the same way.  With that, what *)
(* was true of the tables before a merge (no relationship ends at a merged *)
(* entity) is true again after its undo.                                   *)

\* What a history row holds.
RowTyped(h) ==
  /\ h.survivor \in Entities /\ h.merged \in Entities
  /\ h.undone \in BOOLEAN
  /\ h.sources \subseteq Rels /\ h.targets \subseteq Rels
  /\ \A a \in h.absorbed :
       /\ a.id \in Rels /\ a.row \in Rows /\ a.into \in Rels \cup {None}
       /\ a.pre \in Nat /\ a.moved \subseteq Evidence

\* The rows a request has read, up to date or not, are relationships.
RowsTyped(rows) == DOMAIN rows \subseteq Rels /\ \A i \in DOMAIN rows : rows[i] \in Rows

ReadsTyped == \A q \in Requests : req[q].pc = "merge" => RowsTyped(req[q].rows)

TablesTyped ==
  /\ TypeOK
  /\ \A h \in DOMAIN history : RowTyped(history[h])
  /\ ReadsTyped

\* UndoneRel, for any state of the relationships.
RestoredRel(table, h) ==
  [i \in Rels |->
    IF \E a \in h.absorbed : a.id = i THEN (CHOOSE a \in h.absorbed : a.id = i).row
    ELSE IF i \in h.sources THEN [table[i] EXCEPT !.src = h.merged]
    ELSE IF i \in h.targets THEN [table[i] EXCEPT !.dst = h.merged]
    ELSE IF \E a \in h.absorbed : a.into = i
      THEN [table[i] EXCEPT !.count = (CHOOSE a \in h.absorbed : a.into = i).pre]
    ELSE table[i]]

\* Undoing merge h on these tables leads back to the ones it was done on.
Restores(h, rels, owners, into) ==
  /\ RestoredRel(rels, h) = h.before.rel
  /\ [r \in Refs |-> IF r \in h.refs THEN h.merged ELSE owners[r]] = h.before.owner
  /\ [into EXCEPT ![h.merged] = None] = h.before.mergedInto

InForce(h) == h \in DOMAIN history /\ ~history[h].undone

\* No relationship ends at an entity that was merged away.
Follows(table, into) ==
  \A i \in Present(table) : into[table[i].src] = None /\ into[table[i].dst] = None

\* The last merge in force can be undone on the tables as they are.
TopRestores ==
  \A h \in DOMAIN history :
    InForce(h) /\ (\A k \in DOMAIN history : k > h => ~InForce(k)) =>
      Restores(history[h], rel, owner, mergedInto)

\* The one before on the tables the next was done on.
BelowRestores ==
  \A g, h \in DOMAIN history :
    /\ InForce(g) /\ InForce(h) /\ g < h
    /\ \A k \in DOMAIN history : g < k /\ k < h => ~InForce(k)
    => Restores(history[g], history[h].before.rel, history[h].before.owner,
                history[h].before.mergedInto)

AllFollow ==
  /\ Follows(rel, mergedInto)
  /\ \A h \in DOMAIN history : InForce(h) =>
       Follows(history[h].before.rel, history[h].before.mergedInto)

Stack == disorder \/ overlap \/ (TopRestores /\ BelowRestores /\ AllFollow)

\* The rows a merge of m into s has read are up to date.
UpToDate(rows, s, m) == rows = RowsOf(s, m)

\* What classify_relationships makes of them: three disjoint sets of the merged
\* entity's relationships.  A relationship that is repointed has the merged entity
\* at one end, and every collision has its own absorber, one that does not touch
\* the merged entity.
Classification(rows, s, m) ==
  /\ SelfLoops(rows, s, m) \cup Collisions(rows, s, m) \cup SafeRepoints(rows, s, m)
       = Touching(m)
  /\ SelfLoops(rows, s, m) \cap Collisions(rows, s, m) = {}
  /\ SafeRepoints(rows, s, m) \cap (SelfLoops(rows, s, m) \cup Collisions(rows, s, m)) = {}
  /\ \A i \in Touching(s) \cup Touching(m) : i \in Rels /\ rows[i] = rel[i] /\ rel[i] \in Rows
  /\ \A i \in SafeRepoints(rows, s, m) : (rel[i].src = m) # (rel[i].dst = m)
  /\ \A i \in Collisions(rows, s, m) :
       AbsorberOf(rows, s, m, i) \in Touching(s) \ Touching(m)
  /\ \A i, k \in Collisions(rows, s, m) :
       AbsorberOf(rows, s, m, i) = AbsorberOf(rows, s, m, k) => i = k

\* Up-to-date rows are classified that way.
LEMMA Classified ==
  ASSUME rel \in [Rels -> Rows \cup {None}], NaturalKeyUnique(rel),
         NEW s \in Entities, NEW m \in Entities, s # m,
         NEW rows, UpToDate(rows, s, m)
  PROVE  Classification(rows, s, m)
<1> USE MergeAssumption
<1>1. /\ \A i \in Touching(s) \cup Touching(m) :
              i \in Rels /\ rows[i] = rel[i] /\ rel[i] \in Rows
      /\ DOMAIN rows = Touching(s) \cup Touching(m)
  BY DEF Touching, Present, UpToDate, RowsOf
<1>2. OfMerged(rows, m) = Touching(m) /\ OfSurvivor(rows, s) = Touching(s)
  BY <1>1 DEF OfMerged, OfSurvivor, Touching, Present
<1>3. \A row \in Rows : /\ Repointed(row, m, s) \in Rows
                        /\ Repointed(row, m, s).src = (IF row.src = m THEN s ELSE row.src)
                        /\ Repointed(row, m, s).dst = (IF row.dst = m THEN s ELSE row.dst)
  BY DEF Repointed, Rows
<1>4. \A i \in SelfLoops(rows, s, m) : i \in Touching(m)
  BY <1>2 DEF SelfLoops
<1>5. \A i \in Touching(m) :
        i \in SelfLoops(rows, s, m) <=> (IF rel[i].src = m THEN s ELSE rel[i].src)
                                      = (IF rel[i].dst = m THEN s ELSE rel[i].dst)
  BY <1>1, <1>2, <1>3 DEF SelfLoops
<1>6. \A i \in SafeRepoints(rows, s, m) : (rel[i].src = m) # (rel[i].dst = m)
  BY <1>2, <1>5 DEF SafeRepoints, Touching
<1>7. ASSUME NEW i \in Collisions(rows, s, m)
      PROVE  /\ AbsorberOf(rows, s, m, i) \in Touching(s) \ Touching(m)
             /\ rel[AbsorberOf(rows, s, m, i)].src = (IF rel[i].src = m THEN s ELSE rel[i].src)
             /\ rel[AbsorberOf(rows, s, m, i)].dst = (IF rel[i].dst = m THEN s ELSE rel[i].dst)
             /\ i \in Touching(m) /\ i \notin SelfLoops(rows, s, m)
  <2>1. i \in Touching(m) /\ i \notin SelfLoops(rows, s, m) /\ Absorbers(rows, s, m, i) # {}
    BY <1>2 DEF Collisions
  <2>2. AbsorberOf(rows, s, m, i) \in Absorbers(rows, s, m, i)
    BY <2>1 DEF AbsorberOf
  <2> DEFINE j == AbsorberOf(rows, s, m, i)
  <2>3. /\ j \in Touching(s)
        /\ rel[j].src = Repointed(rel[i], m, s).src /\ rel[j].dst = Repointed(rel[i], m, s).dst
    BY <2>1, <2>2, <1>1, <1>2 DEF Absorbers, SameEnds
  <2>4. j \notin Touching(m)
    BY <2>1, <2>3, <1>1, <1>3 DEF Touching
  <2> QED BY <2>1, <2>3, <2>4, <1>1, <1>3
<1>8. ASSUME NEW i \in Collisions(rows, s, m), NEW k \in Collisions(rows, s, m),
             AbsorberOf(rows, s, m, i) = AbsorberOf(rows, s, m, k)
      PROVE  i = k
  <2>1. i \in Touching(m) /\ k \in Touching(m)
    BY <1>7
  <2>2. ~(rel[i].src = m /\ rel[i].dst = m) /\ ~(rel[k].src = m /\ rel[k].dst = m)
    BY <2>1, <1>5, <1>7
  <2>3. /\ (IF rel[i].src = m THEN s ELSE rel[i].src) = (IF rel[k].src = m THEN s ELSE rel[k].src)
        /\ (IF rel[i].dst = m THEN s ELSE rel[i].dst) = (IF rel[k].dst = m THEN s ELSE rel[k].dst)
    BY <1>7, <1>8
  <2>4. (IF rel[i].src = m THEN s ELSE rel[i].src) # (IF rel[i].dst = m THEN s ELSE rel[i].dst)
    BY <1>5, <1>7, <2>1
  <2>5. rel[i].src = rel[k].src /\ rel[i].dst = rel[k].dst
    BY <2>1, <2>2, <2>3, <2>4 DEF Touching
  <2> QED BY <2>1, <2>5 DEF NaturalKeyUnique, Touching
<1>9. SelfLoops(rows, s, m) \cup Collisions(rows, s, m) \cup SafeRepoints(rows, s, m)
        = Touching(m)
  BY <1>2, <1>4, <1>7 DEF SafeRepoints
<1>10. SelfLoops(rows, s, m) \cap Collisions(rows, s, m) = {}
  BY <1>7
<1>11. SafeRepoints(rows, s, m) \cap (SelfLoops(rows, s, m) \cup Collisions(rows, s, m)) = {}
  BY DEF SafeRepoints
<1> QED BY <1>1, <1>6, <1>7, <1>8, <1>9, <1>10, <1>11 DEF Classification

\* Of rows that may be out of date as much is true: the three sets are apart, and an
\* absorber is in none of them.
Apart(rows, s, m) ==
  /\ SelfLoops(rows, s, m) \cup Collisions(rows, s, m) \cup SafeRepoints(rows, s, m)
       \subseteq DOMAIN rows
  /\ SelfLoops(rows, s, m) \cap Collisions(rows, s, m) = {}
  /\ SafeRepoints(rows, s, m) \cap (SelfLoops(rows, s, m) \cup Collisions(rows, s, m)) = {}
  /\ \A i \in Collisions(rows, s, m) :
       /\ AbsorberOf(rows, s, m, i) \in DOMAIN rows
       /\ AbsorberOf(rows, s, m, i) \notin SelfLoops(rows, s, m) \cup Collisions(rows, s, m)
                                             \cup SafeRepoints(rows, s, m)

\* Whatever was read is classified that way.
LEMMA RowsApart ==
  ASSUME NEW s \in Entities, NEW m \in Entities, s # m, NEW rows, RowsTyped(rows)
  PROVE  Apart(rows, s, m)
<1>1. \A i \in DOMAIN rows : rows[i] \in Rows
  BY DEF RowsTyped
<1>2. \A row \in Rows : /\ Repointed(row, m, s).src = (IF row.src = m THEN s ELSE row.src)
                        /\ Repointed(row, m, s).dst = (IF row.dst = m THEN s ELSE row.dst)
  BY DEF Repointed, Rows
<1>3. \A i \in SelfLoops(rows, s, m) \cup Collisions(rows, s, m) \cup SafeRepoints(rows, s, m) :
        i \in DOMAIN rows /\ i \in OfMerged(rows, m)
  BY DEF SelfLoops, Collisions, SafeRepoints, OfMerged
<1>4. ASSUME NEW i \in Collisions(rows, s, m)
      PROVE  AbsorberOf(rows, s, m, i) \in DOMAIN rows /\ AbsorberOf(rows, s, m, i) \notin OfMerged(rows, m)
  <2>1. Absorbers(rows, s, m, i) # {} /\ i \in DOMAIN rows
    BY <1>3 DEF Collisions
  <2>2. PICK j : j = AbsorberOf(rows, s, m, i)
    OBVIOUS
  <2>3. j \in Absorbers(rows, s, m, i)
    BY <2>1, <2>2 DEF AbsorberOf
  <2>4. j \in DOMAIN rows /\ rows[j].src = Repointed(rows[i], m, s).src
        /\ rows[j].dst = Repointed(rows[i], m, s).dst
    BY <2>3 DEF Absorbers, OfSurvivor, SameEnds
  <2>5. rows[j].src # m /\ rows[j].dst # m
    BY <1>1, <1>2, <2>1, <2>4
  <2> QED BY <2>2, <2>4, <2>5 DEF OfMerged
<1>5. SelfLoops(rows, s, m) \cap Collisions(rows, s, m) = {}
  BY DEF Collisions
<1>6. SafeRepoints(rows, s, m) \cap (SelfLoops(rows, s, m) \cup Collisions(rows, s, m)) = {}
  BY DEF SafeRepoints
<1> QED BY <1>3, <1>4, <1>5, <1>6 DEF Apart

\* merged_relationships has one entry for every self loop and every collision.
AbsorbedWell(absorbed, rows, s, m) ==
  /\ \A a \in absorbed :
       /\ a.id \in SelfLoops(rows, s, m) \cup Collisions(rows, s, m)
       /\ a.row = rel[a.id]
       /\ a.id \in SelfLoops(rows, s, m) => a.into = None /\ a.pre = 0 /\ a.moved = {}
       /\ a.id \in Collisions(rows, s, m) =>
            /\ a.into = AbsorberOf(rows, s, m, a.id)
            /\ a.pre = rel[a.into].count
            /\ a.moved = {e \in Evidence : evidence[e] = a.id}
  /\ \A i \in SelfLoops(rows, s, m) \cup Collisions(rows, s, m) : \E a \in absorbed : a.id = i

\* What execute_in_tx writes there.
LEMMA AbsorbedRows ==
  ASSUME NEW s, NEW m, NEW rows, Classification(rows, s, m)
  PROVE  AbsorbedWell(Absorbed(rows, s, m), rows, s, m)
<1> DEFINE L == SelfLoops(rows, s, m)
           C == Collisions(rows, s, m)
           LoopRow(i) == [id |-> i, row |-> rows[i], into |-> None, pre |-> 0, moved |-> {}]
           CollisionRow(i) ==
             [id |-> i, row |-> rows[i], into |-> AbsorberOf(rows, s, m, i),
              pre |-> rows[AbsorberOf(rows, s, m, i)].count,
              moved |-> {e \in Evidence : evidence[e] = i}]
           A == Absorbed(rows, s, m)
<1>1. /\ L \cap C = {}
      /\ \A i \in L \cup C : rows[i] = rel[i]
      /\ \A i \in C : rows[AbsorberOf(rows, s, m, i)] = rel[AbsorberOf(rows, s, m, i)]
  BY DEF Classification
<1>2. A = {LoopRow(i) : i \in L} \cup {CollisionRow(i) : i \in C}
  BY DEF Absorbed
<1>3. ASSUME NEW i \in L
      PROVE  LoopRow(i).id = i /\ LoopRow(i).row = rel[i] /\ LoopRow(i).into = None
             /\ LoopRow(i).pre = 0 /\ LoopRow(i).moved = {}
  BY <1>1
<1>4. ASSUME NEW i \in C
      PROVE  /\ CollisionRow(i).id = i /\ CollisionRow(i).row = rel[i]
             /\ CollisionRow(i).into = AbsorberOf(rows, s, m, i)
             /\ CollisionRow(i).pre = rel[AbsorberOf(rows, s, m, i)].count
             /\ CollisionRow(i).moved = {e \in Evidence : evidence[e] = i}
  BY <1>1
<1> HIDE DEF L, C, A, LoopRow, CollisionRow
<1>5. ASSUME NEW a \in A
      PROVE  /\ a.id \in L \cup C
             /\ a.row = rel[a.id]
             /\ a.id \in L => a.into = None /\ a.pre = 0 /\ a.moved = {}
             /\ a.id \in C => /\ a.into = AbsorberOf(rows, s, m, a.id)
                              /\ a.pre = rel[a.into].count
                              /\ a.moved = {e \in Evidence : evidence[e] = a.id}
  <2>1. CASE \E i \in L : a = LoopRow(i)
    BY <2>1, <1>1, <1>3
  <2>2. CASE \E i \in C : a = CollisionRow(i)
    BY <2>2, <1>1, <1>4
  <2> QED BY <1>2, <2>1, <2>2
<1>6. ASSUME NEW i \in L \cup C PROVE \E a \in A : a.id = i
  <2>1. CASE i \in L
    <3>1. LoopRow(i) \in A
      BY <1>2, <2>1
    <3> QED BY <3>1, <1>3, <2>1
  <2>2. CASE i \in C
    <3>1. CollisionRow(i) \in A
      BY <1>2, <2>2
    <3> QED BY <3>1, <1>4, <2>2
  <2> QED BY <2>1, <2>2
<1> QED BY <1>5, <1>6 DEF L, C, A, AbsorbedWell

\* The history row of a merge.
HistoryOf(h, rows, s, m) ==
  /\ h.survivor = s /\ h.merged = m /\ h.undone = FALSE
  /\ h.sources = {i \in SafeRepoints(rows, s, m) : rows[i].src = m}
  /\ h.targets = {i \in SafeRepoints(rows, s, m) : rows[i].dst = m}
  /\ h.absorbed = Absorbed(rows, s, m)

\* Undoing a merge on the relationships it left gives the ones it found.
LEMMA MergeThenUndo ==
  ASSUME rel \in [Rels -> Rows \cup {None}],
         NEW s \in Entities, NEW m \in Entities, s # m,
         NEW rows, Classification(rows, s, m),
         NEW h, HistoryOf(h, rows, s, m)
  PROVE  RestoredRel(MergedRel(rows, s, m), h) = rel
<1> DEFINE L == SelfLoops(rows, s, m)
           C == Collisions(rows, s, m)
           R == SafeRepoints(rows, s, m)
           Abs(i) == AbsorberOf(rows, s, m, i)
           T == MergedRel(rows, s, m)
           A == h.absorbed
<1>n. None \notin Rels
  BY MergeAssumption
<1>1. /\ L \cup C \cup R = Touching(m) /\ L \cap C = {} /\ R \cap (L \cup C) = {}
      /\ \A i \in Touching(s) \cup Touching(m) : i \in Rels /\ rows[i] = rel[i] /\ rel[i] \in Rows
      /\ \A i \in R : (rel[i].src = m) # (rel[i].dst = m)
      /\ \A i \in C : Abs(i) \in Touching(s) \ Touching(m)
      /\ \A i, k \in C : Abs(i) = Abs(k) => i = k
  BY DEF Classification
<1>2. AbsorbedWell(A, rows, s, m)
  BY AbsorbedRows DEF HistoryOf
<1>3. /\ \A a \in A : a.id \in L \cup C /\ a.row = rel[a.id]
      /\ \A a \in A : a.id \in L => a.into = None
      /\ \A a \in A : a.id \in C => a.into = Abs(a.id) /\ a.pre = rel[a.into].count
      /\ \A i \in L \cup C : \E a \in A : a.id = i
  BY <1>2 DEF AbsorbedWell
<1>4. \A i \in Rels :
        T[i] = IF i \in L \cup C THEN None
               ELSE IF i \in R THEN Repointed(rows[i], m, s)
               ELSE IF \E k \in C : i = Abs(k)
                 THEN [rows[i] EXCEPT !.count = @ + rows[CHOOSE k \in C : i = Abs(k)].count]
               ELSE rel[i]
  BY DEF MergedRel
<1>5. /\ h.merged = m
      /\ \A i \in Rels : i \in h.sources <=> i \in R /\ rel[i].src = m
      /\ \A i \in Rels : i \in h.targets <=> i \in R /\ rel[i].dst = m
  BY <1>1 DEF HistoryOf
<1>6. RestoredRel(T, h) =
        [i \in Rels |->
          IF \E a \in A : a.id = i THEN (CHOOSE a \in A : a.id = i).row
          ELSE IF i \in h.sources THEN [T[i] EXCEPT !.src = h.merged]
          ELSE IF i \in h.targets THEN [T[i] EXCEPT !.dst = h.merged]
          ELSE IF \E a \in A : a.into = i
            THEN [T[i] EXCEPT !.count = (CHOOSE a \in A : a.into = i).pre]
          ELSE T[i]]
  BY DEF RestoredRel
<1> HIDE DEF L, C, R, Abs, T, A
<1>7. ASSUME NEW i \in Rels, i \in L \cup C
      PROVE  RestoredRel(T, h)[i] = rel[i]
  <2>1. PICK b \in A : b.id = i
    BY <1>3, <1>7
  <2>2. (CHOOSE a \in A : a.id = i) \in A /\ (CHOOSE a \in A : a.id = i).id = i
    BY <2>1
  <2>3. (CHOOSE a \in A : a.id = i).row = rel[i]
    BY <1>3, <2>2
  <2> QED BY <1>6, <2>1, <2>3
<1>8. ASSUME NEW i \in Rels, i \in R
      PROVE  RestoredRel(T, h)[i] = rel[i]
  <2>1. ~\E a \in A : a.id = i
    BY <1>1, <1>3, <1>8
  <2>2. T[i] = Repointed(rel[i], m, s) /\ rel[i] \in Rows
    BY <1>1, <1>4, <1>8
  <2>3. CASE rel[i].src = m
    <3>1. i \in h.sources /\ rel[i].dst # m
      BY <1>1, <1>5, <1>8, <2>3
    <3>2. [T[i] EXCEPT !.src = m] = rel[i]
      BY <2>2, <2>3, <3>1 DEF Repointed, Rows
    <3> QED BY <1>5, <1>6, <2>1, <3>1, <3>2
  <2>4. CASE rel[i].src # m
    <3>1. i \notin h.sources /\ i \in h.targets /\ rel[i].dst = m
      BY <1>1, <1>5, <1>8, <2>4
    <3>2. [T[i] EXCEPT !.dst = m] = rel[i]
      BY <2>2, <2>4, <3>1 DEF Repointed, Rows
    <3> QED BY <1>5, <1>6, <2>1, <3>1, <3>2
  <2> QED BY <2>3, <2>4
<1>9. ASSUME NEW i \in Rels, i \notin L \cup C \cup R
      PROVE  RestoredRel(T, h)[i] = rel[i]
  <2>1. (~\E a \in A : a.id = i) /\ i \notin h.sources /\ i \notin h.targets
    BY <1>3, <1>5, <1>9
  <2>2. CASE \E k \in C : i = Abs(k)
    <3>1. rel[i] \in Rows /\ rows[i] = rel[i]
      BY <1>1, <2>2
    <3>2. PICK n : T[i] = [rel[i] EXCEPT !.count = n]
      BY <1>4, <1>9, <2>2, <3>1
    <3>3. PICK b \in A : b.into = i
      BY <1>3, <2>2
    <3>4. (CHOOSE a \in A : a.into = i) \in A /\ (CHOOSE a \in A : a.into = i).into = i
      BY <3>3
    <3>5. (CHOOSE a \in A : a.into = i).pre = rel[i].count
      BY <1>n, <1>3, <3>4
    <3>6. [T[i] EXCEPT !.count = rel[i].count] = rel[i]
      BY <3>1, <3>2 DEF Rows
    <3> QED BY <1>6, <2>1, <3>3, <3>5, <3>6
  <2>3. CASE ~\E k \in C : i = Abs(k)
    <3>1. T[i] = rel[i]
      BY <1>4, <1>9, <2>3
    <3>2. ~\E a \in A : a.into = i
      BY <1>n, <1>3, <2>3
    <3> QED BY <1>6, <2>1, <3>1, <3>2
  <2> QED BY <2>2, <2>3
<1>10. \A i \in Rels : RestoredRel(T, h)[i] = rel[i]
  BY <1>7, <1>8, <1>9
<1>11. RestoredRel(T, h) = [i \in Rels |-> RestoredRel(T, h)[i]]
  BY DEF RestoredRel
<1>12. rel = [i \in Rels |-> rel[i]]
  OBVIOUS
<1>13. RestoredRel(T, h) = rel
  BY <1>10, <1>11, <1>12
<1> QED BY <1>13 DEF T

\* The relationships and the evidence a merge leaves have their types and the evidence
\* hangs on relationships that exist, even if the rows it rests on are out of date.
LEMMA MergedTables ==
  ASSUME rel \in [Rels -> Rows \cup {None}],
         evidence \in [Evidence -> Rels \cup {None}],
         \A e \in Evidence : evidence[e] # None => rel[evidence[e]] # None,
         NEW s \in Entities, NEW m \in Entities,
         NEW rows, RowsTyped(rows), Apart(rows, s, m)
  PROVE  /\ MergedRel(rows, s, m) \in [Rels -> Rows \cup {None}]
         /\ MergedEvidence(rows, s, m) \in [Evidence -> Rels \cup {None}]
         /\ \A e \in Evidence : MergedEvidence(rows, s, m)[e] # None =>
              MergedRel(rows, s, m)[MergedEvidence(rows, s, m)[e]] # None
<1> DEFINE L == SelfLoops(rows, s, m)
           C == Collisions(rows, s, m)
           R == SafeRepoints(rows, s, m)
           Abs(i) == AbsorberOf(rows, s, m, i)
           T == MergedRel(rows, s, m)
           E == MergedEvidence(rows, s, m)
<1>n. None \notin Rels /\ None \notin Rows
  BY MergeAssumption
<1>1. /\ L \cup C \cup R \subseteq DOMAIN rows
      /\ \A i \in C : Abs(i) \in DOMAIN rows /\ Abs(i) \notin L \cup C \cup R
      /\ \A i \in DOMAIN rows : i \in Rels /\ rows[i] \in Rows
  BY DEF Apart, RowsTyped
<1>2. \A i \in Rels :
        T[i] = IF i \in L \cup C THEN None
               ELSE IF i \in R THEN Repointed(rows[i], m, s)
               ELSE IF \E k \in C : i = Abs(k)
                 THEN [rows[i] EXCEPT !.count = @ + rows[CHOOSE k \in C : i = Abs(k)].count]
               ELSE rel[i]
  BY DEF MergedRel
<1>3. \A e \in Evidence : E[e] = IF evidence[e] \in L THEN None
                                 ELSE IF evidence[e] \in C THEN Abs(evidence[e]) ELSE evidence[e]
  BY DEF MergedEvidence
<1>4. T = [i \in Rels |-> T[i]] /\ E = [e \in Evidence |-> E[e]]
  BY DEF MergedRel, MergedEvidence
<1> HIDE DEF L, C, R, Abs, T, E
<1>5. ASSUME NEW i \in Rels, i \notin L \cup C, i \in R
      PROVE  T[i] \in Rows
  <2>1. T[i] = Repointed(rows[i], m, s) /\ rows[i] \in Rows
    BY <1>1, <1>2, <1>5
  <2> QED BY <2>1 DEF Repointed, Rows
<1>6. ASSUME NEW i \in Rels, i \notin L \cup C, i \notin R, \E k \in C : i = Abs(k)
      PROVE  T[i] \in Rows
  <2>1. rows[i] \in Rows
    BY <1>1, <1>6
  <2> DEFINE c == CHOOSE k \in C : i = Abs(k)
             n == rows[i].count + rows[c].count
  <2>2. c \in C
    BY <1>6
  <2>3. rows[c] \in Rows
    BY <2>2, <1>1
  <2>4. n \in Nat
    BY <2>1, <2>3 DEF Rows
  <2>5. T[i] = [rows[i] EXCEPT !.count = n]
    BY <1>2, <1>6
  <2> HIDE DEF n
  <2> QED BY <2>1, <2>4, <2>5 DEF Rows
<1>7. \A i \in Rels : i \in L \cup C => T[i] = None
  BY <1>2
<1>8. \A i \in Rels : i \notin L \cup C /\ i \notin R /\ ~(\E k \in C : i = Abs(k)) => T[i] = rel[i]
  BY <1>2
<1>9. T \in [Rels -> Rows \cup {None}]
  BY <1>4, <1>5, <1>6, <1>7, <1>8
<1>10. ASSUME NEW i \in Rels, rel[i] # None, i \notin L \cup C
       PROVE  T[i] # None
  BY <1>n, <1>5, <1>6, <1>8, <1>10
<1>11. ASSUME NEW e \in Evidence
       PROVE  E[e] \in Rels \cup {None} /\ (E[e] # None => T[E[e]] # None)
  <2>1. CASE evidence[e] \in L
    BY <1>3, <2>1
  <2>2. CASE evidence[e] \notin L /\ evidence[e] \in C
    <3>1. E[e] = Abs(evidence[e]) /\ E[e] \in Rels /\ E[e] \notin L \cup C /\ E[e] \notin R
      BY <1>1, <1>3, <2>2
    <3>2. T[E[e]] \in Rows
      BY <1>6, <2>2, <3>1
    <3> QED BY <1>n, <3>1, <3>2
  <2>3. CASE evidence[e] \notin L \cup C
    <3>1. E[e] = evidence[e]
      BY <1>3, <2>3
    <3> QED BY <1>10, <2>3, <3>1
  <2> QED BY <2>1, <2>2, <2>3
<1>12. E \in [Evidence -> Rels \cup {None}]
  BY <1>4, <1>11
<1> QED BY <1>9, <1>11, <1>12 DEF T, E

\* If they are up to date, no relationship ends at a merged entity afterwards.
LEMMA MergedFollows ==
  ASSUME rel \in [Rels -> Rows \cup {None}],
         mergedInto \in [Entities -> Entities \cup {None}],
         NEW s \in Entities, NEW m \in Entities, s # m, mergedInto[s] = None,
         NEW rows, Classification(rows, s, m)
  PROVE  Follows(rel, mergedInto) =>
           Follows(MergedRel(rows, s, m), [mergedInto EXCEPT ![m] = s])
<1> DEFINE L == SelfLoops(rows, s, m)
           C == Collisions(rows, s, m)
           R == SafeRepoints(rows, s, m)
           Abs(i) == AbsorberOf(rows, s, m, i)
           T == MergedRel(rows, s, m)
           I == [mergedInto EXCEPT ![m] = s]
<1>n. None \notin Rels /\ None \notin Rows /\ None \notin Entities
  BY MergeAssumption
<1>1. /\ L \cup C \cup R = Touching(m) /\ L \cap C = {} /\ R \cap (L \cup C) = {}
      /\ \A i \in Touching(s) \cup Touching(m) : i \in Rels /\ rows[i] = rel[i] /\ rel[i] \in Rows
      /\ \A i \in C : Abs(i) \in Touching(s) \ Touching(m)
  BY DEF Classification
<1>2. \A i \in Rels :
        T[i] = IF i \in L \cup C THEN None
               ELSE IF i \in R THEN Repointed(rows[i], m, s)
               ELSE IF \E k \in C : i = Abs(k)
                 THEN [rows[i] EXCEPT !.count = @ + rows[CHOOSE k \in C : i = Abs(k)].count]
               ELSE rel[i]
  BY DEF MergedRel
<1>5. \A i \in Rels : (i \in Touching(m) <=> rel[i] # None /\ (rel[i].src = m \/ rel[i].dst = m))
                      /\ (rel[i] # None => rel[i] \in Rows)
  BY DEF Touching, Present
<1> HIDE DEF L, C, R, Abs, T
\* An absorber keeps its ends.
<1>a. ASSUME NEW i \in Rels, \E k \in C : i = Abs(k)
      PROVE  /\ rel[i] \in Rows /\ T[i] \in Rows /\ i \notin Touching(m)
             /\ T[i].src = rel[i].src /\ T[i].dst = rel[i].dst
  <2>1. i \in Touching(s) /\ i \notin Touching(m) /\ rel[i] \in Rows /\ rows[i] = rel[i]
    BY <1>1, <1>a
  <2> DEFINE c == CHOOSE k \in C : i = Abs(k)
             n == rel[i].count + rows[c].count
  <2>2. c \in C
    BY <1>a
  <2>3. rows[c] \in Rows
    BY <2>2, <1>1
  <2>4. n \in Nat
    BY <2>1, <2>3 DEF Rows
  <2>5. T[i] = [rows[i] EXCEPT !.count = @ + rows[c].count]
    BY <1>1, <1>2, <1>a, <2>1
  <2>6. T[i] = [rel[i] EXCEPT !.count = n]
    BY <2>1, <2>5
  <2> HIDE DEF n
  <2> QED BY <2>1, <2>4, <2>6 DEF Rows
\* A relationship that is still there keeps its ends, except for the merged entity.
<1>6. ASSUME NEW i \in Rels, T[i] # None
      PROVE  /\ T[i] \in Rows /\ rel[i] \in Rows
             /\ T[i].src = (IF rel[i].src = m THEN s ELSE rel[i].src)
             /\ T[i].dst = (IF rel[i].dst = m THEN s ELSE rel[i].dst)
  <2>1. i \notin L \cup C
    BY <1>2, <1>6
  <2>2. CASE i \in R
    <3>1. T[i] = Repointed(rel[i], m, s) /\ rel[i] \in Rows
      BY <1>1, <1>2, <2>1, <2>2
    <3> QED BY <3>1 DEF Repointed, Rows
  <2>3. CASE i \notin R /\ \E k \in C : i = Abs(k)
    <3>1. rel[i].src # m /\ rel[i].dst # m
      BY <1>a, <1>5, <1>n, <2>3
    <3> QED BY <1>a, <2>3, <3>1
  <2>4. CASE i \notin R /\ ~\E k \in C : i = Abs(k)
    <3>1. T[i] = rel[i] /\ i \notin Touching(m)
      BY <1>1, <1>2, <2>1, <2>4
    <3> QED BY <3>1, <1>5, <1>6
  <2> QED BY <2>2, <2>3, <2>4
<1>11. ASSUME Follows(rel, mergedInto) PROVE Follows(T, I)
  <2> SUFFICES ASSUME NEW i \in Rels, T[i] # None
               PROVE  I[T[i].src] = None /\ I[T[i].dst] = None
    BY DEF Follows, Present
  <2>1. /\ rel[i] \in Rows
        /\ T[i].src = (IF rel[i].src = m THEN s ELSE rel[i].src)
        /\ T[i].dst = (IF rel[i].dst = m THEN s ELSE rel[i].dst)
    BY <1>6
  <2>2. mergedInto[rel[i].src] = None /\ mergedInto[rel[i].dst] = None
    BY <1>11, <1>n, <2>1 DEF Follows, Present
  <2>3. rel[i].src \in Entities /\ rel[i].dst \in Entities
    BY <2>1 DEF Rows
  <2> QED BY <2>1, <2>2, <2>3
<1> QED BY <1>11 DEF T

\* The history row of a merge has its type.
LEMMA MergedRow ==
  ASSUME NEW s \in Entities, NEW m \in Entities,
         NEW rows, RowsTyped(rows), Apart(rows, s, m),
         NEW h, HistoryOf(h, rows, s, m)
  PROVE  RowTyped(h)
<1> DEFINE L == SelfLoops(rows, s, m)
           C == Collisions(rows, s, m)
           R == SafeRepoints(rows, s, m)
           Abs(i) == AbsorberOf(rows, s, m, i)
           LoopRow(i) == [id |-> i, row |-> rows[i], into |-> None, pre |-> 0, moved |-> {}]
           CollisionRow(i) ==
             [id |-> i, row |-> rows[i], into |-> Abs(i), pre |-> rows[Abs(i)].count,
              moved |-> {e \in Evidence : evidence[e] = i}]
<1>1. /\ L \cup C \cup R \subseteq DOMAIN rows
      /\ \A i \in C : Abs(i) \in DOMAIN rows
      /\ \A i \in DOMAIN rows : i \in Rels /\ rows[i] \in Rows /\ rows[i].count \in Nat
  BY DEF Apart, RowsTyped, Rows
<1>2. h.absorbed = {LoopRow(i) : i \in L} \cup {CollisionRow(i) : i \in C}
  BY DEF HistoryOf, Absorbed
<1>3. /\ h.survivor \in Entities /\ h.merged \in Entities /\ h.undone \in BOOLEAN
      /\ h.sources \subseteq R /\ h.targets \subseteq R
  BY DEF HistoryOf
<1>4. \A i \in L : LoopRow(i).id = i /\ LoopRow(i).row = rows[i] /\ LoopRow(i).into = None
                   /\ LoopRow(i).pre = 0 /\ LoopRow(i).moved = {}
  OBVIOUS
<1>5. \A i \in C : /\ CollisionRow(i).id = i /\ CollisionRow(i).row = rows[i]
                   /\ CollisionRow(i).into = Abs(i) /\ CollisionRow(i).pre = rows[Abs(i)].count
                   /\ CollisionRow(i).moved \subseteq Evidence
  OBVIOUS
<1> HIDE DEF L, C, R, Abs, LoopRow, CollisionRow
<1>6. ASSUME NEW a \in h.absorbed
      PROVE  /\ a.id \in Rels /\ a.row \in Rows /\ a.into \in Rels \cup {None}
             /\ a.pre \in Nat /\ a.moved \subseteq Evidence
  <2>1. CASE \E i \in L : a = LoopRow(i)
    BY <1>1, <1>4, <2>1
  <2>2. CASE \E i \in C : a = CollisionRow(i)
    BY <1>1, <1>5, <2>2
  <2> QED BY <1>2, <2>1, <2>2
<1> QED BY <1>1, <1>3, <1>6 DEF RowTyped

\* What an undo that goes through leaves has its type, in whichever order merges are
\* undone, and no evidence hangs on a relationship that is gone.
LEMMA UndoneTables ==
  ASSUME rel \in [Rels -> Rows \cup {None}],
         evidence \in [Evidence -> Rels \cup {None}],
         \A e \in Evidence : evidence[e] # None => rel[evidence[e]] # None,
         NEW h, RowTyped(h), UndoFits(h),
         rel' = UndoneRel(h),
         evidence' = [e \in Evidence |->
             IF \E a \in h.absorbed : e \in a.moved
               THEN (CHOOSE a \in h.absorbed : e \in a.moved).id
               ELSE evidence[e]]
  PROVE  /\ rel' \in [Rels -> Rows \cup {None}]
         /\ evidence' \in [Evidence -> Rels \cup {None}]
         /\ \A e \in Evidence : evidence'[e] # None => rel'[evidence'[e]] # None
         /\ NaturalKeyUnique(rel)'
<1> DEFINE A == h.absorbed
<1>n. None \notin Rels /\ None \notin Rows
  BY MergeAssumption
<1>1. /\ h.merged \in Entities
      /\ \A a \in A : a.id \in Rels /\ a.row \in Rows /\ a.into \in Rels \cup {None}
      /\ \A a \in A : a.pre \in Nat
  BY DEF RowTyped
<1>2. /\ \A i \in h.sources \cup h.targets : rel[i] # None
      /\ \A a \in A : a.into # None => rel[a.into] # None
      /\ NaturalKeyUnique(UndoneRel(h))
  BY DEF UndoFits
<1>3. /\ rel' = [i \in Rels |-> rel'[i]]
      /\ \A i \in Rels :
        rel'[i] = IF \E a \in A : a.id = i THEN (CHOOSE a \in A : a.id = i).row
          ELSE IF i \in h.sources THEN [rel[i] EXCEPT !.src = h.merged]
          ELSE IF i \in h.targets THEN [rel[i] EXCEPT !.dst = h.merged]
          ELSE IF \E a \in A : a.into = i
            THEN [rel[i] EXCEPT !.count = (CHOOSE a \in A : a.into = i).pre]
          ELSE rel[i]
  BY DEF UndoneRel
<1>4. /\ evidence' = [e \in Evidence |-> evidence'[e]]
      /\ \A e \in Evidence :
           evidence'[e] = IF \E a \in A : e \in a.moved
                            THEN (CHOOSE a \in A : e \in a.moved).id ELSE evidence[e]
  OBVIOUS
<1> HIDE DEF A
<1>5. ASSUME NEW i \in Rels, \E a \in A : a.id = i
      PROVE  rel'[i] \in Rows
  <2>1. (CHOOSE a \in A : a.id = i) \in A
    BY <1>5
  <2> QED BY <1>1, <1>3, <1>5, <2>1
<1>6. ASSUME NEW i \in Rels, rel[i] # None
      PROVE  rel'[i] \in Rows
  <2>r. rel[i] \in Rows
    BY <1>6
  <2>1. CASE \E a \in A : a.id = i
    BY <1>5, <2>1
  <2>2. CASE ~(\E a \in A : a.id = i) /\ i \in h.sources
    <3>1. rel'[i] = [rel[i] EXCEPT !.src = h.merged]
      BY <1>3, <2>2
    <3> QED BY <1>1, <2>r, <3>1 DEF Rows
  <2>3. CASE ~(\E a \in A : a.id = i) /\ i \notin h.sources /\ i \in h.targets
    <3>1. rel'[i] = [rel[i] EXCEPT !.dst = h.merged]
      BY <1>3, <2>3
    <3> QED BY <1>1, <2>r, <3>1 DEF Rows
  <2>4. CASE /\ ~(\E a \in A : a.id = i) /\ i \notin h.sources /\ i \notin h.targets
             /\ \E a \in A : a.into = i
    <3> DEFINE c == CHOOSE a \in A : a.into = i
    <3>1. c \in A
      BY <2>4
    <3>2. c.pre \in Nat
      BY <1>1, <3>1
    <3>3. rel'[i] = [rel[i] EXCEPT !.count = c.pre]
      BY <1>3, <2>4
    <3> HIDE DEF c
    <3> QED BY <2>r, <3>2, <3>3 DEF Rows
  <2>5. CASE /\ ~(\E a \in A : a.id = i) /\ i \notin h.sources /\ i \notin h.targets
             /\ ~(\E a \in A : a.into = i)
    BY <1>3, <2>r, <2>5
  <2> QED BY <2>1, <2>2, <2>3, <2>4, <2>5
<1>7. ASSUME NEW i \in Rels, rel[i] = None
      PROVE  rel'[i] \in Rows \cup {None}
  <2>1. i \notin h.sources /\ i \notin h.targets /\ ~(\E a \in A : a.into = i)
    BY <1>2, <1>7, <1>n
  <2>2. CASE \E a \in A : a.id = i
    BY <1>5, <2>2
  <2>3. CASE ~(\E a \in A : a.id = i)
    BY <1>3, <1>7, <2>1, <2>3
  <2> QED BY <2>2, <2>3
<1>8. rel' \in [Rels -> Rows \cup {None}]
  BY <1>3, <1>6, <1>7
<1>9. ASSUME NEW e \in Evidence
      PROVE  evidence'[e] \in Rels \cup {None} /\ (evidence'[e] # None => rel'[evidence'[e]] # None)
  <2>1. CASE \E a \in A : e \in a.moved
    <3> DEFINE c == CHOOSE a \in A : e \in a.moved
    <3>1. c \in A
      BY <2>1
    <3>2. evidence'[e] = c.id
      BY <1>4, <2>1
    <3> HIDE DEF c
    <3>3. rel'[c.id] \in Rows /\ c.id \in Rels
      BY <1>1, <1>5, <3>1
    <3> QED BY <1>n, <3>2, <3>3
  <2>2. CASE ~(\E a \in A : e \in a.moved)
    <3>1. evidence'[e] = evidence[e]
      BY <1>4, <2>2
    <3> QED BY <1>6, <1>n, <3>1
  <2> QED BY <2>1, <2>2
<1>10. evidence' \in [Evidence -> Rels \cup {None}]
  BY <1>4, <1>9
<1>11. NaturalKeyUnique(rel)'
  <2>1. NaturalKeyUnique(rel)' <=> NaturalKeyUnique(rel')
    BY DEF NaturalKeyUnique, Present
  <2>2. NaturalKeyUnique(rel')
    BY <1>2
  <2> QED BY <2>1, <2>2
<1> QED BY <1>8, <1>9, <1>10, <1>11

\* Everything the argument about undo needs.
UndoInv == IInv /\ TablesTyped /\ Stack

\* A step that changes neither tables nor history keeps them typed and stacked.
LEMMA QuietStep ==
  ASSUME TablesTyped, Stack, UNCHANGED <<tables, history, disorder, overlap, staleMerged>>,
         outdated' \subseteq Requests
  PROVE  /\ TypeOK' /\ Stack'
         /\ \A h \in DOMAIN history' : RowTyped(history'[h])
<1> USE DEF tables
<1>1. TypeOK'
  BY DEF TablesTyped, TypeOK, NaturalKeyUnique, Present
<1>2. Stack'
  <2>1. TopRestores => TopRestores'
    <3> SUFFICES ASSUME TopRestores, NEW h \in DOMAIN history, InForce(h),
                        \A k \in DOMAIN history : k > h => ~InForce(k)
                 PROVE  Restores(history[h], rel, owner, mergedInto)'
      BY DEF TopRestores, InForce
    <3>1. Restores(history[h], rel, owner, mergedInto)
      BY DEF TopRestores
    <3> QED BY <3>1 DEF Restores, RestoredRel
  <2>2. BelowRestores => BelowRestores'
    BY DEF BelowRestores, InForce, Restores, RestoredRel
  <2>3. AllFollow => AllFollow'
    BY DEF AllFollow, InForce, Follows, Present
  <2> QED BY <2>1, <2>2, <2>3 DEF Stack
<1> QED BY <1>1, <1>2 DEF TablesTyped, RowTyped

\* req has one entry for every request.
LEMMA RequestsDomain == UndoInv => DOMAIN req = Requests
BY DEF UndoInv, IInv, HistoryTyped

\* The merge: a new last entry of the history, which can be undone.
LEMMA MergeStep ==
  ASSUME UndoInv, NEW q \in Requests, ExecuteInTx(q)
  PROVE  TablesTyped' /\ Stack'
<1> DEFINE s == req[q].survivor
           m == req[q].merged
           rows == req[q].rows
<1> USE MergeAssumption
<1>n. PICK n : n = Len(history) + 1
  OBVIOUS
<1>1. PICK row :
        /\ history' = Append(history, row)
        /\ HistoryOf(row, rows, s, m)
        /\ row.refs = req[q].refs
        /\ row.before.rel = rel /\ row.before.owner = owner /\ row.before.mergedInto = mergedInto
  <2> DEFINE row == [survivor |-> s, merged |-> m, undone |-> FALSE,
              sources |-> {i \in SafeRepoints(rows, s, m) : rows[i].src = m},
              targets |-> {i \in SafeRepoints(rows, s, m) : rows[i].dst = m},
              refs |-> req[q].refs,
              absorbed |-> Absorbed(rows, s, m),
              before |-> [rel |-> rel, owner |-> owner, mergedInto |-> mergedInto]]
  <2>1. history' = Append(history, row)
    BY DEF ExecuteInTx
  <2>2. HistoryOf(row, rows, s, m)
    BY DEF HistoryOf
  <2>3. row.refs = req[q].refs
    OBVIOUS
  <2>4. row.before.rel = rel /\ row.before.owner = owner /\ row.before.mergedInto = mergedInto
    OBVIOUS
  <2> QED BY <2>1, <2>2, <2>3, <2>4
<1>2. /\ rel' = MergedRel(rows, s, m) /\ evidence' = MergedEvidence(rows, s, m)
      /\ owner' = [r \in Refs |-> IF r \in req[q].refs THEN s ELSE owner[r]]
      /\ mergedInto' = [mergedInto EXCEPT ![m] = s]
      /\ req' = [req EXCEPT ![q] = Idle]
      /\ disorder' = disorder /\ overlap' = (overlap \/ q \in outdated)
      /\ outdated' \subseteq Requests
      /\ staleMerged' \subseteq staleMerged \cup {m}
      /\ req[q].pc = "merge"
      /\ NaturalKeyUnique(MergedRel(rows, s, m))
  BY DEF ExecuteInTx, MergeFits, Outdates
<1>3. /\ s \in Entities /\ m \in Entities /\ s # m
      /\ mergedInto \in [Entities -> Entities \cup {None}] /\ owner \in [Refs -> Entities]
  BY <1>2 DEF UndoInv, IInv, ChecksHold, Addressed
<1>4. /\ rel \in [Rels -> Rows \cup {None}] /\ NaturalKeyUnique(rel)
      /\ evidence \in [Evidence -> Rels \cup {None}]
      /\ \A e \in Evidence : evidence[e] # None => rel[evidence[e]] # None
      /\ disorder \in BOOLEAN /\ overlap \in BOOLEAN
      /\ staleMerged \subseteq Entities
      /\ \A h \in DOMAIN history : RowTyped(history[h])
  BY DEF UndoInv, TablesTyped, TypeOK
<1>5. RowsTyped(rows)
  BY <1>2 DEF UndoInv, TablesTyped, ReadsTyped
<1>6. Apart(rows, s, m)
  BY <1>3, <1>5, RowsApart
<1>7. RowTyped(row)
  BY <1>1, <1>3, <1>5, <1>6, MergedRow
<1>8. /\ MergedRel(rows, s, m) \in [Rels -> Rows \cup {None}]
      /\ MergedEvidence(rows, s, m) \in [Evidence -> Rels \cup {None}]
      /\ \A e \in Evidence : MergedEvidence(rows, s, m)[e] # None =>
           MergedRel(rows, s, m)[MergedEvidence(rows, s, m)[e]] # None
  BY <1>3, <1>4, <1>5, <1>6, MergedTables
<1>f. ASSUME q \notin outdated
      PROVE  /\ mergedInto[s] = None /\ mergedInto[m] = None
             /\ req[q].refs = Owned(m) /\ Classification(rows, s, m)
  <2>1. mergedInto[s] = None /\ mergedInto[m] = None /\ req[q].refs = Owned(m) /\ UpToDate(rows, s, m)
    BY <1>2, <1>f DEF UndoInv, IInv, ChecksHold, Fresh, UpToDate
  <2> QED BY <1>3, <1>4, <2>1, Classified
<1>9. /\ DOMAIN history' = DOMAIN history \cup {n}
      /\ DOMAIN history = 1 .. Len(history) /\ Len(history) \in Nat
      /\ \A h \in DOMAIN history : history'[h] = history[h]
      /\ history'[n] = row
  <2>1. IsSequence(history)
    BY DEF UndoInv, IInv, HistoryTyped
  <2>2. DOMAIN history = 1 .. Len(history) /\ Len(history) \in Nat
    BY <2>1 DEF IsSequence
  <2> QED BY <1>1, <1>n, <2>1, <2>2, AppendKeepsRows
<1> HIDE DEF s, m, rows
<1>10. \A h \in DOMAIN history' : RowTyped(history'[h])
  BY <1>4, <1>7, <1>9
<1>11. TypeOK'
  <2>1. NaturalKeyUnique(rel)' <=> NaturalKeyUnique(rel')
    BY DEF NaturalKeyUnique, Present
  <2>2. \A h \in DOMAIN history' : history'[h].survivor \in Entities /\ history'[h].merged \in Entities
    BY <1>10 DEF RowTyped
  <2>3. /\ owner' \in [Refs -> Entities] /\ mergedInto' \in [Entities -> Entities \cup {None}]
        /\ staleMerged' \subseteq Entities /\ overlap' \in BOOLEAN
    BY <1>2, <1>3, <1>4
  <2> QED BY <1>2, <1>4, <1>8, <2>1, <2>2, <2>3 DEF TypeOK
<1>12. ReadsTyped'
  BY <1>2, RequestsDomain DEF ReadsTyped, RowsTyped, Idle, UndoInv, TablesTyped
<1>13. TablesTyped'
  <2>1. (\A h \in DOMAIN history : RowTyped(history[h]))'
    BY <1>10 DEF RowTyped
  <2> QED BY <1>11, <1>12, <2>1 DEF TablesTyped
<1>14. ASSUME ~disorder, ~overlap'
       PROVE  TopRestores' /\ BelowRestores' /\ AllFollow'
  <2>0. ~overlap /\ q \notin outdated
    BY <1>2, <1>14
  <2>1. TopRestores /\ BelowRestores /\ AllFollow
    BY <1>14, <2>0 DEF UndoInv, Stack
  <2>2. /\ n \in DOMAIN history' /\ InForce(n)'
        /\ \A h \in DOMAIN history : InForce(h)' <=> InForce(h)
        /\ \A h \in DOMAIN history : h < n /\ h \in Nat
        /\ n \notin DOMAIN history
        /\ n \in Nat
    <3>1. InForce(n)'
      BY <1>1, <1>9 DEF InForce, HistoryOf
    <3>2. \A h \in DOMAIN history : InForce(h)' <=> InForce(h)
      BY <1>9 DEF InForce
    <3> QED BY <1>n, <1>9, <3>1, <3>2
  <2>3. Restores(row, rel', owner', mergedInto')
    <3>1. row.merged = m
      BY <1>1 DEF HistoryOf
    <3>2. RestoredRel(rel', row) = rel
      BY <1>1, <1>2, <1>3, <1>4, <1>f, <2>0, MergeThenUndo
    <3>3. [r \in Refs |-> IF r \in row.refs THEN row.merged ELSE owner'[r]] = owner
      BY <1>1, <1>2, <1>3, <1>f, <2>0, <3>1 DEF Owned
    <3>4. [mergedInto' EXCEPT ![m] = None] = mergedInto
      BY <1>2, <1>3, <1>f, <2>0
    <3> QED BY <1>1, <3>1, <3>2, <3>3, <3>4 DEF Restores
  <2>4. TopRestores'
    <3> SUFFICES ASSUME NEW h \in DOMAIN history', InForce(h)',
                        \A k \in DOMAIN history' : k > h => ~InForce(k)'
                 PROVE  Restores(history'[h], rel', owner', mergedInto')
      BY DEF TopRestores, Restores, RestoredRel
    <3>1. h = n
      BY <1>9, <2>2
    <3> QED BY <1>9, <2>3, <3>1
  <2>5. BelowRestores'
    <3> SUFFICES ASSUME NEW g \in DOMAIN history', NEW h \in DOMAIN history',
                        InForce(g)', InForce(h)', g < h,
                        \A k \in DOMAIN history' : g < k /\ k < h => ~InForce(k)'
                 PROVE  Restores(history'[g], history'[h].before.rel, history'[h].before.owner,
                                 history'[h].before.mergedInto)
      BY DEF BelowRestores, Restores, RestoredRel
    <3>1. CASE h \in DOMAIN history
      <4>1. g \in DOMAIN history
        BY <1>9, <2>2, <3>1
      <4>2. Restores(history[g], history[h].before.rel, history[h].before.owner,
                     history[h].before.mergedInto)
        BY <1>9, <2>1, <2>2, <3>1, <4>1 DEF BelowRestores
      <4> QED BY <1>9, <3>1, <4>1, <4>2
    <3>2. CASE h = n
      <4>1. g \in DOMAIN history
        BY <1>9, <2>2, <3>2
      <4>2. \A k \in DOMAIN history : k > g => ~InForce(k)
        BY <1>9, <2>2, <3>2, <4>1
      <4>3. Restores(history[g], rel, owner, mergedInto)
        BY <2>1, <2>2, <4>1, <4>2 DEF TopRestores
      <4> QED BY <1>1, <1>9, <3>2, <4>1, <4>3
    <3> QED BY <1>9, <3>1, <3>2
  <2>6. AllFollow'
    <3>1. Follows(rel, mergedInto)' <=> Follows(rel', mergedInto')
      BY DEF Follows, Present
    <3>2. Follows(rel', mergedInto')
      <4>1. Follows(rel, mergedInto)
        BY <2>1 DEF AllFollow
      <4>2. Follows(MergedRel(rows, s, m), [mergedInto EXCEPT ![m] = s])
        BY <1>3, <1>4, <1>f, <2>0, <4>1, MergedFollows
      <4> QED BY <1>2, <4>2
    <3>3. ASSUME NEW h \in DOMAIN history', InForce(h)'
          PROVE  Follows(history'[h].before.rel, history'[h].before.mergedInto)
      <4>1. CASE h = n
        BY <1>1, <1>9, <2>1, <4>1 DEF AllFollow
      <4>2. CASE h \in DOMAIN history
        <5>1. Follows(history[h].before.rel, history[h].before.mergedInto)
          BY <2>1, <2>2, <3>3, <4>2 DEF AllFollow
        <5> QED BY <1>9, <4>2, <5>1
      <4> QED BY <1>9, <4>1, <4>2
    <3> QED BY <3>1, <3>2, <3>3 DEF AllFollow, Follows, Present
  <2> QED BY <2>4, <2>5, <2>6
<1>15. disorder' \in BOOLEAN /\ overlap' \in BOOLEAN
  BY <1>11 DEF TypeOK
<1> QED BY <1>2, <1>13, <1>14, <1>15 DEF Stack

\* The undo: in order, it pops the last merge in force off the stack.
LEMMA UndoStep ==
  ASSUME UndoInv, NEW q \in Requests, UndoInTx(q)
  PROVE  /\ TablesTyped' /\ Stack'
         /\ ~disorder' /\ ~overlap' =>
              /\ rel' = history[req[q].which].before.rel
              /\ owner' = history[req[q].which].before.owner
              /\ mergedInto' = history[req[q].which].before.mergedInto
         /\ \A h \in DOMAIN history : ~history[h].undone /\ history'[h].undone => h = req[q].which
<1> USE MergeAssumption
<1>w. PICK w : w = req[q].which
  OBVIOUS
<1>1. PICK m : m = history[w].merged
  OBVIOUS
<1>2. /\ rel' = UndoneRel(history[w]) /\ UndoFits(history[w])
      /\ evidence' = [e \in Evidence |->
             IF \E a \in history[w].absorbed : e \in a.moved
               THEN (CHOOSE a \in history[w].absorbed : e \in a.moved).id
               ELSE evidence[e]]
      /\ owner' = [r \in Refs |-> IF r \in history[w].refs THEN m ELSE owner[r]]
      /\ mergedInto' = [mergedInto EXCEPT ![m] = None]
      /\ history' = [history EXCEPT ![w].undone = TRUE]
      /\ disorder' = (disorder \/ \E g \in DOMAIN history : g > w /\ ~history[g].undone)
      /\ req' = [req EXCEPT ![q] = Idle]
      /\ overlap' = (overlap \/ q \in outdated)
      /\ outdated' \subseteq Requests /\ staleMerged' \subseteq staleMerged
      /\ req[q].pc = "undo"
  BY <1>w, <1>1 DEF UndoInTx, Outdates
<1>3. /\ w \in DOMAIN history /\ RowTyped(history[w]) /\ m \in Entities
      /\ q \notin outdated => ~history[w].undone
      /\ mergedInto \in [Entities -> Entities \cup {None}] /\ owner \in [Refs -> Entities]
      /\ DOMAIN history = 1 .. Len(history) /\ Len(history) \in Nat
      /\ DOMAIN req = Requests
  <2>1. w \in DOMAIN history /\ IsSequence(history) /\ DOMAIN req = Requests
    BY <1>w, <1>2 DEF UndoInv, IInv, HistoryTyped, ChecksHold, Addressed
  <2>2. RowTyped(history[w]) /\ (q \notin outdated => ~history[w].undone)
    BY <1>w, <1>2, <2>1 DEF UndoInv, TablesTyped, IInv, ChecksHold, Fresh
  <2> QED BY <1>1, <2>1, <2>2 DEF UndoInv, IInv, ChecksHold, RowTyped, IsSequence
<1>4. /\ rel \in [Rels -> Rows \cup {None}]
      /\ evidence \in [Evidence -> Rels \cup {None}]
      /\ \A e \in Evidence : evidence[e] # None => rel[evidence[e]] # None
      /\ disorder \in BOOLEAN /\ overlap \in BOOLEAN /\ staleMerged \subseteq Entities
      /\ \A h \in DOMAIN history : RowTyped(history[h])
  BY DEF UndoInv, TablesTyped, TypeOK
<1>5. /\ DOMAIN history' = DOMAIN history
      /\ \A h \in DOMAIN history : h # w => history'[h] = history[h]
      /\ history'[w] = [history[w] EXCEPT !.undone = TRUE]
  BY <1>2, <1>3
<1>6. /\ history'[w].undone = TRUE
      /\ history'[w].survivor = history[w].survivor
      /\ history'[w].merged = history[w].merged
      /\ history'[w].sources = history[w].sources
      /\ history'[w].targets = history[w].targets
      /\ history'[w].absorbed = history[w].absorbed
  BY <1>5
<1>7. \A h \in DOMAIN history' : RowTyped(history'[h])
  <2>1. RowTyped(history'[w])
    BY <1>3, <1>6 DEF RowTyped
  <2> QED BY <1>4, <1>5, <2>1
<1>8. TypeOK'
  <2>1. /\ rel' \in [Rels -> Rows \cup {None}]
        /\ evidence' \in [Evidence -> Rels \cup {None}]
        /\ \A e \in Evidence : evidence'[e] # None => rel'[evidence'[e]] # None
        /\ NaturalKeyUnique(rel)'
    BY <1>2, <1>3, <1>4, UndoneTables
  <2>2. \A h \in DOMAIN history' : history'[h].survivor \in Entities /\ history'[h].merged \in Entities
    BY <1>7 DEF RowTyped
  <2>3. owner' \in [Refs -> Entities] /\ mergedInto' \in [Entities -> Entities \cup {None}]
    BY <1>2, <1>3
  <2>4. disorder' \in BOOLEAN /\ overlap' \in BOOLEAN
    BY <1>2, <1>4
  <2>5. outdated' \subseteq Requests /\ staleMerged' \subseteq Entities
    BY <1>2, <1>4
  <2> QED BY <2>1, <2>2, <2>3, <2>4, <2>5 DEF TypeOK
<1>9. ReadsTyped'
  BY <1>2, RequestsDomain DEF ReadsTyped, RowsTyped, Idle, UndoInv, TablesTyped
<1>10. TablesTyped'
  <2>1. (\A h \in DOMAIN history : RowTyped(history[h]))'
    BY <1>7 DEF RowTyped
  <2> QED BY <1>8, <1>9, <2>1 DEF TablesTyped
<1>11. ~InForce(w)' /\ (q \notin outdated => InForce(w))
       /\ \A h \in DOMAIN history : h # w => (InForce(h)' <=> InForce(h))
  <2>1. ~InForce(w)'
    BY <1>6 DEF InForce
  <2>2. \A h \in DOMAIN history : h # w => (InForce(h)' <=> InForce(h))
    BY <1>5 DEF InForce
  <2> QED BY <1>3, <2>1, <2>2 DEF InForce
<1>12. ASSUME ~disorder', ~overlap'
       PROVE  /\ ~disorder /\ ~overlap /\ InForce(w)
              /\ \A k \in DOMAIN history : k > w => ~InForce(k)
              /\ rel' = history[w].before.rel
              /\ owner' = history[w].before.owner
              /\ mergedInto' = history[w].before.mergedInto
  <2>1. /\ ~disorder /\ ~overlap /\ InForce(w)
        /\ \A k \in DOMAIN history : k > w => ~InForce(k)
    BY <1>2, <1>11, <1>12 DEF InForce
  <2>2. Restores(history[w], rel, owner, mergedInto)
    BY <1>3, <2>1 DEF UndoInv, Stack, TopRestores
  <2>3. UndoneRel(history[w]) = RestoredRel(rel, history[w])
    BY DEF UndoneRel, RestoredRel
  <2> QED BY <1>1, <1>2, <2>1, <2>2, <2>3 DEF Restores
<1>13. ASSUME ~disorder', ~overlap' PROVE TopRestores' /\ BelowRestores' /\ AllFollow'
  <2>1. TopRestores /\ BelowRestores /\ AllFollow
    BY <1>12, <1>13 DEF UndoInv, Stack
  <2>2. TopRestores'
    <3> SUFFICES ASSUME NEW h \in DOMAIN history', InForce(h)',
                        \A k \in DOMAIN history' : k > h => ~InForce(k)'
                 PROVE  Restores(history'[h], rel', owner', mergedInto')
      BY DEF TopRestores, Restores, RestoredRel
    <3>1. h \in DOMAIN history /\ h # w /\ InForce(h)
      BY <1>5, <1>11
    <3>2. h < w
      BY <1>3, <1>12, <1>13, <3>1
    <3>3. \A k \in DOMAIN history : h < k /\ k < w => ~InForce(k)
      BY <1>3, <1>5, <1>11
    <3>4. Restores(history[h], history[w].before.rel, history[w].before.owner,
                   history[w].before.mergedInto)
      BY <1>3, <1>12, <1>13, <2>1, <3>1, <3>2, <3>3 DEF BelowRestores
    <3> QED BY <1>5, <1>12, <1>13, <3>1, <3>4
  <2>3. BelowRestores'
    <3> SUFFICES ASSUME NEW g \in DOMAIN history', NEW h \in DOMAIN history',
                        InForce(g)', InForce(h)', g < h,
                        \A k \in DOMAIN history' : g < k /\ k < h => ~InForce(k)'
                 PROVE  Restores(history'[g], history'[h].before.rel, history'[h].before.owner,
                                 history'[h].before.mergedInto)
      BY DEF BelowRestores, Restores, RestoredRel
    <3>1. /\ g \in DOMAIN history /\ g # w /\ InForce(g)
          /\ h \in DOMAIN history /\ h # w /\ InForce(h)
      BY <1>5, <1>11
    <3>2. h < w
      BY <1>3, <1>12, <1>13, <3>1
    <3>3. \A k \in DOMAIN history : g < k /\ k < h => ~InForce(k)
      BY <1>3, <1>5, <1>11, <3>2
    <3>4. Restores(history[g], history[h].before.rel, history[h].before.owner,
                   history[h].before.mergedInto)
      BY <2>1, <3>1, <3>3 DEF BelowRestores
    <3> QED BY <1>5, <3>1, <3>4
  <2>4. AllFollow'
    <3>1. Follows(rel, mergedInto)' <=> Follows(rel', mergedInto')
      BY DEF Follows, Present
    <3>2. Follows(rel', mergedInto')
      BY <1>3, <1>12, <1>13, <2>1 DEF AllFollow
    <3>3. ASSUME NEW h \in DOMAIN history', InForce(h)'
          PROVE  Follows(history'[h].before.rel, history'[h].before.mergedInto)
      <4>1. h \in DOMAIN history /\ h # w /\ InForce(h)
        BY <1>5, <1>11, <3>3
      <4> QED BY <1>5, <2>1, <4>1 DEF AllFollow
    <3> QED BY <3>1, <3>2, <3>3 DEF AllFollow, Follows, Present
  <2> QED BY <2>2, <2>3, <2>4
<1>14. Stack'
  BY <1>8, <1>13 DEF Stack, TypeOK
<1>15. \A h \in DOMAIN history : ~history[h].undone /\ history'[h].undone => h = w
  BY <1>5
<1> QED BY <1>w, <1>10, <1>12, <1>14, <1>15

\* Any number of requests keep the tables typed and the merges stacked.
LEMMA StepUndoInv ==
  ASSUME UndoInv, [Next]_vars
  PROVE  UndoInv'
<1>i. IInv'
  BY StepIInv DEF UndoInv
<1>q. ASSUME UNCHANGED <<tables, history, disorder, overlap, staleMerged>>,
             outdated' \subseteq Requests, ReadsTyped'
      PROVE  UndoInv'
  <2>1. TypeOK' /\ Stack' /\ \A h \in DOMAIN history' : RowTyped(history'[h])
    BY <1>q, QuietStep DEF UndoInv
  <2>2. (\A h \in DOMAIN history : RowTyped(history[h]))'
    BY <2>1 DEF RowTyped
  <2> QED BY <1>i, <1>q, <2>1, <2>2 DEF UndoInv, TablesTyped
<1>t. /\ DOMAIN req = Requests /\ ReadsTyped /\ outdated \subseteq Requests
      /\ rel \in [Rels -> Rows \cup {None}]
  BY DEF UndoInv, IInv, HistoryTyped, TablesTyped, TypeOK
<1>1. CASE UNCHANGED vars
  <2>1. ReadsTyped'
    BY <1>1, <1>t DEF vars, ReadsTyped, RowsTyped
  <2> QED BY <1>1, <1>q, <1>t, <2>1 DEF vars, tables
<1>2. ASSUME NEW q \in Requests, NEW s \in Entities, NEW m \in Entities, CheckMerge(q, s, m)
      PROVE  UndoInv'
  <2>1. ReadsTyped'
    BY <1>2, <1>t DEF CheckMerge, ReadsTyped, RowsTyped
  <2> QED BY <1>2, <1>q, <1>t, <2>1 DEF CheckMerge, past
<1>3. ASSUME NEW q \in Requests, CollectRefs(q)
      PROVE  UndoInv'
  <2>1. \A s, m : RowsTyped(RowsOf(s, m))
    BY <1>t DEF RowsTyped, RowsOf, Touching, Present
  <2>2. req' = [req EXCEPT ![q] = [pc |-> "merge", survivor |-> req[q].survivor,
                  merged |-> req[q].merged, rows |-> RowsOf(req[q].survivor, req[q].merged),
                  refs |-> Owned(req[q].merged)]]
    BY <1>3 DEF CollectRefs
  <2>3. req'[q].rows = RowsOf(req[q].survivor, req[q].merged)
        /\ \A p \in Requests : p # q => req'[p] = req[p]
    BY <1>t, <2>2
  <2>4. RowsTyped(req'[q].rows)
    BY <2>1, <2>3
  <2>5. ReadsTyped'
    BY <1>t, <2>3, <2>4 DEF ReadsTyped, RowsTyped
  <2> QED BY <1>3, <1>q, <1>t, <2>5 DEF CollectRefs, past
<1>4. ASSUME NEW q \in Requests, CollectionTruncated(q) \/ TxFails(q)
      PROVE  UndoInv'
  <2>1. ReadsTyped'
    BY <1>4, <1>t DEF CollectionTruncated, TxFails, Refuse, ReadsTyped, RowsTyped, Idle
  <2> QED BY <1>4, <1>q, <1>t, <2>1 DEF CollectionTruncated, TxFails, Refuse
<1>5. ASSUME NEW q \in Requests, ExecuteInTx(q)
      PROVE  UndoInv'
  BY <1>5, <1>i, MergeStep DEF UndoInv
<1>6. ASSUME NEW q \in Requests, NEW h \in DOMAIN history, CheckUndo(q, h)
      PROVE  UndoInv'
  <2>1. ReadsTyped'
    BY <1>6, <1>t DEF CheckUndo, ReadsTyped, RowsTyped
  <2> QED BY <1>6, <1>q, <1>t, <2>1 DEF CheckUndo, past
<1>7. ASSUME NEW q \in Requests, UndoInTx(q)
      PROVE  UndoInv'
  BY <1>7, <1>i, UndoStep DEF UndoInv
<1> QED BY <1>1, <1>2, <1>3, <1>4, <1>5, <1>6, <1>7 DEF Next

\* The tables begin typed, with nothing merged.
LEMMA InitUndoInv == Init => UndoInv
<1> SUFFICES ASSUME Init PROVE UndoInv
  OBVIOUS
<1> USE MergeAssumption DEF Init
<1>1. IInv
  BY InitIInv
<1>2. TypeOK
  <2>1. rel \in [Rels -> Rows \cup {None}] /\ NaturalKeyUnique(rel)
    OBVIOUS
  <2>2. evidence \in [Evidence -> Rels \cup {None}] /\ owner \in [Refs -> Entities]
    OBVIOUS
  <2>3. \A e \in Evidence : evidence[e] # None => rel[evidence[e]] # None
    OBVIOUS
  <2>4. mergedInto \in [Entities -> Entities \cup {None}]
    OBVIOUS
  <2>5. \A h \in DOMAIN history : FALSE
    OBVIOUS
  <2>6. disorder \in BOOLEAN /\ overlap \in BOOLEAN
    OBVIOUS
  <2>7. outdated \subseteq Requests /\ staleMerged \subseteq Entities
    OBVIOUS
  <2> QED BY ONLY <2>1, <2>2, <2>3, <2>4, <2>5, <2>6, <2>7 DEF TypeOK
<1>3. ReadsTyped
  BY DEF ReadsTyped, Idle
<1>4. Stack
  <2>1. Follows(rel, mergedInto)
    BY DEF Follows, Present, Rows
  <2> QED BY <2>1 DEF Stack, TopRestores, BelowRestores, AllFollow
<1> QED BY <1>1, <1>2, <1>3, <1>4 DEF UndoInv, TablesTyped

\* Until a request commits on what another has outdated, no relationship is left at
\* an entity that was merged away as long as the last merge is undone first; and in
\* any order of undos, however requests overlap, the foreign keys of the evidence and
\* the natural key of the relationships hold, for any number of entities,
\* relationships, merges and requests.
THEOREM RelationshipsAlwaysFollow == Spec => []RelationshipsFollowSurvivor
<1>1. Init => UndoInv
  BY InitUndoInv
<1>2. UndoInv /\ [Next]_vars => UndoInv'
  BY StepUndoInv
<1>3. UndoInv => RelationshipsFollowSurvivor
  BY DEF UndoInv, TablesTyped, Stack, AllFollow, Follows, RelationshipsFollowSurvivor
<1> QED BY <1>1, <1>2, <1>3, PTL DEF Spec

\* Undoing the last merge in force restores the relationships, the references and
\* merged_into exactly as they were before it, whatever chains of merges,
\* absorptions and undos came before and in between, as long as no request commits
\* on what another has outdated.
THEOREM UndoAlwaysRestores == Spec => UndoRestores
<1> DEFINE Restoring ==
      \A h \in DOMAIN history :
        /\ ~history[h].undone
        /\ history'[h].undone
        /\ ~disorder' /\ ~overlap'
        => /\ rel' = history[h].before.rel
           /\ owner' = history[h].before.owner
           /\ mergedInto' = history[h].before.mergedInto
<1>1. Init => UndoInv
  BY InitUndoInv
<1>2. UndoInv /\ [Next]_vars => UndoInv'
  BY StepUndoInv
<1>3. UndoInv /\ [Next]_vars => [Restoring]_vars
  <2> SUFFICES ASSUME UndoInv, Next PROVE Restoring
    OBVIOUS
  <2>1. ASSUME NEW q \in Requests, UndoInTx(q) PROVE Restoring
    BY <2>1, UndoStep
  <2>2. ASSUME NEW q \in Requests, ExecuteInTx(q) PROVE Restoring
    <3>1. PICK row : history' = Append(history, row)
      BY <2>2 DEF ExecuteInTx
    <3>2. IsSequence(history)
      BY DEF UndoInv, IInv, HistoryTyped
    <3>3. \A h \in DOMAIN history : history'[h] = history[h]
      BY <3>1, <3>2, AppendKeepsRows
    <3> QED BY <3>3
  <2>3. CASE UNCHANGED history
    BY <2>3
  <2>4. (\E q \in Requests : UndoInTx(q) \/ ExecuteInTx(q)) \/ UNCHANGED history
    BY DEF Next, CheckMerge, CollectRefs, CollectionTruncated, TxFails, Refuse, CheckUndo
  <2> QED BY <2>1, <2>2, <2>3, <2>4
<1> QED BY <1>1, <1>2, <1>3, PTL DEF Spec, UndoRestores

------------------------------------------------------------------------------
(* evidence_count.  A history row keeps the relationships as they were     *)
(* before the merge but not the evidence: what undo brings back is         *)
(* computed from the rows that were moved.  The invariant therefore keeps, *)
(* for every merge in force, the evidence there was before it (hung),      *)
(* reached by undoing the merges above it, and says that the counts match  *)
(* on every level.                                                         *)

\* evidence_count is right on these tables.
CountsOn(table, hung) ==
  \A i \in Present(table) : table[i].count = Cardinality({e \in Evidence : hung[e] = i})

\* The merge deleted a self loop, whose evidence is gone.
Looped(h) == \E a \in h.absorbed : a.into = None

\* undo_merge's evidence, for any state of the table.
RestoredEvidence(hung, h) ==
  [e \in Evidence |-> IF \E a \in h.absorbed : e \in a.moved
                        THEN (CHOOSE a \in h.absorbed : e \in a.moved).id
                        ELSE hung[e]]

\* Undoing the last merge in force restores the evidence it found.
TopEvidence(hung) ==
  \A h \in DOMAIN history :
    InForce(h) /\ ~Looped(history[h]) /\ (\A k \in DOMAIN history : k > h => ~InForce(k)) =>
      RestoredEvidence(evidence, history[h]) = hung[h]

\* Undoing the one before then restores the evidence that one found.
BelowEvidence(hung) ==
  \A g, h \in DOMAIN history :
    /\ InForce(g) /\ InForce(h) /\ g < h /\ ~Looped(history[g])
    /\ \A k \in DOMAIN history : g < k /\ k < h => ~InForce(k)
    => RestoredEvidence(hung[h], history[g]) = hung[g]

\* The counts match now and matched before every merge in force.
AllCounted(hung) ==
  /\ CountsOn(rel, evidence)
  /\ \A h \in DOMAIN history : InForce(h) => CountsOn(history[h].before.rel, hung[h])

Counted ==
  disorder \/ overlap \/ LoopRebuilt \/
    \E hung : TopEvidence(hung) /\ BelowEvidence(hung) /\ AllCounted(hung)

\* Evidence that is told apart adds up.
LEMMA EvidenceAddsUp ==
  ASSUME NEW S \in SUBSET Evidence, NEW T \in SUBSET Evidence, S \cap T = {}
  PROVE  Cardinality(S \cup T) = Cardinality(S) + Cardinality(T)
<1>1. IsFiniteSet(S) /\ IsFiniteSet(T)
  BY EvidenceAssumption, FS_Subset
<1>2. Cardinality(S) \in Nat /\ Cardinality(T) \in Nat /\ Cardinality({}) = 0
  BY <1>1, FS_CardinalityType, FS_EmptySet
<1>3. Cardinality(S \cup T) = Cardinality(S) + Cardinality(T) - Cardinality({})
  BY <1>1, FS_Union
<1> QED BY <1>2, <1>3

\* A merge keeps the counts: an absorber gets the evidence it adds up.
LEMMA MergeCounts ==
  ASSUME rel \in [Rels -> Rows \cup {None}],
         evidence \in [Evidence -> Rels \cup {None}],
         NEW s \in Entities, NEW m \in Entities, s # m,
         NEW rows, Classification(rows, s, m),
         CountsOn(rel, evidence)
  PROVE  CountsOn(MergedRel(rows, s, m), MergedEvidence(rows, s, m))
<1> DEFINE L == SelfLoops(rows, s, m)
           C == Collisions(rows, s, m)
           R == SafeRepoints(rows, s, m)
           Abs(i) == AbsorberOf(rows, s, m, i)
           T == MergedRel(rows, s, m)
           E == MergedEvidence(rows, s, m)
           On(i) == {e \in Evidence : evidence[e] = i}
<1>n. None \notin Rels /\ None \notin Rows
  BY MergeAssumption
<1>1. /\ L \cup C \cup R = Touching(m) /\ L \cap C = {} /\ R \cap (L \cup C) = {}
      /\ \A i \in Touching(s) \cup Touching(m) : i \in Rels /\ rows[i] = rel[i] /\ rel[i] \in Rows
      /\ \A i \in C : Abs(i) \in Touching(s) \ Touching(m)
      /\ \A i, k \in C : Abs(i) = Abs(k) => i = k
  BY DEF Classification
<1>2. \A i \in Rels :
        T[i] = IF i \in L \cup C THEN None
               ELSE IF i \in R THEN Repointed(rows[i], m, s)
               ELSE IF \E k \in C : i = Abs(k)
                 THEN [rows[i] EXCEPT !.count = @ + rows[CHOOSE k \in C : i = Abs(k)].count]
               ELSE rel[i]
  BY DEF MergedRel
<1>3. \A e \in Evidence : E[e] = IF evidence[e] \in L THEN None
                                 ELSE IF evidence[e] \in C THEN Abs(evidence[e]) ELSE evidence[e]
  BY DEF MergedEvidence
<1>4. \A i \in Rels : rel[i] \in Rows => rel[i].count = Cardinality(On(i))
  BY <1>n DEF CountsOn, Present
<1> HIDE DEF L, C, R, Abs, T, E
<1> SUFFICES ASSUME NEW i \in Rels, T[i] # None
             PROVE  T[i].count = Cardinality({e \in Evidence : E[e] = i})
  BY DEF CountsOn, Present, T, E
<1>5. i \notin L \cup C
  BY <1>2
<1>6. CASE i \in R
  <2>1. T[i] = Repointed(rel[i], m, s) /\ rel[i] \in Rows
    BY <1>1, <1>2, <1>5, <1>6
  <2>2. T[i].count = rel[i].count
    BY <2>1 DEF Repointed, Rows
  <2>3. {e \in Evidence : E[e] = i} = On(i)
    BY <1>n, <1>1, <1>3, <1>5, <1>6
  <2> QED BY <1>4, <2>1, <2>2, <2>3
<1>7. CASE i \notin R /\ \E k \in C : i = Abs(k)
  <2>1. PICK k : k = CHOOSE c \in C : i = Abs(c)
    OBVIOUS
  <2>2. k \in C /\ i = Abs(k)
    BY <1>7, <2>1
  <2>3. rel[i] \in Rows /\ rel[k] \in Rows /\ rows[i] = rel[i] /\ rows[k] = rel[k] /\ k \in Rels
    BY <1>1, <2>2
  <2>4. T[i].count = rel[i].count + rel[k].count
    <3>1. T[i] = [rel[i] EXCEPT !.count = @ + rel[k].count]
      BY <1>2, <1>5, <1>7, <2>1, <2>3
    <3> QED BY <2>3, <3>1 DEF Rows
  <2>5. {e \in Evidence : E[e] = i} = On(i) \cup On(k)
    BY <1>n, <1>1, <1>3, <1>5, <2>2
  <2>6. On(i) \cap On(k) = {}
    BY <1>5, <2>2
  <2>7. Cardinality(On(i) \cup On(k)) = Cardinality(On(i)) + Cardinality(On(k))
    BY <2>6, EvidenceAddsUp
  <2> QED BY <1>4, <2>3, <2>4, <2>5, <2>7
<1>8. CASE i \notin R /\ ~\E k \in C : i = Abs(k)
  <2>1. T[i] = rel[i]
    BY <1>2, <1>5, <1>8
  <2>2. {e \in Evidence : E[e] = i} = On(i)
    BY <1>n, <1>3, <1>5, <1>8
  <2> QED BY <1>4, <2>1, <2>2
<1> QED BY <1>6, <1>7, <1>8

\* A merge that deleted no self loop can give the evidence back.
LEMMA MergeThenRestoreEvidence ==
  ASSUME evidence \in [Evidence -> Rels \cup {None}],
         NEW s, NEW m, NEW rows, Classification(rows, s, m),
         NEW h, HistoryOf(h, rows, s, m), ~Looped(h)
  PROVE  RestoredEvidence(MergedEvidence(rows, s, m), h) = evidence
<1> DEFINE L == SelfLoops(rows, s, m)
           C == Collisions(rows, s, m)
           E == MergedEvidence(rows, s, m)
           A == h.absorbed
<1>1. AbsorbedWell(A, rows, s, m)
  BY AbsorbedRows DEF HistoryOf
<1>2. L = {}
  BY <1>1 DEF AbsorbedWell, Looped
<1>3. /\ \A a \in A : a.id \in C /\ a.moved = {e \in Evidence : evidence[e] = a.id}
      /\ \A i \in C : \E a \in A : a.id = i
  BY <1>1, <1>2 DEF AbsorbedWell
<1>4. \A e \in Evidence : evidence[e] \notin C => E[e] = evidence[e]
  BY <1>2 DEF MergedEvidence
<1>5. RestoredEvidence(E, h) = [e \in Evidence |->
        IF \E a \in A : e \in a.moved THEN (CHOOSE a \in A : e \in a.moved).id ELSE E[e]]
  BY DEF RestoredEvidence
<1> HIDE DEF L, C, E, A
<1>6. ASSUME NEW e \in Evidence PROVE RestoredEvidence(E, h)[e] = evidence[e]
  <2>1. CASE \E a \in A : e \in a.moved
    <3>1. PICK c : c = CHOOSE a \in A : e \in a.moved
      OBVIOUS
    <3>2. c \in A /\ e \in c.moved
      BY <2>1, <3>1
    <3>3. c.id = evidence[e]
      BY <1>3, <3>2
    <3> QED BY <1>5, <2>1, <3>1, <3>3
  <2>2. CASE ~\E a \in A : e \in a.moved
    <3>1. evidence[e] \notin C
      BY <1>3, <2>2
    <3> QED BY <1>4, <1>5, <2>2, <3>1
  <2> QED BY <2>1, <2>2
<1>7. RestoredEvidence(E, h) = [e \in Evidence |-> RestoredEvidence(E, h)[e]]
  BY <1>5
<1>8. RestoredEvidence(E, h) = evidence
  BY <1>6, <1>7
<1> QED BY <1>8 DEF E

\* Undone merges stay undone, so a self loop that was rebuilt is not forgotten.
LEMMA LoopStaysRebuilt ==
  ASSUME UndoInv, [Next]_vars, LoopRebuilt
  PROVE  LoopRebuilt'
<1>1. PICK h \in DOMAIN history : history[h].undone /\ Looped(history[h])
  BY DEF LoopRebuilt, Looped
<1>2. IsSequence(history)
  BY DEF UndoInv, IInv, HistoryTyped
<1>3. h \in DOMAIN history' /\ history'[h].undone /\ history'[h].absorbed = history[h].absorbed
  <2>1. ASSUME NEW q \in Requests, ExecuteInTx(q)
        PROVE  h \in DOMAIN history' /\ history'[h].undone /\ history'[h].absorbed = history[h].absorbed
    <3>1. PICK row : history' = Append(history, row)
      BY <2>1 DEF ExecuteInTx
    <3> QED BY <1>1, <1>2, <3>1, AppendKeepsRows
  <2>2. ASSUME NEW q \in Requests, UndoInTx(q)
        PROVE  h \in DOMAIN history' /\ history'[h].undone /\ history'[h].absorbed = history[h].absorbed
    <3>1. PICK w : w = req[q].which
      OBVIOUS
    <3>2. history' = [history EXCEPT ![w].undone = TRUE] /\ req[q].pc = "undo"
      BY <2>2, <3>1 DEF UndoInTx
    <3>3. w \in DOMAIN history
      BY <3>1, <3>2 DEF UndoInv, IInv, ChecksHold, Addressed
    <3>4. /\ DOMAIN history' = DOMAIN history
          /\ h # w => history'[h] = history[h]
          /\ history'[w] = [history[w] EXCEPT !.undone = TRUE]
      BY <3>2, <3>3
    <3>5. history'[w].absorbed = history[w].absorbed /\ history'[w].undone
      BY <3>4
    <3> QED BY <1>1, <3>4, <3>5
  <2>3. CASE UNCHANGED history
    BY <1>1, <2>3
  <2> QED BY <2>1, <2>2, <2>3
          DEF Next, CheckMerge, CollectRefs, CollectionTruncated, TxFails, Refuse, CheckUndo, vars
<1> QED BY <1>1, <1>3 DEF LoopRebuilt, Looped

\* A step that changes neither tables nor history keeps the levels counted.
LEMMA QuietCounted ==
  ASSUME NEW hung, TopEvidence(hung), BelowEvidence(hung), AllCounted(hung),
         UNCHANGED <<tables, history>>
  PROVE  TopEvidence(hung)' /\ BelowEvidence(hung)' /\ AllCounted(hung)'
<1>1. TopEvidence(hung)'
  <2> SUFFICES ASSUME NEW h \in DOMAIN history, InForce(h), ~Looped(history[h]),
                      \A k \in DOMAIN history : k > h => ~InForce(k)
               PROVE  RestoredEvidence(evidence, history[h])' = hung[h]
    BY DEF TopEvidence, InForce, Looped, tables
  <2>1. RestoredEvidence(evidence, history[h]) = hung[h]
    BY DEF TopEvidence
  <2> QED BY <2>1 DEF RestoredEvidence, tables
<1>2. BelowEvidence(hung)'
  <2> SUFFICES ASSUME NEW g \in DOMAIN history, NEW h \in DOMAIN history,
                      InForce(g), InForce(h), g < h, ~Looped(history[g]),
                      \A k \in DOMAIN history : g < k /\ k < h => ~InForce(k)
               PROVE  RestoredEvidence(hung[h], history[g])' = hung[g]
    BY DEF BelowEvidence, InForce, Looped, tables
  <2>1. RestoredEvidence(hung[h], history[g]) = hung[g]
    BY DEF BelowEvidence
  <2> QED BY <2>1 DEF RestoredEvidence, tables
<1>3. AllCounted(hung)'
  BY DEF AllCounted, CountsOn, Present, InForce, tables
<1> QED BY <1>1, <1>2, <1>3

\* The merge adds a level on top.
LEMMA MergeCounted ==
  ASSUME UndoInv, NEW q \in Requests, ExecuteInTx(q), ~overlap',
         NEW hung, TopEvidence(hung), BelowEvidence(hung), AllCounted(hung)
  PROVE  \E up : TopEvidence(up)' /\ BelowEvidence(up)' /\ AllCounted(up)'
<1> DEFINE s == req[q].survivor
           m == req[q].merged
           rows == req[q].rows
<1>n. PICK n : n = Len(history) + 1
  OBVIOUS
<1>1. PICK row : /\ history' = Append(history, row)
                 /\ HistoryOf(row, rows, s, m) /\ row.before.rel = rel
  <2> DEFINE row == [survivor |-> s, merged |-> m, undone |-> FALSE,
              sources |-> {i \in SafeRepoints(rows, s, m) : rows[i].src = m},
              targets |-> {i \in SafeRepoints(rows, s, m) : rows[i].dst = m},
              refs |-> req[q].refs,
              absorbed |-> Absorbed(rows, s, m),
              before |-> [rel |-> rel, owner |-> owner, mergedInto |-> mergedInto]]
  <2>1. history' = Append(history, row)
    BY DEF ExecuteInTx
  <2>2. HistoryOf(row, rows, s, m)
    BY DEF HistoryOf
  <2>3. row.before.rel = rel
    OBVIOUS
  <2> QED BY <2>1, <2>2, <2>3
<1>2. /\ rel' = MergedRel(rows, s, m) /\ evidence' = MergedEvidence(rows, s, m)
      /\ req[q].pc = "merge"
  BY DEF ExecuteInTx
<1>3. s \in Entities /\ m \in Entities /\ s # m
  BY <1>2 DEF UndoInv, IInv, ChecksHold, Addressed
<1>4. /\ rel \in [Rels -> Rows \cup {None}] /\ NaturalKeyUnique(rel)
      /\ evidence \in [Evidence -> Rels \cup {None}]
  BY DEF UndoInv, TablesTyped, TypeOK
<1>5. UpToDate(rows, s, m)
  <2>1. q \notin outdated
    BY DEF ExecuteInTx
  <2> QED BY <1>2, <2>1 DEF UndoInv, IInv, ChecksHold, Fresh, UpToDate
<1>6. Classification(rows, s, m)
  BY <1>3, <1>4, <1>5, Classified
<1>7. CountsOn(rel', evidence')
  BY <1>2, <1>3, <1>4, <1>6, MergeCounts DEF AllCounted
<1>8. ~Looped(row) => RestoredEvidence(evidence', row) = evidence
  BY <1>1, <1>2, <1>4, <1>6, MergeThenRestoreEvidence
<1> HIDE DEF s, m, rows
<1>9. /\ DOMAIN history' = DOMAIN history \cup {n}
      /\ DOMAIN history = 1 .. Len(history) /\ Len(history) \in Nat
      /\ \A h \in DOMAIN history : history'[h] = history[h]
      /\ history'[n] = row
  <2>1. IsSequence(history)
    BY DEF UndoInv, IInv, HistoryTyped
  <2>2. DOMAIN history = 1 .. Len(history) /\ Len(history) \in Nat
    BY <2>1 DEF IsSequence
  <2> QED BY <1>1, <1>n, <2>1, <2>2, AppendKeepsRows
<1>10. /\ n \in DOMAIN history' /\ InForce(n)' /\ n \notin DOMAIN history /\ n \in Nat
       /\ \A h \in DOMAIN history : InForce(h)' <=> InForce(h)
       /\ \A h \in DOMAIN history : h < n /\ h \in Nat
  <2>1. InForce(n)'
    BY <1>1, <1>9 DEF InForce, HistoryOf
  <2>2. \A h \in DOMAIN history : InForce(h)' <=> InForce(h)
    BY <1>9 DEF InForce
  <2> QED BY <1>n, <1>9, <2>1, <2>2
<1>11. PICK up : up = [h \in DOMAIN history \cup {n} |-> IF h = n THEN evidence ELSE hung[h]]
  OBVIOUS
<1>12. up[n] = evidence /\ \A h \in DOMAIN history : up[h] = hung[h]
  BY <1>10, <1>11
<1>13. TopEvidence(up)'
  <2> SUFFICES ASSUME NEW h \in DOMAIN history', InForce(h)', ~Looped(history'[h]),
                      \A k \in DOMAIN history' : k > h => ~InForce(k)'
               PROVE  RestoredEvidence(evidence', history'[h]) = up[h]
    BY DEF TopEvidence, RestoredEvidence, Looped
  <2>1. h = n
    BY <1>9, <1>10
  <2> QED BY <1>8, <1>9, <1>12, <2>1
<1>14. BelowEvidence(up)'
  <2> SUFFICES ASSUME NEW g \in DOMAIN history', NEW h \in DOMAIN history',
                      InForce(g)', InForce(h)', g < h, ~Looped(history'[g]),
                      \A k \in DOMAIN history' : g < k /\ k < h => ~InForce(k)'
               PROVE  RestoredEvidence(up[h], history'[g]) = up[g]
    BY DEF BelowEvidence, RestoredEvidence, Looped
  <2>1. g \in DOMAIN history
    BY <1>9, <1>10
  <2>2. CASE h \in DOMAIN history
    <3>1. RestoredEvidence(hung[h], history[g]) = hung[g]
      BY <1>9, <1>10, <2>1, <2>2 DEF BelowEvidence
    <3> QED BY <1>9, <1>12, <2>1, <2>2, <3>1
  <2>3. CASE h = n
    <3>1. \A k \in DOMAIN history : k > g => ~InForce(k)
      BY <1>9, <1>10, <2>3
    <3>2. RestoredEvidence(evidence, history[g]) = hung[g]
      BY <1>9, <1>10, <2>1, <3>1 DEF TopEvidence
    <3> QED BY <1>9, <1>12, <2>1, <2>3, <3>2
  <2> QED BY <1>9, <2>2, <2>3
<1>15. AllCounted(up)'
  <2>1. ASSUME NEW h \in DOMAIN history', InForce(h)'
        PROVE  CountsOn(history'[h].before.rel, up[h])
    <3>1. CASE h = n
      BY <1>1, <1>9, <1>12, <3>1 DEF AllCounted
    <3>2. CASE h \in DOMAIN history
      <4>1. CountsOn(history[h].before.rel, hung[h])
        BY <1>10, <2>1, <3>2 DEF AllCounted
      <4> QED BY <1>9, <1>12, <3>2, <4>1
    <3> QED BY <1>9, <3>1, <3>2
  <2> QED BY <1>7, <2>1 DEF AllCounted, CountsOn, Present
<1> QED BY <1>13, <1>14, <1>15

\* The undo takes the top level off, unless it rebuilds a self loop.
LEMMA UndoCounted ==
  ASSUME UndoInv, NEW q \in Requests, UndoInTx(q), ~disorder', ~overlap', ~LoopRebuilt',
         NEW hung, TopEvidence(hung), BelowEvidence(hung), AllCounted(hung)
  PROVE  TopEvidence(hung)' /\ BelowEvidence(hung)' /\ AllCounted(hung)'
<1>w. PICK w : w = req[q].which
  OBVIOUS
<1>1. /\ evidence' = RestoredEvidence(evidence, history[w])
      /\ history' = [history EXCEPT ![w].undone = TRUE]
      /\ disorder' = (disorder \/ \E g \in DOMAIN history : g > w /\ ~history[g].undone)
      /\ req[q].pc = "undo"
  BY <1>w DEF UndoInTx, RestoredEvidence
<1>2. rel' = history[w].before.rel
  BY <1>w, UndoStep
<1>3. /\ w \in DOMAIN history /\ InForce(w)
      /\ DOMAIN history = 1 .. Len(history) /\ Len(history) \in Nat
  <2>1. w \in DOMAIN history /\ IsSequence(history)
    BY <1>w, <1>1 DEF UndoInv, IInv, HistoryTyped, ChecksHold, Addressed
  <2>2. q \notin outdated
    BY DEF UndoInTx
  <2>3. ~history[w].undone
    BY <1>w, <1>1, <2>1, <2>2 DEF UndoInv, IInv, ChecksHold, Fresh
  <2> QED BY <2>1, <2>3 DEF InForce, IsSequence
<1>4. /\ DOMAIN history' = DOMAIN history
      /\ \A h \in DOMAIN history : h # w => history'[h] = history[h]
      /\ history'[w] = [history[w] EXCEPT !.undone = TRUE]
  BY <1>1, <1>3
<1>5. history'[w].undone = TRUE /\ history'[w].absorbed = history[w].absorbed
  BY <1>4
<1>6. ~Looped(history[w])
  BY <1>3, <1>4, <1>5 DEF LoopRebuilt, Looped
<1>7. ~InForce(w)' /\ \A h \in DOMAIN history : h # w => (InForce(h)' <=> InForce(h))
  <2>1. ~InForce(w)'
    BY <1>5 DEF InForce
  <2>2. \A h \in DOMAIN history : h # w => (InForce(h)' <=> InForce(h))
    BY <1>4 DEF InForce
  <2> QED BY <2>1, <2>2
<1>8. \A k \in DOMAIN history : k > w => ~InForce(k)
  BY <1>1 DEF InForce
<1>9. evidence' = hung[w]
  BY <1>1, <1>3, <1>6, <1>8 DEF TopEvidence
<1>10. TopEvidence(hung)'
  <2> SUFFICES ASSUME NEW h \in DOMAIN history', InForce(h)', ~Looped(history'[h]),
                      \A k \in DOMAIN history' : k > h => ~InForce(k)'
               PROVE  RestoredEvidence(evidence', history'[h]) = hung[h]
    BY DEF TopEvidence, RestoredEvidence, Looped
  <2>1. h \in DOMAIN history /\ h # w /\ InForce(h) /\ history'[h] = history[h]
    BY <1>4, <1>7
  <2>2. h < w
    BY <1>3, <1>8, <2>1
  <2>3. \A k \in DOMAIN history : h < k /\ k < w => ~InForce(k)
    BY <1>3, <1>4, <1>7
  <2>4. RestoredEvidence(hung[w], history[h]) = hung[h]
    BY <1>3, <2>1, <2>2, <2>3 DEF BelowEvidence
  <2> QED BY <1>9, <2>1, <2>4
<1>11. BelowEvidence(hung)'
  <2> SUFFICES ASSUME NEW g \in DOMAIN history', NEW h \in DOMAIN history',
                      InForce(g)', InForce(h)', g < h, ~Looped(history'[g]),
                      \A k \in DOMAIN history' : g < k /\ k < h => ~InForce(k)'
               PROVE  RestoredEvidence(hung[h], history'[g]) = hung[g]
    BY DEF BelowEvidence, RestoredEvidence, Looped
  <2>1. /\ g \in DOMAIN history /\ g # w /\ InForce(g) /\ history'[g] = history[g]
        /\ h \in DOMAIN history /\ h # w /\ InForce(h)
    BY <1>4, <1>7
  <2>2. h < w
    BY <1>3, <1>8, <2>1
  <2>3. \A k \in DOMAIN history : g < k /\ k < h => ~InForce(k)
    BY <1>3, <1>4, <1>7, <2>2
  <2>4. RestoredEvidence(hung[h], history[g]) = hung[g]
    BY <2>1, <2>3 DEF BelowEvidence
  <2> QED BY <2>1, <2>4
<1>12. AllCounted(hung)'
  <2>1. CountsOn(rel', evidence')
    BY <1>2, <1>3, <1>9 DEF AllCounted
  <2>2. ASSUME NEW h \in DOMAIN history', InForce(h)'
        PROVE  CountsOn(history'[h].before.rel, hung[h])
    <3>1. h \in DOMAIN history /\ InForce(h) /\ history'[h] = history[h]
      BY <1>4, <1>7, <2>2
    <3> QED BY <3>1 DEF AllCounted
  <2> QED BY <2>1, <2>2 DEF AllCounted, CountsOn, Present
<1> QED BY <1>10, <1>11, <1>12

\* Any number of requests keep the counts on every level.
LEMMA StepCounted ==
  ASSUME UndoInv, Counted, [Next]_vars
  PROVE  Counted'
<1> SUFFICES ASSUME ~disorder', ~overlap', ~LoopRebuilt'
             PROVE  \E hung : TopEvidence(hung)' /\ BelowEvidence(hung)' /\ AllCounted(hung)'
  <2>1. disorder' \in BOOLEAN /\ overlap' \in BOOLEAN
    BY StepUndoInv DEF UndoInv, TablesTyped, TypeOK
  <2> QED BY <2>1 DEF Counted
<1>1. ~LoopRebuilt
  BY LoopStaysRebuilt
<1>2. \/ \E q \in Requests : UndoInTx(q) \/ ExecuteInTx(q)
      \/ UNCHANGED <<tables, history, disorder, overlap>>
  BY DEF Next, CheckMerge, CollectRefs, CollectionTruncated, TxFails, Refuse, CheckUndo, vars, tables, past
<1>3. ~disorder /\ ~overlap
  <2>1. disorder \in BOOLEAN /\ overlap \in BOOLEAN
    BY DEF UndoInv, TablesTyped, TypeOK
  <2>2. ASSUME NEW q \in Requests, UndoInTx(q) PROVE ~disorder /\ ~overlap
    BY <2>1, <2>2 DEF UndoInTx
  <2>3. ASSUME NEW q \in Requests, ExecuteInTx(q) PROVE ~disorder /\ ~overlap
    BY <2>1, <2>3 DEF ExecuteInTx
  <2> QED BY <1>2, <2>2, <2>3
<1>4. PICK hung : TopEvidence(hung) /\ BelowEvidence(hung) /\ AllCounted(hung)
  BY <1>1, <1>3 DEF Counted
<1>5. ASSUME NEW q \in Requests, UndoInTx(q)
      PROVE  \E up : TopEvidence(up)' /\ BelowEvidence(up)' /\ AllCounted(up)'
  BY <1>4, <1>5, UndoCounted
<1>6. ASSUME NEW q \in Requests, ExecuteInTx(q)
      PROVE  \E up : TopEvidence(up)' /\ BelowEvidence(up)' /\ AllCounted(up)'
  BY <1>4, <1>6, MergeCounted
<1>7. CASE UNCHANGED <<tables, history, disorder, overlap>>
  BY <1>4, <1>7, QuietCounted
<1> QED BY <1>2, <1>5, <1>6, <1>7

\* The counts are right to begin with.
LEMMA InitCounted == Init => Counted
<1> SUFFICES ASSUME Init PROVE Counted
  OBVIOUS
<1>1. history = << >> /\ rel = InitialRel /\ evidence = InitialEvidence
  BY DEF Init
<1>2. CountsOn(rel, evidence)
  BY <1>1, MergeAssumption DEF CountsOn, Present
<1>3. TopEvidence(evidence) /\ BelowEvidence(evidence) /\ AllCounted(evidence)
  BY <1>1, <1>2 DEF TopEvidence, BelowEvidence, AllCounted
<1> QED BY <1>3 DEF Counted

\* evidence_count is the number of evidence rows of the relationship, through any
\* chain of merges, absorptions and undos in order, as long as no undo rebuilds a
\* self loop and no request commits on what another has outdated, for any number of
\* relationships and of requests that overlap.
THEOREM CountsAlwaysMatch == Spec => []CountsMatchEvidence
<1>1. Init => UndoInv /\ Counted
  BY InitUndoInv, InitCounted
<1>2. (UndoInv /\ Counted) /\ [Next]_vars => (UndoInv /\ Counted)'
  BY StepUndoInv, StepCounted
<1>3. Counted => CountsMatchEvidence
  BY DEF Counted, AllCounted, CountsOn, CountsMatchEvidence
<1> QED BY <1>1, <1>2, <1>3, PTL DEF Spec

------------------------------------------------------------------------------
(* AutoApproval.  Sessions share the tables and nothing else, and no step      *)
(* takes back a candidate, a confirmation, an answer or a merge record; so     *)
(* the invariant says of each session what its place rests on (Grounds), in    *)
(* terms of these four, and it stays true whatever the others do.              *)

Confirmed == {c \in DOMAIN status : status[c] = "auto_confirmed"}

AutoPairs == {PairAt(i) : i \in Automatic}

GroupRecord == [other : EntityIds, cands : SUBSET Candidates]

ApprovalSession ==
  [pc : {"ready", "persist", "groups", "ask", "answer", "record", "merge", "commit", "mark"},
   todo : Seq(EntityIds), found : SUBSET Candidates, written : SUBSET Candidates,
   groups : SUBSET GroupRecord, verdict : {"yes", "no", "error"},
   group : SUBSET Candidates, count : Nat, settled : SUBSET Pairs]

\* The group in hand, and its pair, of a session's record.
GroupOf(r) == CHOOSE g \in r.groups : \A h \in r.groups : g.other <= h.other

PairIn(r) == {Head(r.todo), GroupOf(r).other}

SameType(p) == \A a, b \in p : TypeOf[a] = TypeOf[b]

\* Candidates of a group are rows about one pair, which was not settled before.
GroupHolds(r, g, S) ==
  /\ g.cands # {} /\ g.cands \subseteq S
  /\ \A c \in g.cands : c.pair = {Head(r.todo), g.other}
  /\ {Head(r.todo), g.other} \notin r.settled

\* What the record r of session s rests on: S are the candidates there are, C the
\* confirmed ones, V the answers, P the pairs merged automatically.
Grounds(s, r, S, C, V, P) ==
  /\ r \in ApprovalSession
  /\ \A c \in Candidates : c.pair \in r.settled => c \in C
  /\ r.pc = "ready" => r.written = {}
  /\ r.pc # "ready" => r.todo # << >>
  /\ r.pc = "persist" =>
       /\ r.found \cup r.written \subseteq FoundFor(Head(r.todo))
       /\ \A c \in r.written : c \in S /\ c.pair \notin r.settled
  /\ r.pc \notin {"ready", "persist"} => \A g \in r.groups : GroupHolds(r, g, S)
  /\ r.pc \in {"ask", "answer", "record", "merge", "commit"} =>
       /\ r.groups # {} /\ SameType(PairIn(r)) /\ r.count < MaxAutoMerges
       /\ Reaches(GroupOf(r).cands, ReviewScore)
  /\ r.pc = "record" => <<<<s, PairIn(r)>>, r.verdict>> \in V
  /\ r.pc \in {"merge", "commit"} =>
       Reaches(GroupOf(r).cands, ConfirmScore) \/ <<<<s, PairIn(r)>>, "yes">> \in V
  /\ r.pc # "mark" => r.group = {}
  /\ r.pc = "mark" => r.groups # {} /\ r.group \subseteq GroupOf(r).cands /\ PairIn(r) \in P

AllGrounds ==
  /\ session = [s \in Sessions |-> session[s]]
  /\ \A s \in Sessions :
       Grounds(s, session[s], DOMAIN status, Confirmed, verdicts, AutoPairs)

MergeRecord ==
  [survivor : EntityIds, merged : EntityIds, cands : SUBSET Candidates, by : Sessions \cup {Unset},
   undone : BOOLEAN]

\* merged_into is what the one merge in force says, but for raced entities.
InForceOnce ==
  /\ merges \in Seq(MergeRecord)
  /\ DOMAIN survivorOf = EntityIds
  /\ \A i, j \in DOMAIN merges :
       /\ ~merges[i].undone /\ ~merges[j].undone
       /\ merges[i].merged = merges[j].merged /\ merges[i].merged \notin raced
       => i = j
  /\ \A i \in DOMAIN merges :
       ~merges[i].undone /\ merges[i].merged \notin raced => survivorOf[merges[i].merged] = merges[i].survivor
  /\ \A e \in EntityIds \ raced :
       survivorOf[e] # Unset => \E i \in DOMAIN merges : merges[i].merged = e /\ ~merges[i].undone

MergesBy(s) == {i \in Automatic : merges[i].by = s}

\* A session's count is its merges, unless it is over.
Limited ==
  \A s \in Sessions :
    /\ Cardinality(MergesBy(s)) <= MaxAutoMerges
    /\ session[s].todo # << >> => session[s].count = Cardinality(MergesBy(s))

Justified ==
  \A i \in Automatic :
    /\ TypeOf[merges[i].survivor] = TypeOf[merges[i].merged]
    /\ \E m \in Matches :
         /\ m.pair = PairAt(i)
         /\ \/ m.score >= ConfirmScore
            \/ m.score >= ReviewScore /\ <<<<merges[i].by, PairAt(i)>>, "yes">> \in verdicts

ConfirmedMerged ==
  /\ DOMAIN status \subseteq Candidates
  /\ \A c \in Confirmed : c.pair \in AutoPairs

\* c is marked, or was left unmarked, or is about to be marked by t.
MarkedOr(c, t) == c \in Confirmed \/ c \in unmarked \/ c \in session[t].group

MergesMarked ==
  \A i \in Automatic :
    /\ merges[i].cands # {}
    /\ \A c \in merges[i].cands :
         c \in DOMAIN status /\ c.pair = PairAt(i) /\ MarkedOr(c, merges[i].by)

\* The answer x is in the hands of a session with record r.
InHand(x, r) == r.pc = "record" /\ x = <<<<x[1][1], PairIn(r)>>, r.verdict>>

Written(x) ==
  \/ x[1] \in unwritten
  \/ x \in aiRuns /\ <<IF x[2] = "error" THEN "failed" ELSE "completed", x[1]>> \in events

AnswersKept ==
  \A x \in verdicts : x[1][1] \in Sessions /\ (InHand(x, session[x[1][1]]) \/ Written(x))

\* The inductive invariant of automatic approval.
ApprovalInv ==
  AllGrounds /\ InForceOnce /\ Limited /\ Justified /\ ConfirmedMerged /\ MergesMarked /\ AnswersKept

\* The least of some ids.
LEMMA LeastId ==
  ASSUME NEW S, S \subseteq Nat, S # {}
  PROVE  \E x \in S : \A y \in S : x <= y
<1>1. PICK R : R = OpToRel(<, Nat)
  OBVIOUS
<1>2. IsWellFoundedOn(R, Nat)
  BY <1>1, NatLessThanWellFounded
<1>3. PICK x \in S : \A y \in S : <<y, x>> \notin R
  BY <1>2, WFMin
<1>4. \A y \in S : ~(y < x)
  BY <1>1, <1>3 DEF OpToRel
<1> QED BY <1>4

LEMMA GroupInHand ==
  ASSUME NEW r, r.groups \subseteq GroupRecord, r.groups # {}
  PROVE  GroupOf(r) \in r.groups
<1>1. PICK S : S = {g.other : g \in r.groups}
  OBVIOUS
<1>2. S \subseteq Nat /\ S # {}
  BY <1>1, ApprovalAssumption DEF GroupRecord
<1>3. PICK x \in S : \A y \in S : x <= y
  BY <1>2, LeastId
<1>4. PICK g \in r.groups : g.other = x
  BY <1>1
<1>5. \A h \in r.groups : g.other <= h.other
  BY <1>1, <1>3, <1>4
<1> QED BY <1>5 DEF GroupOf

\* A candidate is about two entities.
LEMMA OtherEnd ==
  ASSUME NEW c \in Candidates, NEW e \in c.pair
  PROVE  /\ e \in EntityIds /\ Other(e, c) \in EntityIds
         /\ c.pair \in Pairs /\ c.pair = {e, Other(e, c)}
<1>1. c.pair \in Pairs /\ Cardinality(c.pair) = 2
  BY ApprovalAssumption DEF Candidates
<1>2. PICK a \in EntityIds, b \in EntityIds : c.pair = {a, b}
  BY <1>1 DEF Pairs
<1>3. a # b
  <2>1. a = b => Cardinality(c.pair) = 1
    BY <1>2, FS_Singleton
  <2> QED BY <1>1, <2>1
<1>4. Other(e, c) \in c.pair /\ Other(e, c) # e
  BY <1>2, <1>3 DEF Other
<1> QED BY <1>1, <1>2, <1>4

LEMMA ScoreOf ==
  ASSUME NEW c \in Candidates
  PROVE  \E m \in Matches : m.pair = c.pair /\ m.score = Score(c) /\ m.score \in Nat
<1>1. PICK n \in Matches : c = [pair |-> n.pair, method |-> n.method]
  BY DEF Candidates
<1>2. n.pair = c.pair /\ n.method = c.method
  BY <1>1
<1>3. PICK m : m = CHOOSE x \in Matches : x.pair = c.pair /\ x.method = c.method
  OBVIOUS
<1>4. m \in Matches /\ m.pair = c.pair
  BY <1>2, <1>3
<1>5. Score(c) = m.score
  BY <1>3 DEF Score
<1> QED BY <1>4, <1>5, ApprovalAssumption

LEMMA GroundsStay ==
  ASSUME NEW s, NEW r, NEW S, NEW C, NEW V, NEW P, NEW S2, NEW C2, NEW V2, NEW P2,
         S \subseteq S2, C \subseteq C2, V \subseteq V2, P \subseteq P2, Grounds(s, r, S, C, V, P)
  PROVE  Grounds(s, r, S2, C2, V2, P2)
<1>1. ASSUME NEW g, GroupHolds(r, g, S) PROVE GroupHolds(r, g, S2)
  BY <1>1 DEF GroupHolds
<1> QED BY <1>1 DEF Grounds

LEMMA SessionMoves ==
  ASSUME AllGrounds, NEW s \in Sessions, NEW q, session' = [session EXCEPT ![s] = q]
  PROVE  /\ session'[s] = q /\ \A t \in Sessions : t # s => session'[t] = session[t]
         /\ session' = [t \in Sessions |-> session'[t]]
BY DEF AllGrounds

\* No step takes back what a session rests on.
Kept ==
  /\ DOMAIN status \subseteq DOMAIN status' /\ Confirmed \subseteq Confirmed'
  /\ verdicts \subseteq verdicts' /\ AutoPairs \subseteq AutoPairs'

LEMMA GroundsMove ==
  ASSUME AllGrounds, Kept, NEW s \in Sessions, NEW q, session' = [session EXCEPT ![s] = q],
         Grounds(s, q, DOMAIN status', Confirmed', verdicts', AutoPairs')
  PROVE  AllGrounds'
<1>1. /\ session'[s] = q /\ \A t \in Sessions : t # s => session'[t] = session[t]
      /\ session' = [t \in Sessions |-> session'[t]]
  BY SessionMoves
<1>2. ASSUME NEW t \in Sessions
      PROVE  Grounds(t, session'[t], DOMAIN status', Confirmed', verdicts', AutoPairs')
  <2>1. CASE t = s
    BY <1>1, <2>1
  <2>2. CASE t # s
    <3>1. Grounds(t, session[t], DOMAIN status, Confirmed, verdicts, AutoPairs)
      BY DEF AllGrounds
    <3>2. Grounds(t, session[t], DOMAIN status', Confirmed', verdicts', AutoPairs')
      BY <3>1, GroundsStay DEF Kept
    <3> QED BY <1>1, <2>2, <3>2
  <2> QED BY <2>1, <2>2
<1> QED BY <1>1, <1>2 DEF AllGrounds

\* A step that records no merge.
LEMMA NoMerge ==
  ASSUME UNCHANGED merges
  PROVE  Automatic' = Automatic /\ AutoPairs' = AutoPairs /\ \A s : MergesBy(s)' = MergesBy(s)
BY DEF Automatic, AutoPairs, PairAt, MergesBy

LEMMA MergeTyped ==
  ASSUME InForceOnce, NEW i \in DOMAIN merges
  PROVE  /\ merges[i] \in MergeRecord /\ i \in 1 .. Len(merges) /\ Len(merges) \in Nat
         /\ merges[i].survivor \in EntityIds /\ merges[i].merged \in EntityIds
         /\ i \in Automatic => merges[i].by \in Sessions
<1>1. PICK R, m : R = MergeRecord /\ m = merges
  OBVIOUS
<1>2. m \in Seq(R) /\ i \in DOMAIN m
  BY <1>1 DEF InForceOnce
<1>3. m[i] \in R /\ i \in 1 .. Len(m) /\ Len(m) \in Nat
  BY <1>2
<1>4. PICK x \in MergeRecord : x = merges[i]
  BY <1>1, <1>3
<1> QED BY <1>1, <1>3, <1>4 DEF MergeRecord, Automatic

\* A step of one session that records no merge.
LEMMA SessionInv ==
  ASSUME ApprovalInv, UNCHANGED <<merges, survivorOf, raced>>, NEW s \in Sessions, NEW q,
         session' = [session EXCEPT ![s] = q], Kept,
         Grounds(s, q, DOMAIN status', Confirmed', verdicts', AutoPairs'),
         q.todo # << >> => session[s].todo # << >> /\ q.count = session[s].count,
         session[s].group \subseteq q.group \cup Confirmed' \cup unmarked', unmarked \subseteq unmarked',
         ConfirmedMerged', AnswersKept'
  PROVE  ApprovalInv'
<1>1. /\ session'[s] = q /\ \A t \in Sessions : t # s => session'[t] = session[t]
  BY SessionMoves DEF ApprovalInv
<1>2. Automatic' = Automatic /\ AutoPairs' = AutoPairs /\ \A t : MergesBy(t)' = MergesBy(t)
  BY NoMerge
<1>3. AllGrounds'
  BY GroundsMove DEF ApprovalInv
<1>4. InForceOnce'
  BY DEF ApprovalInv, InForceOnce
<1>5. Limited'
  <2>1. ASSUME NEW t \in Sessions
        PROVE  /\ Cardinality(MergesBy(t)') <= MaxAutoMerges
               /\ session'[t].todo # << >> => session'[t].count = Cardinality(MergesBy(t)')
    BY <1>1, <1>2 DEF ApprovalInv, Limited
  <2> QED BY <2>1 DEF Limited
<1>6. Justified'
  <2>1. ASSUME NEW i \in Automatic'
        PROVE  /\ TypeOf[merges'[i].survivor] = TypeOf[merges'[i].merged]
               /\ \E m \in Matches :
                    /\ m.pair = PairAt(i)'
                    /\ \/ m.score >= ConfirmScore
                       \/ m.score >= ReviewScore /\ <<<<merges'[i].by, PairAt(i)'>>, "yes">> \in verdicts'
    BY <1>2 DEF ApprovalInv, Justified, Kept, PairAt
  <2> QED BY <2>1 DEF Justified
<1>7. MergesMarked'
  <2>1. ASSUME NEW i \in Automatic, NEW c \in merges[i].cands
        PROVE  c \in DOMAIN status' /\ c.pair = PairAt(i) /\ MarkedOr(c, merges[i].by)'
    <3>1. c \in DOMAIN status /\ c.pair = PairAt(i) /\ MarkedOr(c, merges[i].by)
      BY DEF ApprovalInv, MergesMarked
    <3>2. merges[i].by \in Sessions
      BY MergeTyped DEF ApprovalInv, Automatic
    <3>3. MarkedOr(c, merges[i].by)'
      BY <1>1, <3>1, <3>2 DEF Kept, MarkedOr
    <3> QED BY <3>1, <3>3 DEF Kept
  <2>2. \A i \in Automatic : merges[i].cands # {}
    BY DEF ApprovalInv, MergesMarked
  <2> QED BY <1>2, <2>1, <2>2 DEF MergesMarked, PairAt
<1> QED BY <1>3, <1>4, <1>5, <1>6, <1>7 DEF ApprovalInv

\* What a session that holds no answer does leaves the answers kept.
LEMMA AnswersStay ==
  ASSUME AllGrounds, AnswersKept, NEW s \in Sessions, NEW q, session' = [session EXCEPT ![s] = q],
         session[s].pc # "record", UNCHANGED verdicts, unwritten \subseteq unwritten',
         aiRuns \subseteq aiRuns', events \subseteq events'
  PROVE  AnswersKept'
<1>1. \A t \in Sessions : t # s => session'[t] = session[t]
  BY SessionMoves
<1>2. ASSUME NEW x \in verdicts
      PROVE  x[1][1] \in Sessions /\ (InHand(x, session'[x[1][1]]) \/ Written(x)')
  <2>1. x[1][1] \in Sessions /\ (InHand(x, session[x[1][1]]) \/ Written(x))
    BY DEF AnswersKept
  <2>2. InHand(x, session[x[1][1]]) => x[1][1] # s
    BY DEF InHand
  <2>3. Written(x) => Written(x)'
    BY DEF Written
  <2> QED BY <1>1, <2>1, <2>2, <2>3
<1> QED BY <1>2 DEF AnswersKept

\* ... and writes to no table.
LEMMA PlainSession ==
  ASSUME ApprovalInv, UNCHANGED <<merges, survivorOf, raced, status, verdicts, unmarked, unwritten>>,
         aiRuns \subseteq aiRuns', events \subseteq events',
         NEW s \in Sessions, NEW q, session' = [session EXCEPT ![s] = q],
         Grounds(s, q, DOMAIN status, Confirmed, verdicts, AutoPairs),
         q.todo # << >> => session[s].todo # << >> /\ q.count = session[s].count,
         session[s].group \subseteq q.group, session[s].pc # "record"
  PROVE  ApprovalInv'
<1>1. AutoPairs' = AutoPairs /\ Confirmed' = Confirmed
  BY NoMerge DEF Confirmed
<1>2. Kept
  BY <1>1 DEF Kept
<1>3. ConfirmedMerged'
  BY <1>1 DEF ApprovalInv, ConfirmedMerged
<1>4. AnswersKept'
  BY AnswersStay DEF ApprovalInv
<1>5. Grounds(s, q, DOMAIN status', Confirmed', verdicts', AutoPairs')
  BY <1>1
<1>6. session[s].group \subseteq q.group \cup Confirmed' \cup unmarked' /\ unmarked \subseteq unmarked'
  OBVIOUS
<1> QED BY <1>2, <1>3, <1>4, <1>5, <1>6, SessionInv

LEMMA SessionAt ==
  ASSUME ApprovalInv, NEW s \in Sessions, NEW r, r = session[s]
  PROVE  /\ Grounds(s, r, DOMAIN status, Confirmed, verdicts, AutoPairs) /\ r \in ApprovalSession
         /\ Entity(s) = Head(r.todo) /\ Group(s) = GroupOf(r) /\ PairOf(s) = PairIn(r)
<1>1. Grounds(s, r, DOMAIN status, Confirmed, verdicts, AutoPairs)
  BY DEF ApprovalInv, AllGrounds
<1>2. r \in ApprovalSession
  BY <1>1 DEF Grounds
<1>3. Entity(s) = Head(r.todo) /\ Group(s) = GroupOf(r)
  BY DEF Entity, Group, GroupOf
<1> QED BY <1>1, <1>2, <1>3 DEF PairOf, PairIn

LEMMA ResolveInv ==
  ASSUME ApprovalInv, NEW s \in Sessions, Resolve(s)
  PROVE  ApprovalInv'
<1>1. PICK r : r = session[s]
  OBVIOUS
<1>2. PICK S, C, V, P : S = DOMAIN status /\ C = Confirmed /\ V = verdicts /\ P = AutoPairs
  OBVIOUS
<1>3. Grounds(s, r, S, C, V, P) /\ r \in ApprovalSession /\ Entity(s) = Head(r.todo)
  BY <1>1, <1>2, SessionAt
<1>4. r.pc = "ready" /\ r.todo # << >>
  BY <1>1 DEF Resolve
<1>5. PICK F : F = FoundFor(Head(r.todo))
  OBVIOUS
<1>6. PICK q : q = [r EXCEPT !.pc = "persist", !.found = F, !.settled = Settled]
  OBVIOUS
<1>7. session' = [session EXCEPT ![s] = q]
  BY <1>1, <1>3, <1>5, <1>6 DEF Resolve
<1>8. Settled \subseteq Pairs /\ F \subseteq Candidates /\ \A c \in Candidates : c.pair \in Settled => c \in C
  BY <1>2, <1>5 DEF Settled, FoundFor, Confirmed
<1>9. /\ q \in ApprovalSession /\ q.pc = "persist" /\ q.found = F /\ q.settled = Settled
      /\ q.todo = r.todo /\ q.written = r.written /\ q.group = r.group /\ q.count = r.count
  BY <1>3, <1>6, <1>8 DEF ApprovalSession
<1>10. r.written = {} /\ r.group = {}
  BY <1>3, <1>4 DEF Grounds
<1>11. Grounds(s, q, S, C, V, P)
  BY <1>4, <1>5, <1>8, <1>9, <1>10 DEF Grounds
<1>12. UNCHANGED <<merges, survivorOf, raced, status, verdicts, unmarked, unwritten, aiRuns, events>>
  BY DEF Resolve, told
<1> QED BY <1>1, <1>2, <1>4, <1>7, <1>9, <1>11, <1>12, PlainSession

LEMMA PersistInv ==
  ASSUME ApprovalInv, NEW s \in Sessions, NEW c \in session[s].found, PersistNext(s, c)
  PROVE  ApprovalInv'
<1>1. PICK r : r = session[s]
  OBVIOUS
<1>2. PICK S, C, V, P : S = DOMAIN status /\ C = Confirmed /\ V = verdicts /\ P = AutoPairs
  OBVIOUS
<1>3. Grounds(s, r, S, C, V, P) /\ r \in ApprovalSession
  BY <1>1, <1>2, SessionAt
<1>4. r.pc = "persist"
  BY <1>1 DEF PersistNext
<1>5. PICK W : W = IF s \in Imports \/ c \in S THEN r.written ELSE r.written \cup {c}
  OBVIOUS
<1>6. PICK q : q = [r EXCEPT !.found = r.found \ {c}, !.written = W]
  OBVIOUS
<1>7. session' = [session EXCEPT ![s] = q]
  BY <1>1, <1>2, <1>5, <1>6 DEF PersistNext
<1>8. c \in FoundFor(Head(r.todo)) /\ c \in Candidates /\ (c \notin S => c.pair \notin r.settled)
  BY <1>1, <1>2, <1>3, <1>4 DEF Grounds, FoundFor, Confirmed
<1>9. W \subseteq Candidates
  BY <1>3, <1>5, <1>8 DEF ApprovalSession
<1>10. /\ q \in ApprovalSession /\ q.pc = "persist" /\ q.found = r.found \ {c} /\ q.settled = r.settled
       /\ q.todo = r.todo /\ q.written = W /\ q.group = r.group /\ q.count = r.count
  BY <1>3, <1>4, <1>6, <1>9 DEF ApprovalSession
<1>11. /\ DOMAIN status' = S \cup {c}
       /\ \A d \in S : status'[d] = status[d]
       /\ c \notin S => status'[c] = "pending"
  BY <1>2 DEF PersistNext, Persist
<1>12. Confirmed' = C
  BY <1>2, <1>11 DEF Confirmed
<1>13. Grounds(s, q, S \cup {c}, C, V, P)
  <2>1. /\ r.found \cup r.written \subseteq FoundFor(Head(r.todo)) /\ r.todo # << >> /\ r.group = {}
        /\ \A d \in r.written : d \in S /\ d.pair \notin r.settled
        /\ \A d \in Candidates : d.pair \in r.settled => d \in C
    BY <1>3, <1>4 DEF Grounds
  <2> QED BY <1>4, <1>5, <1>8, <1>10, <2>1 DEF Grounds
<1>14. UNCHANGED <<merges, survivorOf, raced, verdicts, unmarked, unwritten, aiRuns, events>>
  BY DEF PersistNext, told
<1>15. AutoPairs' = AutoPairs
  BY <1>14, NoMerge
<1>16. Kept
  BY <1>2, <1>11, <1>12, <1>14, <1>15 DEF Kept
<1>17. ConfirmedMerged'
  BY <1>2, <1>8, <1>11, <1>12, <1>15 DEF ApprovalInv, ConfirmedMerged
<1>18. AnswersKept'
  BY <1>1, <1>4, <1>7, <1>14, AnswersStay DEF ApprovalInv
<1>19. Grounds(s, q, DOMAIN status', Confirmed', verdicts', AutoPairs')
  BY <1>2, <1>11, <1>12, <1>13, <1>14, <1>15
<1>20. r.todo # << >>
  BY <1>3, <1>4 DEF Grounds
<1> QED BY <1>1, <1>7, <1>10, <1>14, <1>16, <1>17, <1>18, <1>19, <1>20, SessionInv

\* The next entity of the session, if there is one.
LEMMA NextEntityInv ==
  ASSUME ApprovalInv, NEW s \in Sessions, session[s].pc \in {"persist", "groups"}, NextEntity(s),
         UNCHANGED <<merges, survivorOf, raced, status, verdicts, unmarked, unwritten, aiRuns, events>>
  PROVE  ApprovalInv'
<1>1. PICK r : r = session[s]
  OBVIOUS
<1>2. PICK S, C, V, P : S = DOMAIN status /\ C = Confirmed /\ V = verdicts /\ P = AutoPairs
  OBVIOUS
<1>3. Grounds(s, r, S, C, V, P) /\ r \in ApprovalSession
  BY <1>1, <1>2, SessionAt
<1>4. r.todo # << >> /\ r.group = {} /\ \A c \in Candidates : c.pair \in r.settled => c \in C
  BY <1>1, <1>3 DEF Grounds
<1>5. PICK t : t = Tail(r.todo)
  OBVIOUS
<1>6. t \in Seq(EntityIds)
  BY <1>3, <1>4, <1>5 DEF ApprovalSession
<1>7. PICK q : q = [r EXCEPT !.pc = "ready", !.todo = t, !.found = {}, !.written = {}]
  OBVIOUS
<1>8. session' = [session EXCEPT ![s] = q]
  BY <1>1, <1>5, <1>7 DEF NextEntity
<1>9. /\ q \in ApprovalSession /\ q.pc = "ready" /\ q.settled = r.settled /\ q.written = {}
      /\ q.group = r.group /\ q.count = r.count
  BY <1>3, <1>6, <1>7 DEF ApprovalSession
<1>10. Grounds(s, q, S, C, V, P)
  BY <1>4, <1>9 DEF Grounds
<1> QED BY <1>1, <1>2, <1>4, <1>8, <1>9, <1>10, PlainSession

LEMMA ResolveErrInv ==
  ASSUME ApprovalInv, NEW s \in Sessions, ResolveErr(s) \/ ListErr(s) \/ GroupsDone(s)
  PROVE  ApprovalInv'
<1>1. /\ session[s].pc \in {"persist", "groups"} /\ NextEntity(s)
      /\ UNCHANGED <<merges, survivorOf, raced, status, verdicts, unmarked, unwritten, aiRuns, events>>
  BY DEF ResolveErr, ListErr, GroupsDone, told
<1> QED BY <1>1, NextEntityInv

LEMMA ListInv ==
  ASSUME ApprovalInv, NEW s \in Sessions, List(s)
  PROVE  ApprovalInv'
<1>1. PICK r : r = session[s]
  OBVIOUS
<1>2. PICK S, C, V, P : S = DOMAIN status /\ C = Confirmed /\ V = verdicts /\ P = AutoPairs
  OBVIOUS
<1>3. Grounds(s, r, S, C, V, P) /\ r \in ApprovalSession /\ Entity(s) = Head(r.todo)
  BY <1>1, <1>2, SessionAt
<1>4. r.pc = "persist"
  BY <1>1 DEF List
<1>5. PICK e : e = Head(r.todo)
  OBVIOUS
<1>6. PICK D : D = Pending(e) \cup r.written
  OBVIOUS
<1>7. PICK G : G = Groups(e, D)
  OBVIOUS
<1>8. PICK q : q = [r EXCEPT !.pc = "groups", !.groups = G]
  OBVIOUS
<1>9. session' = [session EXCEPT ![s] = q]
  BY <1>1, <1>3, <1>5, <1>6, <1>7, <1>8 DEF List
<1>10. ASSUME NEW c \in D
       PROVE  c \in S /\ c \in Candidates /\ e \in c.pair /\ c.pair \notin r.settled
  <2>1. DOMAIN status \subseteq Candidates
    BY DEF ApprovalInv, ConfirmedMerged
  <2>2. CASE c \in Pending(e)
    <3>1. c \in S /\ e \in c.pair /\ c \notin C
      BY <1>2, <2>2 DEF Pending, Confirmed
    <3> QED BY <1>2, <1>3, <2>1, <3>1 DEF Grounds
  <2>3. CASE c \in r.written
    <3>1. c \in FoundFor(e) /\ c \in S /\ c.pair \notin r.settled
      BY <1>3, <1>4, <1>5, <2>3 DEF Grounds
    <3> QED BY <3>1 DEF FoundFor
  <2> QED BY <1>6, <2>2, <2>3
<1>11. ASSUME NEW g \in G PROVE g \in GroupRecord /\ GroupHolds(r, g, S)
  <2>1. PICK c \in D : g = [other |-> Other(e, c), cands |-> {d \in D : Other(e, d) = Other(e, c)}]
    BY <1>7 DEF Groups
  <2>2. /\ g.other = Other(e, c) /\ g.cands = {d \in D : Other(e, d) = Other(e, c)}
        /\ g.other \in EntityIds /\ c \in g.cands
    BY <1>10, <2>1, OtherEnd
  <2>3. g.cands \subseteq S /\ g.cands \subseteq Candidates
    BY <1>10, <2>2
  <2>4. g \in GroupRecord
    BY <2>1, <2>2, <2>3 DEF GroupRecord
  <2>5. \A d \in g.cands : d.pair = {e, g.other} /\ d.pair \notin r.settled
    BY <1>10, <2>2, OtherEnd
  <2> QED BY <1>5, <2>2, <2>3, <2>4, <2>5 DEF GroupHolds
<1>12. /\ q \in ApprovalSession /\ q.pc = "groups" /\ q.groups = G /\ q.settled = r.settled
       /\ q.todo = r.todo /\ q.group = r.group /\ q.count = r.count
  BY <1>3, <1>8, <1>11 DEF ApprovalSession
<1>13. \A g \in q.groups : GroupHolds(q, g, S)
  BY <1>11, <1>12 DEF GroupHolds
<1>14. r.todo # << >> /\ r.group = {} /\ \A c \in Candidates : c.pair \in r.settled => c \in C
  BY <1>3, <1>4 DEF Grounds
<1>15. Grounds(s, q, S, C, V, P)
  BY <1>12, <1>13, <1>14 DEF Grounds
<1>16. UNCHANGED <<merges, survivorOf, raced, status, verdicts, unmarked, unwritten, aiRuns, events>>
  BY DEF List, told
<1> QED BY <1>1, <1>2, <1>4, <1>9, <1>12, <1>14, <1>15, <1>16, PlainSession

\* A session that is through with a group.
WithoutGroup(r) == [r EXCEPT !.pc = "groups", !.groups = r.groups \ {GroupOf(r)}]

Listed(r) == r.pc \notin {"ready", "persist"} /\ r.group = {}

LEMMA NextGroupWorks ==
  ASSUME NEW s, NEW r, NEW S, NEW C, NEW V, NEW P, Grounds(s, r, S, C, V, P), Listed(r),
         NEW q, q = WithoutGroup(r)
  PROVE  /\ Grounds(s, q, S, C, V, P)
         /\ q.todo = r.todo /\ r.todo # << >> /\ q.count = r.count /\ q.group = {}
<1>1. r \in ApprovalSession /\ r.todo # << >> /\ r.group = {} /\ r.pc \notin {"ready", "persist"}
  BY DEF Grounds, Listed
<1>2. /\ q \in ApprovalSession /\ q.pc = "groups" /\ q.groups = r.groups \ {GroupOf(r)}
      /\ q.settled = r.settled /\ q.todo = r.todo /\ q.group = r.group /\ q.count = r.count
  BY <1>1 DEF ApprovalSession, WithoutGroup
<1>3. \A g \in q.groups : GroupHolds(q, g, S)
  <2>1. ASSUME NEW g \in q.groups PROVE GroupHolds(q, g, S)
    <3>1. GroupHolds(r, g, S)
      BY <1>1, <1>2 DEF Grounds
    <3> QED BY <1>2, <3>1 DEF GroupHolds
  <2> QED BY <2>1
<1>4. \A c \in Candidates : c.pair \in r.settled => c \in C
  BY DEF Grounds
<1> QED BY <1>1, <1>2, <1>3, <1>4 DEF Grounds

LEMMA NextGroupMoves ==
  ASSUME NEW s \in Sessions, NEW r, r = session[s], NextGroup(s)
  PROVE  session' = [session EXCEPT ![s] = WithoutGroup(r)]
BY DEF NextGroup, Group, GroupOf, WithoutGroup

LEMMA NextGroupInv ==
  ASSUME ApprovalInv, NEW s \in Sessions, Listed(session[s]), session[s].pc # "record", NextGroup(s),
         UNCHANGED <<merges, survivorOf, raced, status, verdicts, unmarked, unwritten, aiRuns, events>>
  PROVE  ApprovalInv'
<1>1. PICK r : r = session[s]
  OBVIOUS
<1>2. PICK S, C, V, P : S = DOMAIN status /\ C = Confirmed /\ V = verdicts /\ P = AutoPairs
  OBVIOUS
<1>3. Grounds(s, r, S, C, V, P)
  BY <1>1, <1>2, SessionAt
<1>4. PICK q : q = WithoutGroup(r)
  OBVIOUS
<1>5. session' = [session EXCEPT ![s] = q]
  BY <1>1, <1>4, NextGroupMoves
<1>6. /\ Grounds(s, q, S, C, V, P)
      /\ q.todo = r.todo /\ r.todo # << >> /\ q.count = r.count /\ q.group = {}
  BY <1>1, <1>3, <1>4, NextGroupWorks
<1>7. session[s].group = {}
  BY DEF Listed
<1> QED BY <1>1, <1>2, <1>5, <1>6, <1>7, PlainSession

\* The steps after which the pair stays pending.
LEMMA SkippedInv ==
  ASSUME ApprovalInv, NEW s \in Sessions, EvaluateErr(s) \/ AutoMergeErr(s) \/ Marked(s)
  PROVE  ApprovalInv'
<1>1. /\ session[s].pc \notin {"ready", "persist", "record"} /\ NextGroup(s)
      /\ UNCHANGED <<merges, survivorOf, raced, status, verdicts, unmarked, unwritten, aiRuns, events>>
      /\ session[s].pc # "mark" \/ session[s].group = {}
  BY DEF EvaluateErr, AutoMergeErr, Marked, told
<1>2. session[s].group = {}
  <2>1. PICK r : r = session[s]
    OBVIOUS
  <2>2. Grounds(s, r, DOMAIN status, Confirmed, verdicts, AutoPairs)
    BY <2>1, SessionAt
  <2> QED BY <1>1, <2>1, <2>2 DEF Grounds
<1>3. Listed(session[s])
  BY <1>1, <1>2 DEF Listed
<1> QED BY <1>1, <1>3, NextGroupInv

\* A session moves on with its group, to where the group's candidates or the answer
\* allow it to be.
Choosing(r) ==
  /\ r.pc \in {"groups", "ask", "answer", "record", "merge"} /\ r.groups # {} /\ SameType(PairIn(r))
  /\ r.count < MaxAutoMerges /\ Reaches(GroupOf(r).cands, ReviewScore)

MayGo(s, r, p, V) ==
  /\ p \in {"ask", "answer", "merge", "commit"}
  /\ p \in {"merge", "commit"} =>
       Reaches(GroupOf(r).cands, ConfirmScore) \/ <<<<s, PairIn(r)>>, "yes">> \in V

At(r, p) == [r EXCEPT !.pc = p]

LEMMA GotoWorks ==
  ASSUME NEW s, NEW r, NEW S, NEW C, NEW V, NEW P, Grounds(s, r, S, C, V, P), Choosing(r),
         NEW p, MayGo(s, r, p, V), NEW q, q = At(r, p)
  PROVE  /\ Grounds(s, q, S, C, V, P)
         /\ q.todo = r.todo /\ r.todo # << >> /\ q.count = r.count /\ q.group = r.group
<1>1. r \in ApprovalSession /\ r.todo # << >> /\ r.group = {} /\ r.pc \notin {"ready", "persist"}
  BY DEF Grounds, Choosing
<1>2. /\ q \in ApprovalSession /\ q.pc = p /\ q.groups = r.groups
      /\ q.settled = r.settled /\ q.todo = r.todo /\ q.group = r.group /\ q.count = r.count
  BY <1>1 DEF ApprovalSession, At, MayGo
<1>3. GroupOf(q) = GroupOf(r) /\ PairIn(q) = PairIn(r)
  BY <1>2 DEF GroupOf, PairIn
<1>4. \A g \in q.groups : GroupHolds(q, g, S)
  <2>1. ASSUME NEW g \in q.groups PROVE GroupHolds(q, g, S)
    <3>1. GroupHolds(r, g, S)
      BY <1>1, <1>2 DEF Grounds
    <3> QED BY <1>2, <3>1 DEF GroupHolds
  <2> QED BY <2>1
<1>5. \A c \in Candidates : c.pair \in r.settled => c \in C
  BY DEF Grounds
<1> QED BY <1>1, <1>2, <1>3, <1>4, <1>5 DEF Grounds, Choosing, MayGo

LEMMA EvaluateInv ==
  ASSUME ApprovalInv, NEW s \in Sessions, EvaluatePair(s)
  PROVE  ApprovalInv'
<1>1. PICK r : r = session[s]
  OBVIOUS
<1>2. PICK S, C, V, P : S = DOMAIN status /\ C = Confirmed /\ V = verdicts /\ P = AutoPairs
  OBVIOUS
<1>3. /\ Grounds(s, r, S, C, V, P) /\ r \in ApprovalSession /\ Group(s) = GroupOf(r)
      /\ PairOf(s) = PairIn(r)
  BY <1>1, <1>2, SessionAt
<1>4. r.pc = "groups" /\ r.groups # {} /\ r.count < MaxAutoMerges /\ r.group = {}
  BY <1>1, <1>3 DEF EvaluatePair, Grounds
<1>5. UNCHANGED <<merges, survivorOf, raced, status, verdicts, unmarked, unwritten, aiRuns, events>>
  BY DEF EvaluatePair, told
<1>6. PICK d : d = Decide(GroupOf(r).cands, PairIn(r))
  OBVIOUS
<1>7. IF d = "pending" THEN NextGroup(s) ELSE Goto(s, d)
  BY <1>3, <1>6 DEF EvaluatePair
<1>8. CASE d = "pending"
  <2>1. Listed(session[s])
    BY <1>1, <1>4 DEF Listed
  <2> QED BY <1>1, <1>4, <1>5, <1>7, <1>8, <2>1, NextGroupInv
<1>9. CASE d # "pending"
  <2>1. /\ d \in {"merge", "ask"} /\ Reaches(GroupOf(r).cands, ReviewScore) /\ SameType(PairIn(r))
        /\ d = "merge" => Reaches(GroupOf(r).cands, ConfirmScore)
    BY <1>6, <1>9 DEF Decide, SameType
  <2>5. Choosing(r) /\ MayGo(s, r, d, V)
    BY <1>4, <2>1 DEF Choosing, MayGo
  <2>2. PICK q : q = At(r, d)
    OBVIOUS
  <2>3. session' = [session EXCEPT ![s] = q]
    BY <1>1, <1>7, <1>9, <2>2 DEF Goto, At
  <2>4. /\ Grounds(s, q, S, C, V, P)
        /\ q.todo = r.todo /\ r.todo # << >> /\ q.count = r.count /\ q.group = r.group
    BY <1>3, <2>2, <2>5, GotoWorks
  <2> QED BY <1>1, <1>2, <1>4, <1>5, <2>3, <2>4, PlainSession
<1> QED BY <1>8, <1>9

LEMMA AskInv ==
  ASSUME ApprovalInv, NEW s \in Sessions, Ask(s)
  PROVE  ApprovalInv'
<1>1. PICK r : r = session[s]
  OBVIOUS
<1>2. PICK S, C, V, P : S = DOMAIN status /\ C = Confirmed /\ V = verdicts /\ P = AutoPairs
  OBVIOUS
<1>3. Grounds(s, r, S, C, V, P) /\ r.pc = "ask"
  BY <1>1, <1>2, SessionAt DEF Ask
<1>4. Choosing(r) /\ MayGo(s, r, "answer", V)
  BY <1>3 DEF Grounds, Choosing, MayGo
<1>5. PICK q : q = At(r, "answer")
  OBVIOUS
<1>6. session' = [session EXCEPT ![s] = q]
  BY <1>1, <1>5 DEF Ask, Goto, At
<1>7. /\ Grounds(s, q, S, C, V, P)
      /\ q.todo = r.todo /\ r.todo # << >> /\ q.count = r.count /\ q.group = r.group
  BY <1>3, <1>4, <1>5, GotoWorks
<1>8. UNCHANGED <<merges, survivorOf, raced, status, verdicts, unmarked, unwritten, aiRuns>> /\ events \subseteq events'
  BY DEF Ask
<1> QED BY <1>1, <1>2, <1>3, <1>6, <1>7, <1>8, PlainSession

LEMMA AnsweredInv ==
  ASSUME ApprovalInv, NEW s \in Sessions, NEW v \in {"yes", "no", "error"}, Answered(s, v)
  PROVE  ApprovalInv'
<1>1. PICK r : r = session[s]
  OBVIOUS
<1>2. PICK S, C, P, V2 : S = DOMAIN status /\ C = Confirmed /\ P = AutoPairs /\ V2 = verdicts'
  OBVIOUS
<1>3. PICK a : a = <<Call(s), v>>
  OBVIOUS
<1>5. /\ Grounds(s, r, S, C, verdicts, P) /\ r \in ApprovalSession /\ r.pc = "answer"
      /\ PairOf(s) = PairIn(r)
  BY <1>1, <1>2, SessionAt DEF Answered
<1>4. /\ V2 = verdicts \cup {a} /\ a = <<<<s, PairIn(r)>>, v>> /\ a[1] = <<s, PairIn(r)>>
      /\ a[2] = v /\ a[1][1] = s
  BY <1>2, <1>3, <1>5 DEF Answered, Call
<1>6. Grounds(s, r, S, C, V2, P)
  BY <1>4, <1>5, GroundsStay
<1>7. Choosing(r) /\ r.todo # << >> /\ r.group = {}
  BY <1>5 DEF Grounds, Choosing
<1>8. PICK q : q = [r EXCEPT !.pc = "record", !.verdict = v]
  OBVIOUS
<1>9. session' = [session EXCEPT ![s] = q]
  BY <1>1, <1>8 DEF Answered
<1>10. /\ q \in ApprovalSession /\ q.pc = "record" /\ q.verdict = v /\ q.groups = r.groups
       /\ q.settled = r.settled /\ q.todo = r.todo /\ q.group = r.group /\ q.count = r.count
  BY <1>5, <1>8 DEF ApprovalSession
<1>11. GroupOf(q) = GroupOf(r) /\ PairIn(q) = PairIn(r)
  BY <1>10 DEF GroupOf, PairIn
<1>12. Grounds(s, q, S, C, V2, P)
  <2>1. \A g \in q.groups : GroupHolds(q, g, S)
    <3>1. ASSUME NEW g \in q.groups PROVE GroupHolds(q, g, S)
      <4>1. GroupHolds(r, g, S)
        BY <1>5, <1>10 DEF Grounds
      <4> QED BY <1>10, <4>1 DEF GroupHolds
    <3> QED BY <3>1
  <2>2. \A c \in Candidates : c.pair \in r.settled => c \in C
    BY <1>5 DEF Grounds
  <2>3. <<<<s, PairIn(q)>>, q.verdict>> \in V2
    BY <1>4, <1>10, <1>11
  <2> QED BY <1>7, <1>10, <1>11, <2>1, <2>2, <2>3 DEF Grounds, Choosing
<1>13. UNCHANGED <<merges, survivorOf, raced, status, unmarked, unwritten, aiRuns, events>>
  BY DEF Answered
<1>14. AutoPairs' = P /\ Confirmed' = C
  BY <1>2, <1>13, NoMerge DEF Confirmed
<1>15. Kept
  BY <1>2, <1>4, <1>13, <1>14 DEF Kept
<1>16. ConfirmedMerged'
  BY <1>2, <1>13, <1>14 DEF ApprovalInv, ConfirmedMerged
<1>17. AnswersKept'
  <2>1. session'[s] = q /\ \A t \in Sessions : t # s => session'[t] = session[t]
    BY <1>9, SessionMoves DEF ApprovalInv
  <2>2. ASSUME NEW x \in verdicts'
        PROVE  x[1][1] \in Sessions /\ (InHand(x, session'[x[1][1]]) \/ Written(x)')
    <3>1. CASE x = a
      <4>1. InHand(x, q)
        BY <1>4, <1>10, <1>11, <3>1 DEF InHand
      <4> QED BY <1>4, <2>1, <3>1, <4>1
    <3>2. CASE x \in verdicts
      <4>1. x[1][1] \in Sessions /\ (InHand(x, session[x[1][1]]) \/ Written(x))
        BY <3>2 DEF ApprovalInv, AnswersKept
      <4>2. InHand(x, session[x[1][1]]) => x[1][1] # s
        BY <1>1, <1>5 DEF InHand
      <4>3. Written(x) => Written(x)'
        BY <1>13 DEF Written
      <4> QED BY <2>1, <4>1, <4>2, <4>3
    <3> QED BY <1>2, <1>4, <3>1, <3>2
  <2> QED BY <2>2 DEF AnswersKept
<1>18. Grounds(s, q, DOMAIN status', Confirmed', verdicts', AutoPairs')
  BY <1>2, <1>12, <1>13, <1>14
<1>19. session[s].group \subseteq q.group \cup Confirmed' \cup unmarked' /\ unmarked \subseteq unmarked'
  BY <1>1, <1>10, <1>13
<1> QED BY <1>1, <1>7, <1>9, <1>10, <1>13, <1>15, <1>16, <1>17, <1>18, <1>19, SessionInv

\* persist_ai_run ends with the row, or with an error on record.
LEMMA AnswerRecordedInv ==
  ASSUME ApprovalInv, NEW s \in Sessions, AnswerRecorded(s)
  PROVE  ApprovalInv'
<1>1. PICK r : r = session[s]
  OBVIOUS
<1>2. PICK S, C, P, V : S = DOMAIN status /\ C = Confirmed /\ P = AutoPairs /\ V = verdicts
  OBVIOUS
<1>3. /\ Grounds(s, r, S, C, V, P) /\ r \in ApprovalSession /\ r.pc = "record"
      /\ PairOf(s) = PairIn(r)
  BY <1>1, <1>2, SessionAt DEF AnswerRecorded
<1>4. PICK v : v = r.verdict
  OBVIOUS
<1>5. /\ Listed(r) /\ Choosing(r) /\ <<<<s, PairIn(r)>>, v>> \in V
      /\ Call(s) = <<s, PairIn(r)>>
  BY <1>3, <1>4 DEF Grounds, Listed, Choosing, Call
<1>6. PICK q : q = IF v = "yes" THEN At(r, "merge") ELSE WithoutGroup(r)
  OBVIOUS
<1>7. session' = [session EXCEPT ![s] = q]
  <2>1. CASE v = "yes"
    BY <1>1, <1>4, <1>6, <2>1 DEF AnswerRecorded, Goto, At
  <2>2. CASE v # "yes"
    BY <1>1, <1>4, <1>6, <2>2, NextGroupMoves DEF AnswerRecorded
  <2> QED BY <2>1, <2>2
<1>8. /\ Grounds(s, q, S, C, V, P)
      /\ q.todo = r.todo /\ r.todo # << >> /\ q.count = r.count /\ r.group = {}
  <2>0. Grounds(s, r, S, C, V, P) /\ Listed(r)
    BY <1>3, <1>5
  <2>1. CASE v = "yes"
    <3>1. MayGo(s, r, "merge", V)
      BY <1>5, <2>1 DEF MayGo
    <3>2. q = At(r, "merge")
      BY <1>6, <2>1
    <3> QED BY <1>3, <1>5, <3>1, <3>2, GotoWorks DEF Listed
  <2>2. CASE v # "yes"
    <3>1. q = WithoutGroup(r)
      BY <1>6, <2>2
    <3>2. /\ Grounds(s, q, S, C, V, P)
          /\ q.todo = r.todo /\ r.todo # << >> /\ q.count = r.count
      BY <2>0, <3>1, NextGroupWorks
    <3> QED BY <2>0, <3>2 DEF Listed
  <2> QED BY <2>1, <2>2
<1>9. UNCHANGED <<merges, survivorOf, raced, status, verdicts, unmarked>>
  BY DEF AnswerRecorded
<1>10. AutoPairs' = P /\ Confirmed' = C
  BY <1>2, <1>9, NoMerge DEF Confirmed
<1>11. Kept
  BY <1>2, <1>9, <1>10 DEF Kept
<1>12. ConfirmedMerged'
  BY <1>2, <1>9, <1>10 DEF ApprovalInv, ConfirmedMerged
<1>13. AnswersKept'
  <2>1. \A t \in Sessions : t # s => session'[t] = session[t]
    BY <1>7, SessionMoves DEF ApprovalInv
  <2>2. PersistRun(s, v) \/ PersistRunErr(s)
    BY <1>1, <1>4 DEF AnswerRecorded
  <2>3. aiRuns \subseteq aiRuns' /\ events \subseteq events' /\ unwritten \subseteq unwritten'
    BY <2>2 DEF PersistRun, PersistRunErr
  <2>4. PICK a : a = <<<<s, PairIn(r)>>, v>>
    OBVIOUS
  <2>5. Written(a)'
    BY <1>5, <2>2, <2>4 DEF PersistRun, PersistRunErr, Written
  <2>6. ASSUME NEW x \in verdicts
        PROVE  x[1][1] \in Sessions /\ (InHand(x, session'[x[1][1]]) \/ Written(x)')
    <3>1. x[1][1] \in Sessions /\ (InHand(x, session[x[1][1]]) \/ Written(x))
      BY DEF ApprovalInv, AnswersKept
    <3>2. CASE x[1][1] = s /\ InHand(x, session[x[1][1]])
      <4>1. x = a
        BY <1>1, <1>4, <2>4, <3>2 DEF InHand
      <4> QED BY <2>5, <3>1, <4>1
    <3>3. Written(x) => Written(x)'
      BY <2>3 DEF Written
    <3> QED BY <2>1, <3>1, <3>2, <3>3
  <2> QED BY <1>9, <2>6 DEF AnswersKept
<1>14. Grounds(s, q, DOMAIN status', Confirmed', verdicts', AutoPairs')
  BY <1>2, <1>8, <1>9, <1>10
<1>15. session[s].group \subseteq q.group \cup Confirmed' \cup unmarked' /\ unmarked \subseteq unmarked'
  BY <1>1, <1>8, <1>9
<1> QED BY <1>1, <1>7, <1>8, <1>9, <1>11, <1>12, <1>13, <1>14, <1>15, SessionInv

\* The checks of the merge let the session go on, or leave the pair pending.
LEMMA AutoMergeCheckInv ==
  ASSUME ApprovalInv, NEW s \in Sessions, AutoMergeCheck(s)
  PROVE  ApprovalInv'
<1>1. PICK r : r = session[s]
  OBVIOUS
<1>2. PICK S, C, V, P : S = DOMAIN status /\ C = Confirmed /\ V = verdicts /\ P = AutoPairs
  OBVIOUS
<1>3. Grounds(s, r, S, C, V, P) /\ r.pc = "merge"
  BY <1>1, <1>2, SessionAt DEF AutoMergeCheck
<1>4. /\ UNCHANGED <<merges, survivorOf, raced, status, verdicts, unmarked, unwritten, aiRuns, events>>
      /\ Goto(s, "commit") \/ NextGroup(s)
  BY DEF AutoMergeCheck, told
<1>5. CASE NextGroup(s)
  <2>1. Listed(session[s]) /\ session[s].pc # "record"
    BY <1>1, <1>3 DEF Grounds, Listed
  <2> QED BY <1>4, <1>5, <2>1, NextGroupInv
<1>6. CASE Goto(s, "commit")
  <2>1. Choosing(r) /\ MayGo(s, r, "commit", V)
    BY <1>3 DEF Grounds, Choosing, MayGo
  <2>2. PICK q : q = At(r, "commit")
    OBVIOUS
  <2>3. session' = [session EXCEPT ![s] = q]
    BY <1>1, <1>6, <2>2 DEF Goto, At
  <2>4. /\ Grounds(s, q, S, C, V, P)
        /\ q.todo = r.todo /\ r.todo # << >> /\ q.count = r.count /\ q.group = r.group
    BY <1>3, <2>1, <2>2, GotoWorks
  <2> QED BY <1>1, <1>2, <1>3, <1>4, <2>3, <2>4, PlainSession
<1> QED BY <1>4, <1>5, <1>6

LEMMA MarkInv ==
  ASSUME ApprovalInv, NEW s \in Sessions, NEW c \in session[s].group, Mark(s, c)
  PROVE  ApprovalInv'
<1>1. PICK r : r = session[s]
  OBVIOUS
<1>2. PICK S, C, V, P, C2 : /\ S = DOMAIN status /\ C = Confirmed /\ V = verdicts /\ P = AutoPairs
                            /\ C2 = Confirmed'
  OBVIOUS
<1>3. Grounds(s, r, S, C, V, P) /\ r \in ApprovalSession /\ r.pc = "mark"
  BY <1>1, <1>2, SessionAt DEF Mark
<1>4. /\ r.groups # {} /\ r.group \subseteq GroupOf(r).cands /\ PairIn(r) \in P /\ r.todo # << >>
      /\ \A g \in r.groups : GroupHolds(r, g, S)
      /\ \A d \in Candidates : d.pair \in r.settled => d \in C
  BY <1>3 DEF Grounds
<1>5. c \in r.group /\ c \in S /\ c.pair \in P /\ c \in Candidates
  <2>1. GroupOf(r) \in r.groups
    BY <1>3, <1>4, GroupInHand DEF ApprovalSession
  <2>2. GroupHolds(r, GroupOf(r), S)
    BY <1>4, <2>1
  <2> QED BY <1>1, <1>3, <1>4, <2>2 DEF GroupHolds, PairIn, ApprovalSession
<1>6. PICK q : q = [r EXCEPT !.group = r.group \ {c}]
  OBVIOUS
<1>7. session' = [session EXCEPT ![s] = q]
  BY <1>1, <1>6 DEF Mark
<1>8. /\ q \in ApprovalSession /\ q.pc = "mark" /\ q.settled = r.settled /\ q.groups = r.groups
      /\ q.todo = r.todo /\ q.group = r.group \ {c} /\ q.count = r.count
  BY <1>3, <1>6 DEF ApprovalSession
<1>9. /\ S = DOMAIN status' /\ C \subseteq C2 /\ C2 \subseteq C \cup {c}
      /\ unmarked \subseteq unmarked' /\ c \in C2 \cup unmarked'
  <2>1. CASE status' = [status EXCEPT ![c] = "auto_confirmed"] /\ UNCHANGED unmarked
    BY <1>2, <1>5, <2>1 DEF Confirmed
  <2>2. CASE unmarked' = unmarked \cup {c} /\ UNCHANGED status
    BY <1>2, <2>2 DEF Confirmed
  <2> QED BY <2>1, <2>2 DEF Mark
<1>10. UNCHANGED <<merges, survivorOf, raced, verdicts, unwritten, aiRuns, events>>
  BY DEF Mark, told
<1>11. AutoPairs' = P
  BY <1>2, <1>10, NoMerge
<1>12. Kept
  BY <1>2, <1>9, <1>10, <1>11 DEF Kept
<1>13. ConfirmedMerged'
  BY <1>2, <1>5, <1>9, <1>11 DEF ApprovalInv, ConfirmedMerged
<1>14. AnswersKept'
  BY <1>1, <1>3, <1>7, <1>10, AnswersStay DEF ApprovalInv
<1>15. GroupOf(q) = GroupOf(r) /\ PairIn(q) = PairIn(r)
  BY <1>8 DEF GroupOf, PairIn
<1>16. \A g \in q.groups : GroupHolds(q, g, S)
  BY <1>4, <1>8 DEF GroupHolds
<1>17. Grounds(s, q, S, C2, V, P)
  BY <1>4, <1>8, <1>9, <1>15, <1>16 DEF Grounds
<1>18. Grounds(s, q, DOMAIN status', Confirmed', verdicts', AutoPairs')
  BY <1>2, <1>9, <1>10, <1>11, <1>17
<1>19. session[s].group \subseteq q.group \cup Confirmed' \cup unmarked' /\ unmarked \subseteq unmarked'
  BY <1>1, <1>2, <1>8, <1>9
<1> QED BY <1>1, <1>4, <1>7, <1>8, <1>10, <1>12, <1>13, <1>14, <1>18, <1>19, SessionInv

LEMMA CrashInv ==
  ASSUME ApprovalInv, NEW s \in Sessions, Crash(s)
  PROVE  ApprovalInv'
<1>1. PICK q : q = [Ready(s) EXCEPT !.todo = << >>]
  OBVIOUS
<1>2. PICK S, C, V, P : S = DOMAIN status /\ C = Confirmed /\ V = verdicts /\ P = AutoPairs
  OBVIOUS
<1>3. /\ q.pc = "ready" /\ q.written = {} /\ q.group = {} /\ q.settled = {} /\ q.todo = << >>
      /\ q \in ApprovalSession
  <2>1. PICK z : z = << >>
    OBVIOUS
  <2>2. z \in Seq(EntityIds)
    BY <2>1
  <2>3. q = [pc |-> "ready", todo |-> z, found |-> {}, written |-> {},
             groups |-> {}, verdict |-> "no", group |-> {}, count |-> 0, settled |-> {}]
    BY <1>1, <2>1 DEF Ready
  <2> QED BY <2>1, <2>2, <2>3 DEF ApprovalSession
<1>4. Grounds(s, q, S, C, V, P)
  BY <1>3 DEF Grounds
<1>5. /\ session' = [session EXCEPT ![s] = q] /\ unmarked' = unmarked \cup session[s].group
      /\ unwritten' = IF session[s].pc = "record" THEN unwritten \cup {Call(s)} ELSE unwritten
      /\ UNCHANGED <<merges, survivorOf, raced, status, verdicts, aiRuns, events>>
  BY <1>1 DEF Crash
<1>6. AutoPairs' = P /\ Confirmed' = C
  BY <1>2, <1>5, NoMerge DEF Confirmed
<1>7. Kept /\ ConfirmedMerged'
  BY <1>2, <1>5, <1>6 DEF Kept, ApprovalInv, ConfirmedMerged
<1>8. Grounds(s, q, DOMAIN status', Confirmed', verdicts', AutoPairs')
  BY <1>2, <1>4, <1>5, <1>6
<1>9. session[s].group \subseteq q.group \cup Confirmed' \cup unmarked' /\ unmarked \subseteq unmarked'
  BY <1>5
<1>10. q.todo # << >> => session[s].todo # << >> /\ q.count = session[s].count
  BY <1>3
\* The answer in hand, if there is one, is among the unwritten.
<1>11. AnswersKept'
  <2>1. \A t \in Sessions : t # s => session'[t] = session[t]
    BY <1>5, SessionMoves DEF ApprovalInv
  <2>2. ASSUME NEW x \in verdicts
        PROVE  x[1][1] \in Sessions /\ (InHand(x, session'[x[1][1]]) \/ Written(x)')
    <3>1. x[1][1] \in Sessions /\ (InHand(x, session[x[1][1]]) \/ Written(x))
      BY DEF ApprovalInv, AnswersKept
    <3>2. CASE x[1][1] = s /\ InHand(x, session[x[1][1]])
      <4>1. PICK r : r = session[s]
        OBVIOUS
      <4>2. PairOf(s) = PairIn(r) /\ r.pc = "record" /\ x[1] = <<s, PairIn(r)>>
        BY <3>2, <4>1, SessionAt DEF InHand
      <4>3. x[1] \in unwritten'
        BY <1>5, <4>1, <4>2 DEF Call
      <4> QED BY <3>1, <4>3 DEF Written
    <3>3. Written(x) => Written(x)'
      BY <1>5 DEF Written
    <3> QED BY <2>1, <3>1, <3>2, <3>3
  <2> QED BY <1>5, <2>2 DEF AnswersKept
<1> QED BY <1>5, <1>7, <1>8, <1>9, <1>10, <1>11, SessionInv

\* execute_merge, by whomever.
MergeOf(a, b, C, w) == [survivor |-> a, merged |-> b, cands |-> C, by |-> w, undone |-> FALSE]

Recorded(n, m) ==
  /\ DOMAIN merges' = DOMAIN merges \cup {n} /\ n \notin DOMAIN merges
  /\ merges'[n] = m /\ \A i \in DOMAIN merges : merges'[i] = merges[i]

LEMMA AppendMerge ==
  ASSUME InForceOnce, NEW a \in EntityIds, NEW b \in EntityIds, NEW C \in SUBSET Candidates,
         NEW w \in Sessions \cup {Unset}, ExecuteMerge(a, b, C, w)
  PROVE  InForceOnce' /\ \E n : Recorded(n, MergeOf(a, b, C, w))
<1>0. PICK n, m : m = MergeOf(a, b, C, w) /\ n = Len(merges) + 1
  OBVIOUS
<1>1. PICK R, h : R = MergeRecord /\ h = merges
  OBVIOUS
<1>2. h \in Seq(R) /\ m \in R
  BY <1>0, <1>1 DEF InForceOnce, MergeRecord, MergeOf
<1>3. PICK k : k = Append(h, m)
  OBVIOUS
<1>4. /\ k \in Seq(R) /\ DOMAIN k = DOMAIN h \cup {n} /\ n \notin DOMAIN h
      /\ k[n] = m /\ \A i \in DOMAIN h : k[i] = h[i]
  BY <1>0, <1>1, <1>2, <1>3
<1>5. merges' = k
  BY <1>0, <1>1, <1>3 DEF ExecuteMerge, MergeOf
<1>6. m.survivor = a /\ m.merged = b /\ ~m.undone
  BY <1>0 DEF MergeOf
<1>7. /\ raced \subseteq raced'
      /\ \A i \in DOMAIN merges : ~merges[i].undone /\ b \notin raced' => merges[i].merged # b
  <2>1. raced \subseteq raced' /\ (b \notin raced' => survivorOf[b] = Unset)
    BY DEF ExecuteMerge
  <2>2. ASSUME NEW i \in DOMAIN merges, ~merges[i].undone, b \notin raced' PROVE merges[i].merged # b
    <3>1. merges[i].survivor \in EntityIds
      BY MergeTyped
    <3>2. merges[i].merged = b => survivorOf[b] \in EntityIds
      BY <2>1, <2>2, <3>1 DEF InForceOnce
    <3> QED BY <2>1, <2>2, <3>2, ApprovalAssumption
  <2> QED BY <2>1, <2>2
<1>8. /\ DOMAIN survivorOf' = EntityIds /\ survivorOf'[b] = a
      /\ \A e \in EntityIds : e # b => survivorOf'[e] = survivorOf[e]
  BY DEF InForceOnce, ExecuteMerge
<1>9. ASSUME NEW i \in DOMAIN k, NEW j \in DOMAIN k, ~k[i].undone, ~k[j].undone,
             k[i].merged = k[j].merged, k[i].merged \notin raced'
      PROVE  i = j
  <2>1. CASE i \in DOMAIN h /\ j \in DOMAIN h
    BY <1>1, <1>4, <1>7, <1>9, <2>1 DEF InForceOnce
  <2>2. CASE i = n /\ j \in DOMAIN h
    BY <1>1, <1>4, <1>6, <1>7, <1>9, <2>2
  <2>3. CASE j = n /\ i \in DOMAIN h
    BY <1>1, <1>4, <1>6, <1>7, <1>9, <2>3
  <2> QED BY <1>4, <2>1, <2>2, <2>3
<1>10. ASSUME NEW i \in DOMAIN k, ~k[i].undone, k[i].merged \notin raced'
       PROVE  survivorOf'[k[i].merged] = k[i].survivor
  <2>1. CASE i = n
    BY <1>4, <1>6, <1>8, <2>1
  <2>2. CASE i \in DOMAIN h
    <3>1. /\ merges[i].merged \in EntityIds /\ ~merges[i].undone /\ merges[i].merged \notin raced
          /\ merges[i].survivor = k[i].survivor /\ merges[i].merged = k[i].merged
      BY <1>1, <1>4, <1>7, <1>10, <2>2, MergeTyped
    <3>2. merges[i].merged # b
      BY <1>1, <1>7, <1>10, <2>2, <3>1
    <3> QED BY <1>1, <1>8, <2>2, <3>1, <3>2 DEF InForceOnce
  <2> QED BY <1>4, <2>1, <2>2
<1>11. ASSUME NEW e \in EntityIds, survivorOf'[e] # Unset, e \notin raced'
       PROVE  \E i \in DOMAIN k : k[i].merged = e /\ ~k[i].undone
  <2>1. CASE e = b
    BY <1>4, <1>6, <2>1
  <2>2. CASE e # b
    <3>1. PICK i \in DOMAIN merges : merges[i].merged = e /\ ~merges[i].undone
      BY <1>7, <1>8, <1>11, <2>2 DEF InForceOnce
    <3> QED BY <1>1, <1>4, <3>1
  <2> QED BY <2>1, <2>2
<1>12. InForceOnce'
  BY <1>1, <1>4, <1>5, <1>8, <1>9, <1>10, <1>11 DEF InForceOnce
<1>13. Recorded(n, m)
  BY <1>1, <1>4, <1>5 DEF Recorded
<1> QED BY <1>0, <1>12, <1>13

\* What an operator does leaves the automatic merges where they are.
LEMMA ByHandInv ==
  ASSUME ApprovalInv, UNCHANGED <<status, session, told, unmarked>>, InForceOnce', Automatic' = Automatic,
         \A i \in Automatic : /\ merges'[i].survivor = merges[i].survivor
                              /\ merges'[i].merged = merges[i].merged /\ merges'[i].by = merges[i].by
                              /\ merges'[i].cands = merges[i].cands
  PROVE  ApprovalInv'
<1>1. /\ AutoPairs' = AutoPairs /\ \A i \in Automatic : PairAt(i)' = PairAt(i)
      /\ \A t : MergesBy(t)' = MergesBy(t)
  <2>1. \A i \in Automatic : PairAt(i)' = PairAt(i)
    BY DEF PairAt
  <2> QED BY <2>1 DEF AutoPairs, MergesBy
<1>2. Confirmed' = Confirmed /\ UNCHANGED <<status, session, unmarked, aiRuns, events, verdicts, unwritten>>
  BY DEF Confirmed, told
<1>3. AllGrounds'
  BY <1>1, <1>2 DEF ApprovalInv, AllGrounds
<1>4. Limited'
  BY <1>1, <1>2 DEF ApprovalInv, Limited
<1>5. Justified'
  <2>1. ASSUME NEW i \in Automatic
        PROVE  /\ TypeOf[merges'[i].survivor] = TypeOf[merges'[i].merged]
               /\ \E m \in Matches :
                    /\ m.pair = PairAt(i)'
                    /\ \/ m.score >= ConfirmScore
                       \/ m.score >= ReviewScore /\ <<<<merges'[i].by, PairAt(i)'>>, "yes">> \in verdicts'
    BY <1>1, <1>2 DEF ApprovalInv, Justified
  <2> QED BY <2>1 DEF Justified
<1>6. ConfirmedMerged'
  BY <1>1, <1>2 DEF ApprovalInv, ConfirmedMerged
<1>7. MergesMarked'
  <2>1. ASSUME NEW i \in Automatic, NEW c \in merges[i].cands
        PROVE  c \in DOMAIN status' /\ c.pair = PairAt(i)' /\ MarkedOr(c, merges[i].by)'
    BY <1>1, <1>2 DEF ApprovalInv, MergesMarked, MarkedOr
  <2>2. \A i \in Automatic : merges[i].cands # {}
    BY DEF ApprovalInv, MergesMarked
  <2> QED BY <2>1, <2>2 DEF MergesMarked
<1>8. AnswersKept'
  BY <1>2 DEF ApprovalInv, AnswersKept, Written
<1> QED BY <1>3, <1>4, <1>5, <1>6, <1>7, <1>8 DEF ApprovalInv

LEMMA MergeByHandInv ==
  ASSUME ApprovalInv, NEW n, NEW a \in EntityIds, NEW b \in EntityIds, MergeByHand(n, a, b)
  PROVE  ApprovalInv'
<1>1. InForceOnce /\ ExecuteMerge(a, b, {}, Unset)
  BY DEF MergeByHand, ApprovalInv
<1>2. InForceOnce'
  BY <1>1, AppendMerge
<1>3. PICK l : Recorded(l, MergeOf(a, b, {}, Unset))
  BY <1>1, AppendMerge
<1>4. PICK m : m = MergeOf(a, b, {}, Unset)
  OBVIOUS
<1>5. m.by = Unset
  BY <1>4 DEF MergeOf
<1>6. Automatic' = Automatic /\ \A i \in Automatic : merges'[i] = merges[i]
  BY <1>3, <1>4, <1>5 DEF Automatic, Recorded
<1>7. UNCHANGED <<status, session, told, unmarked>>
  BY DEF MergeByHand
<1> QED BY <1>2, <1>6, <1>7, ByHandInv

LEMMA UndoByHandInv ==
  ASSUME ApprovalInv, NEW i \in DOMAIN merges, NEW n, Undo(n, i)
  PROVE  ApprovalInv'
<1>1. PICK R, h : R = MergeRecord /\ h = merges
  OBVIOUS
<1>2. InForceOnce /\ merges[i] \in MergeRecord /\ merges[i].merged \in EntityIds
  BY MergeTyped DEF ApprovalInv
<1>3. PICK m : m = [merges[i] EXCEPT !.undone = TRUE]
  OBVIOUS
<1>4. /\ m \in R /\ m.undone /\ m.survivor = merges[i].survivor /\ m.merged = merges[i].merged
      /\ m.by = merges[i].by /\ m.cands = merges[i].cands
  BY <1>1, <1>2, <1>3 DEF MergeRecord
<1>5. PICK k : k = [h EXCEPT ![i] = m]
  OBVIOUS
<1>6. merges' = k
  BY <1>1, <1>3, <1>5 DEF Undo
<1>7. h \in Seq(R) /\ i \in DOMAIN h
  BY <1>1, <1>2 DEF InForceOnce
<1>8. k \in Seq(R) /\ DOMAIN k = DOMAIN h /\ k[i] = m /\ \A j \in DOMAIN h : j # i => k[j] = h[j]
  BY <1>4, <1>5, <1>7
<1>9. PICK e : e = merges[i].merged
  OBVIOUS
<1>10. /\ DOMAIN survivorOf' = EntityIds /\ survivorOf'[e] = Unset
       /\ \A x \in EntityIds : x # e => survivorOf'[x] = survivorOf[x]
  BY <1>2, <1>9 DEF Undo, InForceOnce
<1>21. raced \subseteq raced' /\ (e \notin raced' => ~merges[i].undone)
  BY <1>9 DEF Undo
<1>11. ASSUME NEW j \in DOMAIN k, ~k[j].undone, k[j].merged \notin raced'
       PROVE  /\ j \in DOMAIN merges /\ k[j] = merges[j] /\ merges[j].merged # e
              /\ merges[j].merged \in EntityIds
  <2>1. j # i /\ j \in DOMAIN merges
    BY <1>1, <1>4, <1>8, <1>11
  <2>2. k[j] = merges[j]
    BY <1>1, <1>8, <2>1
  <2>3. merges[j].merged # e
    BY <1>2, <1>9, <1>11, <1>21, <2>1, <2>2 DEF InForceOnce
  <2> QED BY <1>2, <2>1, <2>2, <2>3, MergeTyped
<1>12. ASSUME NEW x \in EntityIds, survivorOf'[x] # Unset, x \notin raced'
       PROVE  \E j \in DOMAIN k : k[j].merged = x /\ ~k[j].undone
  <2>1. x # e /\ survivorOf[x] # Unset
    BY <1>10, <1>12
  <2>2. PICK j \in DOMAIN merges : merges[j].merged = x /\ ~merges[j].undone
    BY <1>2, <1>12, <1>21, <2>1 DEF InForceOnce
  <2>3. j # i
    BY <1>9, <2>1, <2>2
  <2> QED BY <1>1, <1>8, <2>2, <2>3
<1>13. InForceOnce'
  <2>1. ASSUME NEW j \in DOMAIN k, NEW l \in DOMAIN k, ~k[j].undone, ~k[l].undone,
               k[j].merged = k[l].merged, k[j].merged \notin raced'
        PROVE  j = l
    BY <1>2, <1>11, <1>21, <2>1 DEF InForceOnce
  <2>2. ASSUME NEW j \in DOMAIN k, ~k[j].undone, k[j].merged \notin raced'
        PROVE  survivorOf'[k[j].merged] = k[j].survivor
    BY <1>2, <1>10, <1>11, <1>21, <2>2 DEF InForceOnce
  <2> QED BY <1>1, <1>6, <1>8, <1>10, <1>12, <2>1, <2>2 DEF InForceOnce
<1>14. \A j \in DOMAIN merges : /\ merges'[j].survivor = merges[j].survivor
                                /\ merges'[j].merged = merges[j].merged /\ merges'[j].by = merges[j].by
                                /\ merges'[j].cands = merges[j].cands
  BY <1>1, <1>4, <1>6, <1>8
<1>15. Automatic' = Automatic
  BY <1>1, <1>6, <1>8, <1>14 DEF Automatic
<1>16. UNCHANGED <<status, session, told, unmarked>>
  BY DEF Undo
<1> QED BY <1>13, <1>14, <1>15, <1>16, ByHandInv DEF Automatic

\* The merge a session executes.
LEMMA AutoMergeInv ==
  ASSUME ApprovalInv, NEW s \in Sessions, AutoMerge(s)
  PROVE  ApprovalInv'
<1>1. PICK r : r = session[s]
  OBVIOUS
<1>2. PICK S, C, V, P : S = DOMAIN status /\ C = Confirmed /\ V = verdicts /\ P = AutoPairs
  OBVIOUS
<1>3. /\ Grounds(s, r, S, C, V, P) /\ r \in ApprovalSession /\ Entity(s) = Head(r.todo)
      /\ Group(s) = GroupOf(r) /\ PairOf(s) = PairIn(r) /\ r.pc = "commit"
  BY <1>1, <1>2, SessionAt DEF AutoMerge
<1>4. PICK G, a, b : G = GroupOf(r) /\ a = Head(r.todo) /\ b = GroupOf(r).other
  OBVIOUS
<1>5. /\ r.groups # {} /\ SameType({a, b}) /\ r.count < MaxAutoMerges
      /\ Reaches(G.cands, ReviewScore) /\ r.todo # << >> /\ r.group = {}
      /\ Reaches(G.cands, ConfirmScore) \/ <<<<s, {a, b}>>, "yes">> \in V
      /\ \A g \in r.groups : GroupHolds(r, g, S)
      /\ \A d \in Candidates : d.pair \in r.settled => d \in C
  BY <1>3, <1>4 DEF Grounds, PairIn
<1>6. /\ G \in r.groups /\ a \in EntityIds /\ b \in EntityIds
      /\ G.cands # {} /\ G.cands \subseteq S /\ G.cands \subseteq Candidates
      /\ \A c \in G.cands : c.pair = {a, b}
  <2>1. G \in r.groups /\ r.groups \subseteq GroupRecord
    BY <1>3, <1>4, <1>5, GroupInHand DEF ApprovalSession
  <2>2. GroupHolds(r, G, S)
    BY <1>5, <2>1
  <2>3. r.todo \in Seq(EntityIds)
    BY <1>3 DEF ApprovalSession
  <2> QED BY <1>4, <1>5, <2>1, <2>2, <2>3 DEF GroupHolds, GroupRecord
<1>7. UNCHANGED <<status, verdicts, unmarked, unwritten, aiRuns, events>>
  BY DEF AutoMerge, told
<1>20. PICK U, k : U = G.cands /\ k = r.count + 1
  OBVIOUS
<1>21. PICK q : q = [r EXCEPT !.pc = "mark", !.group = U, !.count = k]
  OBVIOUS
<1>22. ExecuteMerge(a, b, G.cands, s) /\ session' = [session EXCEPT ![s] = q]
  BY <1>1, <1>3, <1>4, <1>20, <1>21 DEF AutoMerge
<1>23. /\ q \in ApprovalSession /\ q.pc = "mark" /\ q.group = G.cands /\ q.count = r.count + 1
      /\ q.groups = r.groups /\ q.todo = r.todo /\ q.settled = r.settled
  <2>1. r.count \in Nat
    BY <1>3 DEF ApprovalSession
  <2>2. k \in Nat /\ U \subseteq Candidates
    BY <1>6, <1>20, <2>1
  <2>3. /\ q \in ApprovalSession /\ q.pc = "mark" /\ q.group = U /\ q.count = k
        /\ q.groups = r.groups /\ q.todo = r.todo /\ q.settled = r.settled
    BY <1>3, <1>21, <2>2 DEF ApprovalSession
  <2> QED BY <1>20, <2>3
<1>24. InForceOnce' /\ \E n : Recorded(n, MergeOf(a, b, G.cands, s))
  BY <1>6, <1>22, AppendMerge DEF ApprovalInv
<1>25. PICK n, m : Recorded(n, m) /\ m = MergeOf(a, b, G.cands, s)
  BY <1>24
<1>26. m.survivor = a /\ m.merged = b /\ m.by = s /\ m.cands = G.cands /\ s # Unset
  BY <1>25, ApprovalAssumption DEF MergeOf
<1>27. /\ Automatic' = Automatic \cup {n} /\ n \notin Automatic
      /\ merges'[n] = m /\ \A i \in Automatic : merges'[i] = merges[i]
  BY <1>25, <1>26 DEF Automatic, Recorded
<1>28. PairAt(n)' = {a, b} /\ \A i \in Automatic : PairAt(i)' = PairAt(i)
  BY <1>26, <1>27 DEF PairAt
<1>29. AutoPairs' = P \cup {{a, b}}
  BY <1>2, <1>27, <1>28 DEF AutoPairs
<1>30. Confirmed' = C
  BY <1>2, <1>7 DEF Confirmed
<1>31. AllGrounds'
  <2>1. GroupOf(q) = G /\ PairIn(q) = {a, b}
    BY <1>4, <1>23 DEF GroupOf, PairIn
  <2>2. \A g \in q.groups : GroupHolds(q, g, S)
    BY <1>5, <1>23 DEF GroupHolds
  <2>3. Grounds(s, q, S, C, V, P \cup {{a, b}})
    BY <1>5, <1>23, <2>1, <2>2 DEF Grounds
  <2>4. Kept
    BY <1>2, <1>7, <1>29, <1>30 DEF Kept
  <2>5. Grounds(s, q, DOMAIN status', Confirmed', verdicts', AutoPairs')
    BY <1>2, <1>7, <1>29, <1>30, <2>3
  <2> QED BY <1>22, <2>4, <2>5, GroundsMove DEF ApprovalInv
<1>32. /\ session'[s] = q /\ \A t \in Sessions : t # s => session'[t] = session[t]
  BY <1>22, SessionMoves DEF ApprovalInv
<1>33. Limited'
  <2>1. /\ MergesBy(s)' = MergesBy(s) \cup {n} /\ n \notin MergesBy(s)
        /\ \A t : t # s => MergesBy(t)' = MergesBy(t)
    BY <1>26, <1>27 DEF MergesBy
  <2>2. IsFiniteSet(MergesBy(s))
    <3>1. MergesBy(s) \subseteq 1 .. Len(merges) /\ Len(merges) \in Nat
      <4>1. PICK R, h : R = MergeRecord /\ h = merges
        OBVIOUS
      <4>2. h \in Seq(R)
        BY <4>1 DEF ApprovalInv, InForceOnce
      <4>3. DOMAIN h = 1 .. Len(h) /\ Len(h) \in Nat
        BY <4>2
      <4> QED BY <4>1, <4>3 DEF MergesBy, Automatic
    <3>2. IsFiniteSet(1 .. Len(merges))
      BY <3>1, FS_Interval
    <3> QED BY <3>1, <3>2, FS_Subset
  <2>3. /\ Cardinality(MergesBy(s)') = Cardinality(MergesBy(s)) + 1
        /\ r.count = Cardinality(MergesBy(s)) /\ r.count \in Nat
    <3>1. Cardinality(MergesBy(s)') = Cardinality(MergesBy(s)) + 1
      BY <2>1, <2>2, FS_AddElement
    <3>2. r.count = Cardinality(MergesBy(s))
      BY <1>1, <1>5 DEF ApprovalInv, Limited
    <3> QED BY <1>3, <3>1, <3>2 DEF ApprovalSession
  <2>4. Cardinality(MergesBy(s)') <= MaxAutoMerges /\ q.count = Cardinality(MergesBy(s)')
    BY <1>5, <1>23, <2>3, ApprovalAssumption
  <2>5. ASSUME NEW t \in Sessions
        PROVE  /\ Cardinality(MergesBy(t)') <= MaxAutoMerges
               /\ session'[t].todo # << >> => session'[t].count = Cardinality(MergesBy(t)')
    <3>1. CASE t = s
      BY <1>32, <2>4, <3>1
    <3>2. CASE t # s
      BY <1>32, <2>1, <3>2 DEF ApprovalInv, Limited
    <3> QED BY <3>1, <3>2
  <2> QED BY <2>5 DEF Limited
<1>34. \E x \in Matches :
         /\ x.pair = {a, b}
         /\ \/ x.score >= ConfirmScore
            \/ x.score >= ReviewScore /\ <<<<s, {a, b}>>, "yes">> \in V
  <2>1. CASE Reaches(G.cands, ConfirmScore)
    <3>1. PICK c \in G.cands : Score(c) >= ConfirmScore
      BY <2>1 DEF Reaches
    <3> QED BY <1>6, <3>1, ScoreOf
  <2>2. CASE <<<<s, {a, b}>>, "yes">> \in V
    <3>1. PICK c \in G.cands : Score(c) >= ReviewScore
      BY <1>5 DEF Reaches
    <3> QED BY <1>6, <2>2, <3>1, ScoreOf
  <2> QED BY <1>5, <2>1, <2>2
<1>35. Justified'
  <2>1. TypeOf[a] = TypeOf[b]
    BY <1>5 DEF SameType
  <2>2. ASSUME NEW i \in Automatic'
        PROVE  /\ TypeOf[merges'[i].survivor] = TypeOf[merges'[i].merged]
               /\ \E x \in Matches :
                    /\ x.pair = PairAt(i)'
                    /\ \/ x.score >= ConfirmScore
                       \/ x.score >= ReviewScore /\ <<<<merges'[i].by, PairAt(i)'>>, "yes">> \in verdicts'
    <3>1. CASE i = n
      BY <1>2, <1>7, <1>26, <1>27, <1>28, <1>34, <2>1, <3>1
    <3>2. CASE i \in Automatic
      BY <1>7, <1>27, <1>28, <3>2 DEF ApprovalInv, Justified
    <3> QED BY <1>27, <3>1, <3>2
  <2> QED BY <2>2 DEF Justified
<1>36. ConfirmedMerged'
  BY <1>2, <1>7, <1>29, <1>30 DEF ApprovalInv, ConfirmedMerged
<1>37. MergesMarked'
  <2>1. ASSUME NEW i \in Automatic'
        PROVE  /\ merges'[i].cands # {}
               /\ \A c \in merges'[i].cands :
                    c \in DOMAIN status' /\ c.pair = PairAt(i)' /\ MarkedOr(c, merges[i].by)'
    <3>1. CASE i = n
      BY <1>2, <1>6, <1>7, <1>23, <1>26, <1>27, <1>28, <1>32, <3>1 DEF MarkedOr
    <3>2. CASE i \in Automatic
      <4>1. merges[i].by \in Sessions /\ merges'[i] = merges[i] /\ merges[i].cands # {}
        BY <1>27, <3>2, MergeTyped DEF ApprovalInv, Automatic, MergesMarked
      <4>2. ASSUME NEW c \in merges[i].cands
            PROVE  c \in DOMAIN status' /\ c.pair = PairAt(i)' /\ MarkedOr(c, merges[i].by)'
        <5>1. c \in DOMAIN status /\ c.pair = PairAt(i) /\ MarkedOr(c, merges[i].by)
          BY <3>2 DEF ApprovalInv, MergesMarked
        <5>2. MarkedOr(c, merges[i].by)'
          BY <1>1, <1>2, <1>5, <1>7, <1>30, <1>32, <4>1, <5>1 DEF MarkedOr
        <5> QED BY <1>7, <1>28, <3>2, <5>1, <5>2
      <4> QED BY <4>1, <4>2
    <3> QED BY <1>27, <3>1, <3>2
  <2> QED BY <2>1 DEF MergesMarked
<1>38. AnswersKept'
  <2>1. session[s].pc # "record" /\ aiRuns \subseteq aiRuns' /\ events \subseteq events'
        /\ unwritten \subseteq unwritten' /\ UNCHANGED verdicts
    BY <1>1, <1>3, <1>7
  <2> QED BY <1>22, <2>1, AnswersStay DEF ApprovalInv
<1> QED BY <1>24, <1>31, <1>33, <1>35, <1>36, <1>37, <1>38 DEF ApprovalInv

LEMMA ApprovalStarts ==
  ASSUME ApprovalInit
  PROVE  ApprovalInv
<1>1. /\ DOMAIN status = {} /\ Confirmed = {} /\ DOMAIN merges = {} /\ Automatic = {} /\ AutoPairs = {}
  BY DEF ApprovalInit, Confirmed, Automatic, AutoPairs
<1>2. AllGrounds
  <2>1. ASSUME NEW s \in Sessions
        PROVE  Grounds(s, session[s], DOMAIN status, Confirmed, verdicts, AutoPairs)
    <3>1. PICK t : t = Todo[s]
      OBVIOUS
    <3>2. t \in Seq(EntityIds)
      BY <3>1, ApprovalAssumption
    <3>3. PICK r : r = session[s]
      OBVIOUS
    <3>4. r = [pc |-> "ready", todo |-> t, found |-> {}, written |-> {},
               groups |-> {}, verdict |-> "no", group |-> {}, count |-> 0, settled |-> {}]
      BY <3>1, <3>3 DEF ApprovalInit, Ready
    <3>5. r \in ApprovalSession
      BY <3>2, <3>4 DEF ApprovalSession
    <3>6. r.pc = "ready" /\ r.written = {} /\ r.group = {} /\ r.settled = {}
      BY <3>4
    <3>7. Grounds(s, r, DOMAIN status, Confirmed, verdicts, AutoPairs)
      BY <3>5, <3>6 DEF Grounds
    <3> QED BY <3>3, <3>7
  <2> QED BY <2>1 DEF AllGrounds, ApprovalInit
<1>3. InForceOnce
  BY <1>1 DEF ApprovalInit, InForceOnce
<1>4. Limited
  <2>1. ASSUME NEW s \in Sessions PROVE MergesBy(s) = {} /\ session[s].count = 0
    BY <1>1 DEF MergesBy, ApprovalInit, Ready
  <2>2. Cardinality({}) = 0 /\ 0 <= MaxAutoMerges
    BY FS_EmptySet, ApprovalAssumption
  <2> QED BY <2>1, <2>2 DEF Limited
<1>5. Justified /\ ConfirmedMerged /\ MergesMarked /\ AnswersKept
  BY <1>1 DEF ApprovalInit, Justified, ConfirmedMerged, MergesMarked, AnswersKept
<1> QED BY <1>2, <1>3, <1>4, <1>5 DEF ApprovalInv

LEMMA ApprovalStays ==
  ASSUME ApprovalInv, UNCHANGED approvalVars
  PROVE  ApprovalInv'
<1>1. /\ UNCHANGED <<survivorOf, raced, status, merges, session, unmarked, aiRuns, events, verdicts, unwritten, told>>
      /\ Automatic' = Automatic
  BY DEF approvalVars, told, Automatic
<1>2. InForceOnce'
  BY <1>1 DEF ApprovalInv, InForceOnce
<1> QED BY <1>1, <1>2, ByHandInv

\* A request by hand that only checks.
LEMMA CheckInv ==
  ASSUME ApprovalInv, (\E a, b \in EntityIds : CheckByHand(a, b)) \/ \E i \in DOMAIN merges : CheckUndoByHand(i)
  PROVE  ApprovalInv'
<1>1. UNCHANGED <<survivorOf, raced, status, merges, session, unmarked, told>> /\ Automatic' = Automatic
  BY DEF CheckByHand, CheckUndoByHand, Automatic
<1>2. InForceOnce'
  BY <1>1 DEF ApprovalInv, InForceOnce
<1> QED BY <1>1, <1>2, ByHandInv

LEMMA ApprovalSteps ==
  ASSUME ApprovalInv, [ApprovalNext]_approvalVars
  PROVE  ApprovalInv'
<1>1. CASE UNCHANGED approvalVars
  BY <1>1, ApprovalStays
<1>2. ASSUME NEW s \in Sessions, Step(s) PROVE ApprovalInv'
  <2>1. CASE Resolve(s)
    BY <2>1, ResolveInv
  <2>2. CASE \E c \in session[s].found : PersistNext(s, c)
    BY <2>2, PersistInv
  <2>3. CASE List(s)
    BY <2>3, ListInv
  <2>4. CASE GroupsDone(s)
    BY <2>4, ResolveErrInv
  <2>5. CASE EvaluatePair(s)
    BY <2>5, EvaluateInv
  <2>6. CASE Ask(s)
    BY <2>6, AskInv
  <2>7. CASE \E v \in {"yes", "no", "error"} : Answered(s, v)
    BY <2>7, AnsweredInv
  <2>11. CASE AnswerRecorded(s)
    BY <2>11, AnswerRecordedInv
  <2>12. CASE AutoMergeCheck(s)
    BY <2>12, AutoMergeCheckInv
  <2>8. CASE AutoMerge(s)
    BY <2>8, AutoMergeInv
  <2>9. CASE \E c \in session[s].group : Mark(s, c)
    BY <2>9, MarkInv
  <2>10. CASE Marked(s)
    BY <2>10, SkippedInv
  <2> QED BY <1>2, <2>1, <2>2, <2>3, <2>4, <2>5, <2>6, <2>7, <2>8, <2>9, <2>10, <2>11, <2>12 DEF Step
<1>3. ASSUME NEW s \in Sessions,
             ResolveErr(s) \/ ListErr(s) \/ EvaluateErr(s) \/ AutoMergeErr(s) \/ Crash(s)
      PROVE  ApprovalInv'
  BY <1>3, ResolveErrInv, SkippedInv, CrashInv
<1>4. ASSUME NEW a \in EntityIds, NEW b \in EntityIds,
             CheckByHand(a, b) \/ \E n \in 1 .. MaxOperator : MergeByHand(n, a, b)
      PROVE  ApprovalInv'
  BY <1>4, CheckInv, MergeByHandInv
<1>5. ASSUME NEW i \in DOMAIN merges, CheckUndoByHand(i) \/ \E n \in 1 .. MaxOperator : Undo(n, i)
      PROVE  ApprovalInv'
  BY <1>5, CheckInv, UndoByHandInv
<1> QED BY <1>1, <1>2, <1>3, <1>4, <1>5 DEF ApprovalNext

THEOREM ApprovalInvariant == ApprovalSpec => []ApprovalInv
<1>1. ApprovalInit => ApprovalInv
  BY ApprovalStarts
<1>2. ApprovalInv /\ [ApprovalNext]_approvalVars => ApprovalInv'
  BY ApprovalSteps
<1> QED BY <1>1, <1>2, PTL DEF ApprovalSpec

\* merged_into is what the history says is in force, and a session marks rows
\* there are.
LEMMA ApprovalTyped ==
  ASSUME ApprovalInv
  PROVE  ApprovalTypeOK
<1>1. ASSUME NEW e \in EntityIds \ raced
      PROVE  survivorOf[e] =
               (IF \E i \in DOMAIN merges : merges[i].merged = e /\ ~merges[i].undone
                  THEN (CHOOSE m \in {merges[i] : i \in DOMAIN merges} : m.merged = e /\ ~m.undone).survivor
                  ELSE Unset)
  <2>1. CASE \E i \in DOMAIN merges : merges[i].merged = e /\ ~merges[i].undone
    <3>1. PICK c : c = CHOOSE m \in {merges[i] : i \in DOMAIN merges} : m.merged = e /\ ~m.undone
      OBVIOUS
    <3>2. c \in {merges[i] : i \in DOMAIN merges} /\ c.merged = e /\ ~c.undone
      BY <2>1, <3>1
    <3>3. PICK i \in DOMAIN merges : c = merges[i]
      BY <3>2
    <3>4. survivorOf[e] = c.survivor
      BY <3>2, <3>3 DEF ApprovalInv, InForceOnce
    <3> QED BY <2>1, <3>1, <3>4
  <2>2. CASE ~\E i \in DOMAIN merges : merges[i].merged = e /\ ~merges[i].undone
    BY <2>2 DEF ApprovalInv, InForceOnce
  <2> QED BY <2>1, <2>2
<1>2. ASSUME NEW s \in Sessions PROVE session[s].group \subseteq DOMAIN status
  <2>1. PICK r : r = session[s]
    OBVIOUS
  <2>2. PICK S, C, V, P : S = DOMAIN status /\ C = Confirmed /\ V = verdicts /\ P = AutoPairs
    OBVIOUS
  <2>3. Grounds(s, r, S, C, V, P) /\ r \in ApprovalSession
    BY <2>1, <2>2, SessionAt
  <2>4. CASE r.pc # "mark"
    BY <2>1, <2>3, <2>4 DEF Grounds
  <2>5. CASE r.pc = "mark"
    <3>1. r.groups # {} /\ r.group \subseteq GroupOf(r).cands /\ \A g \in r.groups : GroupHolds(r, g, S)
      BY <2>3, <2>5 DEF Grounds
    <3>2. GroupOf(r) \in r.groups
      BY <2>3, <3>1, GroupInHand DEF ApprovalSession
    <3> QED BY <2>1, <2>2, <3>1, <3>2 DEF GroupHolds
  <2> QED BY <2>4, <2>5
<1> QED BY <1>1, <1>2 DEF ApprovalTypeOK, ApprovalInv, ConfirmedMerged

\* commit_auto_merge merges only what evaluate_pair allowed: one type, a score that
\* is high enough or a middling one with a yes given to this very session, and at
\* most max_auto_merges_per_resolve times, however the sessions, the errors, the
\* crashes and the operators interleave.
THEOREM AutoMergesAreAllowed == ApprovalSpec => []AutoMergesAllowed
<1>1. ApprovalInv => AutoMergesAllowed
  BY DEF ApprovalInv, Justified, Limited, MergesBy, AutoMergesAllowed
<1> QED BY <1>1, ApprovalInvariant, PTL

\* The candidates, the merge history, merged_into, ai_runs and the outbox agree
\* after every step; where they do not, an error or a crash is on record.
THEOREM ApprovalRecordsAgree == ApprovalSpec => []RecordsAgree
<1>1. ASSUME ApprovalInv PROVE RecordsAgree
  <2>1. ApprovalTypeOK
    BY <1>1, ApprovalTyped
  <2>2. \A c \in DOMAIN status : status[c] = "auto_confirmed" => \E i \in Automatic : PairAt(i) = c.pair
    BY <1>1 DEF ApprovalInv, ConfirmedMerged, Confirmed, AutoPairs
  <2>3. \A i \in Automatic :
          /\ merges[i].cands # {}
          /\ \A c \in merges[i].cands :
               /\ c \in DOMAIN status /\ c.pair = PairAt(i)
               /\ \/ status[c] = "auto_confirmed"
                  \/ c \in unmarked
                  \/ c \in session[merges[i].by].group
    BY <1>1 DEF ApprovalInv, MergesMarked, MarkedOr, Confirmed
  <2>4. ASSUME NEW x \in verdicts
        PROVE  \/ x[1] \in unwritten
               \/ session[x[1][1]].pc = "record" /\ x = <<Call(x[1][1]), session[x[1][1]].verdict>>
               \/ /\ x \in aiRuns
                  /\ <<IF x[2] = "error" THEN "failed" ELSE "completed", x[1]>> \in events
    <3>1. x[1][1] \in Sessions /\ (InHand(x, session[x[1][1]]) \/ Written(x))
      BY <1>1 DEF ApprovalInv, AnswersKept
    <3>2. CASE Written(x)
      BY <3>2 DEF Written
    <3>3. CASE InHand(x, session[x[1][1]])
      <4>1. PICK t, r : t = x[1][1] /\ r = session[t]
        OBVIOUS
      <4>2. PairOf(t) = PairIn(r)
        BY <1>1, <3>1, <4>1, SessionAt
      <4> QED BY <3>3, <4>1, <4>2 DEF InHand, Call
    <3> QED BY <3>1, <3>2, <3>3
  <2> QED BY <2>1, <2>2, <2>3, <2>4 DEF RecordsAgree
<1> QED BY <1>1, ApprovalInvariant, PTL

\* A step that does not execute a merge leaves no new record.
LEMMA NewRecord ==
  ASSUME ApprovalInv, [ApprovalNext]_approvalVars, Len(merges') > Len(merges)
  PROVE  \/ \E s \in Sessions : AutoMerge(s)
         \/ \E a, b \in EntityIds : \E n \in 1 .. MaxOperator : MergeByHand(n, a, b)
<1>1. Len(merges) \in Nat
  <2>1. PICK R, h : R = MergeRecord /\ h = merges
    OBVIOUS
  <2>2. h \in Seq(R)
    BY <2>1 DEF ApprovalInv, InForceOnce
  <2>3. Len(h) \in Nat
    BY <2>2
  <2> QED BY <2>1, <2>3
<1>2. merges' # merges
  <2>1. PICK h, k : h = merges /\ k = merges'
    OBVIOUS
  <2>2. h # k
    BY <1>1, <2>1
  <2> QED BY <2>1, <2>2
<1>3. ASSUME NEW i \in DOMAIN merges, NEW n, Undo(n, i) PROVE FALSE
  <2>1. PICK R, h, m : R = MergeRecord /\ h = merges /\ m = [merges[i] EXCEPT !.undone = TRUE]
    OBVIOUS
  <2>2. h \in Seq(R) /\ i \in DOMAIN h /\ merges[i] \in MergeRecord
    BY <2>1, MergeTyped DEF ApprovalInv, InForceOnce
  <2>3. m \in R
    BY <2>1, <2>2 DEF MergeRecord
  <2>4. PICK k : k = [h EXCEPT ![i] = m]
    OBVIOUS
  <2>5. Len(k) = Len(h)
    BY <2>2, <2>3, <2>4
  <2>6. merges' = k
    BY <1>3, <2>1, <2>4 DEF Undo
  <2> QED BY <1>1, <2>1, <2>5, <2>6
<1> QED BY <1>2, <1>3 DEF ApprovalNext, approvalVars, Step, Resolve, PersistNext, List, GroupsDone,
      EvaluatePair, Ask, Answered, AnswerRecorded, AutoMergeCheck, CheckByHand, CheckUndoByHand, Mark, Marked, ResolveErr, ListErr, EvaluateErr,
      AutoMergeErr, Crash

\* A session never merges a pair all of whose candidates were confirmed when it
\* found them: commit_auto_merge gets only groups of pending candidates or of ones
\* it inserted itself, and a pair confirmed before has neither.
THEOREM UndoesStick == ApprovalSpec => UndoSticks
<1>1. ASSUME ApprovalInv, [ApprovalNext]_approvalVars, NEW s \in Sessions,
             Len(merges') > Len(merges), merges'[Len(merges')].by = s
      PROVE  PairOf(s) \notin session[s].settled
  <2>1. InForceOnce
    BY <1>1 DEF ApprovalInv
  <2>2. ASSUME NEW m, merges' = Append(merges, m) PROVE merges'[Len(merges')] = m
    <3>1. PICK R, h, k : R = MergeRecord /\ h = merges /\ k = Append(merges, m)
      OBVIOUS
    <3>2. h \in Seq(R)
      BY <2>1, <3>1 DEF InForceOnce
    <3>3. k[Len(k)] = m
      BY <3>1, <3>2
    <3> QED BY <2>2, <3>1, <3>3
  <2>3. ASSUME NEW a, NEW b, NEW n, MergeByHand(n, a, b) PROVE FALSE
    <3>1. PICK m : m = MergeOf(a, b, {}, Unset)
      OBVIOUS
    <3>2. merges' = Append(merges, m) /\ m.by = Unset
      BY <2>3, <3>1 DEF MergeByHand, ExecuteMerge, MergeOf
    <3>3. Unset = s
      BY <1>1, <2>2, <3>2
    <3> QED BY <3>3, ApprovalAssumption
  <2>4. PICK t \in Sessions : AutoMerge(t)
    BY <1>1, <2>3, NewRecord
  <2>5. t = s
    <3>1. PICK m : m = MergeOf(Entity(t), Group(t).other, Group(t).cands, t)
      OBVIOUS
    <3>2. merges' = Append(merges, m) /\ m.by = t
      BY <2>4, <3>1 DEF AutoMerge, ExecuteMerge, MergeOf
    <3> QED BY <1>1, <2>2, <3>2
  <2>6. PICK r : r = session[s]
    OBVIOUS
  <2>7. PICK S, C, V, P : S = DOMAIN status /\ C = Confirmed /\ V = verdicts /\ P = AutoPairs
    OBVIOUS
  <2>8. Grounds(s, r, S, C, V, P) /\ r \in ApprovalSession /\ PairOf(s) = PairIn(r) /\ r.pc = "commit"
    BY <1>1, <2>4, <2>5, <2>6, <2>7, SessionAt DEF AutoMerge
  <2>9. r.groups # {} /\ \A g \in r.groups : GroupHolds(r, g, S)
    BY <2>8 DEF Grounds
  <2>10. GroupOf(r) \in r.groups
    BY <2>8, <2>9, GroupInHand DEF ApprovalSession
  <2> QED BY <2>6, <2>8, <2>9, <2>10 DEF GroupHolds, PairIn
<1>2. ApprovalInv /\ [ApprovalNext]_approvalVars =>
        [\A s \in Sessions :
           Len(merges') > Len(merges) /\ merges'[Len(merges')].by = s
             => PairOf(s) \notin session[s].settled]_approvalVars
  BY <1>1
<1> QED BY <1>2, ApprovalInvariant, PTL DEF UndoSticks, ApprovalSpec
==============================================================================
