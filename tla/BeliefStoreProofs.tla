------------------------- MODULE BeliefStoreProofs -------------------------
(***************************************************************************)
(* For any number of writers, keys, retries and observation times: the     *)
(* write path never leaves an attribute with two current values, never     *)
(* rewrites history, links every closed row to later knowledge, replaces a *)
(* belief without losing it, and serves what was learned last.             *)
(***************************************************************************)
EXTENDS BeliefStore, FiniteSetTheorems, WellFoundedInduction, TLAPS

LEMMA InitType == Init => TypeOK
  BY LoadsAssumption, StampsAssumption, BoundsAssumption
  DEF Init, TypeOK, Ids, Steps

(* Every step of a writer keeps the types.                                 *)
LEMMA NextType == TypeOK /\ [Next]_vars => TypeOK'
  <1> SUFFICES ASSUME TypeOK, [Next]_vars PROVE TypeOK'
    OBVIOUS
  <1> USE BoundsAssumption DEF TypeOK, Ids, Steps, Goto, Row
  <1>1. CASE UNCHANGED vars
    BY <1>1 DEF vars
  <1>2. ASSUME NEW w \in Writers, Step(w) PROVE TypeOK'
    <2>1. CASE FindDuplicate(w)
      BY <2>1 DEF FindDuplicate, NearDuplicates
    <2>2. CASE NoDuplicate(w)
      BY <2>2 DEF NoDuplicate
    <2>3. CASE Bump(w)
      BY <2>3 DEF Bump
    <2>4. CASE LockAndRead(w)
      BY <2>4 DEF LockAndRead, SupersededRows, SameKeyRows, LaterRows, LatestOf
    <2>5. CASE Commit(w)
      BY <2>5 DEF Commit, AfterInsert
    <2>6. CASE Insert(w)
      BY <2>6 DEF Insert, AfterInsert
    <2>7. CASE SelectNegated(w)
      BY <2>7 DEF SelectNegated, NegationTargets
    <2>8. CASE CloseNegated(w)
      BY <2>8 DEF CloseNegated
    <2>9. CASE NegationDone(w)
      BY <2>9 DEF NegationDone
    <2>10. CASE Finish(w)
      BY <2>10 DEF Finish
    <2> QED
      BY <1>2, <2>1, <2>2, <2>3, <2>4, <2>5, <2>6, <2>7, <2>8, <2>9, <2>10
      DEF Step
  <1>3. ASSUME NEW w \in Writers, Retry(w) PROVE TypeOK'
    BY <1>3 DEF Retry, RollBack, MayRetry
  <1>4. ASSUME NEW w \in Writers, Drop(w) PROVE TypeOK'
    BY <1>4 DEF Drop, RollBack
  <1> QED
    BY <1>1, <1>2, <1>3, <1>4 DEF Next, Quiescent

(* The tables and the writers keep their types for ever.                   *)
THEOREM TypeCorrect == Spec => []TypeOK
  BY InitType, NextType, PTL DEF Spec

-----------------------------------------------------------------------------
(* What a transaction between its read and its commit relies on.  The      *)
(* advisory lock: no two of them are on one key, and a fact that may close *)
(* others is only written under the lock.                                  *)
Locked ==
  \A v, w \in Writers :
    pc[v] = "commit" /\ pc[w] = "commit" /\ load[v].key = load[w].key => v = w

Branches ==
  \A w \in Writers : /\ pc[w] \in {"lock", "commit"} => Guarded(w)
                     /\ pc[w] = "insert" => ~Guarded(w)

(* The row locks: what it selected to close stays live and of its key.     *)
ClosingLive ==
  \A w \in Writers : pc[w] = "commit" =>
    \A r \in closing[w] : Live(r) /\ Stmt(r).key = load[w].key

(* An attempt inserts its row once.                                        *)
RowsOfAttempts ==
  /\ \A r \in facts : r[2] <= attempt[r[1]]
  /\ \A r \in Ids : r \notin facts => supersededBy[r] = Nil
  /\ \A w \in Writers :
       /\ pc[w] \in {"dedupe", "bump", "lock", "commit", "insert"} => Row(w) \notin facts
       /\ pc[w] \in {"negate", "close"} => Row(w) \in facts

(* What is closed is older than the row it will point at.                  *)
Ordered ==
  \A w \in Writers :
    /\ pc[w] \in {"commit", "close"} =>
         \A r \in closing[w] : r \in facts /\ Obs(r) <= obs[w]
    /\ pc[w] = "commit" /\ dominant[w] # Nil =>
         dominant[w] \in facts /\ obs[w] <= Obs(dominant[w])

Transactions ==
  Locked /\ Branches /\ ClosingLive /\ RowsOfAttempts /\ Ordered

(* What the transaction read is still the whole truth when it commits: a   *)
(* present value of its key that contradicts it is one it closes, or one   *)
(* it is born superseded by.                                               *)
Snapshot ==
  \A w \in Writers : (pc[w] = "commit" /\ ~load[w].hist) =>
    \A r \in facts :
      (/\ Live(r) /\ StatesPresent(r)
       /\ Stmt(r).key = load[w].key /\ Stmt(r).obj # load[w].obj)
        => IF Obs(r) <= obs[w] THEN r \in closing[w] ELSE dominant[w] # Nil

LEMMA InitTransactions == Init => Transactions
  BY DEF Init, Transactions, Locked, Branches, ClosingLive, RowsOfAttempts, Ordered

LEMMA NextTransactions == TypeOK /\ Transactions /\ [Next]_vars => Transactions'
  <1> SUFFICES ASSUME TypeOK, Transactions, [Next]_vars PROVE Transactions'
    OBVIOUS
  <1> USE NilAssumption, BoundsAssumption
      DEF TypeOK, Ids, Times, Goto, Row, Live, Obs, Stmt, Guarded,
          Transactions, Locked, Branches, ClosingLive, RowsOfAttempts, Ordered
  <1>1. CASE UNCHANGED vars
    BY <1>1 DEF vars
  <1>2. ASSUME NEW w \in Writers, Step(w) PROVE Transactions'
    <2>1. CASE FindDuplicate(w)
      BY <2>1 DEF FindDuplicate
    <2>2. CASE NoDuplicate(w)
      BY <2>2 DEF NoDuplicate
    <2>3. CASE Bump(w)
      BY <2>3 DEF Bump
    <2>4. CASE LockAndRead(w)
      BY <2>4 DEF LockAndRead, LockFree, SupersededRows, SameKeyRows, LaterRows,
         LatestOf
    <2>5. CASE Commit(w)
      BY <2>5 DEF Commit, AfterInsert
    <2>6. CASE Insert(w)
      BY <2>6 DEF Insert, AfterInsert
    <2>7. CASE SelectNegated(w)
      BY <2>7 DEF SelectNegated, NegationTargets
    <2>8. CASE CloseNegated(w)
      BY <2>8 DEF CloseNegated, RowFree
    <2>9. CASE NegationDone(w)
      BY <2>9 DEF NegationDone
    <2>10. CASE Finish(w)
      BY <2>10 DEF Finish
    <2> QED
      BY <1>2, <2>1, <2>2, <2>3, <2>4, <2>5, <2>6, <2>7, <2>8, <2>9, <2>10
      DEF Step
  <1>3. ASSUME NEW w \in Writers, Retry(w) PROVE Transactions'
    BY <1>3 DEF Retry, RollBack, MayRetry
  <1>4. ASSUME NEW w \in Writers, Drop(w) PROVE Transactions'
    BY <1>4 DEF Drop, RollBack
  <1> QED
    BY <1>1, <1>2, <1>3, <1>4 DEF Next, Quiescent

LEMMA NextSnapshot ==
  TypeOK /\ Transactions /\ Snapshot /\ [Next]_vars => Snapshot'
  <1> SUFFICES ASSUME TypeOK, Transactions, Snapshot, [Next]_vars
               PROVE  Snapshot'
    OBVIOUS
  <1> USE NilAssumption, BoundsAssumption
      DEF TypeOK, Ids, Times, Goto, Row, Live, Obs, Stmt, Guarded, StatesPresent,
          Transactions, Locked, Branches, RowsOfAttempts, Snapshot
  <1>1. CASE UNCHANGED vars
    BY <1>1 DEF vars
  <1>2. ASSUME NEW w \in Writers, Step(w) PROVE Snapshot'
    <2>1. CASE FindDuplicate(w)
      BY <2>1 DEF FindDuplicate
    <2>2. CASE NoDuplicate(w)
      BY <2>2 DEF NoDuplicate
    <2>3. CASE Bump(w)
      BY <2>3 DEF Bump
    <2>4. CASE LockAndRead(w)
      <3> SUFFICES ASSUME NEW v \in Writers, (pc[v] = "commit")', ~load[v].hist,
                          NEW r \in facts,
                          Live(r), StatesPresent(r),
                          Stmt(r).key = load[v].key, Stmt(r).obj # load[v].obj
                   PROVE  (IF Obs(r) <= obs[v] THEN r \in closing[v]
                                               ELSE dominant[v] # Nil)'
        BY <2>4 DEF LockAndRead
      <3>1. CASE v # w
        BY <2>4, <3>1 DEF LockAndRead
      <3>2. CASE v = w
        <4>1. r \in SameKeyRows(w) /\ EventOrder(w, r)
          BY <3>2 DEF SameKeyRows, EventOrder
        <4>2. CASE Obs(r) <= obs[w]
          BY <2>4, <3>2, <4>1, <4>2 DEF LockAndRead, SupersededRows
        <4>3. CASE ~(Obs(r) <= obs[w])
          <5>1. r \in LaterRows(w)
            BY <4>1, <4>3 DEF LaterRows
          <5>2. PICK q \in LatestOf(LaterRows(w)) :
                  dominant' = [dominant EXCEPT ![w] = q]
            BY <2>4, <5>1 DEF LockAndRead
          <5>3. q # Nil
            BY <5>2 DEF LatestOf, LaterRows, SameKeyRows
          <5> QED
            BY <2>4, <3>2, <4>3, <5>2, <5>3 DEF LockAndRead
        <4> QED
          BY <4>2, <4>3
      <3> QED
        BY <3>1, <3>2
    <2>5. CASE Commit(w)
      <3> SUFFICES ASSUME NEW v \in Writers, (pc[v] = "commit")', ~load[v].hist,
                          NEW r \in facts',
                          Live(r)', StatesPresent(r),
                          Stmt(r).key = load[v].key, Stmt(r).obj # load[v].obj
                   PROVE  (IF Obs(r) <= obs[v] THEN r \in closing[v]
                                               ELSE dominant[v] # Nil)'
        BY <2>5 DEF Commit
      <3>1. v # w /\ pc[v] = "commit" /\ pc[w] = "commit"
        BY <2>5 DEF Commit, AfterInsert
      <3>2. load[v].key # load[w].key
        BY <3>1
      <3>3. r # Row(w)
        BY <3>2
      <3>4. Live(r)
        BY <2>5, <3>3 DEF Commit
      <3> QED
        BY <2>5, <3>1, <3>4 DEF Commit
    <2>6. CASE Insert(w)
      BY <2>6 DEF Insert, AfterInsert
    <2>7. CASE SelectNegated(w)
      BY <2>7 DEF SelectNegated, NegationTargets
    <2>8. CASE CloseNegated(w)
      BY <2>8 DEF CloseNegated, RowFree
    <2>9. CASE NegationDone(w)
      BY <2>9 DEF NegationDone
    <2>10. CASE Finish(w)
      BY <2>10 DEF Finish
    <2> QED
      BY <1>2, <2>1, <2>2, <2>3, <2>4, <2>5, <2>6, <2>7, <2>8, <2>9, <2>10
      DEF Step
  <1>3. ASSUME NEW w \in Writers, Retry(w) PROVE Snapshot'
    BY <1>3 DEF Retry, RollBack, MayRetry
  <1>4. ASSUME NEW w \in Writers, Drop(w) PROVE Snapshot'
    BY <1>4 DEF Drop, RollBack
  <1> QED
    BY <1>1, <1>2, <1>3, <1>4 DEF Next, Quiescent

LEMMA NextOneCurrentObject ==
  TypeOK /\ Transactions /\ Snapshot /\ OneCurrentObject /\ [Next]_vars
    => OneCurrentObject'
  <1> SUFFICES ASSUME TypeOK, Transactions, Snapshot, OneCurrentObject, [Next]_vars
               PROVE  OneCurrentObject'
    OBVIOUS
  <1> USE NilAssumption, BoundsAssumption
      DEF TypeOK, Ids, Times, Goto, Row, Live, Obs, Stmt, Guarded, StatesPresent,
          Transactions, Branches, RowsOfAttempts, OneCurrentObject
  <1>1. CASE UNCHANGED vars
    BY <1>1 DEF vars
  <1>2. ASSUME NEW w \in Writers, Step(w) PROVE OneCurrentObject'
    <2>1. CASE FindDuplicate(w)
      BY <2>1 DEF FindDuplicate
    <2>2. CASE NoDuplicate(w)
      BY <2>2 DEF NoDuplicate
    <2>3. CASE Bump(w)
      BY <2>3 DEF Bump
    <2>4. CASE LockAndRead(w)
      BY <2>4 DEF LockAndRead, LockFree, SupersededRows, SameKeyRows, LaterRows,
         LatestOf, EventOrder
    <2>5. CASE Commit(w)
      BY <2>5 DEF Commit, Snapshot
    <2>6. CASE Insert(w)
      BY <2>6 DEF Insert, AfterInsert
    <2>7. CASE SelectNegated(w)
      BY <2>7 DEF SelectNegated, NegationTargets
    <2>8. CASE CloseNegated(w)
      BY <2>8 DEF CloseNegated, RowFree
    <2>9. CASE NegationDone(w)
      BY <2>9 DEF NegationDone
    <2>10. CASE Finish(w)
      BY <2>10 DEF Finish
    <2> QED
      BY <1>2, <2>1, <2>2, <2>3, <2>4, <2>5, <2>6, <2>7, <2>8, <2>9, <2>10
      DEF Step
  <1>3. ASSUME NEW w \in Writers, Retry(w) PROVE OneCurrentObject'
    BY <1>3 DEF Retry, RollBack, MayRetry
  <1>4. ASSUME NEW w \in Writers, Drop(w) PROVE OneCurrentObject'
    BY <1>4 DEF Drop, RollBack
  <1> QED
    BY <1>1, <1>2, <1>3, <1>4 DEF Next, Quiescent

(* Whatever the number of writers and the times they observed, however     *)
(* they interleave, fail and are retried: an attribute never has two       *)
(* different current values (the writer guard of _write_fact).             *)
THEOREM AtMostOneCurrentObject == Spec => []OneCurrentObject
  <1> DEFINE IInv == TypeOK /\ Transactions /\ Snapshot /\ OneCurrentObject
  <1>1. Init => IInv
    <2>1. Init => Snapshot
      BY DEF Init, Snapshot
    <2>2. Init => OneCurrentObject
      BY DEF Init, OneCurrentObject
    <2> QED
      BY <2>1, <2>2, InitType, InitTransactions
  <1>2. IInv /\ [Next]_vars => IInv'
    BY NextType, NextTransactions, NextSnapshot, NextOneCurrentObject
  <1>3. IInv => OneCurrentObject
    OBVIOUS
  <1> QED
    BY <1>1, <1>2, <1>3, PTL DEF Spec

-----------------------------------------------------------------------------
(* No step relinks, reopens or removes a closed row: the row locks keep    *)
(* what a transaction closes live until it commits, a reversal closes only *)
(* what is still live, and an attempt inserts a row of its own.            *)
LEMMA StepKeepsHistory ==
  TypeOK /\ Transactions /\ [Next]_vars => HistoryKept
  <1> SUFFICES ASSUME TypeOK, Transactions, [Next]_vars PROVE HistoryKept
    OBVIOUS
  <1> USE NilAssumption
      DEF TypeOK, Ids, Goto, Row, Live, Stmt,
          Transactions, Locked, ClosingLive, RowsOfAttempts, HistoryKept
  <1>1. CASE UNCHANGED vars
    BY <1>1 DEF vars
  <1>2. ASSUME NEW w \in Writers, Step(w) PROVE HistoryKept
    <2>1. CASE FindDuplicate(w)
      BY <2>1 DEF FindDuplicate
    <2>2. CASE NoDuplicate(w)
      BY <2>2 DEF NoDuplicate
    <2>3. CASE Bump(w)
      BY <2>3 DEF Bump
    <2>4. CASE LockAndRead(w)
      BY <2>4 DEF LockAndRead, LockFree, SupersededRows, SameKeyRows, LaterRows,
         LatestOf, EventOrder
    <2>5. CASE Commit(w)
      BY <2>5 DEF Commit, AfterInsert
    <2>6. CASE Insert(w)
      BY <2>6 DEF Insert, AfterInsert
    <2>7. CASE SelectNegated(w)
      BY <2>7 DEF SelectNegated, NegationTargets
    <2>8. CASE CloseNegated(w)
      BY <2>8 DEF CloseNegated, RowFree
    <2>9. CASE NegationDone(w)
      BY <2>9 DEF NegationDone
    <2>10. CASE Finish(w)
      BY <2>10 DEF Finish
    <2> QED
      BY <1>2, <2>1, <2>2, <2>3, <2>4, <2>5, <2>6, <2>7, <2>8, <2>9, <2>10
      DEF Step
  <1>3. ASSUME NEW w \in Writers, Retry(w) PROVE HistoryKept
    BY <1>3 DEF Retry, RollBack, MayRetry
  <1>4. ASSUME NEW w \in Writers, Drop(w) PROVE HistoryKept
    BY <1>4 DEF Drop, RollBack
  <1> QED
    BY <1>1, <1>2, <1>3, <1>4 DEF Next, Quiescent

(* "Never deletes": on every behaviour, a superseded row stays, and keeps  *)
(* the link it was closed with.                                            *)
THEOREM HistoryNeverRewritten == Spec => HistoryIsFinal
  <1>1. Init => TypeOK /\ Transactions
    BY InitType, InitTransactions
  <1>2. (TypeOK /\ Transactions) /\ [Next]_vars => (TypeOK /\ Transactions)'
    BY NextType, NextTransactions
  <1>3. TypeOK /\ Transactions /\ [Next]_vars => [HistoryKept]_vars
    BY StepKeepsHistory
  <1> QED
    BY <1>1, <1>2, <1>3, PTL DEF Spec, HistoryIsFinal

-----------------------------------------------------------------------------
LEMMA NextLinksPointForward ==
  TypeOK /\ Transactions /\ LinksPointForward /\ [Next]_vars => LinksPointForward'
  <1> SUFFICES ASSUME TypeOK, Transactions, LinksPointForward, [Next]_vars
               PROVE  LinksPointForward'
    OBVIOUS
  <1> USE NilAssumption
      DEF TypeOK, Ids, Times, Goto, Row, Live, Obs,
          Transactions, RowsOfAttempts, Ordered, LinksPointForward
  <1>1. CASE UNCHANGED vars
    BY <1>1 DEF vars
  <1>2. ASSUME NEW w \in Writers, Step(w) PROVE LinksPointForward'
    <2>1. CASE FindDuplicate(w)
      BY <2>1 DEF FindDuplicate
    <2>2. CASE NoDuplicate(w)
      BY <2>2 DEF NoDuplicate
    <2>3. CASE Bump(w)
      BY <2>3 DEF Bump
    <2>4. CASE LockAndRead(w)
      BY <2>4 DEF LockAndRead, LockFree, SupersededRows, SameKeyRows, LaterRows,
         LatestOf, EventOrder
    <2>5. CASE Commit(w)
      BY <2>5 DEF Commit, AfterInsert
    <2>6. CASE Insert(w)
      BY <2>6 DEF Insert, AfterInsert
    <2>7. CASE SelectNegated(w)
      BY <2>7 DEF SelectNegated, NegationTargets
    <2>8. CASE CloseNegated(w)
      BY <2>8 DEF CloseNegated, RowFree
    <2>9. CASE NegationDone(w)
      BY <2>9 DEF NegationDone
    <2>10. CASE Finish(w)
      BY <2>10 DEF Finish
    <2> QED
      BY <1>2, <2>1, <2>2, <2>3, <2>4, <2>5, <2>6, <2>7, <2>8, <2>9, <2>10
      DEF Step
  <1>3. ASSUME NEW w \in Writers, Retry(w) PROVE LinksPointForward'
    BY <1>3 DEF Retry, RollBack, MayRetry
  <1>4. ASSUME NEW w \in Writers, Drop(w) PROVE LinksPointForward'
    BY <1>4 DEF Drop, RollBack
  <1> QED
    BY <1>1, <1>2, <1>3, <1>4 DEF Next, Quiescent

(* Supersession chains run forward on the observation axis, and end at a   *)
(* row that exists: no close can make older knowledge the current one.     *)
THEOREM ChainsPointForward == Spec => []LinksPointForward
  <1> DEFINE IInv == TypeOK /\ Transactions /\ LinksPointForward
  <1>1. Init => IInv
    <2>1. Init => LinksPointForward
      BY DEF Init, LinksPointForward
    <2> QED
      BY <2>1, InitType, InitTransactions
  <1>2. IInv /\ [Next]_vars => IInv'
    BY NextType, NextTransactions, NextLinksPointForward
  <1>3. IInv => LinksPointForward
    OBVIOUS
  <1> QED
    BY <1>1, <1>2, <1>3, PTL DEF Spec

-----------------------------------------------------------------------------
(* A belief is replaced, never lost.  What a transaction found dominant is *)
(* a live row of its key and not one it closes, until it commits; and a    *)
(* reversal, which closes without replacing, closes reversible keys only.  *)
Survivor(w) ==
  /\ pc[w] = "commit" /\ dominant[w] # Nil =>
       /\ dominant[w] \in facts \ closing[w]
       /\ Stmt(dominant[w]).key = load[w].key
       /\ Stmt(dominant[w]).obj # load[w].obj
       /\ obs[w] < Obs(dominant[w])
       /\ ~Reversible(load[w].key) => Live(dominant[w])
  /\ pc[w] = "close" => \A r \in closing[w] : Reversible(Stmt(r).key)

Survivors == \A w \in Writers : Survivor(w)


(* What a turn says and when it was said are settled before it is written. *)
LEMMA SaidOnce == [Next]_vars => UNCHANGED <<load, dedupe, obs>>
  BY DEF Next, Quiescent, vars, Step, FindDuplicate, NoDuplicate, Bump, LockAndRead,
     Commit, Insert, SelectNegated, CloseNegated, NegationDone, Finish, Retry, Drop,
     RollBack

LEMMA SameReversible ==
  ASSUME UNCHANGED load, NEW k PROVE Reversible(k)' <=> Reversible(k)
  BY DEF Reversible

(* The table changes in three ways.                                        *)
LEMMA TableSteps ==
  ASSUME [Next]_vars
  PROVE  \/ UNCHANGED <<facts, supersededBy>>
         \/ \E w \in Writers : Commit(w) \/ Insert(w) \/ CloseNegated(w)
  BY DEF Next, Quiescent, vars, Step, FindDuplicate, NoDuplicate, Bump, LockAndRead,
     SelectNegated, NegationDone, Finish, Retry, Drop, RollBack

(* And a writer's transaction in four.                                     *)
LEMMA WriterSteps ==
  ASSUME TypeOK, [Next]_vars, NEW v \in Writers
  PROVE  \/ pc'[v] = pc[v] /\ closing'[v] \subseteq closing[v] /\ dominant'[v] = dominant[v]
            /\ (pc[v] = "commit" => closing'[v] = closing[v])
         \/ LockAndRead(v) \/ SelectNegated(v) \/ pc'[v] \notin {"commit", "close"}
  <1> USE DEF TypeOK, Goto
  <1>1. CASE UNCHANGED vars
    BY <1>1 DEF vars
  <1>2. ASSUME NEW w \in Writers, w # v, Step(w) \/ Retry(w) \/ Drop(w)
        PROVE  pc'[v] = pc[v] /\ closing'[v] = closing[v] /\ dominant'[v] = dominant[v]
    BY <1>2 DEF Step, FindDuplicate, NoDuplicate, Bump, LockAndRead, Commit, Insert,
       SelectNegated, CloseNegated, NegationDone, Finish, Retry, Drop, RollBack
  <1>3. CASE Step(v) \/ Retry(v) \/ Drop(v)
    BY <1>3 DEF Step, FindDuplicate, NoDuplicate, Bump, Commit, AfterInsert, Insert,
       CloseNegated, NegationDone, Finish, Retry, Drop
  <1> QED
    BY <1>1, <1>2, <1>3 DEF Next, Quiescent

LEMMA NextSurvivors == TypeOK /\ Transactions /\ Survivors /\ [Next]_vars => Survivors'
  <1> SUFFICES ASSUME TypeOK, Transactions, Survivors, [Next]_vars, NEW v \in Writers
               PROVE  Survivor(v)'
    BY DEF Survivors
  <1>1. load' = load /\ obs' = obs /\ (\A k : Reversible(k)' <=> Reversible(k))
    BY SaidOnce, SameReversible
  <1>2. ASSUME LockAndRead(v) PROVE Survivor(v)'
    <2>1. /\ closing'[v] = SupersededRows(v) /\ pc'[v] = "commit"
          /\ dominant'[v] \in LaterRows(v) \cup {Nil}
          /\ UNCHANGED <<facts, supersededBy>>
      BY <1>2 DEF LockAndRead, LatestOf, TypeOK, Goto
    <2> QED
      BY <1>1, <2>1 DEF SupersededRows, LaterRows, SameKeyRows, Survivor, TypeOK,
         Ids, Times,
                        Live, Stmt, Obs
  <1>3. ASSUME SelectNegated(v) PROVE Survivor(v)'
    <2>1. closing'[v] = NegationTargets(v) /\ pc'[v] = "close"
      BY <1>3 DEF SelectNegated, TypeOK, Goto
    <2>2. ASSUME NEW r \in NegationTargets(v) PROVE Reversible(Stmt(r).key)
      <3>1. r[1] \in Writers /\ load[r[1]].gist \in load[v].negates
        BY DEF NegationTargets, Stmt, TypeOK, Ids
      <3> QED
        BY <3>1 DEF Reversible, Stmt
    <2> QED
      BY <1>1, <2>1, <2>2 DEF Survivor, Stmt
  <1>4. ASSUME pc'[v] = pc[v], closing'[v] \subseteq closing[v], dominant'[v] = dominant[v],
               pc[v] = "commit" => closing'[v] = closing[v]
        PROVE  Survivor(v)'
    <2>1. CASE pc[v] = "commit" /\ dominant[v] # Nil
      <3> DEFINE d == dominant[v]
      <3>1. /\ d \in facts \ closing[v] /\ Stmt(d).key = load[v].key
            /\ Stmt(d).obj # load[v].obj /\ obs[v] < Obs(d)
            /\ ~Reversible(load[v].key) => Live(d)
        BY <2>1 DEF Survivors, Survivor
      <3>2. d \in facts' /\ d \in Ids
        BY <3>1, TableSteps DEF Commit, Insert, CloseNegated, TypeOK
      <3>3. ASSUME ~Reversible(load[v].key) PROVE supersededBy'[d] = Nil
        <4>1. supersededBy[d] = Nil
          BY <3>1, <3>3 DEF Live
        <4>2. ASSUME NEW w \in Writers, Commit(w) PROVE supersededBy'[d] = supersededBy[d]
          <5>1. load[w].key # load[v].key /\ pc[w] = "commit"
            BY <2>1, <1>4, <4>2 DEF Commit, Goto, AfterInsert, TypeOK,
               Transactions, Locked
          <5>2. d \notin closing[w] /\ d # Row(w)
            BY <3>1, <5>1 DEF Transactions, ClosingLive, RowsOfAttempts
          <5> QED
            BY <4>2, <5>2, <3>2 DEF Commit
        <4>3. ASSUME NEW w \in Writers, CloseNegated(w)
              PROVE  supersededBy'[d] = supersededBy[d]
          BY <3>1, <3>2, <3>3, <4>3 DEF CloseNegated, Survivors, Survivor, TypeOK
        <4> QED
          BY <4>1, <4>2, <4>3, TableSteps DEF Insert
      <3> QED
        BY <1>1, <1>4, <2>1, <3>1, <3>2, <3>3 DEF Survivor, Stmt, Obs, Live
    <2>2. CASE pc[v] # "commit" \/ dominant[v] = Nil
      BY <1>1, <1>4, <2>2 DEF Survivors, Survivor, Stmt
    <2> QED
      BY <2>1, <2>2
  <1>5. ASSUME pc'[v] \notin {"commit", "close"} PROVE Survivor(v)'
    BY <1>5 DEF Survivor
  <1> QED
    BY <1>2, <1>3, <1>4, <1>5, WriterSteps

LEMMA NextVacuum ==
  TypeOK /\ Transactions /\ Survivors /\ NoBeliefVacuum /\ [Next]_vars => NoBeliefVacuum'
  <1> SUFFICES ASSUME TypeOK, Transactions, Survivors, NoBeliefVacuum, [Next]_vars,
                      NEW k \in Keys, ~Reversible(k), NEW r \in facts', (Stmt(r).key = k)'
               PROVE  \E q \in facts' : (Live(q) /\ Stmt(q).key = k)'
    BY SaidOnce, SameReversible DEF NoBeliefVacuum
  <1>1. load' = load /\ obs' = obs /\ Stmt(r).key = k
    BY SaidOnce DEF Stmt
  <1>2. r \in facts => \E q \in facts : Live(q) /\ Stmt(q).key = k
    BY <1>1 DEF NoBeliefVacuum
  <1>3. CASE UNCHANGED <<facts, supersededBy>>
    BY <1>1, <1>2, <1>3 DEF Live, Stmt
  <1>4. ASSUME NEW w \in Writers, Commit(w)
        PROVE  \E q \in facts' : (Live(q) /\ Stmt(q).key = k)'
    <2>1. /\ facts' = facts \cup {Row(w)} /\ Row(w) \notin facts /\ Row(w) \in Ids
          /\ pc[w] = "commit" /\ closing[w] \subseteq facts
          /\ Stmt(Row(w)) = load[w]
          /\ \A q \in Ids : supersededBy'[q] = IF q \in closing[w] THEN Row(w)
                                               ELSE IF q = Row(w) THEN dominant[w]
                                               ELSE supersededBy[q]
      BY <1>4 DEF Commit, Transactions, RowsOfAttempts, Ordered, TypeOK, Row, Ids,
         Stmt
    <2>2. CASE load[w].key = k
      <3>1. CASE dominant[w] = Nil
        BY <1>1, <2>1, <2>2, <3>1 DEF Live, Stmt
      <3>2. CASE dominant[w] # Nil
        <4>1. /\ dominant[w] \in facts \ closing[w] /\ Live(dominant[w])
              /\ Stmt(dominant[w]).key = k
          BY <2>1, <2>2, <3>2 DEF Survivors, Survivor
        <4> QED
          BY <1>1, <2>1, <4>1 DEF Live, Stmt, TypeOK
      <3> QED
        BY <3>1, <3>2
    <2>3. CASE load[w].key # k
      <3>1. r # Row(w)
        BY <1>1, <2>1, <2>3
      <3>2. PICK q \in facts : Live(q) /\ Stmt(q).key = k
        BY <1>2, <2>1, <3>1
      <3>3. q \notin closing[w] /\ q # Row(w)
        BY <2>1, <2>3, <3>2 DEF Transactions, ClosingLive
      <3> QED
        BY <1>1, <2>1, <3>2, <3>3 DEF Live, Stmt, TypeOK
    <2> QED
      BY <2>2, <2>3
  <1>5. ASSUME NEW w \in Writers, Insert(w)
        PROVE  \E q \in facts' : (Live(q) /\ Stmt(q).key = k)'
    <2>1. /\ facts' = facts \cup {Row(w)} /\ Row(w) \notin facts /\ Row(w) \in Ids
          /\ supersededBy' = supersededBy
      BY <1>5 DEF Insert, Transactions, RowsOfAttempts, TypeOK, Row, Ids
    <2>2. supersededBy[Row(w)] = Nil
      BY <2>1 DEF Transactions, RowsOfAttempts
    <2> QED
      BY <1>1, <1>2, <2>1, <2>2 DEF Live, Stmt
  <1>6. ASSUME NEW w \in Writers, CloseNegated(w)
        PROVE  \E q \in facts' : (Live(q) /\ Stmt(q).key = k)'
    <2>1. PICK c \in closing[w] :
            facts' = facts /\ \A q \in Ids \ {c} : supersededBy'[q] = supersededBy[q]
      BY <1>6 DEF CloseNegated, TypeOK
    <2>2. Reversible(Stmt(c).key)
      BY <1>6 DEF CloseNegated, Survivors, Survivor
    <2>3. PICK q \in facts : Live(q) /\ Stmt(q).key = k
      BY <1>2, <2>1
    <2> QED
      BY <1>1, <2>1, <2>2, <2>3 DEF Live, Stmt, TypeOK
  <1> QED
    BY <1>3, <1>4, <1>5, <1>6, TableSteps

(* A key on which nothing is reversed keeps a live row once it has a row:  *)
(* supersession, whoever wins it, never leaves a hole.                     *)
THEOREM BeliefNeverLost == Spec => []NoBeliefVacuum
  <1> DEFINE IInv == TypeOK /\ Transactions /\ Survivors /\ NoBeliefVacuum
  <1>1. Init => IInv
    <2>1. Init => Survivors /\ NoBeliefVacuum
      BY DEF Init, Survivors, Survivor, NoBeliefVacuum
    <2> QED
      BY <2>1, InitType, InitTransactions
  <1>2. IInv /\ [Next]_vars => IInv'
    BY NextType, NextTransactions, NextSurvivors, NextVacuum
  <1>3. IInv => NoBeliefVacuum
    OBVIOUS
  <1> QED
    BY <1>1, <1>2, <1>3, PTL DEF Spec

-----------------------------------------------------------------------------
(* The refinement.  On a plain key the live rows are of one object, so the *)
(* belief is that object and the latest time it was learned.               *)
ValueOf(objects, known) ==
  IF Cardinality(objects) = 1
    THEN [obj   |-> CHOOSE o \in objects : TRUE,
          known |-> CHOOSE t \in known : \A u \in known : u <= t]
    ELSE Nil

ObjectsOf(rows) == {Stmt(r).obj : r \in rows}
KnownOf(rows)   == {Obs(r) : r \in rows}
ValueIn(rows)   == ValueOf(ObjectsOf(rows), KnownOf(rows))

LEMMA ValueOfOne ==
  ASSUME NEW o, NEW known, known \subseteq Nat, NEW t \in known, \A u \in known : u <= t
  PROVE  ValueOf({o}, known) = [obj |-> o, known |-> t]
  <1>1. Cardinality({o}) = 1
    BY FS_Singleton
  <1>2. (CHOOSE x \in {o} : TRUE) = o
    OBVIOUS
  <1>3. (CHOOSE x \in known : \A u \in known : u <= x) = t
    <2>1. \A x \in known : (\A u \in known : u <= x) => x = t
      OBVIOUS
    <2> QED
      BY <2>1
  <1> QED
    BY <1>1, <1>2, <1>3 DEF ValueOf

LEMMA ValueOfNone == \A known : ValueOf({}, known) = Nil
  BY FS_EmptySet DEF ValueOf

(* A set of observation times has a latest one.                            *)
LEMMA LatestExists ==
  ASSUME NEW known, known \subseteq Times, known # {}
  PROVE  \E t \in known : \A u \in known : u <= t
  <1> DEFINE before == {MaxTime - t : t \in known}
  <1>1. before \subseteq Nat /\ before # {}
    BY BoundsAssumption DEF Times
  <1> DEFINE Less == OpToRel(<, Nat)
  <1>2. IsWellFoundedOn(Less, Nat)
    BY NatLessThanWellFounded DEF OpToRel
  <1>3. Less = {ss \in Nat \X Nat : ss[1] < ss[2]}
    BY DEF OpToRel
  <1>4. \E x \in before : \A y \in before : ~(<<y, x>> \in Less)
    <2> HIDE DEF before, Less
    <2> QED
      BY <1>1, <1>2, WFMin
  <1> HIDE DEF Less
  <1>5. PICK t \in known : \A y \in before : ~(<<y, MaxTime - t>> \in Less)
    BY <1>4
  <1>6. ASSUME NEW u \in known PROVE u <= t
    <2>1. MaxTime - u \in before /\ MaxTime - u \in Nat /\ MaxTime - t \in Nat
      BY <1>1
    <2>2. ~(MaxTime - u < MaxTime - t)
      BY <1>3, <1>5, <2>1
    <2> QED
      BY <2>1, <2>2, BoundsAssumption DEF Times
  <1> QED
    BY <1>6

LEMMA SamePlain ==
  ASSUME UNCHANGED <<load, dedupe>>, NEW k PROVE PlainKey(k)' <=> PlainKey(k)
  BY DEF PlainKey, Reversible, Guarded

(* The belief before a step and after it, both read off sets of rows.      *)
LEMMA BeliefOf ==
  ASSUME NEW k \in Keys
  PROVE  Belief[k] = IF PlainKey(k) THEN ValueIn(LiveRows(k)) ELSE Nil
  BY DEF Belief, ValueIn, ValueOf, ObjectsOf, KnownOf

LEMMA BeliefOfNext ==
  ASSUME [Next]_vars, NEW k \in Keys
  PROVE  Belief'[k] = IF PlainKey(k) THEN ValueIn(LiveRows(k)') ELSE Nil
  <1>1. UNCHANGED <<load, dedupe, obs>>
    BY SaidOnce
  <1>2. Belief'[k] = IF PlainKey(k)' THEN ValueIn(LiveRows(k))' ELSE Nil
    BY DEF Belief, ValueIn, ValueOf, ObjectsOf, KnownOf
  <1>3. ValueIn(LiveRows(k))' = ValueIn(LiveRows(k)')
    <2>1. ObjectsOf(LiveRows(k))' = ObjectsOf(LiveRows(k)')
      BY <1>1 DEF ObjectsOf, Stmt
    <2>2. KnownOf(LiveRows(k))' = KnownOf(LiveRows(k)')
      BY <1>1 DEF KnownOf, Obs
    <2> QED
      BY <2>1, <2>2 DEF ValueIn, ValueOf
  <1> QED
    BY <1>1, <1>2, <1>3, SamePlain

(* Rows of one object state it, as learned by the latest of them.          *)
LEMMA ValueOfRows ==
  ASSUME TypeOK, NEW rows, rows \subseteq Ids, NEW m \in rows,
         \A r \in rows : Stmt(r).obj = Stmt(m).obj /\ Obs(r) <= Obs(m)
  PROVE  ValueIn(rows) = [obj |-> Stmt(m).obj, known |-> Obs(m)]
  <1>1. ObjectsOf(rows) = {Stmt(m).obj}
    BY DEF ObjectsOf
  <1>2. /\ KnownOf(rows) \subseteq Nat /\ Obs(m) \in KnownOf(rows)
        /\ \A u \in KnownOf(rows) : u <= Obs(m)
    BY DEF KnownOf, Obs, TypeOK, Ids, Times
  <1> QED
    BY <1>1, <1>2, ValueOfOne DEF ValueIn

LEMMA LatestRow ==
  ASSUME TypeOK, NEW rows, rows \subseteq Ids, rows # {}
  PROVE  \E m \in rows : \A r \in rows : Obs(r) <= Obs(m)
  <1>1. KnownOf(rows) \subseteq Times /\ KnownOf(rows) # {}
    BY DEF KnownOf, Obs, TypeOK, Ids
  <1>2. PICK t \in KnownOf(rows) : \A u \in KnownOf(rows) : u <= t
    BY <1>1, LatestExists
  <1> QED
    BY <1>2 DEF KnownOf

(* On a plain key every row states a present value, so the live ones agree.*)
LEMMA PlainRows ==
  ASSUME TypeOK, OneCurrentObject, NEW k \in Keys, PlainKey(k)
  PROVE  /\ LiveRows(k) \subseteq Ids
         /\ \A r \in LiveRows(k) : StatesPresent(r)
         /\ \A r, q \in LiveRows(k) : Stmt(r).obj = Stmt(q).obj
  <1>1. \A r \in LiveRows(k) : r \in facts /\ r \in Ids /\ Live(r) /\ Stmt(r).key = k
    BY DEF LiveRows, TypeOK
  <1>2. \A r \in LiveRows(k) : StatesPresent(r)
    BY <1>1 DEF PlainKey, StatesPresent, Stmt, Ids
  <1> QED
    BY <1>1, <1>2 DEF OneCurrentObject

RefInv == TypeOK /\ Transactions /\ Snapshot /\ OneCurrentObject /\ Survivors

LEMMA SameBelief ==
  ASSUME [Next]_vars, NEW k \in Keys, PlainKey(k) => LiveRows(k)' = LiveRows(k)
  PROVE  Belief'[k] = Belief[k]
  BY BeliefOf, BeliefOfNext

(* An insert without the lock and a reversal do not touch plain keys.      *)
LEMMA OtherSteps ==
  ASSUME RefInv, [Next]_vars, NEW w \in Writers, Insert(w) \/ CloseNegated(w),
         NEW k \in Keys, PlainKey(k)
  PROVE  LiveRows(k)' = LiveRows(k)
  <1>1. load' = load
    BY SaidOnce
  <1>2. CASE Insert(w)
    <2>1. load[w].key # k
      BY <1>2 DEF Insert, RefInv, Transactions, Branches, PlainKey
    <2> QED
      BY <1>1, <1>2, <2>1 DEF Insert, LiveRows, Live, Stmt, Row
  <1>3. CASE CloseNegated(w)
    <2>1. PICK r \in closing[w] :
            facts' = facts /\ \A q \in Ids \ {r} : supersededBy'[q] = supersededBy[q]
      BY <1>3 DEF CloseNegated, RefInv, TypeOK
    <2>2. Stmt(r).key # k
      BY <1>3 DEF CloseNegated, RefInv, Survivors, Survivor, PlainKey
    <2> QED
      BY <1>1, <2>1, <2>2 DEF LiveRows, Live, Stmt, RefInv, TypeOK
  <1> QED
    BY <1>2, <1>3

(* A commit rewrites the rows of its own key.                              *)
LEMMA CommitRows ==
  ASSUME RefInv, [Next]_vars, NEW w \in Writers, Commit(w), NEW k \in Keys
  PROVE  LiveRows(k)' = IF k # load[w].key THEN LiveRows(k)
                        ELSE (LiveRows(k) \ closing[w])
                               \cup (IF dominant[w] = Nil THEN {Row(w)} ELSE {})
  <1>1. load' = load
    BY SaidOnce
  <1>2. /\ facts' = facts \cup {Row(w)} /\ Row(w) \notin facts /\ Row(w) \in Ids
        /\ pc[w] = "commit" /\ closing[w] \subseteq facts /\ facts \subseteq Ids
        /\ Stmt(Row(w)) = load[w] /\ Row(w) # Nil
        /\ \A q \in Ids : supersededBy'[q] = IF q \in closing[w] THEN Row(w)
                                             ELSE IF q = Row(w) THEN dominant[w]
                                             ELSE supersededBy[q]
    BY NilAssumption
    DEF Commit, RefInv, Transactions, RowsOfAttempts, Ordered, TypeOK, Row, Ids,
        Stmt
  <1>3. \A r \in closing[w] : Stmt(r).key = load[w].key
    BY <1>2 DEF RefInv, Transactions, ClosingLive
  <1>4. ASSUME NEW r
        PROVE  r \in LiveRows(k)' <=>
                 /\ r \in facts \cup {Row(w)} /\ Stmt(r).key = k
                 /\ r \notin closing[w]
                 /\ IF r = Row(w) THEN dominant[w] = Nil ELSE supersededBy[r] = Nil
    BY <1>1, <1>2 DEF LiveRows, Live, Stmt
  <1>5. \A r : r \in LiveRows(k) <=> r \in facts /\ Stmt(r).key = k /\ supersededBy[r] = Nil
    BY DEF LiveRows, Live
  <1> QED
    BY <1>2, <1>3, <1>4, <1>5

(* What a commit does to a plain key: what it says is learned, or, when    *)
(* later knowledge is held, nothing is.                                    *)
LEMMA CommitLearns ==
  ASSUME RefInv, [Next]_vars, NEW w \in Writers, Commit(w),
         NEW k \in Keys, k = load[w].key, PlainKey(k)
  PROVE  \/ Belief'[k] = Belief[k]
         \/ /\ Belief[k] = Nil \/ Belief[k].known <= obs[w]
            /\ Belief'[k] = [obj |-> load[w].obj, known |-> obs[w]]
  <1> DEFINE o == load[w].obj
             t == obs[w]
             rows == LiveRows(k)
             later == LiveRows(k)'
  <1>1. /\ k \in Keys /\ o \in Objects /\ t \in Times /\ ~load[w].hist /\ pc[w] = "commit"
        /\ Row(w) \in Ids /\ Row(w) \notin facts /\ Stmt(Row(w)) = load[w] /\ Obs(Row(w)) = t
    BY DEF RefInv, TypeOK, Transactions, RowsOfAttempts, Commit, PlainKey,
       Statements, Row, Ids,
           Stmt, Obs
  <1>2. /\ rows \subseteq Ids /\ Row(w) \notin rows
        /\ \A r \in rows : r \in facts /\ Live(r) /\ StatesPresent(r) /\ Stmt(r).key = k
        /\ \A r, q \in rows : Stmt(r).obj = Stmt(q).obj
    BY <1>1, PlainRows DEF RefInv, LiveRows
  <1>3. later = (rows \ closing[w]) \cup (IF dominant[w] = Nil THEN {Row(w)} ELSE {})
    BY <1>1, CommitRows
  <1>4. /\ Belief[k] = ValueIn(rows)
        /\ Belief'[k] = ValueIn(later)
    BY <1>1, BeliefOf, BeliefOfNext
  <1>5. \A r \in closing[w] : Obs(r) <= t
    BY <1>1 DEF RefInv, Transactions, Ordered
  <1>6. \A r \in rows : Obs(r) \in Nat /\ t \in Nat
    BY <1>1, <1>2 DEF RefInv, TypeOK, Obs, Ids, Times
  <1>7. \A r \in rows : Stmt(r).obj # o =>
          IF Obs(r) <= t THEN r \in closing[w] ELSE dominant[w] # Nil
    BY <1>1, <1>2 DEF RefInv, Snapshot
  <1> HIDE DEF rows, later
  (* Something learned later is held: it stays what is believed.           *)
  <1>8. ASSUME NEW q \in rows, t < Obs(q), dominant[w] = Nil => Stmt(q).obj = o
        PROVE  Belief'[k] = Belief[k]
    <2>1. PICK m \in rows : \A r \in rows : Obs(r) <= Obs(m)
      BY <1>2, <1>8, LatestRow DEF RefInv
    <2>2. m \notin closing[w] /\ t < Obs(m)
      BY <1>5, <1>6, <1>8, <2>1
    <2>3. Belief[k] = [obj |-> Stmt(m).obj, known |-> Obs(m)]
      BY <1>2, <1>4, <2>1, ValueOfRows DEF RefInv
    <2>4. m \in later /\ later \subseteq Ids
      BY <1>1, <1>2, <1>3, <2>2
    <2>5. \A r \in later : Stmt(r).obj = Stmt(m).obj /\ Obs(r) <= Obs(m)
      BY <1>1, <1>2, <1>3, <1>6, <1>8, <2>1, <2>2
    <2>6. Belief'[k] = [obj |-> Stmt(m).obj, known |-> Obs(m)]
      BY <1>4, <2>4, <2>5, ValueOfRows DEF RefInv
    <2> QED
      BY <2>3, <2>6
  <1>9. CASE dominant[w] # Nil
    <2>1. dominant[w] \in rows /\ t < Obs(dominant[w])
      BY <1>1, <1>9 DEF RefInv, Survivors, Survivor, PlainKey, LiveRows, rows
    <2> QED
      BY <1>8, <1>9, <2>1
  <1>10. CASE dominant[w] = Nil /\ \E q \in rows : t < Obs(q)
    BY <1>6, <1>7, <1>8, <1>10
  <1>11. CASE dominant[w] = Nil /\ \A q \in rows : Obs(q) <= t
    <2>1. Row(w) \in later /\ later \subseteq Ids
      BY <1>1, <1>2, <1>3, <1>11
    <2>2. \A r \in later : Stmt(r).obj = Stmt(Row(w)).obj /\ Obs(r) <= Obs(Row(w))
      BY <1>1, <1>3, <1>6, <1>7, <1>11 DEF Times
    <2>3. Belief'[k] = [obj |-> o, known |-> t]
      BY <1>1, <1>4, <2>1, <2>2, ValueOfRows DEF RefInv
    <2>4. Belief[k] = Nil \/ Belief[k].known <= t
      <3>1. CASE rows = {}
        BY <1>4, <3>1, ValueOfNone DEF ValueIn, ObjectsOf
      <3>2. CASE rows # {}
        <4>1. PICK m \in rows : \A r \in rows : Obs(r) <= Obs(m)
          BY <1>2, <3>2, LatestRow DEF RefInv
        <4>2. Belief[k] = [obj |-> Stmt(m).obj, known |-> Obs(m)]
          BY <1>2, <1>4, <4>1, ValueOfRows DEF RefInv
        <4> QED
          BY <1>11, <4>1, <4>2
      <3> QED
        BY <3>1, <3>2
    <2> QED
      BY <2>3, <2>4
  <1>12. \/ Belief'[k] = Belief[k]
         \/ (Belief[k] = Nil \/ Belief[k].known <= t) /\ Belief'[k] = [obj |-> o, known |-> t]
    BY <1>6, <1>9, <1>10, <1>11
  <1> QED
    BY <1>12

LEMMA StepLearns == RefInv /\ [Next]_vars => [Abstract!Next]_Belief
  <1> SUFFICES ASSUME RefInv, [Next]_vars PROVE [Abstract!Next]_Belief
    OBVIOUS
  <1>1. Belief = [k \in Keys |-> Belief[k]] /\ Belief' = [k \in Keys |-> Belief'[k]]
    BY DEF Belief
  <1> HIDE DEF Belief
  <1>2. ASSUME \A k \in Keys : PlainKey(k) => LiveRows(k)' = LiveRows(k)
        PROVE  Belief' = Belief
    <2>1. \A k \in Keys : Belief'[k] = Belief[k]
      BY <1>2, SameBelief
    <2> QED
      BY <1>1, <2>1
  <1>3. CASE UNCHANGED <<facts, supersededBy>>
    <2>1. \A k \in Keys : LiveRows(k)' = LiveRows(k)
      BY <1>3, SaidOnce DEF LiveRows, Live, Stmt
    <2> QED
      BY <1>2, <2>1
  <1>4. ASSUME NEW w \in Writers, Insert(w) \/ CloseNegated(w) PROVE Belief' = Belief
    BY <1>2, <1>4, OtherSteps
  <1>5. ASSUME NEW w \in Writers, Commit(w) PROVE [Abstract!Next]_Belief
    <2>0. PICK k \in Keys : k = load[w].key
      BY DEF RefInv, TypeOK, Statements
    <2>1. \A j \in Keys \ {k} : Belief'[j] = Belief[j]
      BY <1>5, <2>0, SameBelief, CommitRows
    <2>2. load[w].obj \in Objects /\ obs[w] \in Times
      BY DEF RefInv, TypeOK, Statements
    <2>3. CASE Belief'[k] = Belief[k]
      BY <1>1, <2>1, <2>3
    <2>4. CASE Belief'[k] # Belief[k]
      <3>1. PlainKey(k)
        BY <2>2, <2>4, SameBelief
      <3>2. /\ Belief[k] = Nil \/ Belief[k].known <= obs[w]
            /\ Belief'[k] = [obj |-> load[w].obj, known |-> obs[w]]
        BY <1>5, <2>0, <2>4, <3>1, CommitLearns
      <3>3. Belief' = [Belief EXCEPT ![k] = [obj |-> load[w].obj, known |-> obs[w]]]
        BY <1>1, <2>1, <2>2, <3>2
      <3>4. Abstract!Learn(k, load[w].obj, obs[w])
        BY <3>2, <3>3 DEF Abstract!Learn
      <3> QED
        BY <2>2, <3>4 DEF Abstract!Next
    <2> QED
      BY <2>3, <2>4
  <1> QED
    BY <1>3, <1>4, <1>5, TableSteps

(* The write path implements CurrentBelief on the plain keys: the value    *)
(* held as current is always the one learned last, whatever order, retries *)
(* and failures its writers commit in.                                     *)
THEOREM ServesLastLearned == Spec => ImplementsCurrentBelief
  <1>1. Init => RefInv
    <2>1. Init => Snapshot /\ OneCurrentObject /\ Survivors
      BY DEF Init, Snapshot, OneCurrentObject, Survivors, Survivor
    <2> QED
      BY <2>1, InitType, InitTransactions DEF RefInv
  <1>2. RefInv /\ [Next]_vars => RefInv'
    BY NextType, NextTransactions, NextSnapshot, NextOneCurrentObject, NextSurvivors
    DEF RefInv
  <1>3. Init => Abstract!Init
    <2> SUFFICES ASSUME Init PROVE Abstract!Init
      OBVIOUS
    <2>1. \A k \in Keys : LiveRows(k) = {}
      BY DEF Init, LiveRows
    <2>2. \A k \in Keys : Belief[k] = Nil
      BY <2>1, BeliefOf, ValueOfNone DEF ValueIn, ObjectsOf
    <2> QED
      BY <2>2 DEF Abstract!Init, Belief
  <1> QED
    BY <1>1, <1>2, <1>3, StepLearns, PTL DEF Spec, ImplementsCurrentBelief,
       Abstract!Spec
=============================================================================
