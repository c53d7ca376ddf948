---------------------------- MODULE PubSubProofs ----------------------------
(***************************************************************************)
(* Proofs about PubSub, for any number of passes, polls, turns, failures   *)
(* and crashes.  The argument: a cursor, in the row or read from it, never *)
(* leaves anything unaccounted for behind it (Cursors), and what an actor  *)
(* read after its cursor has no gap that is not accounted for (Reads), so  *)
(* moving the cursor to the last item of a delivery that arrived keeps     *)
(* Cursors true.                                                           *)
(***************************************************************************)
EXTENDS PubSub, TLAPS

USE BatchAssumption, BoundAssumption, ActorAssumption, NilAssumption

(* Ids are drawn in order.                                                 *)
Gapless ==
  \A i, j \in Turns : i < j /\ turn[j] # "none" => turn[i] # "none"

Behind(c) == \A i \in Turns : since < i /\ i <= c => i \in Accounted

Cursors ==
  /\ row # Nil => Behind(row.cursor)
  /\ \A a \in Actors : seen[a] # Nil => Behind(seen[a].cursor)

ReadsOf(a) ==
  /\ pc[a] # "idle" => seen[a] # Nil
  /\ pc[a] \in {"idle", "read"} => items[a] = {}
  /\ \A n \in items[a], i \in Turns :
       since < i /\ i <= n => i \in Accounted \cup items[a]
  /\ pc[a] = "record" => items[a] \subseteq got

Reads == \A a \in Actors : ReadsOf(a)

(* Counters never run ahead of the deliveries that failed.                 *)
Counters ==
  /\ row # Nil => row.failures <= failed
  /\ row # Nil /\ row.active => row.failures < MaxFailures
  /\ \A p \in Passes :
       pc[p] # "idle" =>
         seen[p].failures < MaxFailures /\ seen[p].failures <= failed
  /\ \A p \in Passes : pc[p] = "fail" => seen[p].failures < failed
  /\ \A q \in Pollers : pc[q] \in {"idle", "read", "answer"}

IInv ==
  TypeOK /\ Gapless /\ Cursors /\ Reads /\ Counters /\ DeactivatedByFailures

-----------------------------------------------------------------------------
LEMMA Initially == Init => IInv
  BY DEF Init, IInv, TypeOK, Gapless, Cursors, Reads, ReadsOf, Counters,
         DeactivatedByFailures, Behind, Accounted, Turns, Actors, Stages, Rows

(* The row after an UPDATE is a row, or none if it was deleted.            *)
LEMMA UpdatedRow ==
  ASSUME TypeOK, NEW r, Update(r), row # Nil => r \in Rows
  PROVE  row' \in Rows \cup {Nil} /\ (row' # Nil => row # Nil /\ row' = r)
  BY DEF Update, TypeOK

(* Steps preserve the type invariant.                                      *)
LEMMA TypePreserved == IInv /\ [Next]_vars => TypeOK'
<1> SUFFICES ASSUME IInv, [Next]_vars PROVE TypeOK'
  OBVIOUS
<1> USE DEF Turns, Actors, Stages, ghosts, reader, Goto, Leave
<1>0. TypeOK /\ Counters
  BY DEF IInv
<1>1. CASE \E i \in Turns : Allocate(i) \/ Insert(i)
  BY <1>0, <1>1 DEF Allocate, Insert, TypeOK
<1>2. CASE Subscribe
  BY <1>0, <1>2 DEF Subscribe, TypeOK, Rows
<1>3. CASE Unsubscribe
  BY <1>0, <1>3 DEF Unsubscribe, TypeOK
<1>4. ASSUME NEW p \in Passes, Begin(p) PROVE TypeOK'
  BY <1>0, <1>4 DEF Begin, TypeOK
<1>5. ASSUME NEW a \in Actors, ReadItems(a) PROVE TypeOK'
  <2>1. PICK S \in SUBSET After(seen[a].cursor) : Use(a, S)
    BY <1>5 DEF ReadItems
  <2>2. S \subseteq Turns /\ Overtaken(S) \subseteq Turns
    BY DEF After, Overtaken
  <2>3. overtaken' \subseteq Turns
    BY <1>0, <2>1, <2>2 DEF Use, TypeOK
  <2>4. pc' \in [Actors -> Stages] /\ items' \in [Actors -> SUBSET Turns]
    BY <1>0, <2>1, <2>2 DEF Use, TypeOK
  <2>5. seen' \in [Actors -> Rows \cup {Nil}]
    BY <1>0, <2>1 DEF Use, TypeOK
  <2> QED BY <1>0, <1>5, <2>3, <2>4, <2>5 DEF ReadItems, TypeOK
<1>6. ASSUME NEW p \in Passes, PostArrives(p) PROVE TypeOK'
  BY <1>0, <1>6 DEF PostArrives, TypeOK
<1>7. ASSUME NEW p \in Passes, PostFails(p) PROVE TypeOK'
  BY <1>0, <1>7 DEF PostFails, TypeOK
<1>8. ASSUME NEW p \in Passes, Advance(p) PROVE TypeOK'
  <2>1. PICK n \in Turns : Update([cursor |-> n, failures |-> 0, active |-> row.active])
    BY <1>8 DEF Advance
  <2>2. row # Nil => [cursor |-> n, failures |-> 0, active |-> row.active] \in Rows
    BY <1>0 DEF TypeOK, Rows
  <2>3. row' \in Rows \cup {Nil}
    BY <1>0, <2>1, <2>2, UpdatedRow
  <2> QED BY <1>0, <1>8, <2>3 DEF Advance, TypeOK
<1>9. ASSUME NEW p \in Passes, CountFailure(p) PROVE TypeOK'
  <2> DEFINE fails == seen[p].failures + 1
             new   == [cursor |-> row.cursor, failures |-> fails,
                       active |-> fails < MaxFailures]
  <2>1. Update(new)
    BY <1>9 DEF CountFailure
  <2>2. seen[p] # Nil /\ seen[p].failures < MaxFailures
    BY <1>0, <1>9 DEF CountFailure, Counters, Reads, ReadsOf, IInv
  <2>3. fails \in 0..MaxFailures
    BY <1>0, <2>2 DEF TypeOK, Rows
  <2>4. row # Nil => new \in Rows
    BY <1>0, <2>3 DEF TypeOK, Rows
  <2>5. row' \in Rows \cup {Nil}
    BY <1>0, <2>1, <2>4, UpdatedRow
  <2> QED BY <1>0, <1>9, <2>5 DEF CountFailure, TypeOK
<1>10. ASSUME NEW p \in Passes, RecordFails(p) PROVE TypeOK'
  BY <1>0, <1>10 DEF RecordFails, TypeOK
<1>11. ASSUME NEW p \in Passes, Cut(p) PROVE TypeOK'
  BY <1>0, <1>11 DEF Cut, TypeOK
<1>12. ASSUME NEW q \in Pollers, PollBegin(q) PROVE TypeOK'
  BY <1>0, <1>12 DEF PollBegin, TypeOK
<1>13. ASSUME NEW q \in Pollers, PollAnswer(q) PROVE TypeOK'
  <2>1. PICK n \in 0..MaxTurns : Update([row EXCEPT !.cursor = n])
    BY <1>13 DEF PollAnswer
  <2>2. row # Nil => [row EXCEPT !.cursor = n] \in Rows
    BY <1>0 DEF TypeOK, Rows
  <2>3. row' \in Rows \cup {Nil}
    BY <1>0, <2>1, <2>2, UpdatedRow
  <2> QED BY <1>0, <1>13, <2>3 DEF PollAnswer, TypeOK
<1>14. CASE UNCHANGED vars
  BY <1>0, <1>14 DEF vars, TypeOK
<1> QED
  BY <1>1, <1>2, <1>3, <1>4, <1>5, <1>6, <1>7, <1>8, <1>9, <1>10, <1>11,
     <1>12, <1>13, <1>14 DEF Next, Pass, Poll

-----------------------------------------------------------------------------
(* What is accounted for stays so, and the start of a subscription never   *)
(* moves back.                                                             *)
LEMMA GhostsGrow ==
  ASSUME IInv, [Next]_vars
  PROVE  /\ Accounted \subseteq Accounted' /\ got \subseteq got'
         /\ since \in Nat /\ since' \in Nat /\ since <= since'
<1> USE DEF Turns, ghosts, reader
<1>1. TypeOK
  BY DEF IInv
<1>2. Accounted \subseteq Accounted' /\ got \subseteq got'
  BY DEF Accounted, Next, vars, Allocate, Insert, Subscribe, Unsubscribe, Pass,
         Begin, ReadItems, Use, PostArrives, PostFails, Advance, CountFailure,
         RecordFails, Cut, Poll, PollBegin, PollAnswer
<1>3. CASE Subscribe
  BY <1>1, <1>2, <1>3 DEF TypeOK, Subscribe
<1>4. CASE Unsubscribe
  BY <1>1, <1>2, <1>4 DEF TypeOK, Unsubscribe
<1>5. CASE UNCHANGED since
  BY <1>1, <1>2, <1>5 DEF TypeOK
<1> QED
  BY <1>3, <1>4, <1>5
  DEF Next, vars, Allocate, Insert, Pass, Begin, ReadItems, PostArrives,
      PostFails, Advance, CountFailure, RecordFails, Cut, Poll, PollBegin,
      PollAnswer

(* So a cursor that was safe stays safe.                                   *)
LEMMA BehindPersists ==
  ASSUME IInv, [Next]_vars, NEW c, Behind(c)
  PROVE  Behind(c)'
  BY GhostsGrow DEF Behind, Turns

(* Ids are drawn in order, and a turn never loses its id.                  *)
LEMMA GaplessPreserved == IInv /\ [Next]_vars => Gapless'
<1> SUFFICES ASSUME IInv, [Next]_vars PROVE Gapless'
  OBVIOUS
<1> USE DEF Turns, Gapless
<1>1. TypeOK /\ Gapless
  BY DEF IInv
<1>2. CASE \E k \in Turns : Allocate(k)
  BY <1>1, <1>2 DEF Allocate, TypeOK
<1>3. CASE \E k \in Turns : Insert(k)
  BY <1>1, <1>3 DEF Insert, TypeOK
<1>4. CASE UNCHANGED turn
  BY <1>1, <1>4
<1> QED
  BY <1>2, <1>3, <1>4
  DEF Next, vars, Subscribe, Unsubscribe, Pass, Begin, ReadItems, PostArrives,
      PostFails, Advance, CountFailure, RecordFails, Cut, Poll, PollBegin,
      PollAnswer

(* The heart of the argument: what ReadItems reads has no gap before its   *)
(* last item that is not accounted for, since a turn skipped by the query  *)
(* was not committed, and is put into `overtaken`.                         *)
LEMMA NoGap ==
  ASSUME IInv, NEW a \in Actors, seen[a] # Nil,
         NEW S \in SUBSET After(seen[a].cursor),
         FirstOf(S, After(seen[a].cursor)), Use(a, S),
         NEW n \in S, NEW i \in Turns, since < i, i <= n
  PROVE  i \in Accounted \cup Overtaken(S) \cup S
<1> USE DEF Turns
<1>1. TypeOK /\ Gapless /\ Cursors
  BY DEF IInv
<1>2. n \in Turns /\ turn[n] = "stored"
  BY DEF After
<1>3. seen[a].cursor \in Nat
  BY <1>1 DEF TypeOK, Rows, Actors
<1>4. CASE i <= seen[a].cursor
  BY <1>1, <1>4 DEF Cursors, Behind
<1>5. CASE seen[a].cursor < i /\ turn[i] = "stored"
  <2>1. i \in After(seen[a].cursor)
    BY <1>5 DEF After
  <2> QED BY <2>1 DEF FirstOf
<1>6. CASE turn[i] = "inserting"
  BY <1>2, <1>6 DEF Overtaken
<1>7. turn[i] # "none"
  BY <1>1, <1>2 DEF Gapless
<1> QED BY <1>1, <1>3, <1>4, <1>5, <1>6, <1>7 DEF TypeOK

(* Reads survives a step of another actor.                                 *)
LEMMA ReadsKept ==
  ASSUME IInv, [Next]_vars, NEW a \in Actors, ReadsOf(a),
         UNCHANGED <<pc[a], seen[a], items[a]>>
  PROVE  ReadsOf(a)'
  BY GhostsGrow DEF ReadsOf, Turns, IInv

LEMMA ReadsPreserved == IInv /\ [Next]_vars => Reads'
<1> SUFFICES ASSUME IInv, [Next]_vars, NEW b \in Actors PROVE ReadsOf(b)'
  BY DEF Reads
<1> USE DEF ghosts, reader, Goto, Leave
<1>0. TypeOK /\ Gapless /\ Cursors /\ ReadsOf(b)
  BY DEF IInv, Reads
<1>1. CASE UNCHANGED <<pc[b], seen[b], items[b]>>
  BY <1>0, <1>1, ReadsKept
<1>2. CASE Leave(b)
  BY <1>0, <1>2 DEF ReadsOf, TypeOK
<1>3. CASE Begin(b) \/ PollBegin(b)
  BY <1>0, <1>3 DEF Begin, PollBegin, ReadsOf, TypeOK
<1>4. CASE ReadItems(b)
  <2>1. PICK S \in SUBSET After(seen[b].cursor) :
          FirstOf(S, After(seen[b].cursor)) /\ Use(b, S)
    BY <1>4 DEF ReadItems
  <2>2. seen[b] # Nil
    BY <1>0, <1>4 DEF ReadItems, ReadsOf
  <2>3. CASE ~Leave(b)
    <3>1. pc'[b] \in {"post", "answer"} /\ items'[b] = S /\ seen' = seen
      BY <1>0, <2>1, <2>3 DEF Use, TypeOK
    <3>2. Accounted' = Accounted \cup Overtaken(S) /\ since' = since
      BY <1>4, <2>1 DEF ReadItems, Use, Accounted
    <3>3. \A n \in S, i \in Turns :
            since < i /\ i <= n => i \in Accounted \cup Overtaken(S) \cup S
      BY <2>1, <2>2, NoGap
    <3> QED BY <2>2, <3>1, <3>2, <3>3 DEF ReadsOf, Turns
  <2> QED BY <1>2, <2>3
<1>5. CASE PostArrives(b)
  BY <1>0, <1>5, GhostsGrow DEF PostArrives, ReadsOf, TypeOK, Accounted
<1>6. CASE PostFails(b) \/ RecordFails(b)
  <2>1. pc'[b] = "fail" /\ seen' = seen /\ items' = items /\ pc[b] # "idle"
    BY <1>0, <1>6 DEF PostFails, RecordFails, TypeOK
  <2> QED BY <1>0, <2>1, GhostsGrow DEF ReadsOf, Turns
<1>7. ASSUME NEW a \in Actors, a # b,
             \/ Begin(a) \/ ReadItems(a) \/ PostArrives(a) \/ PostFails(a)
             \/ Advance(a) \/ CountFailure(a) \/ RecordFails(a) \/ Cut(a)
             \/ PollBegin(a) \/ PollAnswer(a)
      PROVE  UNCHANGED <<pc[b], seen[b], items[b]>>
  BY <1>0, <1>7 DEF Begin, ReadItems, Use, PostArrives, PostFails, Advance,
     CountFailure, RecordFails, Cut, PollBegin, PollAnswer, TypeOK
<1> QED
  BY <1>1, <1>2, <1>3, <1>4, <1>5, <1>6, <1>7
  DEF Next, vars, Allocate, Insert, Subscribe, Unsubscribe, Pass, Poll, Advance,
      CountFailure, Cut, PollAnswer, Actors

-----------------------------------------------------------------------------
(* A cursor is written from what was read with it.                         *)
LEMMA CursorsPreserved == IInv /\ [Next]_vars => Cursors'
<1> SUFFICES ASSUME IInv, [Next]_vars PROVE Cursors'
  OBVIOUS
<1> USE DEF ghosts, reader, Goto, Leave
<1>0. TypeOK /\ Cursors /\ Reads
  BY DEF IInv
<1>1. ASSUME NEW a \in Actors, seen'[a] # Nil, NEW c, c = seen'[a].cursor
      PROVE  Behind(c)'
  <2>1. seen'[a] = seen[a] \/ (seen'[a] = row /\ row # Nil)
    BY <1>0, <1>1 DEF Next, vars, Allocate, Insert, Subscribe, Unsubscribe,
       Pass, Begin, ReadItems, Use, PostArrives, PostFails, Advance,
       CountFailure, RecordFails, Cut, Poll, PollBegin, PollAnswer, TypeOK, Actors
  <2>2. Behind(c)
    BY <1>0, <1>1, <2>1 DEF Cursors
  <2> QED BY <2>2, BehindPersists
<1>2. ASSUME row' # Nil, NEW c, c = row'.cursor PROVE Behind(c)'
  <2>1. CASE UNCHANGED row
    BY <1>0, <1>2, <2>1, BehindPersists DEF Cursors
  <2>2. CASE Subscribe
    BY <1>0, <1>2, <2>2 DEF Subscribe, Behind, Turns
  <2>3. CASE Unsubscribe
    BY <1>2, <2>3 DEF Unsubscribe
  <2>4. ASSUME NEW p \in Passes, Advance(p) PROVE Behind(c)'
    <3>1. c \in items[p]
      BY <1>0, <1>2, <2>4 DEF Advance, IsLast, Update
    <3>2. ReadsOf(p) /\ items[p] \subseteq got
      BY <1>0, <2>4 DEF Advance, Reads, ReadsOf, Actors
    <3>3. Behind(c)
      BY <3>1, <3>2 DEF ReadsOf, Behind, Accounted
    <3> QED BY <3>3, BehindPersists
  <2>5. ASSUME NEW p \in Passes, CountFailure(p) PROVE Behind(c)'
    <3>1. row # Nil /\ row'.cursor = row.cursor
      BY <1>2, <2>5 DEF CountFailure, Update
    <3>2. Behind(c)
      BY <1>0, <1>2, <3>1 DEF Cursors
    <3> QED BY <3>2, BehindPersists
  <2>6. ASSUME NEW q \in Pollers, PollAnswer(q) PROVE Behind(c)'
    <3>1. row # Nil /\ row \in Rows /\ seen[q] # Nil /\ ReadsOf(q)
      BY <1>0, <1>2, <2>6
      DEF PollAnswer, Update, TypeOK, Reads, ReadsOf, Actors
    <3>2. c = seen[q].cursor \/ c \in items[q]
      BY <1>2, <3>1, <2>6 DEF PollAnswer, Update, IsLast, Rows
    <3>3. CASE c = seen[q].cursor
      <4>1. Behind(c)
        BY <1>0, <3>1, <3>3 DEF Cursors, Actors
      <4> QED BY <4>1, BehindPersists
    <3>4. CASE c \in items[q]
      <4>1. Accounted \cup items[q] \subseteq Accounted' /\ since' = since
        BY <2>6 DEF PollAnswer, Accounted
      <4> QED BY <3>1, <3>4, <4>1 DEF ReadsOf, Behind, Turns
    <3> QED BY <3>2, <3>3, <3>4
  <2> QED
    BY <2>1, <2>2, <2>3, <2>4, <2>5, <2>6
    DEF Next, vars, Allocate, Insert, Pass, Begin, ReadItems, PostArrives,
        PostFails, RecordFails, Cut, Poll, PollBegin
<1> QED BY <1>1, <1>2 DEF Cursors, Behind

-----------------------------------------------------------------------------
(* The counters, read before the POST and written after it, still never    *)
(* exceed the deliveries that failed.                                      *)
LEMMA CountersPreserved ==
  IInv /\ [Next]_vars => Counters' /\ DeactivatedByFailures'
<1> SUFFICES ASSUME IInv, [Next]_vars
             PROVE  Counters' /\ DeactivatedByFailures'
  OBVIOUS
<1> USE DEF ghosts, reader, Goto, Leave, DeactivatedByFailures, Actors
<1>0. TypeOK /\ Counters /\ DeactivatedByFailures /\ Reads
  BY DEF IInv
<1>1. /\ failed \in 0..MaxFailures /\ (row # Nil => row \in Rows)
      /\ \A a \in Actors : seen[a] # Nil => seen[a] \in Rows
      /\ \A a \in Actors : pc[a] # "idle" => seen[a] # Nil
  BY <1>0 DEF TypeOK, Reads, ReadsOf
<1>2. CASE \E i \in Turns : Allocate(i) \/ Insert(i)
  BY <1>0, <1>2 DEF Allocate, Insert, Counters
<1>3. CASE Subscribe
  BY <1>0, <1>1, <1>3 DEF Subscribe, Counters
<1>4. CASE Unsubscribe
  BY <1>0, <1>4 DEF Unsubscribe, Counters
<1>5. ASSUME NEW p \in Passes, Begin(p)
      PROVE  Counters' /\ DeactivatedByFailures'
  BY <1>0, <1>5 DEF Begin, Counters, TypeOK
<1>6. ASSUME NEW a \in Actors, ReadItems(a)
      PROVE  Counters' /\ DeactivatedByFailures'
  BY <1>0, <1>6 DEF ReadItems, Use, Counters, TypeOK
<1>7. ASSUME NEW p \in Passes, PostArrives(p)
      PROVE  Counters' /\ DeactivatedByFailures'
  BY <1>0, <1>7 DEF PostArrives, Counters, TypeOK
<1>8. ASSUME NEW p \in Passes, PostFails(p) \/ RecordFails(p)
      PROVE  Counters' /\ DeactivatedByFailures'
  BY <1>0, <1>1, <1>8 DEF PostFails, RecordFails, Counters, TypeOK, Rows
<1>9. ASSUME NEW p \in Passes, Advance(p)
      PROVE  Counters' /\ DeactivatedByFailures'
  BY <1>0, <1>1, <1>9 DEF Advance, Update, Counters, TypeOK
<1>10. ASSUME NEW p \in Passes, CountFailure(p)
       PROVE  Counters' /\ DeactivatedByFailures'
  <2> DEFINE fails == seen[p].failures + 1
  <2>1. seen[p].failures \in Nat /\ fails \in Nat /\ fails <= failed
    BY <1>0, <1>1, <1>10 DEF CountFailure, Counters, Rows
  <2>2. /\ row' # Nil => row'.failures = fails
        /\ row' # Nil /\ row'.active => fails < MaxFailures
        /\ row' # Nil /\ ~row'.active => ~(fails < MaxFailures)
    BY <1>10 DEF CountFailure, Update
  <2>3. UNCHANGED failed /\ pc' = [pc EXCEPT ![p] = "idle"]
    BY <1>10 DEF CountFailure
  <2>4. \A a \in Actors : pc'[a] # "idle" => seen'[a] = seen[a] /\ pc'[a] = pc[a]
    BY <1>0, <1>10 DEF CountFailure, TypeOK
  <2>5. DeactivatedByFailures'
    BY <1>1, <2>1, <2>2, <2>3
  <2>6. Counters'
    BY <1>0, <1>1, <2>1, <2>2, <2>3, <2>4 DEF Counters, TypeOK
  <2> QED BY <2>5, <2>6
<1>11. ASSUME NEW p \in Passes, Cut(p)
       PROVE  Counters' /\ DeactivatedByFailures'
  BY <1>0, <1>11 DEF Cut, Counters, TypeOK
<1>12. ASSUME NEW q \in Pollers, PollBegin(q)
       PROVE  Counters' /\ DeactivatedByFailures'
  BY <1>0, <1>12 DEF PollBegin, Counters, TypeOK
<1>13. ASSUME NEW q \in Pollers, PollAnswer(q)
       PROVE  Counters' /\ DeactivatedByFailures'
  BY <1>0, <1>1, <1>13 DEF PollAnswer, Update, Counters, TypeOK, Rows
<1>14. CASE UNCHANGED vars
  BY <1>0, <1>14 DEF vars, Counters
<1> QED
  BY <1>2, <1>3, <1>4, <1>5, <1>6, <1>7, <1>8, <1>9, <1>10, <1>11, <1>12, <1>13,
     <1>14 DEF Next, Pass, Poll

-----------------------------------------------------------------------------
LEMMA Inductive == Spec => []IInv
<1>1. IInv /\ [Next]_vars => IInv'
  BY TypePreserved, GaplessPreserved, CursorsPreserved, ReadsPreserved,
     CountersPreserved DEF IInv
<1> QED BY Initially, <1>1, PTL DEF Spec

(* Every reachable state of a subscription, its turns, its delivery passes *)
(* and its polls is well typed (subscribe, deliver_pending, feed); the     *)
(* failure counter in particular stays within max_failures, whatever stale *)
(* counters concurrent passes write back.                                  *)
THEOREM TypeCorrect == Spec => []TypeOK
<1>1. IInv => TypeOK
  BY DEF IInv
<1> QED BY Inductive, <1>1, PTL

(* deliver_pending never moves the cursor past a turn that has neither     *)
(* been delivered nor been excused.                                        *)
THEOREM NothingSkipped == Spec => []SkipsExplained
<1>1. IInv => SkipsExplained
  BY DEF IInv, Cursors, Behind, SkipsExplained
<1> QED BY Inductive, <1>1, PTL

(* deliver_pending deactivates a subscription only after max_failures      *)
(* deliveries have failed.                                                 *)
THEOREM DeactivatedForCause == Spec => []DeactivatedByFailures
<1>1. IInv => DeactivatedByFailures
  BY DEF IInv
<1> QED BY Inductive, <1>1, PTL
=============================================================================
