---------------------------- MODULE ServerProofs ----------------------------
(***************************************************************************)
(* The write-behind queue of the clients (OfflineQueue), the asynchronous  *)
(* ingest and the recall path of the server, for any number of writes,     *)
(* drainers, turns, workers, retries, crashes and recalls, a queue and a   *)
(* pool of any size; and the types of every path a behaviour may take.     *)
(***************************************************************************)
EXTENDS MCServer, FiniteSetTheorems, SequenceTheorems, TLAPS

-----------------------------------------------------------------------------
(* Offline queue: the types are kept, an acknowledged write is never lost, *)
(* and none is stored twice without a cause.                               *)

(* What drain() relies on between the steps of one item: a file is removed *)
(* only after its write was stored, and discarded only when it is no       *)
(* longer the drainer's or could not be read.                              *)
Removing ==
  \A d \in Drainers : pc[d] = "remove" => copies[cur[d]] > 0

Discarding ==
  \A d \in Drainers : pc[d] = "discard" /\ Holds(d) => cur[d] \in unreadable

(* Nobody is told "remembered" before the file is in place.                *)
ToldAfter ==
  \A i \in Items : loc[i] \in {"new", "tmp", "refused"} => i \notin acked

Safe == Removing /\ Discarding /\ ToldAfter /\ NeverLost

-----------------------------------------------------------------------------
LEMMA InitType == Init => TypeOK
  BY ItemsAssumption, NilAssumption, FaultAssumption
  DEF Init, TypeOK, Places, Stages

(* Every step of a caller, of time or of a drainer keeps the types.        *)
LEMMA NextType == TypeOK /\ [Next]_vars => TypeOK'
  <1> SUFFICES ASSUME TypeOK, [Next]_vars PROVE TypeOK'
    OBVIOUS
  <1> USE NilAssumption, FaultAssumption
      DEF TypeOK, Places, Stages, env, files, ghosts, Place, Goto, Fault, Store, Excuse
  <1>1. CASE UNCHANGED vars
    BY <1>1 DEF vars, drainer
  <1>2. ASSUME NEW i \in Items, Caller(i) PROVE TypeOK'
    <2>1. CASE RememberStored(i)
      BY <2>1 DEF RememberStored, drainer
    <2>2. CASE RememberRefused(i)
      BY <2>2 DEF RememberRefused, drainer
    <2>3. CASE RememberTransient(i)
      BY <2>3 DEF RememberTransient, drainer
    <2>4. CASE Enqueue(i)
      BY <2>4 DEF Enqueue, drainer
    <2> QED
      BY <1>2, <2>1, <2>2, <2>3, <2>4 DEF Caller
  <1>3. ASSUME NEW i \in Items, Age(i) PROVE TypeOK'
    BY <1>3 DEF Age, drainer
  <1>4. ASSUME NEW d \in Drainers, Drain(d) PROVE TypeOK'
    <2>1. CASE Start(d)
      BY <2>1 DEF Start, Claims
    <2>2. CASE StatStale(d)
      BY <2>2 DEF StatStale
    <2>3. CASE StatFresh(d)
      BY <2>3 DEF StatFresh
    <2>4. CASE Steal(d)
      BY <2>4 DEF Steal
    <2>5. CASE List(d)
      BY <2>5 DEF List, Queued
    <2>6. CASE Claim(d)
      BY <2>6 DEF Claim
    <2>7. CASE Stamp(d)
      BY ZenonT(30), <2>7 DEF Stamp, Holds
    <2>8. CASE Load(d)
      BY <2>8 DEF Load
    <2>9. CASE PostStored(d)
      BY <2>9 DEF PostStored
    <2>10. CASE PostRefused(d)
      BY <2>10 DEF PostRefused
    <2>11. CASE Remove(d)
      BY <2>11 DEF Remove, Resolve
    <2>12. CASE Discard(d)
      BY <2>12 DEF Discard, Resolve
    <2>13. CASE Reject(d)
      BY <2>13 DEF Reject, Resolve
    <2>14. CASE Release(d)
      BY <2>14 DEF Release, Resolve
    <2>15. CASE Return(d)
      BY <2>15 DEF Return
    <2> QED
      BY <1>4, <2>1, <2>2, <2>3, <2>4, <2>5, <2>6, <2>7, <2>8, <2>9, <2>10,
         <2>11, <2>12, <2>13, <2>14, <2>15 DEF Drain
  <1>5. ASSUME NEW d \in Drainers, LoadFails(d) PROVE TypeOK'
    BY <1>5 DEF LoadFails
  <1>6. ASSUME NEW d \in Drainers, PostTransient(d) PROVE TypeOK'
    BY <1>6 DEF PostTransient
  <1>7. ASSUME NEW d \in Drainers, Crash(d) PROVE TypeOK'
    BY <1>7 DEF Crash
  <1> QED
    BY <1>1, <1>2, <1>3, <1>4, <1>5, <1>6, <1>7 DEF Next

(* The queue keeps its types, a claim always has an owner, and a drainer   *)
(* handles an item exactly at the steps that concern one.                  *)
THEOREM TypeCorrect == Spec => []TypeOK
  BY InitType, NextType, PTL DEF Spec

-----------------------------------------------------------------------------
LEMMA InitSafe == Init => Safe
  BY DEF Init, Safe, Removing, Discarding, ToldAfter, NeverLost

(* A claim is only ever made in the name of the drainer that makes it, and *)
(* copies, acked and unreadable only grow: the steps of one drainer cannot *)
(* undo what another relies on.                                            *)
LEMMA NextSafe == TypeOK /\ Safe /\ [Next]_vars => Safe'
  <1> SUFFICES ASSUME TypeOK, Safe, [Next]_vars PROVE Safe'
    OBVIOUS
  <1> USE NilAssumption
      DEF TypeOK, Places, Stages, Safe, Removing, Discarding, ToldAfter, NeverLost,
          env, files, ghosts, Place, Goto, Store, Excuse, Holds
  <1>1. CASE UNCHANGED vars
    BY <1>1 DEF vars, drainer
  <1>2. ASSUME NEW i \in Items, Caller(i) PROVE Safe'
    <2>1. CASE RememberStored(i)
      BY <2>1 DEF RememberStored, drainer
    <2>2. CASE RememberRefused(i)
      BY <2>2 DEF RememberRefused, drainer
    <2>3. CASE RememberTransient(i)
      BY <2>3 DEF RememberTransient, drainer
    <2>4. CASE Enqueue(i)
      BY <2>4 DEF Enqueue, drainer
    <2> QED
      BY <1>2, <2>1, <2>2, <2>3, <2>4 DEF Caller
  <1>3. ASSUME NEW i \in Items, Age(i) PROVE Safe'
    BY <1>3 DEF Age, drainer
  <1>4. ASSUME NEW d \in Drainers, Drain(d) PROVE Safe'
    <2>1. CASE Start(d)
      BY <2>1 DEF Start
    <2>2. CASE StatStale(d)
      BY <2>2 DEF StatStale
    <2>3. CASE StatFresh(d)
      BY <2>3 DEF StatFresh
    <2>4. CASE Steal(d)
      BY <2>4 DEF Steal
    <2>5. CASE List(d)
      BY <2>5 DEF List
    <2>6. CASE Claim(d)
      BY <2>6 DEF Claim
    <2>7. CASE Stamp(d)
      BY <2>7 DEF Stamp
    <2>8. CASE Load(d)
      BY <2>8 DEF Load
    <2>9. CASE PostStored(d)
      BY <2>9 DEF PostStored
    <2>10. CASE PostRefused(d)
      BY <2>10 DEF PostRefused
    <2>11. CASE Remove(d)
      BY <2>11 DEF Remove, Resolve
    <2>12. CASE Discard(d)
      BY <2>12 DEF Discard, Resolve
    <2>13. CASE Reject(d)
      BY <2>13 DEF Reject, Resolve
    <2>14. CASE Release(d)
      BY <2>14 DEF Release, Resolve
    <2>15. CASE Return(d)
      BY <2>15 DEF Return
    <2> QED
      BY <1>4, <2>1, <2>2, <2>3, <2>4, <2>5, <2>6, <2>7, <2>8, <2>9, <2>10,
         <2>11, <2>12, <2>13, <2>14, <2>15 DEF Drain
  <1>5. ASSUME NEW d \in Drainers, LoadFails(d) PROVE Safe'
    BY <1>5 DEF LoadFails
  <1>6. ASSUME NEW d \in Drainers, PostTransient(d) PROVE Safe'
    BY <1>6 DEF PostTransient
  <1>7. ASSUME NEW d \in Drainers, Crash(d) PROVE Safe'
    BY <1>7 DEF Crash
  <1> QED
    BY <1>1, <1>2, <1>3, <1>4, <1>5, <1>6, <1>7 DEF Next

(* "The write is never lost": whatever the number of drainers, crashes and *)
(* stolen claims, an acknowledged write is stored, waiting, set aside as   *)
(* rejected, or was unreadable on disk.                                    *)
THEOREM AcknowledgedNeverLost == Spec => []NeverLost
  <1>1. Init => TypeOK /\ Safe
    BY InitType, InitSafe
  <1>2. (TypeOK /\ Safe) /\ [Next]_vars => (TypeOK /\ Safe)'
    BY NextType, NextSafe
  <1>3. TypeOK /\ Safe => NeverLost
    BY DEF Safe
  <1> QED
    BY <1>1, <1>2, <1>3, PTL DEF Spec

-----------------------------------------------------------------------------
(* What keeps a drainer from sending twice.  Past the stamp, a drainer      *)
(* whose item has no excuse still has its claim, so no other drainer is     *)
(* past the stamp with that item; and an item stored once is out of the     *)
(* queue, or about to be removed by the drainer that stored it.             *)
PastStamp == {"load", "post", "remove", "release", "reject", "discard"}

KeepsClaim ==
  \A d \in Drainers : pc[d] \in PastStamp /\ cur[d] \notin excused => Holds(d)

StoredOnce ==
  \A i \in Items : i \notin excused =>
    \/ copies[i] = 0
    \/ copies[i] = 1 /\ loc[i] = "gone"
    \/ copies[i] = 1 /\ \E d \in Drainers : pc[d] = "remove" /\ cur[d] = i

Exclusive == KeepsClaim /\ StoredOnce

LEMMA InitExclusive == Init => Exclusive
  BY DEF Init, Exclusive, KeepsClaim, StoredOnce, PastStamp

(* Only a sweep takes a claim from its drainer, and it is excused for it;   *)
(* only a POST adds a copy, and its drainer then goes on to remove the file *)
(* or the item is excused.                                                  *)
LEMMA NextExclusive == TypeOK /\ Exclusive /\ [Next]_vars => Exclusive'
  <1> SUFFICES ASSUME TypeOK, Exclusive, [Next]_vars PROVE Exclusive'
    OBVIOUS
  <1> USE NilAssumption
      DEF TypeOK, Places, Stages, Exclusive, KeepsClaim, StoredOnce, PastStamp,
          env, files, ghosts, Place, Goto, Store, Excuse, Holds
  <1>1. CASE UNCHANGED vars
    BY <1>1 DEF vars, drainer
  <1>2. ASSUME NEW i \in Items, Caller(i) PROVE Exclusive'
    <2>1. CASE RememberStored(i)
      BY <2>1 DEF RememberStored, drainer
    <2>2. CASE RememberRefused(i)
      BY <2>2 DEF RememberRefused, drainer
    <2>3. CASE RememberTransient(i)
      BY <2>3 DEF RememberTransient, drainer
    <2>4. CASE Enqueue(i)
      BY <2>4 DEF Enqueue, drainer
    <2> QED
      BY <1>2, <2>1, <2>2, <2>3, <2>4 DEF Caller
  <1>3. ASSUME NEW i \in Items, Age(i) PROVE Exclusive'
    BY <1>3 DEF Age, drainer
  <1>4. ASSUME NEW d \in Drainers, Drain(d) PROVE Exclusive'
    <2>1. CASE Start(d)
      BY <2>1 DEF Start
    <2>2. CASE StatStale(d)
      BY <2>2 DEF StatStale
    <2>3. CASE StatFresh(d)
      BY <2>3 DEF StatFresh
    <2>4. CASE Steal(d)
      BY <2>4 DEF Steal, Handling
    <2>5. CASE List(d)
      BY <2>5 DEF List
    <2>6. CASE Claim(d)
      BY <2>6 DEF Claim
    <2>7. CASE Stamp(d)
      BY <2>7 DEF Stamp
    <2>8. CASE Load(d)
      BY <2>8 DEF Load
    <2>9. CASE PostStored(d)
      BY <2>9 DEF PostStored
    <2>10. CASE PostRefused(d)
      BY <2>10 DEF PostRefused
    <2>11. CASE Remove(d)
      BY <2>11 DEF Remove, Resolve
    <2>12. CASE Discard(d)
      BY <2>12 DEF Discard, Resolve
    <2>13. CASE Reject(d)
      BY <2>13 DEF Reject, Resolve
    <2>14. CASE Release(d)
      BY <2>14 DEF Release, Resolve
    <2>15. CASE Return(d)
      BY <2>15 DEF Return
    <2> QED
      BY <1>4, <2>1, <2>2, <2>3, <2>4, <2>5, <2>6, <2>7, <2>8, <2>9, <2>10,
         <2>11, <2>12, <2>13, <2>14, <2>15 DEF Drain
  <1>5. ASSUME NEW d \in Drainers, LoadFails(d) PROVE Exclusive'
    BY <1>5 DEF LoadFails
  <1>6. ASSUME NEW d \in Drainers, PostTransient(d) PROVE Exclusive'
    BY <1>6 DEF PostTransient
  <1>7. ASSUME NEW d \in Drainers, Crash(d) PROVE Exclusive'
    BY <1>7 DEF Crash
  <1> QED
    BY <1>1, <1>2, <1>3, <1>4, <1>5, <1>6, <1>7 DEF Next

(* Racing drainers alone never duplicate a write: a second copy has a lost  *)
(* answer, a drainer killed around its POST or a claim stolen live behind   *)
(* it, however many drainers, items and faults there are.                   *)
THEOREM DuplicatesHaveACause == Spec => []DuplicatesExplained
  <1>1. Init => TypeOK /\ Exclusive
    BY InitType, InitExclusive
  <1>2. (TypeOK /\ Exclusive) /\ [Next]_vars => (TypeOK /\ Exclusive)'
    BY NextType, NextExclusive
  <1>3. TypeOK /\ Exclusive => DuplicatesExplained
    BY DEF TypeOK, Exclusive, StoredOnce, DuplicatesExplained
  <1> QED
    BY <1>1, <1>2, <1>3, PTL DEF Spec

-----------------------------------------------------------------------------
(* Asynchronous ingest: a turn is in one place, each accepted turn is      *)
(* accounted for, and a turn reported dropped is not still worked on.      *)

Slots == DOMAIN queue

(* No turn has two entries in the queue, two workers or two timers ...     *)
QueuedOnce == \A i, j \in Slots : queue[i][1] = queue[j][1] => i = j
WorkedOnce == \A v, w \in busy : tid[v] = tid[w] => v = w
ArmedOnce  == \A x, y \in timers : x.turn = y.turn => x = y

(* ... nor one of each.                                                    *)
Nowhere(t) == /\ \A i \in Slots : queue[i][1] # t
              /\ \A w \in busy : tid[w] # t
              /\ \A x \in timers : x.turn # t

Apart ==
  /\ \A i \in Slots, w \in busy : queue[i][1] # tid[w]
  /\ \A i \in Slots, x \in timers : queue[i][1] # x.turn
  /\ \A w \in busy, x \in timers : tid[w] # x.turn

(* Only a turn answered "queued" is in the queue, at a worker or at a      *)
(* timer: its handler has ended and will not defer it again.               *)
DeferredOnly == \A t \in Turns : request[t] # "queued" => Nowhere(t)

(* Unless a retry was squeezed out, who reports a turn holds it.           *)
ReportedOver ==
  squeezed = {} => \A t \in dropped : request[t] = "queued" /\ Nowhere(t)

IngestInv == /\ QueuedOnce /\ WorkedOnce /\ ArmedOnce /\ Apart
             /\ DeferredOnly /\ ReportedOver /\ EveryTurnAccounted

-----------------------------------------------------------------------------
(* What the two ends of the queue do to its entries.                       *)
LEMMA QueueFacts ==
  ASSUME IngestTypeOK
  PROVE  /\ Slots = 1..Len(queue) /\ Len(queue) \in Nat
         /\ \A i \in Slots : /\ queue[i] \in Turns \X Attempts
                              /\ queue[i][1] \in Turns /\ queue[i][2] \in Attempts
  BY LenProperties, ElementOfSeq DEF IngestTypeOK, Slots

LEMMA AppendedQueue ==
  ASSUME IngestTypeOK, NEW t \in Turns, NEW n \in Attempts,
         Len(queue) < QueueSize, queue' = Append(queue, <<t, n>>)
  PROVE  /\ queue' \in Seq(Turns \X Attempts) /\ Len(queue') <= QueueSize
         /\ Slots' = 1..(Len(queue) + 1)
         /\ \A i \in Slots : queue'[i] = queue[i]
         /\ queue'[Len(queue) + 1] = <<t, n>>
  <1>1. queue \in Seq(Turns \X Attempts) /\ <<t, n>> \in Turns \X Attempts
    BY DEF IngestTypeOK
  <1>2. /\ queue' \in Seq(Turns \X Attempts) /\ Len(queue') = Len(queue) + 1
        /\ \A i \in 1..Len(queue) : queue'[i] = queue[i]
        /\ queue'[Len(queue) + 1] = <<t, n>>
    BY <1>1, AppendProperties
  <1>3. Slots' = 1..Len(queue')
    BY <1>2, LenProperties DEF Slots
  <1> QED
    BY <1>2, <1>3, QueueFacts, SizeAssumption

LEMMA ShortenedQueue ==
  ASSUME IngestTypeOK, queue # <<>>, queue' = Tail(queue)
  PROVE  /\ queue' \in Seq(Turns \X Attempts) /\ Len(queue') <= QueueSize
         /\ 1 \in Slots /\ Head(queue) = queue[1]
         /\ Slots' = 1..(Len(queue) - 1)
         /\ \A i \in Slots' : i + 1 \in Slots /\ i + 1 # 1 /\ queue'[i] = queue[i + 1]
  <1>1. queue \in Seq(Turns \X Attempts)
    BY DEF IngestTypeOK
  <1>2. /\ queue' \in Seq(Turns \X Attempts) /\ Len(queue') = Len(queue) - 1
        /\ \A i \in 1..Len(queue') : queue'[i] = queue[i + 1]
    BY <1>1, HeadTailProperties
  <1>3. Slots' = 1..Len(queue')
    BY <1>2, LenProperties DEF Slots
  <1>4. Len(queue) \in Nat \ {0} /\ Head(queue) = queue[1]
    BY <1>1, EmptySeq, LenProperties
  <1> QED
    BY <1>2, <1>3, <1>4, QueueFacts, SizeAssumption DEF IngestTypeOK

-----------------------------------------------------------------------------
(* A timer reports the turn of the worker that armed it: that worker has   *)
(* one, for its tid outlives the attempt.  Types need it to be inductive.  *)
TimersNamed == \A x \in timers : tid[x.by] \in Turns

IngestTypes == IngestTypeOK /\ TimersNamed

LEMMA InitTypes == IngestInit => IngestTypes
  BY SizeAssumption, BoundAssumption, EmptySeq
  DEF IngestInit, IngestTypes, IngestTypeOK, TimersNamed, RequestStates, Attempts

LEMMA NextTypes == IngestTypes /\ [IngestNext]_ingestVars => IngestTypes'
  <1> SUFFICES ASSUME IngestTypeOK, TimersNamed, [IngestNext]_ingestVars
               PROVE IngestTypes'
    BY DEF IngestTypes
  <1> USE SizeAssumption, BoundAssumption, NoTurnAssumption
  <1> USE DEF IngestTypes, TimersNamed, memory, Answer, Rest, Report, IngestItems, RequestStates, Answers
  <1>1. ASSUME NEW t \in Turns, Handler(t), ~Defer(t) PROVE IngestTypes'
    BY <1>1 DEF IngestTypeOK, Handler, StoreTurn, RefuseTurn, SkipExtraction,
                ExtractInline, InlineDone, InlineFails
  <1>2. ASSUME NEW t \in Turns, Defer(t) PROVE IngestTypes'
    <2>1. queue' \in Seq(Turns \X Attempts) /\ Len(queue') <= QueueSize
      BY <1>2, AppendedQueue DEF Defer, Attempts
    <2> QED
      BY <1>2, <2>1 DEF Defer, IngestTypeOK
  <1>3. ASSUME NEW w \in Workers, Get(w) PROVE IngestTypes'
    <2>1. /\ queue' \in Seq(Turns \X Attempts) /\ Len(queue') <= QueueSize
          /\ Head(queue)[1] \in Turns /\ Head(queue)[2] \in Attempts
      BY <1>3, ShortenedQueue, QueueFacts DEF Get
    <2> QED
      BY <1>3, <2>1 DEF Get, IngestTypeOK
  <1>4. ASSUME NEW w \in Workers, Attempt(w) PROVE IngestTypes'
    <2>1. tid[w] \in Turns
      BY <1>4 DEF Attempt, Extracted, RetryLater, GiveUp, IngestTypeOK
    <2>2. CASE Extracted(w) \/ GiveUp(w)
      BY <2>1, <2>2 DEF Extracted, GiveUp, IngestTypeOK
    <2>3. CASE RetryLater(w)
      <3>1. attempt[w] + 1 \in Attempts
        BY <2>3 DEF RetryLater, IngestTypeOK, Attempts
      <3> QED
        BY <2>1, <2>3, <3>1 DEF RetryLater, IngestTypeOK
    <2> QED
      BY <1>4, <2>2, <2>3 DEF Attempt
  <1>5. ASSUME NEW x \in timers, Requeue(x) PROVE IngestTypes'
    <2>1. x.turn \in Turns /\ x.attempt \in Attempts
      BY DEF IngestTypeOK
    <2>2. queue' \in Seq(Turns \X Attempts) /\ Len(queue') <= QueueSize
      BY <1>5, <2>1, AppendedQueue DEF Requeue
    <2> QED
      BY <1>5, <2>2 DEF Requeue, IngestTypeOK
  <1>6. ASSUME NEW x \in timers, RequeueFull(x) PROVE IngestTypes'
    BY <1>6 DEF RequeueFull, IngestTypeOK
  <1>7. CASE ServerCrash
    BY <1>7, EmptySeq DEF ServerCrash, IngestTypeOK, Attempts
  <1>8. CASE UNCHANGED ingestVars
    BY <1>8 DEF ingestVars, IngestTypeOK
  <1> QED
    BY <1>1, <1>2, <1>3, <1>4, <1>5, <1>6, <1>7, <1>8 DEF IngestNext, Fire, Idle

(* The ingest keeps its types: the queue within its bound, retries within  *)
(* their budget, and a busy worker always with a turn.                     *)
THEOREM IngestTypeCorrect == IngestSpec => []IngestTypeOK
  <1>1. IngestTypes => IngestTypeOK
    BY DEF IngestTypes
  <1> QED
    BY <1>1, InitTypes, NextTypes, PTL DEF IngestSpec

-----------------------------------------------------------------------------
LEMMA InitIngest == IngestInit => IngestInv
  BY DEF IngestInit, IngestInv, QueuedOnce, WorkedOnce, ArmedOnce, Apart, Nowhere,
         DeferredOnly, ReportedOver, EveryTurnAccounted, Slots

(* Where a turn is, in the terms of the model.                             *)
LEMMA WhereItIs ==
  \A t \in Turns :
    InProcess(t) <=> request[t] \in {"stored", "sync"} \/ ~Nowhere(t)
  BY DEF InProcess, InQueue, Working, Waiting, Nowhere, Slots

(* A turn moves from one place to the next and is never copied: the steps  *)
(* of the handlers, of the workers and of the timers.                      *)
LEMMA NextIngest == IngestTypes /\ IngestInv /\ [IngestNext]_ingestVars => IngestInv'
  <1> SUFFICES ASSUME IngestTypeOK, TimersNamed, IngestInv, [IngestNext]_ingestVars
               PROVE IngestInv'
    BY DEF IngestTypes
  <1> USE DEF memory, Answer, Rest, Report, RequestStates, Answers, Nowhere
  <1> DEFINE Accounted(t) == \/ request[t] \in {"stored", "sync"} \/ ~Nowhere(t)
                             \/ Settled(t) \/ t \in squeezed
  <1>a. \A t \in Turns : request[t] = "queued" => Accounted(t)
    BY WhereItIs DEF IngestInv, EveryTurnAccounted
  <1>b. SUFFICES /\ QueuedOnce' /\ WorkedOnce' /\ ArmedOnce' /\ Apart'
                 /\ DeferredOnly' /\ ReportedOver'
                 /\ \A t \in Turns : request'[t] = "queued" => Accounted(t)'
    <2>1. \A t \in Turns :
            InProcess(t)' <=> request'[t] \in {"stored", "sync"} \/ ~Nowhere(t)'
      BY DEF InProcess, InQueue, Working, Waiting, Slots
    <2> QED
      BY <2>1 DEF IngestInv, EveryTurnAccounted
  <1> DEFINE Goal == /\ QueuedOnce' /\ WorkedOnce' /\ ArmedOnce' /\ Apart'
                     /\ DeferredOnly' /\ ReportedOver'
                     /\ \A t \in Turns : request'[t] = "queued" => Accounted(t)'
  <1> USE DEF IngestInv
  <1>1. ASSUME NEW t \in Turns, Handler(t), ~Defer(t) PROVE Goal
    <2>1. request[t] # "queued" /\ request'[t] # "queued"
          /\ \A u \in Turns \ {t} : request'[u] = request[u]
      BY <1>1 DEF IngestTypeOK, Handler, StoreTurn, RefuseTurn, SkipExtraction,
                  ExtractInline, InlineDone, InlineFails
    <2>2. /\ UNCHANGED <<queue, busy, tid, attempt, timers, dropped, lost, squeezed>>
          /\ done \subseteq done'
      BY <1>1 DEF Handler, StoreTurn, RefuseTurn, SkipExtraction,
                  ExtractInline, InlineDone, InlineFails
    <2> QED
      BY <2>1, <2>2, <1>a DEF IngestTypeOK, QueuedOnce, WorkedOnce, ArmedOnce, Apart,
                              DeferredOnly, ReportedOver, Slots, Settled
  <1>2. ASSUME NEW t \in Turns, Defer(t) PROVE Goal
    <2>1. /\ Slots' = 1..(Len(queue) + 1) /\ Slots = 1..Len(queue) /\ Len(queue) \in Nat
          /\ \A i \in Slots : queue'[i] = queue[i] /\ queue[i][1] \in Turns
          /\ queue'[Len(queue) + 1] = <<t, 0>>
      BY <1>2, AppendedQueue, QueueFacts, BoundAssumption DEF Defer, Attempts
    <2>2. /\ request[t] = "stored" /\ request'[t] = "queued" /\ Nowhere(t)
          /\ \A u \in Turns \ {t} : request'[u] = request[u]
          /\ UNCHANGED <<busy, tid, timers, dropped, lost, squeezed, done>>
      BY <1>2 DEF Defer, IngestTypeOK, DeferredOnly
    <2>3. QueuedOnce' /\ WorkedOnce' /\ ArmedOnce' /\ Apart'
      BY <2>1, <2>2 DEF QueuedOnce, WorkedOnce, ArmedOnce, Apart
    <2>4. \A u \in Turns \ {t} : Nowhere(u)' <=> Nowhere(u)
      BY <2>1, <2>2
    <2>5. DeferredOnly'
      BY <2>2, <2>4 DEF DeferredOnly
    <2>6. ReportedOver'
      BY <2>2, <2>4 DEF ReportedOver, IngestTypeOK
    <2>7. \A u \in Turns : request'[u] = "queued" => Accounted(u)'
      BY <2>1, <2>2, <1>a DEF Settled
    <2> QED
      BY <2>3, <2>5, <2>6, <2>7
  <1>3. ASSUME NEW w \in Workers, Get(w) PROVE Goal
    <2> DEFINE t == queue[1][1]
    <2>1. /\ 1 \in Slots /\ t \in Turns
          /\ Slots' = 1..(Len(queue) - 1) /\ Slots = 1..Len(queue) /\ Len(queue) \in Nat
          /\ \A i \in Slots' : i + 1 \in Slots /\ i + 1 # 1 /\ queue'[i] = queue[i + 1]
      BY <1>3, ShortenedQueue, QueueFacts DEF Get
    <2>2. /\ w \notin busy /\ busy' = busy \cup {w} /\ tid'[w] = t
          /\ \A v \in busy : tid'[v] = tid[v]
          /\ UNCHANGED <<request, timers, dropped, lost, squeezed, done>>
      BY <1>3, ShortenedQueue DEF Get, IngestTypeOK
    <2>3. QueuedOnce' /\ WorkedOnce' /\ ArmedOnce' /\ Apart'
      <3>1. QueuedOnce'
        <4>1. \A i, j \in Slots' : queue[i + 1][1] = queue[j + 1][1] => i + 1 = j + 1
          BY <2>1 DEF QueuedOnce
        <4> QED
          BY <2>1, <4>1 DEF QueuedOnce
      <3>2. WorkedOnce' /\ ArmedOnce'
        BY <2>1, <2>2 DEF WorkedOnce, ArmedOnce, Apart
      <3>3. \A i \in Slots' : queue'[i][1] # t
        BY <2>1 DEF QueuedOnce
      <3>4. Apart'
        <4>1. \A i \in Slots', v \in busy' : queue'[i][1] # tid'[v]
          <5>1. \A i \in Slots', v \in busy : queue'[i][1] # tid'[v]
            BY <2>1, <2>2 DEF Apart
          <5> QED
            BY <5>1, <2>2, <3>3
        <4>2. \A i \in Slots', x \in timers' : queue'[i][1] # x.turn
          BY <2>1, <2>2 DEF Apart
        <4>3. \A v \in busy', x \in timers' : tid'[v] # x.turn
          BY <2>1, <2>2 DEF Apart
        <4> QED
          BY <4>1, <4>2, <4>3 DEF Apart
      <3> QED
        BY <3>1, <3>2, <3>4
    <2>4. \A u \in Turns : Nowhere(u)' <=> Nowhere(u)
      <3>1. \A i \in Slots : i # 1 => i - 1 \in Slots' /\ queue'[i - 1] = queue[i]
        BY <2>1
      <3> QED
        BY <2>1, <2>2, <3>1
    <2>5. DeferredOnly' /\ ReportedOver'
      BY <2>2, <2>4 DEF DeferredOnly, ReportedOver, IngestTypeOK
    <2>6. \A u \in Turns : request'[u] = "queued" => Accounted(u)'
      BY <2>2, <2>4, <1>a DEF Settled
    <2> QED
      BY <2>3, <2>5, <2>6
  <1>4. ASSUME NEW w \in Workers, Extracted(w) \/ GiveUp(w) PROVE Goal
    <2>1. /\ w \in busy /\ busy' = busy \ {w} /\ tid[w] \in Turns
          /\ UNCHANGED <<request, queue, tid, timers, lost, squeezed>>
          /\ \/ done' = done \cup {tid[w]} /\ dropped' = dropped
             \/ dropped' = dropped \cup {tid[w]} /\ done' = done
      BY <1>4 DEF Extracted, GiveUp, IngestTypeOK
    <2>2. QueuedOnce' /\ WorkedOnce' /\ ArmedOnce' /\ Apart'
      BY <2>1 DEF QueuedOnce, WorkedOnce, ArmedOnce, Apart, Slots
    <2>3. DeferredOnly' /\ request[tid[w]] = "queued" /\ Nowhere(tid[w])'
      BY <2>1 DEF DeferredOnly, Slots, WorkedOnce, Apart
    <2>4. ReportedOver'
      BY <2>1, <2>3 DEF ReportedOver, Slots
    <2>5. \A u \in Turns : request'[u] = "queued" => Accounted(u)'
      BY <2>1, <1>a DEF Settled, Slots
    <2> QED
      BY <2>2, <2>3, <2>4, <2>5
  <1>5. ASSUME NEW w \in Workers, RetryLater(w) PROVE Goal
    <2> DEFINE x == [turn |-> tid[w], attempt |-> attempt[w] + 1, by |-> w]
    <2>1. /\ w \in busy /\ busy' = busy \ {w} /\ tid[w] \in Turns
          /\ timers' = timers \cup {x} /\ x.turn = tid[w]
          /\ UNCHANGED <<request, queue, tid, lost, squeezed, done, dropped>>
      BY <1>5 DEF RetryLater, IngestTypeOK
    <2> HIDE DEF x
    <2>2. QueuedOnce' /\ WorkedOnce' /\ ArmedOnce' /\ Apart'
      BY <2>1 DEF QueuedOnce, WorkedOnce, ArmedOnce, Apart, Slots
    <2>3. \A u \in Turns : Nowhere(u)' <=> Nowhere(u)
      BY <2>1 DEF Slots
    <2>4. DeferredOnly' /\ ReportedOver'
      BY <2>1, <2>3 DEF DeferredOnly, ReportedOver, IngestTypeOK
    <2>5. \A u \in Turns : request'[u] = "queued" => Accounted(u)'
      BY <2>1, <2>3, <1>a DEF Settled
    <2> QED
      BY <2>2, <2>4, <2>5
  <1>6. ASSUME NEW x \in timers, Requeue(x) PROVE Goal
    <2>0. x.turn \in Turns /\ x.attempt \in Attempts
      BY DEF IngestTypeOK, IngestItems
    <2>1. /\ Slots' = 1..(Len(queue) + 1) /\ Slots = 1..Len(queue) /\ Len(queue) \in Nat
          /\ \A i \in Slots : queue'[i] = queue[i] /\ queue[i][1] \in Turns
          /\ queue'[Len(queue) + 1] = <<x.turn, x.attempt>>
      BY <1>6, <2>0, AppendedQueue, QueueFacts DEF Requeue
    <2>2. /\ timers' = timers \ {x}
          /\ UNCHANGED <<request, busy, tid, dropped, lost, squeezed, done>>
      BY <1>6 DEF Requeue
    <2>3. QueuedOnce' /\ WorkedOnce' /\ ArmedOnce' /\ Apart'
      BY <2>1, <2>2 DEF QueuedOnce, WorkedOnce, ArmedOnce, Apart
    <2>4. \A u \in Turns : Nowhere(u)' <=> Nowhere(u)
      BY <2>1, <2>2
    <2>5. DeferredOnly' /\ ReportedOver'
      BY <2>2, <2>4 DEF DeferredOnly, ReportedOver, IngestTypeOK
    <2>6. \A u \in Turns : request'[u] = "queued" => Accounted(u)'
      BY <2>2, <2>4, <1>a DEF Settled
    <2> QED
      BY <2>3, <2>5, <2>6
  <1>7. ASSUME NEW x \in timers, RequeueFull(x) PROVE Goal
    <2>1. /\ timers' = timers \ {x} /\ squeezed' = squeezed \cup {x.turn}
          /\ UNCHANGED <<request, queue, busy, tid, lost, done>>
          /\ dropped \subseteq dropped'
      BY <1>7 DEF RequeueFull
    <2>2. QueuedOnce' /\ WorkedOnce' /\ ArmedOnce' /\ Apart' /\ DeferredOnly' /\ ReportedOver'
      BY <2>1 DEF QueuedOnce, WorkedOnce, ArmedOnce, Apart, DeferredOnly, ReportedOver, Slots
    <2>3. \A u \in Turns : request'[u] = "queued" => Accounted(u)'
      BY <2>1, <1>a DEF Settled, Slots
    <2> QED
      BY <2>2, <2>3
  <1>8. CASE ServerCrash
    <2>1. /\ queue' = <<>> /\ busy' = {} /\ timers' = {}
          /\ \A u \in Turns : (request'[u] = "queued") = (request[u] = "queued")
          /\ UNCHANGED <<done, dropped, squeezed>>
          /\ lost' = lost \cup {u \in Turns : InProcess(u)}
      BY <1>8 DEF ServerCrash, IngestTypeOK
    <2>2. Slots' = {} /\ \A u \in Turns : Nowhere(u)'
      BY <2>1 DEF Slots
    <2>3. QueuedOnce' /\ WorkedOnce' /\ ArmedOnce' /\ Apart'
      BY <2>1, <2>2 DEF QueuedOnce, WorkedOnce, ArmedOnce, Apart
    <2>4. DeferredOnly' /\ ReportedOver'
      BY <2>1, <2>2 DEF DeferredOnly, ReportedOver, IngestTypeOK
    <2>5. \A u \in Turns : request'[u] = "queued" => Accounted(u)'
      BY <2>1, <1>a, WhereItIs DEF Settled
    <2> QED
      BY <2>3, <2>4, <2>5
  <1>9. CASE UNCHANGED ingestVars
    BY <1>9, <1>a DEF ingestVars, QueuedOnce, WorkedOnce, ArmedOnce, Apart,
                      DeferredOnly, ReportedOver, Slots, Settled
  <1> QED
    BY <1>1, <1>2, <1>3, <1>4, <1>5, <1>6, <1>7, <1>8, <1>9
    DEF IngestNext, Attempt, Fire, Idle

LEMMA AlwaysIngestInv == IngestSpec => [](IngestTypes /\ IngestInv)
  <1>1. IngestInit => IngestTypes /\ IngestInv
    BY InitTypes, InitIngest
  <1>2. (IngestTypes /\ IngestInv) /\ [IngestNext]_ingestVars => (IngestTypes /\ IngestInv)'
    BY NextTypes, NextIngest
  <1> QED
    BY <1>1, <1>2, PTL DEF IngestSpec

-----------------------------------------------------------------------------
(* "never silent either way": whatever fails, is retried, finds the queue  *)
(* full or dies, a turn answered "queued" is in hand, extracted, reported, *)
(* lost with the process or squeezed out.                                  *)
THEOREM NoTurnForgotten == IngestSpec => []EveryTurnAccounted
  <1>1. IngestTypes /\ IngestInv => EveryTurnAccounted
    BY DEF IngestInv
  <1> QED
    BY <1>1, AlwaysIngestInv, PTL

(* A turn reported dropped is in no queue, with no worker and at no timer. *)
THEOREM DropsAreFinal == IngestSpec => []ReportsAreFinal
  <1>1. IngestTypes /\ IngestInv => ReportsAreFinal
    BY WhereItIs DEF IngestInv, ReportsAreFinal, ReportedOver, IngestTypes, IngestTypeOK
  <1> QED
    BY <1>1, AlwaysIngestInv, PTL

(* A set whose elements are all one has at most one.                       *)
LEMMA AtMostOne ==
  ASSUME NEW S, \A x, y \in S : x = y
  PROVE  Cardinality(S) \in {0, 1} /\ (Cardinality(S) = 0 <=> S = {})
  <1>1. CASE S = {}
    BY <1>1, FS_EmptySet
  <1>2. CASE S # {}
    <2>1. PICK x \in S : S = {x}
      BY <1>2
    <2>2. Cardinality({x}) = 1
      BY FS_Singleton
    <2> QED
      BY <1>2, <2>1, <2>2
  <1> QED
    BY <1>1, <1>2

LEMMA OnePlaceHolds == IngestTypes /\ IngestInv => OnePlace
  <1> SUFFICES ASSUME IngestInv, NEW t \in Turns
               PROVE  Cardinality(InQueue(t)) + Cardinality(Working(t))
                        + Cardinality(Waiting(t)) <= 1
    BY DEF OnePlace
  <1> USE DEF IngestInv, QueuedOnce, WorkedOnce, ArmedOnce, Apart, Slots,
              InQueue, Working, Waiting
  <1>1. /\ \A i, j \in InQueue(t) : i = j
        /\ \A v, w \in Working(t) : v = w
        /\ \A x, y \in Waiting(t) : x = y
    OBVIOUS
  <1>2. /\ InQueue(t) = {} \/ Working(t) = {}
        /\ InQueue(t) = {} \/ Waiting(t) = {}
        /\ Working(t) = {} \/ Waiting(t) = {}
    OBVIOUS
  <1> HIDE DEF InQueue, Working, Waiting
  <1> QED
    BY <1>1, <1>2, AtMostOne

(* A turn is in one place: in the queue, at a worker or at a timer.        *)
THEOREM TurnsInOnePlace == IngestSpec => []OnePlace
  BY OnePlaceHolds, AlwaysIngestInv, PTL

-----------------------------------------------------------------------------
(* Recall: what an answer says of itself is decided in three steps - the   *)
(* arms of phase A, the arms of phase B, the ranking - and each keeps what *)
(* the ones before it said.                                                *)
Early   == {"out", "auth", "waitA", "phaseA"}
Between == {"embed", "waitB", "phaseB", "bothArms"}

Untold(q) == q.lost = {} /\ q.named = {} /\ ~q.flag
Silent(q) == ~q.plain /\ ~q.ranked
Unsent(q) == ~q.audited /\ q.code = 0

(* What a request carries at each stage.                                   *)
Telling(q) ==
  /\ q.stage \in Early => Untold(q) /\ Silent(q) /\ Unsent(q)
  /\ q.stage \in Between =>
       q.named = q.lost /\ (q.flag <=> q.lost # {}) /\ Silent(q) /\ Unsent(q)
  /\ q.stage = "rank" =>
       /\ q.named = q.lost /\ ~q.ranked /\ Unsent(q)
       /\ q.lost # {} => q.flag
       /\ q.flag => q.lost # {} \/ q.plain
  /\ q.stage = "flush" =>
       /\ q.named = q.lost /\ Unsent(q)
       /\ q.plain => ~q.ranked
       /\ q.flag <=> q.lost # {} \/ ~q.ranked
  /\ q.stage = "answered" =>
       /\ q.code \in {200, 500, 503}
       /\ q.code = 200 =>
            /\ q.lost \subseteq q.named
            /\ q.flag <=> q.lost # {} \/ q.plain \/ ~q.ranked
            /\ q.audited <=> "pins" \notin q.lost
       /\ q.audited => q.code \in {200, 503}

RecallFields ==
  {"stage", "wide", "lost", "named", "flag", "plain", "ranked", "audited", "code"}

Typed(q) ==
  /\ DOMAIN q = RecallFields
  /\ q.stage \in Early \cup Between \cup {"rank", "flush", "answered"}
  /\ q.lost \subseteq ArmsA \cup ArmsB /\ q.named \subseteq ArmsA \cup ArmsB
  /\ q.wide \in BOOLEAN /\ q.flag \in BOOLEAN /\ q.plain \in BOOLEAN
  /\ q.ranked \in BOOLEAN /\ q.audited \in BOOLEAN

Good(q) == Typed(q) /\ Telling(q)

RecallInv ==
  /\ DOMAIN recall = Recalls /\ warm \in BOOLEAN
  /\ \A r \in Recalls : Good(recall[r])

LEMMA GoodNone == Good(NoRecall)
  BY DEF NoRecall, Good, Typed, RecallFields, Telling, Early, Between, Untold, Silent,
         Unsent

LEMMA InitRecall == RecallInit => RecallInv
  BY GoodNone DEF RecallInit, RecallInv

(* A step that replaces one request's record by a good one is good.        *)
LEMMA MoveKeeps ==
  ASSUME RecallInv, NEW r \in Recalls, NEW q, Good(q), Move(r, q), warm' \in BOOLEAN
  PROVE  RecallInv'
  BY DEF RecallInv, Move

(* What each step makes of a good record is good: first the records that   *)
(* only move on, then those that learn something.                          *)
LEMMA GoodNext ==
  ASSUME NEW q, Good(q), NEW to \in Early \cup Between,
         \/ q.stage \in Early /\ to \in Early
         \/ q.stage \in Between /\ to \in Between
  PROVE  Good(At(q, to))
  <1> DEFINE p == At(q, to)
  <1>1. /\ DOMAIN p = RecallFields /\ p.stage = to
        /\ p.lost = q.lost /\ p.named = q.named /\ p.wide = q.wide /\ p.flag = q.flag
        /\ p.plain = q.plain /\ p.ranked = q.ranked /\ p.audited = q.audited
        /\ p.code = q.code
    BY DEF At, Good, Typed, RecallFields
  <1> HIDE DEF p
  <1>2. Typed(p)
    BY <1>1 DEF Good, Typed
  <1>3. Telling(p)
    BY <1>1 DEF Good, Telling, Early, Between, Untold, Silent, Unsent
  <1> QED
    BY <1>2, <1>3 DEF p, Good

LEMMA GoodArrival ==
  ASSUME NEW wide \in BOOLEAN
  PROVE  Good(Asked(wide))
  <1> DEFINE p == Asked(wide)
  <1>1. /\ DOMAIN p = RecallFields /\ p.stage = "auth" /\ p.wide = wide
        /\ p.lost = {} /\ p.named = {} /\ p.flag = FALSE
        /\ p.plain = FALSE /\ p.ranked = FALSE /\ p.audited = FALSE /\ p.code = 0
    BY DEF Asked, NoRecall, RecallFields
  <1> HIDE DEF p
  <1>2. Good(p)
    BY <1>1 DEF Good, Typed, Telling, Early, Between, Untold, Silent, Unsent
  <1> QED
    BY <1>2 DEF p

LEMMA GoodPhaseA ==
  ASSUME NEW q, Good(q), q.stage = "phaseA", NEW failed \in SUBSET ArmsA
  PROVE  Good(Looked(q, failed))
  <1> DEFINE p == Looked(q, failed)
  <1>1. /\ DOMAIN p = RecallFields /\ p.stage = "embed"
        /\ p.lost = failed /\ p.named = failed /\ p.flag = (failed # {})
        /\ p.wide = q.wide /\ p.plain = q.plain /\ p.ranked = q.ranked
        /\ p.audited = q.audited /\ p.code = q.code
    BY DEF Looked, Good, Typed, RecallFields
  <1>2. Silent(q) /\ Unsent(q)
    BY DEF Good, Telling, Early
  <1> HIDE DEF p
  <1>3. Typed(p)
    BY <1>1 DEF Good, Typed, Early, Between
  <1>4. Telling(p)
    BY <1>1, <1>2 DEF Telling, Early, Between, Silent, Unsent
  <1> QED
    BY <1>3, <1>4 DEF p, Good

LEMMA GoodFetched ==
  ASSUME NEW q, Good(q), q.stage \in {"phaseB", "bothArms"},
         NEW failed \in SUBSET ArmsB, NEW late \in BOOLEAN
  PROVE  Good(Fetched(q, failed, late))
  <1> DEFINE p == Fetched(q, failed, late)
  <1>1. /\ DOMAIN p = RecallFields /\ p.stage = "rank"
        /\ p.lost = q.lost \cup failed /\ p.named = q.named \cup failed
        /\ p.plain = late /\ p.wide = FALSE
        /\ p.flag = (q.named \cup failed # {} \/ (late /\ ~q.wide))
        /\ p.ranked = q.ranked /\ p.audited = q.audited /\ p.code = q.code
    BY DEF Good, Typed, RecallFields, Fetched
  <1>2. q.named = q.lost /\ Silent(q) /\ Unsent(q)
    BY DEF Good, Telling, Between
  <1> HIDE DEF p
  <1>3. Typed(p)
    BY <1>1 DEF Good, Typed
  <1>4. Telling(p)
    BY <1>1, <1>2 DEF Telling, Early, Between, Silent, Unsent
  <1> QED
    BY <1>3, <1>4 DEF p, Good

LEMMA GoodRank ==
  ASSUME NEW q, Good(q), q.stage = "rank", NEW crossed \in BOOLEAN, q.plain => ~crossed
  PROVE  Good(Ranked(q, crossed))
  <1> DEFINE p == Ranked(q, crossed)
  <1>1. /\ DOMAIN p = RecallFields /\ p.stage = "flush"
        /\ p.ranked = crossed /\ p.flag = (q.flag \/ ~crossed)
        /\ p.lost = q.lost /\ p.named = q.named /\ p.wide = q.wide
        /\ p.plain = q.plain /\ p.audited = q.audited /\ p.code = q.code
    BY DEF Ranked, Good, Typed, RecallFields
  <1>2. /\ q.named = q.lost /\ Unsent(q)
        /\ q.lost # {} => q.flag
        /\ q.flag => q.lost # {} \/ q.plain
    BY DEF Good, Telling, Early, Between
  <1> HIDE DEF p
  <1>3. Typed(p)
    BY <1>1 DEF Good, Typed
  <1>4. /\ p.plain => ~p.ranked
        /\ p.flag <=> p.lost # {} \/ ~p.ranked
    BY <1>1, <1>2
  <1>5. Telling(p)
    BY <1>1, <1>2, <1>4 DEF Telling, Early, Between, Unsent
  <1> QED
    BY <1>3, <1>5 DEF p, Good

LEMMA GoodFlush ==
  ASSUME NEW q, Good(q), q.stage = "flush"
  PROVE  Good(Shown(q))
  <1> DEFINE p == Shown(q)
  <1>1. /\ DOMAIN p = RecallFields /\ p.stage = "answered" /\ p.code = 200
        /\ p.audited = ("pins" \notin q.lost)
        /\ p.lost = q.lost /\ p.named = q.named /\ p.wide = q.wide
        /\ p.flag = q.flag /\ p.plain = q.plain /\ p.ranked = q.ranked
    BY DEF Shown, Good, Typed, RecallFields
  <1>2. /\ q.named = q.lost
        /\ q.plain => ~q.ranked
        /\ q.flag <=> q.lost # {} \/ ~q.ranked
    BY DEF Good, Telling, Early, Between
  <1> HIDE DEF p
  <1>3. Typed(p)
    BY <1>1 DEF Good, Typed
  <1>4. Telling(p)
    BY ZenonT(30), <1>1, <1>2 DEF Telling, Early, Between
  <1> QED
    BY <1>3, <1>4 DEF p, Good

LEMMA GoodFailure ==
  ASSUME NEW code \in {500, 503}, NEW audited \in BOOLEAN, audited => code = 503
  PROVE  Good(Refused(code, audited))
  <1> DEFINE p == Refused(code, audited)
  <1>1. /\ DOMAIN p = RecallFields /\ p.stage = "answered" /\ p.code = code
        /\ p.audited = audited
        /\ p.lost = {} /\ p.named = {} /\ p.wide = FALSE /\ p.flag = FALSE
        /\ p.plain = FALSE /\ p.ranked = FALSE
    BY DEF Refused, NoRecall, RecallFields
  <1> HIDE DEF p
  <1>2. Typed(p)
    BY <1>1 DEF Typed
  <1>3. Telling(p)
    BY <1>1 DEF Telling, Early, Between
  <1> QED
    BY <1>2, <1>3 DEF p, Good

LEMMA NextRecall == RecallInv /\ [RecallNext]_recallVars => RecallInv'
  <1> SUFFICES ASSUME RecallInv, [RecallNext]_recallVars PROVE RecallInv'
    OBVIOUS
  <1>0. (\A r \in Recalls : Good(recall[r])) /\ warm \in BOOLEAN
    BY DEF RecallInv
  <1>1. ASSUME NEW r \in Recalls, RecallArrives(r) \/ RecallDone(r) PROVE RecallInv'
    BY <1>0, <1>1, GoodArrival, GoodNone, MoveKeeps DEF RecallArrives, RecallDone
  <1>2. ASSUME NEW r \in Recalls,
               AuthRecall(r) \/ TakeA(r) \/ JoinEmbedding(r) \/ TakeB(r) \/ TakeSecond(r)
        PROVE  RecallInv'
    <2>1. PICK to \in Early \cup Between :
            /\ \/ recall[r].stage \in Early /\ to \in Early
               \/ recall[r].stage \in Between /\ to \in Between
            /\ Move(r, At(recall[r], to)) /\ warm' = warm
      <3>1. /\ "auth" \in Early /\ "waitA" \in Early /\ "phaseA" \in Early
            /\ "embed" \in Between /\ "waitB" \in Between
            /\ "phaseB" \in Between /\ "bothArms" \in Between
        BY DEF Early, Between
      <3> QED
        BY <1>2, <3>1 DEF AuthRecall, TakeA, JoinEmbedding, TakeB, TakeSecond
    <2>2. Good(At(recall[r], to))
      BY <1>0, <2>1, GoodNext
    <2> QED
      BY <1>0, <2>1, <2>2, MoveKeeps
  <1>3. ASSUME NEW r \in Recalls, PhaseA(r) PROVE RecallInv'
    BY <1>0, <1>3, GoodPhaseA, MoveKeeps DEF PhaseA
  <1>4. ASSUME NEW r \in Recalls, SkipPhaseB(r) \/ PhaseB(r) \/ SecondTimesOut(r)
        PROVE  RecallInv'
    BY <1>0, <1>4, GoodFetched, MoveKeeps
    DEF SkipPhaseB, PhaseB, SecondTimesOut, FinishB
  <1>5. ASSUME NEW r \in Recalls, Rank(r) PROVE RecallInv'
    <2>1. PICK late \in BOOLEAN :
            /\ recall[r].plain => late
            /\ Move(r, Ranked(recall[r], warm /\ ~late))
      BY <1>5 DEF Rank
    <2>2. (warm /\ ~late) \in BOOLEAN
      BY <1>0
    <2>3. recall[r].stage = "rank" /\ (recall[r].plain => ~(warm /\ ~late)) /\ warm' = warm
      BY <1>5, <2>1 DEF Rank
    <2> QED
      BY <1>0, <2>1, <2>2, <2>3, GoodRank, MoveKeeps
  <1>6. ASSUME NEW r \in Recalls, Flush(r) PROVE RecallInv'
    BY <1>0, <1>6, GoodFlush, MoveKeeps DEF Flush
  <1>7. ASSUME NEW r \in Recalls, WaitTimesOut(r) \/ RecallFails(r) PROVE RecallInv'
    <2>1. PICK code \in Codes(recall[r].stage) : AnswerRecall(r, code)
      BY <1>7 DEF WaitTimesOut, RecallFails
    <2>2. code \in {500, 503} /\ (recall[r].stage = "flush" => code = 503)
      BY <2>1 DEF Codes
    <2> DEFINE audited == recall[r].stage = "flush"
    <2>3. audited \in BOOLEAN /\ (audited => code = 503)
      BY <2>2
    <2> HIDE DEF audited
    <2>4. Good(Refused(code, audited))
      BY <2>2, <2>3, GoodFailure
    <2> QED
      BY <1>0, <2>1, <2>4, MoveKeeps DEF AnswerRecall, audited
  <1>8. CASE WindowPasses \/ Prewarmed \/ UNCHANGED recallVars
    BY <1>8 DEF WindowPasses, Prewarmed, recallVars, RecallInv
  <1> QED
    BY <1>1, <1>2, <1>3, <1>4, <1>5, <1>6, <1>7, <1>8 DEF RecallNext, Serve

(* A recall that misses the rows of an arm names the arm, whichever phase  *)
(* lost it and whatever the other requests of the pool do; one that misses *)
(* anything is flagged degraded, and what was shown has been audited.      *)
THEOREM RecallsSayWhatTheyMiss == RecallSpec => []RecallSound
  <1>1. RecallInv => RecallSound
    BY DEF RecallInv, RecallSound, NothingMissingUnsaid, ShownIsAudited, Good, Typed,
           Telling, Early, Between, Untold, Silent, Unsent
  <1> QED
    BY <1>1, InitRecall, NextRecall, PTL DEF RecallSpec

-----------------------------------------------------------------------------
(* Recall, the pool.  A request is at one stage, so what is in use changes *)
(* by what the one request that moves takes or gives back.                 *)
Uses(n) == Cardinality(Holding(n))
PoolInv ==
  /\ \A n \in {"phaseA", "phaseB", "bothArms"} : IsFiniteSet(Holding(n))
  /\ InUse <= PoolMax /\ recent \in 0..Threshold

LEMMA BoundsOfRecall ==
  PoolMax \in Nat /\ PoolMax > 0 /\ Threshold \in Nat
  BY RecallBounds

LEMMA OneMoves ==
  ASSUME DOMAIN recall = Recalls, NEW r \in Recalls, NEW q, Move(r, q), NEW n, IsFiniteSet(Holding(n)),
         NEW a, a = recall[r].stage
  PROVE  /\ IsFiniteSet(Holding(n)') /\ Uses(n) \in Nat
         /\ a # n /\ q.stage = n => Uses(n)' = Uses(n) + 1
         /\ a = n /\ q.stage # n => Uses(n)' = Uses(n) - 1
         /\ (a = n <=> q.stage = n) => Uses(n)' = Uses(n)
  <1>1. /\ recall'[r] = q /\ \A s \in Recalls : s # r => recall'[s] = recall[s]
    BY DEF Move
  <1>2. PICK H : H = Holding(n)
    OBVIOUS
  <1>3. PICK K : K = Holding(n)'
    OBVIOUS
  <1>4. IsFiniteSet(H) /\ Cardinality(H) \in Nat
    BY <1>2, FS_CardinalityType
  <1>5. CASE a # n /\ q.stage = n
    <2>1. r \notin H /\ K = H \cup {r}
      BY <1>1, <1>2, <1>3, <1>5 DEF Holding
    <2>2. IsFiniteSet(K) /\ Cardinality(K) = Cardinality(H) + 1
      BY <1>4, <2>1, FS_AddElement
    <2> QED
      BY <1>2, <1>3, <1>4, <1>5, <2>2 DEF Uses
  <1>6. CASE a = n /\ q.stage # n
    <2>1. r \in H /\ K = H \ {r}
      BY <1>1, <1>2, <1>3, <1>6 DEF Holding
    <2>2. IsFiniteSet(K) /\ Cardinality(K) = Cardinality(H) - 1
      BY <1>4, <2>1, FS_RemoveElement
    <2> QED
      BY <1>2, <1>3, <1>4, <1>6, <2>2 DEF Uses
  <1>7. CASE a = n <=> q.stage = n
    <2>1. K = H
      BY <1>1, <1>2, <1>3, <1>7 DEF Holding
    <2> QED
      BY <1>2, <1>3, <1>4, <1>7, <2>1 DEF Uses
  <1> QED
    BY <1>5, <1>6, <1>7

(* No step takes a connection that is not free: a request either gives     *)
(* back what it holds, or takes one when one is.                           *)
LEMMA MovePools ==
  ASSUME RecallInv, PoolInv, NEW r \in Recalls, NEW q, Move(r, q), NEW a, a = recall[r].stage,
         \/ q.stage \notin {"phaseA", "phaseB", "bothArms"}
         \/ FreeConn /\ a \notin {"phaseA", "phaseB", "bothArms"} /\ q.stage \in {"phaseA", "phaseB"}
         \/ FreeConn /\ a = "phaseB" /\ q.stage = "bothArms",
         recent' \in 0..Threshold
  PROVE  PoolInv'
  <1> DEFINE b == q.stage
             A == Uses("phaseA")
             B == Uses("phaseB")
             C == Uses("bothArms")
  <1>1. DOMAIN recall = Recalls
    BY DEF RecallInv
  <1>2. /\ IsFiniteSet(Holding("phaseA")') /\ A \in Nat
        /\ a # "phaseA" /\ b = "phaseA" => A' = A + 1
        /\ a = "phaseA" /\ b # "phaseA" => A' = A - 1
        /\ (a = "phaseA" <=> b = "phaseA") => A' = A
    BY <1>1, OneMoves DEF PoolInv
  <1>3. /\ IsFiniteSet(Holding("phaseB")') /\ B \in Nat
        /\ a # "phaseB" /\ b = "phaseB" => B' = B + 1
        /\ a = "phaseB" /\ b # "phaseB" => B' = B - 1
        /\ (a = "phaseB" <=> b = "phaseB") => B' = B
    BY <1>1, OneMoves DEF PoolInv
  <1>4. /\ IsFiniteSet(Holding("bothArms")') /\ C \in Nat
        /\ a # "bothArms" /\ b = "bothArms" => C' = C + 1
        /\ a = "bothArms" /\ b # "bothArms" => C' = C - 1
        /\ (a = "bothArms" <=> b = "bothArms") => C' = C
    BY <1>1, OneMoves DEF PoolInv
  <1>5. InUse = A + B + 2 * C /\ InUse' = A' + B' + 2 * C'
    BY DEF InUse, Uses
  <1>6. InUse <= PoolMax /\ (FreeConn => InUse < PoolMax)
    BY DEF PoolInv, FreeConn
  <1> HIDE DEF A, B, C
  <1>7. InUse' <= PoolMax
    <2>1. CASE b \notin {"phaseA", "phaseB", "bothArms"}
      BY <1>2, <1>3, <1>4, <1>5, <1>6, <2>1, BoundsOfRecall
    <2>2. CASE FreeConn /\ a \notin {"phaseA", "phaseB", "bothArms"} /\ b \in {"phaseA", "phaseB"}
      BY <1>2, <1>3, <1>4, <1>5, <1>6, <2>2, BoundsOfRecall
    <2>3. CASE FreeConn /\ a = "phaseB" /\ b = "bothArms"
      BY <1>2, <1>3, <1>4, <1>5, <1>6, <2>3, BoundsOfRecall
    <2> QED
      BY <2>1, <2>2, <2>3
  <1> QED
    BY <1>2, <1>3, <1>4, <1>7 DEF PoolInv

LEMMA InitPool == RecallInit => PoolInv
  <1> SUFFICES ASSUME RecallInit PROVE PoolInv
    OBVIOUS
  <1>1. \A n \in {"phaseA", "phaseB", "bothArms"} : Holding(n) = {}
    BY DEF RecallInit, Holding, NoRecall
  <1>2. IsFiniteSet({}) /\ Cardinality({}) = 0
    BY FS_EmptySet
  <1>3. InUse = 0
    BY <1>1, <1>2 DEF InUse
  <1> QED
    BY <1>1, <1>2, <1>3, BoundsOfRecall DEF RecallInit, PoolInv

LEMMA FailedCounts ==
  ASSUME recent \in 0..Threshold, NEW failed \in SUBSET (ArmsA \cup ArmsB)
  PROVE  Failed(failed) \in 0..Threshold
  <1>1. IsFiniteSet(ArmsA \cup ArmsB)
    <2>1. ArmsA \cup ArmsB = {"lookup", "pins", "raw", "semantic"}
      BY DEF ArmsA, ArmsB
    <2>2. IsFiniteSet({"lookup"}) /\ IsFiniteSet({"pins"}) /\ IsFiniteSet({"raw"}) /\ IsFiniteSet({"semantic"})
      BY FS_Singleton
    <2>3. IsFiniteSet({"lookup"} \cup {"pins"}) /\ IsFiniteSet({"raw"} \cup {"semantic"})
      BY <2>2, FS_Union
    <2>4. IsFiniteSet(({"lookup"} \cup {"pins"}) \cup ({"raw"} \cup {"semantic"}))
      BY <2>3, FS_Union
    <2>5. ArmsA \cup ArmsB = ({"lookup"} \cup {"pins"}) \cup ({"raw"} \cup {"semantic"})
      BY <2>1
    <2> QED
      BY <2>4, <2>5
  <1>2. Cardinality(failed) \in Nat
    BY <1>1, FS_Subset, FS_CardinalityType
  <1>3. PICK n : n = recent + Cardinality(failed)
    OBVIOUS
  <1>4. n \in Nat /\ Failed(failed) = IF n > Threshold THEN Threshold ELSE n
    BY <1>2, <1>3, BoundsOfRecall DEF Failed
  <1> QED
    BY <1>4, BoundsOfRecall

LEMMA StageMoves ==
  ASSUME RecallInv, NEW r \in Recalls, NEW to
  PROVE  /\ At(recall[r], to).stage = to
         /\ \A failed : Looked(recall[r], failed).stage = "embed"
         /\ \A failed, late : Fetched(recall[r], failed, late).stage = "rank"
         /\ \A crossed : Ranked(recall[r], crossed).stage = "flush"
         /\ Shown(recall[r]).stage = "answered"
         /\ \A code, audited : Refused(code, audited).stage = "answered"
         /\ \A wide : Asked(wide).stage = "auth"
         /\ NoRecall.stage = "out"
  <1>1. "stage" \in DOMAIN recall[r]
    BY DEF RecallInv, Good, Typed, RecallFields
  <1> QED
    BY <1>1 DEF At, Looked, Fetched, Ranked, Shown, Refused, Asked, NoRecall

LEMMA NextPool == RecallInv /\ PoolInv /\ [RecallNext]_recallVars => PoolInv'
  <1> SUFFICES ASSUME RecallInv, PoolInv, [RecallNext]_recallVars PROVE PoolInv'
    OBVIOUS
  <1>0. recent \in 0..Threshold
    BY DEF PoolInv
  <1>1. ASSUME NEW r \in Recalls,
               RecallArrives(r) \/ RecallDone(r) \/ AuthRecall(r) \/ JoinEmbedding(r) \/ SkipPhaseB(r)
               \/ Rank(r) \/ Flush(r) \/ WaitTimesOut(r) \/ RecallFails(r)
        PROVE  PoolInv'
    <2> DEFINE Goal == \E q : Move(r, q) /\ q.stage \notin {"phaseA", "phaseB", "bothArms"}
    <2>1. ASSUME RecallArrives(r) PROVE Goal
      <3>1. PICK wide \in BOOLEAN : Move(r, Asked(wide))
        BY <2>1 DEF RecallArrives
      <3> QED
        BY <3>1, StageMoves
    <2>2. ASSUME RecallDone(r) PROVE Goal
      <3>1. Move(r, NoRecall)
        BY <2>2 DEF RecallDone
      <3> QED
        BY <3>1, StageMoves
    <2>3. ASSUME AuthRecall(r) PROVE Goal
      <3>1. Move(r, At(recall[r], "waitA"))
        BY <2>3 DEF AuthRecall
      <3> QED
        BY <3>1, StageMoves
    <2>4. ASSUME JoinEmbedding(r) PROVE Goal
      <3>1. Move(r, At(recall[r], "waitB"))
        BY <2>4 DEF JoinEmbedding
      <3> QED
        BY <3>1, StageMoves
    <2>5. ASSUME SkipPhaseB(r) PROVE Goal
      <3>1. Move(r, Fetched(recall[r], ArmsB, FALSE))
        BY <2>5 DEF SkipPhaseB
      <3> QED
        BY <3>1, StageMoves
    <2>6. ASSUME Flush(r) PROVE Goal
      <3>1. Move(r, Shown(recall[r]))
        BY <2>6 DEF Flush
      <3> QED
        BY <3>1, StageMoves
    <2>7. ASSUME Rank(r) PROVE Goal
      <3>1. PICK crossed : Move(r, Ranked(recall[r], crossed))
        BY <2>7 DEF Rank
      <3> QED
        BY <3>1, StageMoves
    <2>8. ASSUME WaitTimesOut(r) \/ RecallFails(r) PROVE Goal
      <3>1. PICK code, audited : Move(r, Refused(code, audited))
        BY <2>8 DEF WaitTimesOut, RecallFails, AnswerRecall
      <3> QED
        BY <3>1, StageMoves
    <2>9. recent' = recent
      BY <1>1 DEF RecallArrives, RecallDone, AuthRecall, JoinEmbedding, SkipPhaseB, Rank, Flush,
            WaitTimesOut, RecallFails, AnswerRecall
    <2>10. Goal
      BY <1>1, <2>1, <2>2, <2>3, <2>4, <2>5, <2>6, <2>7, <2>8
    <2>11. PICK q : Move(r, q) /\ q.stage \notin {"phaseA", "phaseB", "bothArms"}
      BY <2>10
    <2> QED
      BY <1>0, <2>9, <2>11, MovePools
  <1>2. ASSUME NEW r \in Recalls, TakeA(r) \/ TakeB(r) \/ TakeSecond(r) PROVE PoolInv'
    <2>1. PICK a, q : a = recall[r].stage /\ Move(r, q) /\ recent' = recent /\ FreeConn
                      /\ \/ a \in {"waitA", "waitB"} /\ q.stage \in {"phaseA", "phaseB"}
                         \/ a = "phaseB" /\ q.stage = "bothArms"
      BY <1>2, StageMoves DEF TakeA, TakeB, TakeSecond
    <2> QED
      BY <1>0, <2>1, MovePools
  <1>3. ASSUME NEW r \in Recalls, PhaseA(r) PROVE PoolInv'
    <2>1. PICK failed \in SUBSET ArmsA :
            /\ Move(r, Looked(recall[r], failed))
            /\ recent' = Failed(failed \cap Recorded(recall[r].wide))
      BY <1>3 DEF PhaseA
    <2>2. recent' \in 0..Threshold
      BY <1>0, <2>1, FailedCounts
    <2> QED
      BY <2>1, <2>2, StageMoves, MovePools
  <1>4. ASSUME NEW r \in Recalls, PhaseB(r) \/ SecondTimesOut(r) PROVE PoolInv'
    <2>1. PICK failed \in SUBSET ArmsB : FinishB(r, failed)
      BY <1>4 DEF PhaseB, SecondTimesOut
    <2>2. PICK late \in BOOLEAN : Move(r, Fetched(recall[r], failed, late))
      BY <2>1 DEF FinishB
    <2>3. recent' \in 0..Threshold
      BY <1>0, <2>1, FailedCounts DEF FinishB
    <2> QED
      BY <2>2, <2>3, StageMoves, MovePools
  <1>5. CASE WindowPasses \/ Prewarmed \/ UNCHANGED recallVars
    <2>1. recall' = recall /\ recent' \in {recent, recent - 1} /\ (recent' = recent \/ recent > 0)
      BY <1>5 DEF WindowPasses, Prewarmed, recallVars
    <2>2. recent' \in 0..Threshold
      BY <1>0, <2>1, BoundsOfRecall
    <2> QED
      BY <2>1, <2>2 DEF PoolInv, InUse, Holding
  <1> QED
    BY <1>1, <1>2, <1>3, <1>4, <1>5 DEF RecallNext, Serve

LEMMA RecallTyped == RecallInv /\ PoolInv => RecallTypeOK
  BY DEF RecallInv, PoolInv, Good, Typed, Telling, Early, Between, Unsent, RecallTypeOK

(* The requests of a recall never hold more connections than the pool has, *)
(* the second one of phase B included, and the breaker's count stays in    *)
(* its window.                                                             *)
THEOREM RecallTypeCorrect == RecallSpec => []RecallTypeOK
  <1>1. RecallInit => RecallInv /\ PoolInv
    BY InitRecall, InitPool
  <1>2. RecallInv /\ PoolInv /\ [RecallNext]_recallVars => RecallInv' /\ PoolInv'
    BY NextRecall, NextPool
  <1> QED
    BY <1>1, <1>2, RecallTyped, PTL DEF RecallSpec

-----------------------------------------------------------------------------
(* Whichever path a behaviour takes, every path keeps its types and a turn *)
(* is in one place: the paths share no variable.                           *)
THEOREM PathsKeepTheirTypes == ServerSpec => []ServerTypeOK
  <1> DEFINE Inv == TypeOK /\ IngestTypes /\ IngestInv /\ RecallInv /\ PoolInv
  <1>1. ServerInit => Inv
    BY InitType, InitTypes, InitIngest, InitRecall, InitPool DEF ServerInit
  <1>2. Inv /\ [ServerNext]_serverVars => Inv'
    <2>1. [ServerNext]_serverVars => [Next]_vars /\ [IngestNext]_ingestVars /\ [RecallNext]_recallVars
      BY DEF ServerNext, serverVars, QueuePath, IngestPath, RecallPath
    <2> QED
      BY <2>1, NextType, NextTypes, NextIngest, NextRecall, NextPool
  <1>3. Inv => ServerTypeOK
    BY OnePlaceHolds, RecallTyped DEF IngestTypes, ServerTypeOK
  <1> QED
    BY <1>1, <1>2, <1>3, PTL DEF ServerSpec
=============================================================================
