------------------------------- MODULE PubSub -------------------------------
(***************************************************************************)
(* Namespace pub/sub: one subscription of core/control.py (subscribe,      *)
(* feed, deliver_pending, unsubscribe) while turns are being written to    *)
(* its namespace.  Delivery passes run at the same time: the background    *)
(* pusher of every server process (two during a rolling upgrade) and the   *)
(* admin endpoint; the owner may poll the same subscription.  Connections  *)
(* are autocommit, so each SQL statement and each POST is one step.        *)
(* Subscriptions do not share state: one stands for all.                   *)
(***************************************************************************)
EXTENDS Naturals, FiniteSets

CONSTANTS
  Passes,      \* delivery passes that may run at the same time
  Pollers,     \* calls of feed that may run at the same time
  Nil,         \* no subscription row, nothing read
  Batch,       \* `batch` and `limit`
  MaxFailures, \* max_failures
  MaxTurns,    \* bound: turns written to the namespace
  MaxCrashes   \* bound: passes cut short, cursor UPDATEs that fail

ASSUME BatchAssumption == Batch \in Nat \ {0} /\ MaxFailures \in Nat \ {0}
ASSUME BoundAssumption == MaxTurns \in Nat /\ MaxCrashes \in Nat
ASSUME ActorAssumption == Passes \cap Pollers = {}

Turns  == 1..MaxTurns
Actors == Passes \cup Pollers

VARIABLES
  turn,      \* turn[i]: row i of raw_turns; ids come from a sequence
  row,       \* the row of `subscriptions`, or Nil
  since,     \* the cursor the subscription was created with
  pc,        \* pc[a]: where actor a is
  seen,      \* seen[a]: the row as a read it
  items,     \* items[a]: the turns a read
  got,       \* turns that have reached the subscriber
  overtaken, \* turns still uncommitted when a later one was read
  unseen,    \* turns in an answer of feed that was lost
  failed,    \* deliveries that failed, counted up to MaxFailures
  crashes    \* passes cut short and UPDATEs failed so far

reader == <<pc, seen, items>>
ghosts == <<got, overtaken, unseen, failed, crashes>>
vars   == <<turn, row, since, reader, ghosts>>

Rows   == [cursor : 0..MaxTurns, failures : 0..MaxFailures, active : BOOLEAN]

ASSUME NilAssumption == Nil \notin Rows

Stages == {"idle", "read", "post", "record", "fail", "answer"}

-----------------------------------------------------------------------------
Init ==
  /\ turn = [i \in Turns |-> "none"]
  /\ row = Nil /\ since = 0
  /\ pc = [a \in Actors |-> "idle"]
  /\ seen = [a \in Actors |-> Nil]
  /\ items = [a \in Actors |-> {}]
  /\ got = {} /\ overtaken = {} /\ unseen = {}
  /\ failed = 0 /\ crashes = 0

Goto(a, s) == pc' = [pc EXCEPT ![a] = s]

(* The call ends and forgets what it has read.                             *)
Leave(a) ==
  /\ Goto(a, "idle")
  /\ seen' = [seen EXCEPT ![a] = Nil]
  /\ items' = [items EXCEPT ![a] = {}]

(* insert_raw_turn: the id is drawn when the INSERT starts and the row is  *)
(* seen when it ends, so rows may appear in another order than their ids.  *)
Allocate(i) ==
  /\ turn[i] = "none" /\ \A j \in Turns : j < i => turn[j] # "none"
  /\ turn' = [turn EXCEPT ![i] = "inserting"]
  /\ UNCHANGED <<row, since, reader, ghosts>>

Insert(i) ==
  /\ turn[i] = "inserting"
  /\ turn' = [turn EXCEPT ![i] = "stored"]
  /\ UNCHANGED <<row, since, reader, ghosts>>

(* The turns after a cursor, and what ORDER BY id LIMIT Batch makes of it. *)
After(c) == {i \in Turns : turn[i] = "stored" /\ c < i}

FirstOf(S, T) ==
  /\ \A i \in S, j \in T : j <= i => j \in S
  /\ Cardinality(S) <= Batch
  /\ S = T \/ Cardinality(S) = Batch

IsLast(n, S) == n \in S /\ \A i \in S : i <= n

-----------------------------------------------------------------------------
(* The row is not there for anybody before its cursor, COALESCE(max(id),   *)
(* 0), has been read and inserted.                                         *)
Subscribe ==
  /\ row = Nil /\ since = 0
  /\ \E c \in 0..MaxTurns :
       /\ IF After(0) = {} THEN c = 0 ELSE IsLast(c, After(0))
       /\ since' = c
       /\ row' = [cursor |-> c, failures |-> 0, active |-> TRUE]
  /\ UNCHANGED <<turn, reader, ghosts>>

(* Its id is never used again: MaxTurns in `since` stands for that.        *)
Unsubscribe ==
  /\ row # Nil
  /\ row' = Nil
  /\ since' = MaxTurns
  /\ UNCHANGED <<turn, reader, ghosts>>

(* An UPDATE finds no row after unsubscribe.                               *)
Update(new) == row' = IF row = Nil THEN Nil ELSE new

-----------------------------------------------------------------------------
(* deliver_pending, for this subscription.                                 *)
Begin(p) ==
  /\ pc[p] = "idle" /\ row # Nil /\ row.active
  /\ seen' = [seen EXCEPT ![p] = row]
  /\ Goto(p, "read")
  /\ UNCHANGED <<turn, row, since, items, ghosts>>

Overtaken(S) == {i \in Turns : turn[i] = "inserting" /\ \E j \in S : i < j}

(* A pass with nothing to deliver goes on to the next subscription; feed   *)
(* answers with an empty list.                                             *)
Use(a, S) ==
  /\ overtaken' = overtaken \cup Overtaken(S)
  /\ IF S = {} /\ a \in Passes
       THEN Leave(a)
       ELSE /\ Goto(a, IF a \in Passes THEN "post" ELSE "answer")
            /\ items' = [items EXCEPT ![a] = S]
            /\ UNCHANGED seen

ReadItems(a) ==
  /\ pc[a] = "read"
  /\ \E S \in SUBSET After(seen[a].cursor) :
       /\ FirstOf(S, After(seen[a].cursor))
       /\ Use(a, S)
  /\ UNCHANGED <<turn, row, since, got, unseen, failed, crashes>>

PostArrives(p) ==
  /\ pc[p] = "post"
  /\ got' = got \cup items[p]
  /\ Goto(p, "record")
  /\ UNCHANGED <<turn, row, since, seen, items, overtaken, unseen, failed, crashes>>

(* Refused, or answered too late: then it has arrived all the same.        *)
PostFails(p) ==
  /\ pc[p] = "post"
  /\ got' \in {got, got \cup items[p]}
  /\ failed' = IF failed < MaxFailures THEN failed + 1 ELSE failed
  /\ Goto(p, "fail")
  /\ UNCHANGED <<turn, row, since, seen, items, overtaken, unseen, crashes>>

(* The UPDATE of the cursor is inside the try: when it fails, a delivery   *)
(* that arrived is counted as a failure.                                   *)
RecordFails(p) ==
  /\ pc[p] = "record" /\ crashes < MaxCrashes
  /\ crashes' = crashes + 1
  /\ failed' = IF failed < MaxFailures THEN failed + 1 ELSE failed
  /\ Goto(p, "fail")
  /\ UNCHANGED <<turn, row, since, seen, items, got, overtaken, unseen>>

AdvanceNowhere(p) ==                          \* mutant: cursor not written
  /\ pc[p] = "record"
  /\ Update([row EXCEPT !.failures = 0])
  /\ Leave(p)
  /\ UNCHANGED <<turn, since, ghosts>>

(* The cursor moves to the last item, `active` stays as it is.             *)
Advance(p) ==
  /\ pc[p] = "record"
  /\ \E n \in Turns :
       IsLast(n, items[p]) /\ Update([cursor |-> n, failures |-> 0, active |-> row.active])
  /\ Leave(p)
  /\ UNCHANGED <<turn, since, ghosts>>

CountFailureAndSkip(p) ==                     \* mutant: cursor moved on failure
  /\ pc[p] = "fail"
  /\ LET fails == seen[p].failures + 1 IN
       \E n \in Turns :
         /\ IsLast(n, items[p])
         /\ Update([cursor |-> n, failures |-> fails,
                    active |-> fails < MaxFailures])
  /\ Leave(p)
  /\ UNCHANGED <<turn, since, ghosts>>

CountFailureTooSoon(p) ==                     \* mutant: off by one
  /\ pc[p] = "fail"
  /\ LET fails == seen[p].failures + 1 IN
       Update([cursor |-> row.cursor, failures |-> fails,
                active |-> fails + 1 < MaxFailures])
  /\ Leave(p)
  /\ UNCHANGED <<turn, since, ghosts>>

(* The counter comes from the row as it was read, and so does `active`.    *)
CountFailure(p) ==
  /\ pc[p] = "fail"
  /\ LET fails == seen[p].failures + 1 IN
       Update([cursor |-> row.cursor, failures |-> fails,
                active |-> fails < MaxFailures])
  /\ Leave(p)
  /\ UNCHANGED <<turn, since, ghosts>>

(* The process dies or the database fails: the pass ends where it is.      *)
Cut(p) ==
  /\ pc[p] # "idle" /\ crashes < MaxCrashes
  /\ crashes' = crashes + 1
  /\ Leave(p)
  /\ UNCHANGED <<turn, row, since, got, overtaken, unseen, failed>>

Pass(p) ==
  \/ Begin(p) \/ ReadItems(p) \/ PostArrives(p) \/ PostFails(p)
  \/ Advance(p) \/ CountFailure(p)

-----------------------------------------------------------------------------
(* feed, polled by the owner: `active` does not matter to it, and the      *)
(* cursor is written whether there are items or not.                       *)
PollBegin(q) ==
  /\ pc[q] = "idle" /\ row # Nil
  /\ seen' = [seen EXCEPT ![q] = row]
  /\ Goto(q, "read")
  /\ UNCHANGED <<turn, row, since, items, ghosts>>

PollAnswer(q) ==
  /\ pc[q] = "answer"
  /\ \E n \in 0..MaxTurns :
       /\ IF items[q] = {} THEN n = seen[q].cursor ELSE IsLast(n, items[q])
       /\ Update([row EXCEPT !.cursor = n])
  /\ \/ got' = got \cup items[q] /\ UNCHANGED unseen
     \/ unseen' = unseen \cup items[q] /\ UNCHANGED got
  /\ Leave(q)
  /\ UNCHANGED <<turn, since, overtaken, failed, crashes>>

Poll(q) == PollBegin(q) \/ ReadItems(q) \/ PollAnswer(q)

-----------------------------------------------------------------------------
Next ==
  \/ \E i \in Turns : Allocate(i) \/ Insert(i)
  \/ Subscribe \/ Unsubscribe
  \/ \E p \in Passes : Pass(p) \/ RecordFails(p) \/ Cut(p)
  \/ \E q \in Pollers : Poll(q)

Spec == Init /\ [][Next]_vars

(* The pusher wakes on every write and every MEMNOS_PUSHER_INTERVAL, POSTs *)
(* have a timeout, an INSERT ends.  Nothing obliges an owner to poll.      *)
Fairness ==
  /\ \A i \in Turns : WF_vars(Insert(i))
  /\ \A p \in Passes : WF_vars(Pass(p))

FairSpec == Spec /\ Fairness

-----------------------------------------------------------------------------
TypeOK ==
  /\ turn \in [Turns -> {"none", "inserting", "stored"}]
  /\ row \in Rows \cup {Nil} /\ since \in 0..MaxTurns
  /\ pc \in [Actors -> Stages]
  /\ seen \in [Actors -> Rows \cup {Nil}]
  /\ items \in [Actors -> SUBSET Turns]
  /\ got \subseteq Turns /\ overtaken \subseteq Turns /\ unseen \subseteq Turns
  /\ failed \in 0..MaxFailures /\ crashes \in 0..MaxCrashes

(* What may be behind a cursor: delivered, or excused.                     *)
Accounted == got \cup overtaken \cup unseen

(* deliver_pending is at-least-once against every failure, crash, pass and *)
(* poll at the same time: a turn behind the cursor has been delivered,     *)
(* unless its INSERT ended after a later id had been read, or the answer   *)
(* of the poll that carried it was lost.                                   *)
SkipsExplained ==
  row # Nil =>
    \A i \in Turns :
      turn[i] = "stored" /\ since < i /\ i <= row.cursor => i \in Accounted

(* A subscription is only ever deactivated after max_failures deliveries   *)
(* have failed, however stale the counters the passes write back.          *)
DeactivatedByFailures ==
  row # Nil /\ ~row.active => failed = MaxFailures

(* Every turn written after the subscription is pushed, as long as the     *)
(* subscription stays active: a slow pass that writes an old cursor back   *)
(* delays it, and never for ever.                                          *)
EveryTurnPushed ==
  \A i \in Turns :
    (row # Nil /\ since < i /\ turn[i] = "stored")
      ~> (i \in Accounted \/ row = Nil \/ ~row.active)

(* "delivers pending events to subscriber webhooks at-least-once"          *)
(* (_pusher_loop; deliver_pending says the same).  The cursor is an id, and*)
(* ids do not become visible in order.                                     *)
AtLeastOnce ==
  row # Nil =>
    \A i \in Turns :
      turn[i] = "stored" /\ since < i /\ i <= row.cursor => i \in got \cup unseen
=============================================================================
