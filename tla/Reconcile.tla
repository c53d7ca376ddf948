----------------------------- MODULE Reconcile -----------------------------
(***************************************************************************)
(* `memnos namespace reconcile` of one namespace while its writers run:    *)
(* the newest-first walk over the live facts of one (subject, predicate),  *)
(* which commits in small transactions with a watermark it resumes from.   *)
(* A fact is its place on the walk's axis, (observed_at, id): a fact with  *)
(* a larger place was observed later.  core/reconcile.py.                  *)
(***************************************************************************)
EXTENDS Integers, FiniteSets

CONSTANTS
  Places,       \* places on the axis, 1..n
  Values,       \* objects; facts of one value are near duplicates
  Walkers,      \* invocations of the command
  Nobody,       \* the advisory lock is free
  ChunkSize,    \* facts read per page
  MaxRetries,   \* contention retries before giving up
  MaxStarts,    \* bound: invocations started
  MaxTroubles,  \* bound: contention errors and kills
  MaxLiveWrites \* bound: facts written while the command may run

ASSUME ReconcileBounds ==
  /\ Cardinality(Places) \in Nat /\ Places = 1..Cardinality(Places)
  /\ ChunkSize \in Nat \ {0}
  /\ MaxRetries \in Nat /\ MaxStarts \in Nat
  /\ MaxTroubles \in Nat /\ MaxLiveWrites \in Nat
ASSUME NobodyIsNoWalker == Nobody \notin Walkers
ASSUME ValuesAssumption == Values # {}

VARIABLES
  axis,      \* axis[p]: the fact at place p: its value and whether it is
             \* "none", "live", "closed" (valid_to) or "expired"
  mark,      \* the row of namespace_reconcile_runs
  walkLock,  \* the session that holds the advisory lock
  walk,      \* walk[w]: the walker's connection and local state
  scope,     \* facts live when the present walk began
  covered,   \* facts the present walk has handled, durably
  starts, troubles, liveWrites

reconcileVars == <<axis, mark, walkLock, walk, scope, covered, starts,
                   troubles, liveWrites>>

Top == 1 + Cardinality(Places)      \* no cursor yet: every place is below
LivePlaces == {p \in Places : axis[p].is = "live"}
Highest(S) == CHOOSE p \in S : \A q \in S : q <= p
Lowest(S) == CHOOSE p \in S : \A q \in S : p <= q

AtRest == [stage |-> "out", page |-> {}, cursor |-> Top, done |-> {},
           write |-> {}, tries |-> 0]
FreshMark == [cursor |-> Top, scanned |-> 0, finished |-> FALSE]

-----------------------------------------------------------------------------
(* Namespaces ingested before the write path closed what it contradicts:   *)
(* any values, all live.                                                   *)
ReconcileInit ==
  /\ \E debt \in SUBSET Places : \E v \in [debt -> Values] :
       axis = [p \in Places |-> IF p \in debt
                 THEN [value |-> v[p], is |-> "live"]
                 ELSE [value |-> CHOOSE x \in Values : TRUE, is |-> "none"]]
  /\ mark = [FreshMark EXCEPT !.finished = TRUE]
  /\ walkLock = Nobody
  /\ walk = [w \in Walkers |-> AtRest]
  /\ scope = {} /\ covered = {}
  /\ starts = 0 /\ troubles = 0 /\ liveWrites = 0

(* try_lock, then _start_or_resume: a finished walk, or --restart, begins  *)
(* again at the newest fact.  Without the lock the command exits.          *)
StartWalk(w) ==
  /\ walk[w].stage = "out" /\ starts < MaxStarts /\ walkLock = Nobody
  /\ starts' = starts + 1
  /\ walkLock' = w
  /\ \E restart \in BOOLEAN :
       IF mark.finished \/ restart
         THEN /\ mark' = FreshMark
              /\ scope' = LivePlaces /\ covered' = {}
              /\ walk' = [walk EXCEPT ![w] = [AtRest EXCEPT !.stage = "page"]]
         ELSE /\ UNCHANGED <<mark, scope, covered>>
              /\ walk' = [walk EXCEPT ![w] =
                   [AtRest EXCEPT !.stage = "page", !.cursor = mark.cursor]]
  /\ UNCHANGED <<axis, troubles, liveWrites>>

Exit(w) ==
  /\ walk' = [walk EXCEPT ![w] = AtRest]
  /\ walkLock' = Nobody

(* A mutated reading: the watermark moves when the page is read.           *)
ReadPageAhead(w) ==
  LET below == {p \in LivePlaces : p < walk[w].cursor}
      page == {p \in below : Cardinality({q \in below : q > p}) < ChunkSize}
  IN /\ walk[w].stage = "page"
     /\ IF page = {}
          THEN mark' = [mark EXCEPT !.finished = TRUE] /\ Exit(w)
          ELSE /\ walk' = [walk EXCEPT ![w].stage = "facts", ![w].page = page]
               /\ mark' = [mark EXCEPT !.cursor = Lowest(page)]
               /\ UNCHANGED walkLock
     /\ UNCHANGED <<axis, scope, covered, starts, troubles, liveWrites>>

(* The next page below the cursor; none left ends the walk.                *)
ReadPage(w) ==
  LET below == {p \in LivePlaces : p < walk[w].cursor}
      page == {p \in below : Cardinality({q \in below : q > p}) < ChunkSize}
  IN /\ walk[w].stage = "page"
     /\ IF page = {}
          THEN mark' = [mark EXCEPT !.finished = TRUE] /\ Exit(w)
          ELSE /\ walk' = [walk EXCEPT ![w].stage = "facts", ![w].page = page]
               /\ UNCHANGED <<mark, walkLock>>
     /\ UNCHANGED <<axis, scope, covered, starts, troubles, liveWrites>>

(* reconcile_fact on a live fact: an older duplicate absorbs it, or it     *)
(* closes the older facts it contradicts.                                  *)
Older(p) == {q \in LivePlaces : q < p}

Effect(p) ==
  IF p \notin LivePlaces THEN {}
  ELSE IF \E q \in Older(p) : axis[q].value = axis[p].value
         THEN {<<p, "expired">>}
         ELSE {<<q, "closed">> : q \in Older(p)}

(* A fact that wrote something is committed on its own, the others with    *)
(* the end of the page.                                                    *)
HandleFact(w) ==
  LET p == Highest(walk[w].page)
      rest == walk[w].page \ {p}
  IN /\ walk[w].stage = "facts"
     /\ walk' = [walk EXCEPT
          ![w].page = rest, ![w].done = walk[w].done \cup {p}, ![w].write = Effect(p),
          ![w].stage = IF Effect(p) # {} \/ rest = {} THEN "commit" ELSE "facts"]
     /\ UNCHANGED <<axis, mark, walkLock, scope, covered, starts, troubles,
                    liveWrites>>

(* The time budget is spent, or SIGTERM: the page ends at a fact boundary. *)
CutPage(w) ==
  /\ walk[w].stage = "facts" /\ walk[w].done # {}
  /\ walk' = [walk EXCEPT ![w].page = {}, ![w].stage = "commit"]
  /\ UNCHANGED <<axis, mark, walkLock, scope, covered, starts, troubles,
                 liveWrites>>

Outcome(write, p) == (CHOOSE e \in write : e[1] = p)[2]

(* The mutations and the watermark, in one transaction.                    *)
CommitChunk(w) ==
  LET last == Lowest(walk[w].done)
  IN /\ walk[w].stage = "commit"
     /\ axis' = [p \in Places |->
          IF \E e \in walk[w].write : e[1] = p
            THEN [axis[p] EXCEPT !.is = Outcome(walk[w].write, p)]
            ELSE axis[p]]
     /\ mark' = [mark EXCEPT !.cursor = last,
                             !.scanned = mark.scanned + Cardinality(walk[w].done)]
     /\ covered' = covered \cup walk[w].done
     /\ walk' = [walk EXCEPT ![w] =
          [stage |-> IF walk[w].page = {} THEN "page" ELSE "facts",
           page |-> walk[w].page, cursor |-> last, done |-> {}, write |-> {},
           tries |-> IF walk[w].page = {} THEN 0 ELSE walk[w].tries]]
     /\ UNCHANGED <<walkLock, scope, starts, troubles, liveWrites>>

(* A live writer holds the row: roll back, retry from the committed        *)
(* cursor, or give up.                                                     *)
Contend(w) ==
  /\ walk[w].stage \in {"facts", "commit"} /\ troubles < MaxTroubles
  /\ troubles' = troubles + 1
  /\ IF walk[w].tries + 1 > MaxRetries
       THEN Exit(w)
       ELSE /\ walk' = [walk EXCEPT ![w].stage = "page", ![w].page = {},
                          ![w].done = {}, ![w].write = {},
                          ![w].tries = walk[w].tries + 1]
            /\ UNCHANGED walkLock
  /\ UNCHANGED <<axis, mark, scope, covered, starts, liveWrites>>

(* The limit is reached, or a stop is seen between two pages.              *)
Leave(w) ==
  /\ walk[w].stage = "page"
  /\ Exit(w)
  /\ UNCHANGED <<axis, mark, scope, covered, starts, troubles, liveWrites>>

(* SIGKILL: the session ends, its transaction and its lock with it.        *)
KillWalk(w) ==
  /\ walk[w].stage # "out" /\ troubles < MaxTroubles
  /\ troubles' = troubles + 1
  /\ Exit(w)
  /\ UNCHANGED <<axis, mark, scope, covered, starts, liveWrites>>

(* A live write of value v observed at p, by the fixed write path: a       *)
(* restatement is absorbed; otherwise older contradictions are closed, and *)
(* a later-observed one keeps it from being current.  It waits for rows    *)
(* the walk has written.                                                   *)
LiveWrite ==
  \E p \in Places, v \in Values :
    LET wrote == {e[1] : e \in UNION {walk[w].write : w \in Walkers}}
        other == {q \in LivePlaces : axis[q].value # v}
        closes == {q \in other : q < p}
    IN /\ liveWrites < MaxLiveWrites /\ axis[p].is = "none"
       /\ ~\E q \in LivePlaces : axis[q].value = v
       /\ closes \cap wrote = {}
       /\ liveWrites' = liveWrites + 1
       /\ axis' = [q \in Places |->
            CASE q = p -> [value |-> v, is |->
                             IF closes = other THEN "live" ELSE "closed"]
              [] q \in closes -> [axis[q] EXCEPT !.is = "closed"]
              [] OTHER -> axis[q]]
       /\ UNCHANGED <<mark, walkLock, walk, scope, covered, starts, troubles>>

ReconcileNext ==
  \/ \E w \in Walkers : \/ StartWalk(w)   \/ ReadPage(w) \/ HandleFact(w)
                        \/ CutPage(w)     \/ CommitChunk(w)
                        \/ Contend(w)     \/ Leave(w)    \/ KillWalk(w)
  \/ LiveWrite

ReconcileSpec == ReconcileInit /\ [][ReconcileNext]_reconcileVars

-----------------------------------------------------------------------------
(* Type invariant.                                                         *)
ReconcileTypeOK ==
  /\ axis \in [Places -> [value : Values,
                          is : {"none", "live", "closed", "expired"}]]
  /\ mark \in [cursor : Places \cup {Top}, scanned : Nat, finished : BOOLEAN]
  /\ walkLock \in Walkers \cup {Nobody}
  /\ walk \in [Walkers ->
       [stage : {"out", "page", "facts", "commit"}, page : SUBSET Places,
        cursor : Places \cup {Top}, done : SUBSET Places,
        write : SUBSET (Places \X {"closed", "expired"}), tries : 0..MaxRetries]]
  /\ scope \subseteq Places /\ covered \subseteq Places
  /\ starts \in 0..MaxStarts /\ troubles \in 0..MaxTroubles
  /\ liveWrites \in 0..MaxLiveWrites

(* The watermark describes exactly the work that is durable: every fact at *)
(* or above the cursor that was live when the walk began has been handled  *)
(* or closed by a writer, across kills, retries and resumed runs, and the  *)
(* row counts each handled fact once.                                      *)
WatermarkIsDurable ==
  /\ \A p \in scope : p >= mark.cursor /\ axis[p].is = "live" => p \in covered
  /\ mark.scanned = Cardinality(covered)
  /\ mark.finished => scope \cap LivePlaces \subseteq covered

(* Of a handled fact and an older one, both live when the walk began, one  *)
(* has been closed or expired, whatever ran in between.                    *)
HandledPairsSettle ==
  \A p \in covered \cap scope, q \in scope :
    q < p => {p, q} \cap LivePlaces # {p, q}

(* The walk's watermark never runs ahead of what is committed, and the     *)
(* pairs it has handled are settled.                                       *)
ReconcileSound == WatermarkIsDurable /\ HandledPairsSettle
=============================================================================
