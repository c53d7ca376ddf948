---------------------------- MODULE BeliefStore ----------------------------
(***************************************************************************)
(* The fact write path of the engine: core/service.py `_write_fact` over   *)
(* the SQL of core/store.py.  Each element of Writers is one extracted     *)
(* fact on its way into the `semantic` table; writers run concurrently     *)
(* (request threads, MEMNOS_INGEST_WORKERS threads, replayed writes), each *)
(* SQL statement or transaction being one step, and a turn whose write     *)
(* fails is retried from the start against the same observation time.      *)
(*                                                                         *)
(* A row of the table is named by the attempt that inserts it, so subject, *)
(* object, observed_at and valid_from are functions of the row's name and  *)
(* only its existence and its superseded_by link are state: the link and   *)
(* valid_to are set together by every statement that closes a row.         *)
(***************************************************************************)
EXTENDS Naturals, FiniteSets

CONSTANTS
  Writers,      \* the fact writes of a behaviour
  Keys,         \* (namespace, lower(subject), lower(predicate))
  Objects,      \* lower(object) values
  Gists,        \* neighbourhoods of the embedding space, within a subject
  Loads,        \* the statements the writers may carry: a set of functions
  Stamps,       \* the observation times they may have: a set of functions
  Nil,          \* SQL NULL
  MaxTime,      \* bound: observation and event times are 0..MaxTime
  MaxAttempts,  \* 1 + MEMNOS_INGEST_MAX_RETRIES
  MaxRetried    \* bound: how many writers of a behaviour are retried

Times == 0..MaxTime
Ids   == Writers \X (1..MaxAttempts)

(* What _write_fact looks at in one extracted fact.  `single` is           *)
(* _supersedable(pred, obj); `hist` is _is_historical(stmt); `date` is the *)
(* event date in the statement (or the replay anchor), Nil when it has     *)
(* none; `negates` is what a reversal cue contradicts ({} without a cue).  *)
Statements ==
  [gist : Gists, key : Keys, obj : Objects, single : BOOLEAN,
   hist : BOOLEAN, date : Times \cup {Nil}, negates : SUBSET Gists]

ASSUME LoadsAssumption    == Loads \subseteq [Writers -> Statements]
ASSUME StampsAssumption   == Stamps \subseteq [Writers -> Times]
ASSUME NilAssumption      == Nil \notin Ids \cup Times
ASSUME BoundsAssumption   == MaxTime \in Nat /\ MaxAttempts \in Nat \ {0}
                           /\ MaxRetried \in Nat

VARIABLES
  load,          \* load[w]: the statement w carries
  dedupe,        \* MEMNOS_DEDUPE_THRESHOLD > 0
  obs,           \* obs[w]: observation time remember_turn stamped on w's turn
  pc,            \* pc[w]: where w is in _write_fact
  attempt,       \* attempt[w]: which try of the turn this is
  facts,         \* rows of `semantic`, by name
  supersededBy,  \* semantic.superseded_by; Nil on a live row
  dup,           \* dup[w]: the live near-duplicate w found
  closing,       \* closing[w]: rows w has selected to close
  dominant       \* dominant[w]: the later-observed live row, or Nil

vars == <<load, dedupe, obs, pc, attempt, facts, supersededBy, dup, closing,
          dominant>>

Steps == {"dedupe", "bump", "lock", "commit", "insert", "negate",
          "close", "written", "settled"}

-----------------------------------------------------------------------------
(* Columns of a row.                                                       *)
Stmt(r) == load[r[1]]
Obs(r)  == obs[r[1]]
Live(r) == r \in facts /\ supersededBy[r] = Nil
Row(w)  == <<w, attempt[w]>>

ValidFrom(w) == IF load[w].date = Nil THEN obs[w] ELSE load[w].date

(* The branch that takes the advisory lock: a single-valued attribute, and *)
(* a past-state statement only when it carries its own event date.         *)
Guarded(w) == load[w].single /\ ~(load[w].hist /\ load[w].date = Nil)

(* Rows of the same subject and predicate holding another object, subject  *)
(* to the event-order guard of a historical statement.                     *)
SameKeyRows(w) ==
  {r \in facts : /\ Live(r)
                 /\ Stmt(r).key = load[w].key
                 /\ Stmt(r).obj # load[w].obj}

EventOrder(w, r) == load[w].hist => ValidFrom(r[1]) <= load[w].date

SupersededRowsAnyOrder(w) ==                  \* mutant: no observation guard
  {r \in SameKeyRows(w) : EventOrder(w, r)}

SupersededRows(w) ==
  {r \in SameKeyRows(w) : Obs(r) <= obs[w] /\ EventOrder(w, r)}

LaterRowsOrTie(w) ==                          \* mutant: >= instead of >
  {r \in SameKeyRows(w) : Obs(r) >= obs[w] /\ EventOrder(w, r)}

LaterRows(w) ==
  {r \in SameKeyRows(w) : Obs(r) > obs[w] /\ EventOrder(w, r)}

(* The live row a new fact is born superseded by: the latest observed of   *)
(* those observed strictly later, so that a pair never closes each other.  *)
LatestOf(rows) == {r \in rows : \A q \in rows : Obs(q) <= Obs(r)}

NearDuplicates(w) ==
  {r \in facts : /\ Live(r)
                 /\ Stmt(r).gist = load[w].gist}

(* nearest_live_facts then _negation_targets.                              *)
NegationTargets(w) ==
  {r \in facts : /\ Live(r)
                 /\ r # Row(w)
                 /\ Obs(r) < obs[w]
                 /\ Stmt(r).gist \in load[w].negates}

(* pg_advisory_xact_lock on the key, held from the read to the commit (or  *)
(* the rollback) of the transaction.                                       *)
LockFree(w) ==
  \A v \in Writers : pc[v] = "commit" => load[v].key # load[w].key

(* A row another transaction has updated and not committed.                *)
RowFree(w, r) == \A v \in Writers \ {w} : pc[v] = "commit" => r \notin closing[v]

-----------------------------------------------------------------------------
(* The turns are stored and stamped; their facts are queued or in hand, in *)
(* any order.                                                              *)
Init ==
  /\ load \in Loads
  /\ dedupe \in BOOLEAN
  /\ obs \in Stamps
  /\ pc = [w \in Writers |-> "dedupe"]
  /\ attempt = [w \in Writers |-> 1]
  /\ facts = {}
  /\ supersededBy = [r \in Ids |-> Nil]
  /\ dup = [w \in Writers |-> Nil]
  /\ closing = [w \in Writers |-> {}]
  /\ dominant = [w \in Writers |-> Nil]

Goto(w, s) == pc' = [pc EXCEPT ![w] = s]

(* find_near_duplicate, outside any lock.                                  *)
FindDuplicate(w) ==
  /\ pc[w] = "dedupe" /\ dedupe
  /\ \E r \in NearDuplicates(w) : dup' = [dup EXCEPT ![w] = r]
  /\ Goto(w, "bump")
  /\ UNCHANGED <<load, dedupe, obs, attempt, facts, supersededBy,
                 closing, dominant>>

NoDuplicate(w) ==
  /\ pc[w] = "dedupe"
  /\ dedupe => NearDuplicates(w) = {}
  /\ Goto(w, IF Guarded(w) THEN "lock" ELSE "insert")
  /\ UNCHANGED <<load, dedupe, obs, attempt, facts, supersededBy, dup,
                 closing, dominant>>

(* bump_restatement: no liveness condition on the row, and its observed_at *)
(* stays what it was.                                                      *)
Bump(w) ==
  /\ pc[w] = "bump"
  /\ RowFree(w, dup[w])
  /\ Goto(w, "written")
  /\ dup' = [dup EXCEPT ![w] = Nil]
  /\ UNCHANGED <<load, dedupe, obs, attempt, facts, supersededBy,
                 closing, dominant>>

LockAndReadUnlocked(w) ==                     \* mutant: no advisory lock
  /\ pc[w] = "lock"
  /\ closing' = [closing EXCEPT ![w] = SupersededRows(w)]
  /\ IF LaterRows(w) = {}
       THEN dominant' = [dominant EXCEPT ![w] = Nil]
       ELSE \E r \in LatestOf(LaterRows(w)) :
              dominant' = [dominant EXCEPT ![w] = r]
  /\ Goto(w, "commit")
  /\ UNCHANGED <<load, dedupe, obs, attempt, facts, supersededBy, dup>>

(* The transaction takes the lock, updates the older rows and looks for a  *)
(* later one.  Nothing is visible to others before Commit.                 *)
LockAndRead(w) ==
  /\ pc[w] = "lock"
  /\ LockFree(w)
  /\ closing' = [closing EXCEPT ![w] = SupersededRows(w)]
  /\ IF LaterRows(w) = {}
       THEN dominant' = [dominant EXCEPT ![w] = Nil]
       ELSE \E r \in LatestOf(LaterRows(w)) :
              dominant' = [dominant EXCEPT ![w] = r]
  /\ Goto(w, "commit")
  /\ UNCHANGED <<load, dedupe, obs, attempt, facts, supersededBy, dup>>

AfterInsert(w, n) ==
  IF n = {} /\ load[w].negates # {} THEN "negate" ELSE "written"

CommitAlwaysLive(w) ==                        \* mutant: before issue #60
  /\ pc[w] = "commit"
  /\ facts' = facts \cup {Row(w)}
  /\ supersededBy' = [r \in Ids |->
       IF r \in closing[w] THEN Row(w) ELSE supersededBy[r]]
  /\ Goto(w, AfterInsert(w, closing[w]))
  /\ closing' = [closing EXCEPT ![w] = {}]
  /\ dominant' = [dominant EXCEPT ![w] = Nil]
  /\ UNCHANGED <<load, dedupe, obs, attempt, dup>>

(* insert_semantic, mark_superseded_by and the born-superseded close_out   *)
(* of an out-of-order fact, committed together.                            *)
Commit(w) ==
  /\ pc[w] = "commit"
  /\ facts' = facts \cup {Row(w)}
  /\ supersededBy' = [r \in Ids |->
       IF r \in closing[w] THEN Row(w)
       ELSE IF r = Row(w)  THEN dominant[w]
       ELSE supersededBy[r]]
  /\ Goto(w, AfterInsert(w, closing[w]))
  /\ closing' = [closing EXCEPT ![w] = {}]
  /\ dominant' = [dominant EXCEPT ![w] = Nil]
  /\ UNCHANGED <<load, dedupe, obs, attempt, dup>>

(* The unguarded branch: a multi-valued attribute, a fact with no          *)
(* predicate, or a past-state statement without a date.                    *)
Insert(w) ==
  /\ pc[w] = "insert"
  /\ facts' = facts \cup {Row(w)}
  /\ Goto(w, AfterInsert(w, {}))
  /\ UNCHANGED <<load, dedupe, obs, attempt, supersededBy, dup,
                 closing, dominant>>

(* Reversal close-out: the candidates are read by one statement ...        *)
SelectNegated(w) ==
  /\ pc[w] = "negate"
  /\ closing' = [closing EXCEPT ![w] = NegationTargets(w)]
  /\ Goto(w, "close")
  /\ UNCHANGED <<load, dedupe, obs, attempt, facts, supersededBy, dup,
                 dominant>>

CloseNegatedBlindly(w) ==                     \* mutant: no "valid_to IS NULL"
  /\ pc[w] = "close"
  /\ \E r \in closing[w] :
       /\ RowFree(w, r)
       /\ supersededBy' = [supersededBy EXCEPT ![r] = Row(w)]
       /\ closing' = [closing EXCEPT ![w] = @ \ {r}]
  /\ UNCHANGED <<load, dedupe, obs, pc, attempt, facts, dup, dominant>>

(* ... and closed one statement each; close_out leaves a row that is no    *)
(* longer live as it is.                                                   *)
CloseNegated(w) ==
  /\ pc[w] = "close"
  /\ \E r \in closing[w] :
       /\ RowFree(w, r)
       /\ supersededBy' = [supersededBy EXCEPT ![r] =
                             IF Live(r) THEN Row(w) ELSE @]
       /\ closing' = [closing EXCEPT ![w] = @ \ {r}]
  /\ UNCHANGED <<load, dedupe, obs, pc, attempt, facts, dup, dominant>>

NegationDone(w) ==
  /\ pc[w] = "close" /\ closing[w] = {}
  /\ Goto(w, "written")
  /\ UNCHANGED <<load, dedupe, obs, attempt, facts, supersededBy, dup,
                 closing, dominant>>

(* The rest of the turn (its other facts, usage, audit) succeeds.          *)
Finish(w) ==
  /\ pc[w] = "written"
  /\ Goto(w, "settled")
  /\ UNCHANGED <<load, dedupe, obs, attempt, facts, supersededBy, dup,
                 closing, dominant>>

(* A statement fails (timeout, lost connection) at any point up to the     *)
(* turn's last one: the open transaction rolls back and the turn is        *)
(* retried from the start with the observation time it had.                *)
Running(w) == pc[w] # "settled"

RollBack(w) ==
  /\ dup' = [dup EXCEPT ![w] = Nil]
  /\ closing' = [closing EXCEPT ![w] = {}]
  /\ dominant' = [dominant EXCEPT ![w] = Nil]
  /\ UNCHANGED <<load, dedupe, obs, facts, supersededBy>>

Retried == {w \in Writers : attempt[w] > 1}

MayRetry(w) ==
  attempt[w] < MaxAttempts /\ Cardinality(Retried \ {w}) < MaxRetried

RetryUncounted(w) ==                          \* mutant: attempt not counted
  /\ Running(w) /\ MayRetry(w)
  /\ attempt' = attempt
  /\ Goto(w, "dedupe")
  /\ RollBack(w)

Retry(w) ==
  /\ Running(w) /\ MayRetry(w)
  /\ attempt' = [attempt EXCEPT ![w] = @ + 1]
  /\ Goto(w, "dedupe")
  /\ RollBack(w)

(* A failure that is not transient, the last allowed one, or the death of  *)
(* the process: what the turn has committed so far stays.                  *)
Drop(w) ==
  /\ Running(w)
  /\ Goto(w, "settled")
  /\ RollBack(w)
  /\ UNCHANGED attempt

Step(w) ==
  \/ FindDuplicate(w) \/ NoDuplicate(w) \/ Bump(w)
  \/ LockAndRead(w) \/ Commit(w) \/ Insert(w)
  \/ SelectNegated(w) \/ CloseNegated(w) \/ NegationDone(w) \/ Finish(w)

(* Every write has settled: nothing is left to do.                         *)
Quiescent ==
  /\ \A w \in Writers : pc[w] = "settled"
  /\ UNCHANGED vars

Next == (\E w \in Writers : Step(w) \/ Retry(w) \/ Drop(w)) \/ Quiescent

Spec == Init /\ [][Next]_vars

(* A thread that holds a fact keeps running; nothing obliges a statement   *)
(* to fail.                                                                *)
FairSpec == Spec /\ \A w \in Writers : WF_vars(Step(w))

-----------------------------------------------------------------------------
TypeOK ==
  /\ load \in [Writers -> Statements]
  /\ dedupe \in BOOLEAN
  /\ obs \in [Writers -> Times]
  /\ pc \in [Writers -> Steps]
  /\ attempt \in [Writers -> 1..MaxAttempts]
  /\ facts \subseteq Ids
  /\ supersededBy \in [Ids -> Ids \cup {Nil}]
  /\ dup \in [Writers -> Ids \cup {Nil}]
  /\ closing \in [Writers -> SUBSET Ids]
  /\ dominant \in [Writers -> Ids \cup {Nil}]

(* A row that states the present value of a single-valued attribute.       *)
StatesPresent(r) == Guarded(r[1]) /\ ~load[r[1]].hist

(* However writes interleave, fail and are retried, an attribute never has *)
(* two different live values: core/service.py _write_fact, the             *)
(* CONCURRENT/OUT-OF-ORDER WRITER GUARD (issue #60).                       *)
OneCurrentObject ==
  \A r, q \in facts :
    (/\ Live(r) /\ Live(q)
     /\ StatesPresent(r) /\ StatesPresent(q)
     /\ Stmt(r).key = Stmt(q).key)
      => Stmt(r).obj = Stmt(q).obj

(* A superseded_by link never points at older knowledge, and only at a row *)
(* that exists: the observation axis orders every close (supersede_        *)
(* predicate, dominant_live_fact, nearest_live_facts).                     *)
LinksPointForward ==
  \A r \in facts :
    supersededBy[r] # Nil =>
      supersededBy[r] \in facts /\ Obs(r) <= Obs(supersededBy[r])

(* A key on which nothing was reversed always has a value once it has had  *)
(* one: supersession replaces a belief, it never leaves a hole.            *)
Reversible(k) ==
  \E v, w \in Writers : load[v].gist \in load[w].negates /\ load[v].key = k

NoBeliefVacuum ==
  \A k \in Keys :
    (~Reversible(k) /\ \E r \in facts : Stmt(r).key = k)
      => \E r \in facts : Live(r) /\ Stmt(r).key = k

(* A closed row is never reopened, relinked or deleted: the history is     *)
(* append-only ("never deletes").                                          *)
HistoryKept ==
  \A r \in facts : /\ r \in facts'
                   /\ supersededBy[r] # Nil => supersededBy'[r] = supersededBy[r]
HistoryIsFinal == [][HistoryKept]_vars

(* Every write that reached the server is eventually settled or dropped:   *)
(* neither the advisory lock nor a row lock can block writers for ever.    *)
EveryWriteSettles ==
  \A w \in Writers : (pc[w] = "dedupe") ~> (pc[w] = "settled")

(* A past-state statement replaces a present value only when its own event *)
(* date is not older than that value's: "it describes the past, it does    *)
(* not change the current belief" (_write_fact, dominant_live_fact).  The  *)
(* code does not keep this when the past-state statement commits first.    *)
PastNeverDisplacesPresent ==
  \A r \in facts :
    LET q == supersededBy[r] IN
      (q # Nil /\ StatesPresent(r) /\ Stmt(q).hist)
        => Stmt(q).date # Nil /\ ValidFrom(r[1]) <= Stmt(q).date

-----------------------------------------------------------------------------
(* Refinement of CurrentBelief, for the keys about which only plain        *)
(* present-tense statements of a single-valued attribute are made and no   *)
(* reversal, with dedupe off: then the live rows of a key are its belief.  *)
PlainKey(k) ==
  /\ ~dedupe /\ ~Reversible(k)
  /\ \A w \in Writers : load[w].key = k => Guarded(w) /\ ~load[w].hist

LiveRows(k) == {r \in facts : Live(r) /\ Stmt(r).key = k}

(* Two live values are no value: nothing tells a reader which one holds.   *)
Belief ==
  [k \in Keys |->
     LET objects == {Stmt(r).obj : r \in LiveRows(k)}
         known   == {Obs(r) : r \in LiveRows(k)}
     IN  IF PlainKey(k) /\ Cardinality(objects) = 1
           THEN [obj   |-> CHOOSE o \in objects : TRUE,
                 known |-> CHOOSE t \in known : \A u \in known : u <= t]
           ELSE Nil]

Abstract == INSTANCE CurrentBelief WITH belief <- Belief, Times <- Times

(* On those keys the write path implements CurrentBelief: the value served *)
(* as current is always the latest learned, in whatever order the writers  *)
(* commit.                                                                 *)
ImplementsCurrentBelief == Abstract!Spec
=============================================================================
