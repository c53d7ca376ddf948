---------------------------- MODULE AsyncIngest ----------------------------
(***************************************************************************)
(* /remember on the server: memnos_server.py `_remember_phased`, the       *)
(* in-memory extraction queue _INGEST_Q, the `_ingest_worker` threads,     *)
(* their retry timers and `_log_ingest_drop`.  The raw turn is durable;    *)
(* its extraction lives in process memory until its facts are written.     *)
(***************************************************************************)
EXTENDS Naturals, Sequences, FiniteSets

CONSTANTS
  Turns,      \* requests, one turn each
  Workers,    \* INGEST_WORKERS threads
  QueueSize,  \* _INGEST_Q's maxsize
  MaxRetries, \* MEMNOS_INGEST_MAX_RETRIES
  MaxCrashes, \* bound: how often the process dies
  NoTurn         \* no turn

ASSUME SizeAssumption  == QueueSize \in Nat \ {0}
ASSUME BoundAssumption == MaxRetries \in Nat /\ MaxCrashes \in Nat
ASSUME NoTurnAssumption   == NoTurn \notin Turns

VARIABLES
  raw,      \* turns stored in raw_turns
  request,  \* request[t]: where the handler of t is, or what it answered
  queue,    \* _INGEST_Q: <<turn, attempt>> items, oldest first
  busy,     \* workers between _INGEST_Q.get() and the end of the attempt
  tid,      \* tid[w]: worker w's local `tid`, kept until its next get()
  attempt,  \* attempt[w]: worker w's local `attempt`
  timers,   \* armed threading.Timers: the item and the worker that armed it
  done,     \* turns whose facts were written and audited
  dropped,  \* turn ids reported by _log_ingest_drop
  lost,     \* turns whose extraction died with the process
  squeezed, \* turns whose retry found the queue full
  crashes   \* process deaths so far

memory == <<queue, busy, tid, attempt, timers>>
ingestVars   == <<raw, request, memory, done, dropped, lost, squeezed, crashes>>

Answers  == {"queued", "facts", "stored_only", "500", "503"}
RequestStates == {"new", "stored", "sync"} \cup Answers
Attempts == 0..MaxRetries

-----------------------------------------------------------------------------
IngestInit ==
  /\ raw = {}
  /\ request = [t \in Turns |-> "new"]
  /\ queue = <<>> /\ busy = {} /\ timers = {}
  /\ tid = [w \in Workers |-> NoTurn]
  /\ attempt = [w \in Workers |-> 0]
  /\ done = {} /\ dropped = {} /\ lost = {} /\ squeezed = {}
  /\ crashes = 0

Answer(t, a) == request' = [request EXCEPT ![t] = a]

-----------------------------------------------------------------------------
(* The request handler.                                                    *)

(* P0, P1a, P1b: authorise, embed, store the verbatim turn.                *)
StoreTurn(t) ==
  /\ request[t] = "new"
  /\ raw' = raw \cup {t}
  /\ Answer(t, "stored")
  /\ UNCHANGED <<memory, done, dropped, lost, squeezed, crashes>>

(* Postgres unreachable (503) or the embedder failing (500) before P1b.    *)
RefuseTurn(t) ==
  /\ request[t] = "new"
  /\ \E a \in {"500", "503"} : Answer(t, a)
  /\ UNCHANGED <<raw, memory, done, dropped, lost, squeezed, crashes>>

(* Local mode, or "extract": false.                                        *)
SkipExtraction(t) ==
  /\ request[t] = "stored"
  /\ Answer(t, "stored_only")
  /\ UNCHANGED <<raw, memory, done, dropped, lost, squeezed, crashes>>

(* {"async": true}: put_nowait, answer, and forget.                        *)
Defer(t) ==
  /\ request[t] = "stored"
  /\ Len(queue) < QueueSize
  /\ queue' = Append(queue, <<t, 0>>)
  /\ Answer(t, "queued")
  /\ UNCHANGED <<raw, busy, tid, attempt, timers, done, dropped, lost,
                 squeezed, crashes>>

(* A synchronous request, or a deferred one that found the queue full.     *)
ExtractInline(t) ==
  /\ request[t] = "stored"
  /\ Answer(t, "sync")
  /\ UNCHANGED <<raw, memory, done, dropped, lost, squeezed, crashes>>

InlineDone(t) ==
  /\ request[t] = "sync"
  /\ done' = done \cup {t}
  /\ Answer(t, "facts")
  /\ UNCHANGED <<raw, memory, dropped, lost, squeezed, crashes>>

(* P2 or P3 fails: the turn is stored, the client is told otherwise.       *)
InlineFails(t) ==
  /\ request[t] = "sync"
  /\ \E a \in {"500", "503"} : Answer(t, a)
  /\ UNCHANGED <<raw, memory, done, dropped, lost, squeezed, crashes>>

-----------------------------------------------------------------------------
(* The workers.                                                            *)

Get(w) ==
  /\ w \notin busy /\ queue # <<>>
  /\ queue' = Tail(queue)
  /\ busy' = busy \cup {w}
  /\ tid' = [tid EXCEPT ![w] = Head(queue)[1]]
  /\ attempt' = [attempt EXCEPT ![w] = Head(queue)[2]]
  /\ UNCHANGED <<raw, request, timers, done, dropped, lost, squeezed, crashes>>

Rest(w) == w \in busy /\ busy' = busy \ {w}

Report(t) == dropped' = dropped \cup {t}

Extracted(w) ==
  /\ Rest(w)
  /\ done' = done \cup {tid[w]}
  /\ UNCHANGED <<raw, request, queue, tid, attempt, timers, dropped, lost,
                 squeezed, crashes>>

RetryUncounted(w) ==                          \* mutant: attempt not counted
  /\ Rest(w) /\ attempt[w] < MaxRetries
  /\ timers' = timers \cup {[turn |-> tid[w], attempt |-> attempt[w], by |-> w]}
  /\ UNCHANGED <<raw, request, queue, tid, attempt, done, dropped, lost,
                 squeezed, crashes>>

RetryKeepingWork(w) ==                        \* mutant: the attempt is not given up
  /\ w \in busy /\ attempt[w] < MaxRetries
  /\ timers' = timers \cup {[turn |-> tid[w], attempt |-> attempt[w] + 1, by |-> w]}
  /\ UNCHANGED <<raw, request, queue, busy, tid, attempt, done, dropped, lost,
                 squeezed, crashes>>

RetryReported(w) ==                           \* mutant: reported, retried all the same
  /\ Rest(w) /\ attempt[w] < MaxRetries
  /\ timers' = timers \cup {[turn |-> tid[w], attempt |-> attempt[w] + 1, by |-> w]}
  /\ Report(tid[w])
  /\ UNCHANGED <<raw, request, queue, tid, attempt, done, lost, squeezed,
                 crashes>>

(* A transient failure: a timer re-enqueues the item after the backoff.    *)
RetryLater(w) ==
  /\ Rest(w) /\ attempt[w] < MaxRetries
  /\ timers' = timers \cup {[turn |-> tid[w], attempt |-> attempt[w] + 1, by |-> w]}
  /\ UNCHANGED <<raw, request, queue, tid, attempt, done, dropped, lost,
                 squeezed, crashes>>

GiveUpSilently(w) ==                          \* mutant: exhausted, not reported
  /\ Rest(w)
  /\ UNCHANGED <<raw, request, queue, tid, attempt, timers, done, dropped,
                 lost, squeezed, crashes>>

(* Any other failure, or a transient one past the retry budget.            *)
GiveUp(w) ==
  /\ Rest(w)
  /\ Report(tid[w])
  /\ UNCHANGED <<raw, request, queue, tid, attempt, timers, done, lost,
                 squeezed, crashes>>

Requeue(x) ==
  /\ x \in timers /\ Len(queue) < QueueSize
  /\ queue' = Append(queue, <<x.turn, x.attempt>>)
  /\ timers' = timers \ {x}
  /\ UNCHANGED <<raw, request, busy, tid, attempt, done, dropped, lost,
                 squeezed, crashes>>

(* The queue is full on retry: _requeue bound `item` and `exc` when it was *)
(* armed, but reports the worker's `tid` as it is now.                     *)
RequeueFull(x) ==
  /\ x \in timers /\ Len(queue) = QueueSize
  /\ timers' = timers \ {x}
  /\ squeezed' = squeezed \cup {x.turn}
  /\ Report(tid[x.by])
  /\ UNCHANGED <<raw, request, queue, busy, tid, attempt, done, lost, crashes>>

-----------------------------------------------------------------------------
(* The turns whose extraction is somewhere in this process.                *)
InQueue(t)  == {i \in DOMAIN queue : queue[i][1] = t}
Working(t) == {w \in busy : tid[w] = t}
Waiting(t) == {x \in timers : x.turn = t}

InProcess(t) ==
  \/ request[t] \in {"stored", "sync"}
  \/ InQueue(t) # {} \/ Working(t) # {} \/ Waiting(t) # {}

(* The process dies, or a rolling upgrade kills it once its HTTP requests  *)
(* are drained: nothing drains the queue.                                  *)
ServerCrash ==
  /\ crashes < MaxCrashes
  /\ crashes' = crashes + 1
  /\ lost' = lost \cup {t \in Turns : InProcess(t)}
  /\ request' = [t \in Turns |->
                   IF request[t] \in {"stored", "sync"} THEN "503" ELSE request[t]]
  /\ queue' = <<>> /\ busy' = {} /\ timers' = {}
  /\ tid' = [w \in Workers |-> NoTurn]
  /\ attempt' = [w \in Workers |-> 0]
  /\ UNCHANGED <<raw, done, dropped, squeezed>>

Handler(t) ==
  \/ StoreTurn(t) \/ RefuseTurn(t) \/ SkipExtraction(t) \/ Defer(t)
  \/ ExtractInline(t) \/ InlineDone(t) \/ InlineFails(t)

Attempt(w) == Extracted(w) \/ RetryLater(w) \/ GiveUp(w)

Fire == \E x \in timers : Requeue(x) \/ RequeueFull(x)

Idle == /\ \A t \in Turns : request[t] \in Answers
        /\ queue = <<>> /\ busy = {} /\ timers = {}
        /\ UNCHANGED ingestVars

IngestNext ==
  \/ \E t \in Turns : Handler(t)
  \/ \E w \in Workers : Get(w) \/ Attempt(w)
  \/ Fire \/ ServerCrash \/ Idle

IngestSpec == IngestInit /\ [][IngestNext]_ingestVars

(* Threads run, model calls and SQL end (timeouts), timers fire.           *)
IngestFairness ==
  /\ \A t \in Turns : WF_ingestVars(Handler(t))
  /\ \A w \in Workers : WF_ingestVars(Get(w)) /\ WF_ingestVars(Attempt(w))
  /\ WF_ingestVars(Fire)

IngestFairSpec == IngestSpec /\ IngestFairness

-----------------------------------------------------------------------------
IngestItems == [turn : Turns, attempt : Attempts, by : Workers]

IngestTypeOK ==
  /\ raw \subseteq Turns
  /\ request \in [Turns -> RequestStates]
  /\ queue \in Seq(Turns \X Attempts) /\ Len(queue) <= QueueSize
  /\ busy \subseteq Workers
  /\ tid \in [Workers -> Turns \cup {NoTurn}]
  /\ attempt \in [Workers -> Attempts]
  /\ timers \subseteq IngestItems
  /\ done \subseteq Turns /\ dropped \subseteq Turns
  /\ lost \subseteq Turns /\ squeezed \subseteq Turns
  /\ crashes \in 0..MaxCrashes
  /\ \A w \in busy : tid[w] # NoTurn

(* A turn is in one place at a time: its extraction is never run by two    *)
(* workers, queued twice, or queued again while an attempt is running.     *)
OnePlace ==
  \A t \in Turns :
    Cardinality(InQueue(t)) + Cardinality(Working(t)) + Cardinality(Waiting(t)) <= 1

(* What became of a turn whose extraction was deferred.                    *)
Settled(t) == t \in done \cup dropped \cup lost

(* "never silent either way" (_ingest_worker): a turn accepted with        *)
(* "extraction": "queued" is still in hand, extracted, reported dropped,   *)
(* or died with the process - or was squeezed out on a retry (see          *)
(* DropsAreVisible).                                                       *)
EveryTurnAccounted ==
  \A t \in Turns :
    request[t] = "queued" => InProcess(t) \/ Settled(t) \/ t \in squeezed

(* A turn reported dropped is not still being worked on, as long as no     *)
(* retry has been squeezed out.                                            *)
ReportsAreFinal ==
  squeezed = {} => \A t \in dropped : ~InProcess(t)

(* Every accepted turn is eventually extracted, reported or lost: the      *)
(* retry budget ends, and a full queue holds nobody for ever.              *)
EveryTurnSettles ==
  \A t \in Turns :
    (request[t] = "queued") ~> (Settled(t) \/ t \in squeezed)

(* _log_ingest_drop: "the raw turn is already durably stored, but its      *)
(* extraction is permanently lost.  This must be VISIBLE, not swallowed".  *)
(* The code reports another turn when a retry finds the queue full.        *)
DropsAreVisible == squeezed \subseteq dropped
=============================================================================
