------------------------------- MODULE Recall -------------------------------
(***************************************************************************)
(* Recall requests on the server (_phased, _phased_op and the fetch and    *)
(* rank phases of MemnosMemory): database phases on short-lived pooled     *)
(* connections with the model work between them, arms that fail one by     *)
(* one and degrade the answer, the circuit breaker, and the audit rows of  *)
(* the constraints shown.  A request holds a connection during phase A;    *)
(* in phase B its semantic arm asks for a second one.                      *)
(***************************************************************************)
EXTENDS Naturals, FiniteSets

CONSTANTS
  Recalls,     \* requests being served at once
  PoolMax,     \* connections in the pool
  Threshold    \* recorded failures that open the circuit breaker

ASSUME RecallBounds == PoolMax \in Nat \ {0} /\ Threshold \in Nat \ {0}

VARIABLES
  recall,   \* recall[r]: the request being served
  recent,   \* arm failures in the breaker's window, counted to Threshold
  warm      \* the reranker is loaded

recallVars == <<recall, recent, warm>>

(* What a request reads.  "lookup" is the readable-namespaces query of a   *)
(* wide recall, the timeline and ancestor queries of a narrow one.         *)
ArmsA == {"lookup", "pins"}
ArmsB == {"raw", "semantic"}

(* Arms whose failure goes through record_arm_failure, and so to the       *)
(* breaker; the handler adds the reason of the others itself.              *)
Recorded(wide) == ArmsB \cup (IF wide THEN {} ELSE {"lookup"})

NoRecall ==
  [stage |-> "out", wide |-> FALSE, lost |-> {}, named |-> {}, flag |-> FALSE,
   plain |-> FALSE, ranked |-> FALSE, audited |-> FALSE, code |-> 0]

(* Connections in use.                                                     *)
Holding(n) == {r \in Recalls : recall[r].stage = n}
InUse == Cardinality(Holding("phaseA")) + Cardinality(Holding("phaseB"))
         + 2 * Cardinality(Holding("bothArms"))
FreeConn == InUse < PoolMax

Open == recent >= Threshold
Failed(arms) ==
  LET n == recent + Cardinality(arms)
  IN IF n > Threshold THEN Threshold ELSE n

Move(r, changed) == recall' = [recall EXCEPT ![r] = changed]
At(q, stage) == [q EXCEPT !.stage = stage]

-----------------------------------------------------------------------------
RecallInit == /\ recall = [r \in Recalls |-> NoRecall]
              /\ recent = 0
              /\ warm = FALSE

Asked(wide) == [NoRecall EXCEPT !.stage = "auth", !.wide = wide]

RecallArrives(r) ==
  /\ recall[r].stage = "out"
  /\ \E wide \in BOOLEAN : Move(r, Asked(wide))
  /\ UNCHANGED <<recent, warm>>

(* Authentication, on a connection given back at once.                     *)
AuthRecall(r) ==
  /\ recall[r].stage = "auth" /\ FreeConn
  /\ Move(r, At(recall[r], "waitA"))
  /\ UNCHANGED <<recent, warm>>

TakeA(r) ==
  /\ recall[r].stage = "waitA" /\ FreeConn
  /\ Move(r, At(recall[r], "phaseA"))
  /\ UNCHANGED <<recent, warm>>

(* Each arm that fails is given up, with its reason.                       *)
Looked(q, failed) ==
  [q EXCEPT !.stage = "embed", !.lost = failed, !.named = failed,
            !.flag = failed # {}]

PhaseA(r) ==
  /\ recall[r].stage = "phaseA"
  /\ \E failed \in SUBSET ArmsA :
       /\ Move(r, Looked(recall[r], failed))
       /\ recent' = Failed(failed \cap Recorded(recall[r].wide))
  /\ UNCHANGED warm

(* The embedding is joined with no connection held.                        *)
JoinEmbedding(r) ==
  /\ recall[r].stage = "embed"
  /\ Move(r, At(recall[r], "waitB"))
  /\ UNCHANGED <<recent, warm>>

TakeB(r) ==
  /\ recall[r].stage = "waitB" /\ FreeConn
  /\ Move(r, At(recall[r], "phaseB"))
  /\ UNCHANGED <<recent, warm>>

(* A mutated merge: phase B's reasons replace phase A's.                   *)
FetchedFresh(q, failed, late) ==
  [q EXCEPT !.stage = "rank", !.lost = @ \cup failed, !.named = failed,
            !.plain = late, !.wide = FALSE,
            !.flag = failed # {} \/ (late /\ ~q.wide)]

(* What a finished phase B leaves: past the deadline the staleness pass    *)
(* is skipped, which the narrow path flags itself.                         *)
Fetched(q, failed, late) ==
  [q EXCEPT !.stage = "rank", !.lost = @ \cup failed, !.named = @ \cup failed,
            !.plain = late, !.wide = FALSE,
            !.flag = \/ q.named \cup failed # {}
                     \/ late /\ ~q.wide]

(* With the breaker open neither arm is tried.                             *)
SkipPhaseB(r) ==
  /\ recall[r].stage = "phaseB" /\ Open
  /\ Move(r, Fetched(recall[r], ArmsB, FALSE))
  /\ UNCHANGED <<recent, warm>>

(* The raw arm runs on the connection held, the semantic arm on another.   *)
TakeSecond(r) ==
  /\ recall[r].stage = "phaseB" /\ ~Open /\ FreeConn
  /\ Move(r, At(recall[r], "bothArms"))
  /\ UNCHANGED <<recent, warm>>

FinishB(r, failed) ==
  /\ \E late \in BOOLEAN : Move(r, Fetched(recall[r], failed, late))
  /\ recent' = Failed(failed)
  /\ UNCHANGED warm

PhaseB(r) ==
  /\ recall[r].stage = "bothArms"
  /\ \E failed \in SUBSET ArmsB : FinishB(r, failed)

(* A mutated pool, without a timeout.                                      *)
SecondWaits(r) == FALSE

(* No second connection within the pool's timeout: that arm has failed.    *)
SecondTimesOut(r) ==
  /\ recall[r].stage = "phaseB" /\ ~Open
  /\ \E failed \in SUBSET ArmsB : "semantic" \in failed /\ FinishB(r, failed)

(* Ranked by the cross-encoder when it is loaded and there is time.        *)
Ranked(q, crossed) ==
  [q EXCEPT !.stage = "flush", !.ranked = crossed, !.flag = @ \/ ~crossed]

Rank(r) ==
  /\ recall[r].stage = "rank"
  /\ \E late \in BOOLEAN :
       /\ recall[r].plain => late
       /\ Move(r, Ranked(recall[r], warm /\ ~late))
  /\ UNCHANGED <<recent, warm>>

(* Usage, audit, and one row per constraint shown.                         *)
Shown(q) ==
  [q EXCEPT !.stage = "answered", !.code = 200, !.audited = "pins" \notin q.lost]

Flush(r) ==
  /\ recall[r].stage = "flush" /\ FreeConn
  /\ Move(r, Shown(recall[r]))
  /\ UNCHANGED <<recent, warm>>

Refused(code, audited) ==
  [NoRecall EXCEPT !.stage = "answered", !.code = code, !.audited = audited]

AnswerRecall(r, code) ==
  /\ Move(r, Refused(code, recall[r].stage = "flush"))
  /\ UNCHANGED <<recent, warm>>

(* A failure of the operation is audited, on a connection, as a 500; the   *)
(* rest, and a failure whose audit finds no connection, is a 503.  The     *)
(* flush may have written some of its rows.                                *)
Codes(stage) == IF stage \in {"auth", "flush"} THEN {503} ELSE {500, 503}

(* No connection within the pool's timeout.                                *)
WaitTimesOut(r) ==
  /\ recall[r].stage \in {"auth", "waitA", "waitB", "flush"}
  /\ \E code \in Codes(recall[r].stage) : AnswerRecall(r, code)

(* Any unguarded statement, the embedding or the ranking fails.            *)
RecallFails(r) ==
  /\ recall[r].stage \notin {"out", "answered"}
  /\ \E code \in Codes(recall[r].stage) : AnswerRecall(r, code)

RecallDone(r) ==
  /\ recall[r].stage = "answered"
  /\ Move(r, NoRecall)
  /\ UNCHANGED <<recent, warm>>

(* A recorded failure leaves the breaker's window.                         *)
WindowPasses ==
  /\ recent > 0
  /\ recent' = recent - 1
  /\ UNCHANGED <<recall, warm>>

Prewarmed == ~warm /\ warm' = TRUE /\ UNCHANGED <<recall, recent>>

(* The server's own steps: a wait for a connection ends by getting one or  *)
(* by the pool's timeout.                                                  *)
Serve(r) ==
  \/ AuthRecall(r) \/ TakeA(r)      \/ PhaseA(r) \/ JoinEmbedding(r)
  \/ TakeB(r)      \/ SkipPhaseB(r) \/ TakeSecond(r)
  \/ PhaseB(r)     \/ SecondTimesOut(r)
  \/ Rank(r)       \/ Flush(r)      \/ WaitTimesOut(r)

RecallNext ==
  \/ \E r \in Recalls :
       RecallArrives(r) \/ Serve(r) \/ RecallFails(r) \/ RecallDone(r)
  \/ WindowPasses \/ Prewarmed

RecallFairness == \A r \in Recalls : WF_recallVars(Serve(r))
RecallSpec == RecallInit /\ [][RecallNext]_recallVars /\ RecallFairness

-----------------------------------------------------------------------------
(* Type invariant.                                                         *)
RecallTypeOK ==
  /\ \A r \in Recalls :
       /\ recall[r].stage \in {"out", "auth", "waitA", "phaseA", "embed",
            "waitB", "phaseB", "bothArms", "rank", "flush", "answered"}
       /\ recall[r].lost \cup recall[r].named \subseteq ArmsA \cup ArmsB
       /\ recall[r].code \in {0, 200, 500, 503}
  /\ InUse <= PoolMax
  /\ recent \in 0..Threshold

(* An answer that misses the rows of an arm names the arm, and one that    *)
(* misses rows, the staleness pass or the cross-encoder is flagged         *)
(* degraded; a complete one is not.                                        *)
NothingMissingUnsaid ==
  \A r \in Recalls :
    recall[r].code = 200 =>
      /\ recall[r].lost \subseteq recall[r].named
      /\ recall[r].flag <=>
           recall[r].lost # {} \/ recall[r].plain \/ ~recall[r].ranked

(* A constraint has an injection row exactly when it was shown: every      *)
(* answer with pins is audited, and no request that failed has a row,      *)
(* unless it failed while the rows were being written.                     *)
ShownIsAudited ==
  \A r \in Recalls :
    /\ recall[r].code = 200 => (recall[r].audited <=> "pins" \notin recall[r].lost)
    /\ recall[r].audited => recall[r].code \in {200, 503}

(* Every recall is answered, however many hold a connection and wait for   *)
(* another.                                                                *)
EveryRecallAnswered ==
  \A r \in Recalls :
    recall[r].stage = "auth" ~> recall[r].stage = "answered"

(* What a recall answers: what it misses is said, what it shows is logged. *)
RecallSound == NothingMissingUnsaid /\ ShownIsAudited
=============================================================================
