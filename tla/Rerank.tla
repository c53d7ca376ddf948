-------------------------------- MODULE Rerank -------------------------------
(***************************************************************************)
(* The cross-encoder reranker of a server (core/rerank.py): a boot thread  *)
(* loads the model and measures it to derive how many candidates a recall  *)
(* may feed it, while recalls arrive; a keep-alive thread touches it; a    *)
(* failed call evicts it, and a thread of its own loads it again.          *)
(* Costs are milliseconds a pair.  A score is a multiple of Scale, so that *)
(* the scores below it that the tail is given are whole numbers.           *)
(***************************************************************************)
EXTENDS Naturals, Sequences, FiniteSets

CONSTANTS
  Askers, Sizes,       \* recalls, and the numbers of candidates they rank
  TrueCost, Samples,   \* of a pair on this machine, and what may be measured
  Budget, MinCap, MaxCap,
  NoCap, ExplicitCap,  \* MEMNOS_RERANK_CAP; 0 is uncapped
  Scale, Scores,       \* of a scored candidate
  MaxRerankFaults            \* model calls that fail

ASSUME RerankBounds ==
  /\ TrueCost \in Samples /\ Samples \subseteq Nat /\ \A s \in Samples : s >= TrueCost
  /\ {TrueCost, Budget, MinCap, MaxCap, Scale} \subseteq Nat \ {0} /\ MinCap <= MaxCap
  /\ Sizes \subseteq Nat /\ ExplicitCap \in Nat \cup {NoCap} /\ MaxRerankFaults \in Nat
  /\ Scores \subseteq Nat \ {0} /\ \A s \in Scores : s % Scale = 0   \* sigmoids

VARIABLES
  booting,    \* stage of the boot thread
  measured,   \* the samples it has taken
  loaded,     \* the model is in the cache of _model
  derived,    \* _effective_cap
  ready,      \* _ready
  reloading,  \* a _redownload thread runs
  asks,       \* asks[q]: stage, number of candidates, how many fed, the answer
  rerankFaults      \* model calls failed

rerankVars == <<booting, measured, loaded, derived, ready, reloading, asks, rerankFaults>>

Unasked == [at |-> "idle", size |-> 0, fed |-> 0, order |-> <<>>]
Least(S) == CHOOSE x \in S : \A y \in S : x <= y
AtMost(x, y) == IF x <= y THEN x ELSE y
AtLeast(x, y) == IF x >= y THEN x ELSE y

RerankInit ==
  /\ booting = "first" /\ measured = <<>> /\ loaded = FALSE /\ derived = NoCap
  /\ ready = FALSE /\ reloading = FALSE /\ rerankFaults = 0 /\ asks = [q \in Askers |-> Unasked]

RerankFault == rerankFaults < MaxRerankFaults /\ rerankFaults' = rerankFaults + 1

-----------------------------------------------------------------------------
(* A mutated derivation that forgets the upper clamp.                      *)
DerivedUnclamped(cost) == AtLeast(MinCap, Budget \div cost)

DerivedCap(cost) == AtLeast(MinCap, AtMost(MaxCap, Budget \div cost))

Cap == IF ExplicitCap # NoCap THEN ExplicitCap
       ELSE IF derived # NoCap THEN derived ELSE MinCap
Fed(n) == IF Cap = 0 THEN n ELSE AtMost(n, Cap)

(* prewarm: two samples; the one that loads the model is inflated by it.   *)
TakeSample ==
  /\ booting \in {"first", "second"} /\ loaded' = TRUE
  /\ \E cost \in Samples :
       /\ ~loaded => cost # TrueCost
       /\ measured' = Append(measured, cost)
  /\ booting' = IF booting = "first" THEN "second" ELSE "warm"
  /\ UNCHANGED <<derived, ready, reloading, asks, rerankFaults>>

(* The exception ends prewarm; ready is set to let recalls on.             *)
PrewarmFails ==
  /\ booting \in {"first", "second"} /\ RerankFault /\ booting' = "failed" /\ ready' = TRUE
  /\ UNCHANGED <<measured, loaded, derived, reloading, asks>>

(* rerank on a realistic batch, whose own failures it catches.             *)
WarmUp ==
  /\ booting = "warm" /\ booting' = "publish"
  /\ \/ loaded' = TRUE /\ UNCHANGED <<reloading, rerankFaults>>
     \/ RerankFault /\ loaded' = FALSE /\ reloading' = TRUE
  /\ UNCHANGED <<measured, derived, ready, asks>>

(* A mutated calibration by the first sample alone.                        *)
FirstSample == measured[1]
BestSample == Least({measured[i] : i \in DOMAIN measured})
Publish ==
  /\ booting = "publish" /\ booting' = "raise" /\ derived' = DerivedCap(BestSample)
  /\ UNCHANGED <<measured, loaded, ready, reloading, asks, rerankFaults>>

Raise ==
  /\ booting = "raise" /\ booting' = "over" /\ ready' = TRUE
  /\ UNCHANGED <<measured, loaded, derived, reloading, asks, rerankFaults>>

KeepAlive ==
  /\ \/ loaded' = TRUE /\ UNCHANGED <<reloading, rerankFaults>>
     \/ RerankFault /\ loaded' = FALSE /\ reloading' = TRUE
  /\ UNCHANGED <<booting, measured, derived, ready, asks>>

Redownloaded ==
  /\ reloading /\ reloading' = FALSE
  /\ \/ loaded' = TRUE /\ UNCHANGED rerankFaults
     \/ RerankFault /\ UNCHANGED loaded
  /\ UNCHANGED <<booting, measured, derived, ready, asks>>

-----------------------------------------------------------------------------

Unranked(n) == [i \in 1..n |-> [candidate |-> i, score |-> 0]]

TailScore(floor, tail, j) == (floor * (tail - j)) \div (tail + 1)

(* The scored ones best first, in the order they came when equal; then the *)
(* others, in the order they came.                                         *)
Ahead(scores, i, j) == scores[i] > scores[j] \/ (scores[i] = scores[j] /\ i < j)
Ranked(n, fed, scores) ==
  LET floor == Least({scores[i] : i \in 1..fed})
      place == [i \in 1..fed |-> Cardinality({j \in 1..fed : Ahead(scores, j, i)}) + 1]
  IN [k \in 1..n |->
        IF k <= fed
        THEN LET i == CHOOSE x \in 1..fed : place[x] = k
             IN [candidate |-> i, score |-> scores[i]]
        ELSE [candidate |-> k, score |-> TailScore(floor, n - fed, k - fed - 1)]]

IsReady == ready

(* The handler asks is_ready, and leaves the retrieval order otherwise.    *)
AskRanked(q, n) ==
  /\ asks[q] = Unasked
  /\ asks' = [asks EXCEPT ![q] =
       IF IsReady THEN [Unasked EXCEPT !.at = "cap", !.size = n]
       ELSE [Unasked EXCEPT !.at = "plain", !.size = n, !.order = Unranked(n)]]
  /\ UNCHANGED <<booting, measured, loaded, derived, ready, reloading, rerankFaults>>

(* rerank takes the cap, then the model, loading it when it is not cached. *)
TakeCap(q) ==
  /\ asks[q].at = "cap"
  /\ asks' = [asks EXCEPT ![q].fed = Fed(asks[q].size),
                          ![q].at = IF loaded THEN "score" ELSE "load"]
  /\ UNCHANGED <<booting, measured, loaded, derived, ready, reloading, rerankFaults>>

LoadForAsk(q) ==
  /\ asks[q].at = "load" /\ loaded' = TRUE
  /\ asks' = [asks EXCEPT ![q].at = "score"]
  /\ UNCHANGED <<booting, measured, derived, ready, reloading, rerankFaults>>

RerankScore(q) ==
  /\ asks[q].at = "score"
  /\ \E scores \in [1..asks[q].fed -> Scores] :
       asks' = [asks EXCEPT ![q].at = "ranked",
                            ![q].order = Ranked(asks[q].size, asks[q].fed, scores)]
  /\ UNCHANGED <<booting, measured, loaded, derived, ready, reloading, rerankFaults>>

(* The call fails: the model is evicted and loaded in the background.      *)
AskFails(q) ==
  /\ asks[q].at \in {"load", "score"} /\ RerankFault
  /\ loaded' = FALSE /\ reloading' = TRUE
  /\ asks' = [asks EXCEPT ![q].at = "plain", ![q].order = Unranked(asks[q].size)]
  /\ UNCHANGED <<booting, measured, derived, ready>>

RerankNext ==
  \/ TakeSample \/ PrewarmFails \/ WarmUp \/ Publish \/ Raise \/ KeepAlive \/ Redownloaded
  \/ \E q \in Askers : \/ \E n \in Sizes : AskRanked(q, n)
                       \/ TakeCap(q) \/ LoadForAsk(q) \/ RerankScore(q) \/ AskFails(q)

RerankSpec == RerankInit /\ [][RerankNext]_rerankVars

-----------------------------------------------------------------------------
RerankTypeOK ==
  /\ booting \in {"first", "second", "warm", "publish", "raise", "over", "failed"}
  /\ Len(measured) <= 2 /\ {loaded, ready, reloading} \subseteq BOOLEAN
  /\ derived \in {NoCap} \cup MinCap..MaxCap
  /\ \A q \in Askers : asks[q].at \in {"idle", "cap", "load", "score", "ranked", "plain"}

(* No recall waits for the model while the boot thread loads and measures  *)
(* it, so the measurements are not disturbed and the first recalls answer. *)
NoRecallWaitsForBoot ==
  \A q \in Askers : asks[q].at \in {"load", "score", "ranked"} =>
    booting \in {"over", "failed"}

(* Unless the operator set the cap, ranking costs no more than the budget  *)
(* or the fewest candidates allow, whatever the samples were; and one      *)
(* clean sample is enough for the cap that this machine affords.           *)
WithinBudget ==
  /\ ExplicitCap = NoCap =>
       \A q \in Askers : asks[q].fed <= MinCap \/ asks[q].fed * TrueCost <= Budget
  /\ derived # NoCap /\ TrueCost \in {measured[i] : i \in DOMAIN measured}
       => derived = AtLeast(MinCap, AtMost(MaxCap, Budget \div TrueCost))

(* An answer holds every candidate once, best first, and none beyond the   *)
(* cap passes one that was scored.                                         *)
EveryCandidateRanked ==
  \A q \in Askers : LET order == asks[q].order IN
    asks[q].at \in {"ranked", "plain"} =>
      /\ Len(order) = asks[q].size
      /\ {order[k].candidate : k \in DOMAIN order} = 1..asks[q].size
      /\ \A k, l \in DOMAIN order : k < l => order[k].score >= order[l].score
      /\ asks[q].at = "ranked" =>
           \A k, l \in DOMAIN order :
             order[k].candidate <= asks[q].fed /\ order[l].candidate > asks[q].fed
               => order[k].score > order[l].score

RerankSound == NoRecallWaitsForBoot /\ WithinBudget /\ EveryCandidateRanked
=============================================================================
