--------------------------- MODULE CurrentBelief ---------------------------
(***************************************************************************)
(* What the bi-temporal write path promises about one single-valued        *)
(* attribute, however its writers are scheduled: the current value of a    *)
(* (namespace, subject, predicate) key is the one LEARNED LAST on the      *)
(* observation axis, never the one that happened to commit last.           *)
(* core/service.py, _write_fact, "BI-TEMPORAL SEMANTICS".                  *)
(***************************************************************************)
EXTENDS Naturals

CONSTANTS Keys,     \* (namespace, subject, predicate) triples
          Objects,  \* the values an attribute can take
          Times,    \* observation times
          Nil       \* no belief yet

VARIABLE belief     \* belief[k]: Nil, or the value held and when it was learned

Init == belief = [k \in Keys |-> Nil]

(* A statement learned at t becomes the belief unless something learned    *)
(* strictly later is already held; such a late statement changes nothing.  *)
Learn(k, o, t) ==
  /\ belief[k] = Nil \/ belief[k].known <= t
  /\ belief' = [belief EXCEPT ![k] = [obj |-> o, known |-> t]]

Next == \E k \in Keys, o \in Objects, t \in Times : Learn(k, o, t)

Spec == Init /\ [][Next]_belief
=============================================================================
