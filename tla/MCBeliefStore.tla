--------------------------- MODULE MCBeliefStore ---------------------------
(***************************************************************************)
(* Three writers on one attribute, and the statements that make the write  *)
(* path interesting: a contradiction, a restatement, a present and a past  *)
(* statement with an event date, a multi-valued fact that reverses another *)
(***************************************************************************)
EXTENDS BeliefStore, TLC

CONSTANTS w1, w2, w3, city, status, austin, seattle, boston,
          gAustin, gSeattle, gBoston, gOver

MCWriters == {w1, w2, w3}
MCKeys    == {city, status}
MCObjects == {austin, seattle, boston}
MCGists   == {gAustin, gSeattle, gBoston, gOver}

Says(g, k, o) == [gist |-> g, key |-> k, obj |-> o, single |-> TRUE,
                  hist |-> FALSE, date |-> Nil, negates |-> {}]

Austin   == Says(gAustin, city, austin)
Seattle  == Says(gSeattle, city, seattle)
Boston   == Says(gBoston, city, boston)
Backdated(s, d) == [s EXCEPT !.date = d]
Past(s, d)      == [s EXCEPT !.hist = TRUE, !.date = d]
Over     == [Says(gOver, status, boston) EXCEPT !.single = FALSE,
                                               !.negates = {gAustin}]

Carry(a, b, c) == w1 :> a @@ w2 :> b @@ w3 :> c

MCLoads ==
  { Carry(Austin, Backdated(Seattle, 0), Austin),
    Carry(Austin, Seattle, Past(Boston, 0)),
    Carry(Austin, Seattle, Over) }

(* In order, two reversed orders, and ties at either end.                  *)
MCStamps == { Carry(0, 1, 2), Carry(1, 2, 0), Carry(2, 1, 0),
              Carry(1, 1, 2), Carry(0, 1, 1) }
=============================================================================
