----------------------------- MODULE LocalProofs -----------------------------
(***************************************************************************)
(* Proofs about what runs beside an agent on its own machine: the chains   *)
(* of handoff rows that Tommy processes append, reading rows that may be   *)
(* stale (Handoff), the control channel of one dispatched harness          *)
(* (Channel), the files that the Claude Code hooks share (Hooks), the      *)
(* files of a workspace that dispatches scope (Scoping), one interactive   *)
(* run (Session), dispatches, their gate and their registry (Dispatch),    *)
(* the capture proxy (Proxy) and the Stop hook (Capture), the commands     *)
(* that start and stop the server (Launch), the adapter that replaces      *)
(* itself (Reexec), the update notice (UpdateNotice), and what MCLocal     *)
(* checks of these parts.                                                  *)
(***************************************************************************)
EXTENDS MCLocal, GatewayProofs, FiniteSetTheorems, WellFoundedInduction, TLAPS

(* The smallest of a set of numbers, for the smallest counterexample.      *)
LEMMA SmallestExists ==
  ASSUME NEW S \in SUBSET Nat, S # {} PROVE \E x \in S : \A y \in S : x <= y
  <1> DEFINE Less == OpToRel(<, Nat)
  <1>1. IsWellFoundedOn(Less, Nat)
    BY NatLessThanWellFounded DEF OpToRel
  <1>2. Less = {ss \in Nat \X Nat : ss[1] < ss[2]}
    BY DEF OpToRel
  <1>3. \E x \in S : \A y \in S : ~(<<y, x>> \in Less)
    <2> HIDE DEF Less
    <2> QED
      BY <1>1, WFMin
  <1> HIDE DEF Less
  <1>4. PICK x \in S : \A y \in S : ~(<<y, x>> \in Less)
    BY <1>3
  <1>5. ASSUME NEW y \in S PROVE x <= y
    <2>1. <<y, x>> \in Nat \X Nat /\ ~(<<y, x>> \in Less)
      BY <1>4
    <2>2. x \in Nat /\ y \in Nat /\ ~(y < x)
      BY <1>2, <2>1
    <2> QED
      BY <2>2
  <1> QED
    BY <1>5

(* The largest of a bounded set of numbers, for the choices of the modules.*)
LEMMA LargestExists ==
  ASSUME NEW S \in SUBSET Nat, S # {}, NEW b \in Nat, \A x \in S : x <= b
  PROVE  \E x \in S : \A y \in S : y <= x
  <1> DEFINE below == {b - x : x \in S}
  <1>1. below \subseteq Nat /\ below # {}
    <2>1. \A x \in S : b - x \in Nat
      OBVIOUS
    <2> QED
      BY <2>1
  <1> DEFINE Less == OpToRel(<, Nat)
  <1>2. IsWellFoundedOn(Less, Nat)
    BY NatLessThanWellFounded DEF OpToRel
  <1>3. Less = {ss \in Nat \X Nat : ss[1] < ss[2]}
    BY DEF OpToRel
  <1>4. \E x \in below : \A y \in below : ~(<<y, x>> \in Less)
    <2> HIDE DEF below, Less
    <2> QED
      BY <1>1, <1>2, WFMin
  <1> HIDE DEF Less
  <1>5. PICK x \in S : \A y \in below : ~(<<y, b - x>> \in Less)
    BY <1>4
  <1>6. ASSUME NEW y \in S PROVE y <= x
    <2>1. b - y \in below /\ b - y \in Nat /\ b - x \in Nat
      BY <1>1
    <2>2. ~(b - y < b - x)
      BY <1>3, <1>5, <2>1
    <2> QED
      BY <2>2
  <1> QED
    BY <1>6

-----------------------------------------------------------------------------
(* Handoff.  A row is planned from what its writer has read and stored     *)
(* later; unless it is blind, it still stands above all it had to.         *)
Planned == [of : 1..handoffs, task : Works, state : States, hop : 1..HopLimit,
            read : Nat, blind : BOOLEAN]

HandoffTypes ==
  /\ handoffs \in Nat
  /\ handoffRows \in Seq(Planned)
  /\ turn \in [Agents -> {NoTurn} \cup Planned]

BlindChain(h) == \E k \in DOMAIN handoffRows : handoffRows[k].of = h /\ handoffRows[k].blind
(* A row that may be followed by one of the same handoff at hop n.         *)
Below(i, n) == handoffRows[i].hop < n /\ handoffRows[i].state \notin Terminal

(* The rows of a handoff are of one task and climb, up to the last.        *)
OneChain ==
  \A i, j \in DOMAIN handoffRows :
    i < j /\ handoffRows[i].of = handoffRows[j].of =>
      /\ handoffRows[i].task = handoffRows[j].task
      /\ Below(i, handoffRows[j].hop) \/ BlindChain(handoffRows[i].of)

FirstOfIts(a) ==
  turn[a].state = "offered" =>
    /\ \A i \in DOMAIN handoffRows : handoffRows[i].of # turn[a].of
    /\ \A b \in Agents \ {a} : turn[b].of # turn[a].of
NextOfIts(a) ==
  turn[a].state # "offered" =>
    /\ \E i \in DOMAIN handoffRows : handoffRows[i].of = turn[a].of
    /\ \A i \in DOMAIN handoffRows :
         handoffRows[i].of = turn[a].of => handoffRows[i].task = turn[a].task
SawAll(a) ==
  /\ turn[a].read <= Len(handoffRows)
  /\ ~turn[a].blind =>
       \A i \in DOMAIN handoffRows : i <= turn[a].read =>
         /\ turn[a].state = "offered" /\ handoffRows[i].task = turn[a].task =>
              handoffRows[i].hop < turn[a].hop
         /\ handoffRows[i].of = turn[a].of =>
              Below(i, turn[a].hop) \/ BlindChain(turn[a].of)

Foresight ==
  \A a \in Agents : turn[a] # NoTurn => FirstOfIts(a) /\ NextOfIts(a) /\ SawAll(a)

HandoffInv == HandoffTypes /\ OneChain /\ OffersClimb /\ Foresight

LEMMA PlanFields ==
  ASSUME NEW row \in Planned
  PROVE  /\ row.of \in 1..handoffs /\ row.task \in Works /\ row.state \in States
         /\ row.hop \in 1..HopLimit /\ row.hop \in Nat
         /\ row.read \in Nat /\ row.blind \in BOOLEAN
  BY HandoffBounds DEF Planned

LEMMA RowFields ==
  ASSUME HandoffTypes
  PROVE  /\ handoffs \in Nat /\ Len(handoffRows) \in Nat
         /\ DOMAIN handoffRows = 1..Len(handoffRows)
         /\ \A i \in DOMAIN handoffRows :
              /\ i \in Nat /\ handoffRows[i] \in Planned
              /\ handoffRows[i].of \in 1..handoffs /\ handoffRows[i].of \in Nat
              /\ handoffRows[i].task \in Works /\ handoffRows[i].state \in States
              /\ handoffRows[i].hop \in 1..HopLimit /\ handoffRows[i].hop \in Nat
              /\ handoffRows[i].blind \in BOOLEAN
  <1>1. /\ handoffs \in Nat /\ Len(handoffRows) \in Nat
        /\ DOMAIN handoffRows = 1..Len(handoffRows)
        /\ \A i \in DOMAIN handoffRows : i \in Nat /\ handoffRows[i] \in Planned
    BY DEF HandoffTypes
  <1> QED
    BY <1>1, PlanFields, HandoffBounds

LEMMA TurnFields ==
  ASSUME HandoffTypes, NEW a \in Agents
  PROVE  /\ turn[a] # NoTurn => turn[a] \in Planned /\ turn[a].of # 0
         /\ turn[a].of \in 0..handoffs /\ NoTurn.of = 0
  <1>1. turn[a] = NoTurn \/ turn[a] \in Planned
    BY DEF HandoffTypes
  <1>2. NoTurn.of = 0
    BY DEF NoTurn
  <1> QED
    BY <1>1, <1>2, PlanFields, RowFields

LEMMA LastIs ==
  ASSUME HandoffTypes, NEW S \in SUBSET DOMAIN handoffRows, S # {}
  PROVE  /\ Last(S) \in S
         /\ \A j \in S : \/ handoffRows[j].hop < handoffRows[Last(S)].hop
                         \/ handoffRows[j].hop = handoffRows[Last(S)].hop /\ j <= Last(S)
  <1>1. \A i \in S : i \in Nat /\ i <= Len(handoffRows) /\ handoffRows[i].hop \in 1..HopLimit
    BY RowFields
  <1>2. HopLimit \in Nat /\ Len(handoffRows) \in Nat
    BY HandoffBounds DEF HandoffTypes
  <1> DEFINE hops == {handoffRows[i].hop : i \in S}
  <1>3. hops \in SUBSET Nat /\ hops # {} /\ \A x \in hops : x <= HopLimit
    BY <1>1, <1>2
  <1>4. PICK top \in hops : \A y \in hops : y <= top
    <2> HIDE DEF hops
    <2> QED
      BY <1>2, <1>3, LargestExists
  <1> DEFINE highest == {i \in S : handoffRows[i].hop = top}
  <1>5. highest \in SUBSET Nat /\ highest # {} /\ \A x \in highest : x <= Len(handoffRows)
    BY <1>1, <1>4
  <1>6. PICK i \in highest : \A y \in highest : y <= i
    <2> HIDE DEF highest
    <2> QED
      BY <1>2, <1>5, LargestExists
  <1>7. \A j \in S : \/ handoffRows[j].hop < handoffRows[i].hop
                     \/ handoffRows[j].hop = handoffRows[i].hop /\ j <= i
    <2>1. handoffRows[i].hop = top /\ top \in Nat /\ i \in Nat
      BY <1>1, <1>3, <1>6
    <2>2. \A j \in S : handoffRows[j].hop \in Nat /\ handoffRows[j].hop <= top
      BY <1>1, <1>2, <1>4
    <2>3. \A j \in S : handoffRows[j].hop = top => j <= i
      BY <1>6
    <2> SUFFICES ASSUME NEW j \in S
                 PROVE  \/ handoffRows[j].hop < handoffRows[i].hop
                        \/ handoffRows[j].hop = handoffRows[i].hop /\ j <= i
      OBVIOUS
    <2> HIDE DEF hops, highest
    <2> QED
      BY <2>1, <2>2, <2>3
  <1>8. i \in S
    BY <1>6
  <1> QED
    BY <1>7, <1>8 DEF Last

(* Nothing that leaves the rows alone disturbs what they promise.          *)
LEMMA SameRows ==
  ASSUME HandoffInv, UNCHANGED handoffRows PROVE (OneChain /\ OffersClimb)'
  BY DEF HandoffInv, OneChain, OffersClimb, Below, BlindChain

LEMMA PlanKeeps ==
  ASSUME HandoffInv, NEW a \in Agents, NEW row,
         row.of \in 1..handoffs', row.task \in Works, row.state \in States,
         row.hop \in 1..HopLimit, row.read = Len(handoffRows), row.blind \in BOOLEAN,
         row \in Planned', handoffs' \in Nat, handoffs <= handoffs',
         turn[a] = NoTurn, turn' = [turn EXCEPT ![a] = row], UNCHANGED handoffRows,
         \A b \in Agents \ {a} : turn[b] # NoTurn /\ (turn[b].state = "offered" \/ row.state = "offered")
                                 => row.of # turn[b].of,
         row.state = "offered" => row.of > handoffs,
         row.state # "offered" =>
           /\ \E i \in DOMAIN handoffRows : handoffRows[i].of = row.of
           /\ \A i \in DOMAIN handoffRows :
                handoffRows[i].of = row.of => handoffRows[i].task = row.task,
         ~row.blind =>
           \A i \in DOMAIN handoffRows :
             /\ row.state = "offered" /\ handoffRows[i].task = row.task =>
                  handoffRows[i].hop < row.hop
             /\ handoffRows[i].of = row.of => Below(i, row.hop) \/ BlindChain(row.of)
  PROVE  HandoffInv'
  <1>1. HandoffTypes'
    <2>1. Planned \subseteq Planned'
      BY DEF HandoffInv, HandoffTypes, Planned
    <2>2. handoffRows' \in Seq(Planned')
      BY <2>1 DEF HandoffInv, HandoffTypes
    <2>3. turn' \in [Agents -> {NoTurn} \cup Planned']
      BY <2>1 DEF HandoffInv, HandoffTypes
    <2> QED
      BY <2>2, <2>3 DEF HandoffTypes
  <1>2. Foresight'
    <2> SUFFICES ASSUME NEW b \in Agents, turn'[b] # NoTurn
                 PROVE  (FirstOfIts(b) /\ NextOfIts(b) /\ SawAll(b))'
      BY DEF Foresight
    <2>0. /\ \A i \in DOMAIN handoffRows : handoffRows[i].of \in 1..handoffs
          /\ \A c \in Agents : turn[c].of \in 0..handoffs /\ turn'[c] = IF c = a THEN row ELSE turn[c]
          /\ row.of # 0 /\ NoTurn.of = 0 /\ handoffs \in Nat
          /\ \A c \in Agents : turn[c] # NoTurn => turn[c].of # 0
      <3>1. HandoffTypes
        BY DEF HandoffInv
      <3>2. \A c \in Agents : turn'[c] = IF c = a THEN row ELSE turn[c]
        BY <3>1 DEF HandoffTypes
      <3> QED
        BY <3>1, <3>2, RowFields, TurnFields
    <2>1. CASE b = a
      <3>1. FirstOfIts(a)'
        BY <2>0, <2>1 DEF FirstOfIts
      <3>2. NextOfIts(a)'
        BY <2>0 DEF NextOfIts
      <3>3. SawAll(a)'
        BY <2>0 DEF SawAll, Below, BlindChain
      <3> QED
        BY <2>1, <3>1, <3>2, <3>3
    <2>2. CASE b # a
      <3>1. turn[b] # NoTurn /\ turn'[b] = turn[b]
        BY <2>0, <2>2
      <3>2. FirstOfIts(b) /\ NextOfIts(b) /\ SawAll(b)
        BY <3>1 DEF HandoffInv, Foresight
      <3>3. FirstOfIts(b)'
        BY <2>0, <2>2, <3>1, <3>2 DEF FirstOfIts
      <3>4. (NextOfIts(b) /\ SawAll(b))'
        BY <3>1, <3>2 DEF NextOfIts, SawAll, Below, BlindChain
      <3> QED
        BY <3>3, <3>4
    <2> QED
      BY <2>1, <2>2
  <1> QED
    BY <1>1, <1>2, SameRows DEF HandoffInv

LEMMA OfferKeeps ==
  ASSUME HandoffInv, NEW a \in Agents, NEW t \in Works, NEW fails \in BOOLEAN,
         Offer(a, t, fails)
  PROVE  HandoffInv'
  <1> DEFINE rows == IF fails THEN {} ELSE {i \in Listed : handoffRows[i].task = t}
             row  == [of |-> handoffs + 1, task |-> t, state |-> "offered",
                      hop |-> Hops(rows) + 1, read |-> Len(handoffRows),
                      blind |-> fails \/ Cut]
  <1>1. /\ handoffs' = handoffs + 1 /\ Hops(rows) < HopLimit /\ turn[a] = NoTurn
        /\ turn' = [turn EXCEPT ![a] = row] /\ UNCHANGED handoffRows
    BY DEF Offer, Plans
  <1>2. HandoffTypes /\ rows \in SUBSET DOMAIN handoffRows
    BY DEF HandoffInv, Listed
  <1> HIDE DEF rows
  <1>3. Hops(rows) \in Nat /\ \A i \in rows : handoffRows[i].hop <= Hops(rows)
    <2>1. CASE rows = {}
      BY <2>1 DEF Hops
    <2>2. CASE rows # {}
      <3>1. /\ Last(rows) \in rows
            /\ \A j \in rows : \/ handoffRows[j].hop < handoffRows[Last(rows)].hop
                               \/ handoffRows[j].hop = handoffRows[Last(rows)].hop
        BY <1>2, <2>2, LastIs
      <3>2. \A i \in rows : handoffRows[i].hop \in Nat
        BY <1>2, RowFields
      <3> QED
        BY <2>2, <3>1, <3>2 DEF Hops
    <2> QED
      BY <2>1, <2>2
  <1>4. /\ row.of = handoffs + 1 /\ row.task = t /\ row.state = "offered"
        /\ row.hop = Hops(rows) + 1 /\ row.read = Len(handoffRows)
        /\ row.blind <=> (fails \/ Cut)
    OBVIOUS
  <1>5. row \in Planned' /\ handoffs \in Nat
    BY <1>1, <1>2, <1>3, HandoffBounds DEF HandoffTypes, Planned, States, Cut
  <1> HIDE DEF row
  <1>6. \A i \in DOMAIN handoffRows : handoffRows[i].of \in 1..handoffs
    BY <1>2, RowFields
  <1>7. \A b \in Agents : turn[b].of \in 0..handoffs
    BY <1>2, TurnFields
  <1>8. ~row.blind => \A i \in DOMAIN handoffRows :
                        handoffRows[i].task = row.task => handoffRows[i].hop < row.hop
    <2> SUFFICES ASSUME ~row.blind, NEW i \in DOMAIN handoffRows,
                        handoffRows[i].task = t
                 PROVE  handoffRows[i].hop <= Hops(rows) /\ handoffRows[i].hop \in Nat
      BY <1>3, <1>4
    <2>1. ~fails /\ ~Cut
      BY <1>4
    <2>2. i \in Listed
      BY <1>2, <2>1, RowFields, HandoffBounds DEF Listed, Cut
    <2>3. i \in rows
      BY <2>1, <2>2 DEF rows
    <2> QED
      BY <1>2, <1>3, <2>3, RowFields
  <1>9. /\ row.of \in 1..handoffs' /\ row.task \in Works /\ row.state \in States
        /\ row.hop \in 1..HopLimit /\ row.blind \in BOOLEAN
    BY <1>5 DEF Planned
  <1>10. row.of > handoffs
    BY <1>4, <1>5
  <1>11. \A b \in Agents : row.of # turn[b].of
    BY <1>5, <1>7, <1>10
  <1>12. \A i \in DOMAIN handoffRows : handoffRows[i].of # row.of
    BY <1>5, <1>6, <1>10
  <1>13. handoffs' \in Nat /\ handoffs <= handoffs'
    BY <1>1, <1>5
  <1> HIDE DEF row
  <1> QED
    BY <1>1, <1>4, <1>5, <1>8, <1>9, <1>10, <1>11, <1>12, <1>13, PlanKeeps

LEMMA TransitionKeeps ==
  ASSUME HandoffInv, NEW a \in Agents, NEW h \in 1..handoffs,
         NEW new \in States \ {"offered"}, Transition(a, h, new)
  PROVE  HandoffInv'
  <1> DEFINE rows == {i \in Listed : handoffRows[i].of = h}
             now  == handoffRows[Last(rows)]
             row  == [of |-> h, task |-> now.task, state |-> new, hop |-> now.hop + 1,
                      read |-> Len(handoffRows), blind |-> Cut]
  <1>1. /\ rows # {} /\ Allowed(now.state, new) /\ now.hop < HopLimit /\ turn[a] = NoTurn
        /\ turn' = [turn EXCEPT ![a] = row] /\ UNCHANGED <<handoffRows, handoffs, faults>>
    BY DEF Transition, Plans
  <1>2. HandoffTypes /\ rows \in SUBSET DOMAIN handoffRows
        /\ \A i \in rows : handoffRows[i].of = h
    BY DEF HandoffInv, Listed
  <1>3. ~Cut => \A i \in DOMAIN handoffRows : handoffRows[i].of = h => i \in rows
    BY <1>2, HandoffBounds DEF Listed, Cut, HandoffTypes
  <1> HIDE DEF rows
  <1>4. /\ Last(rows) \in rows
        /\ \A j \in rows : \/ handoffRows[j].hop < handoffRows[Last(rows)].hop
                           \/ handoffRows[j].hop = handoffRows[Last(rows)].hop /\ j <= Last(rows)
    BY <1>1, <1>2, LastIs
  <1> DEFINE last == Last(rows)
  <1>5. /\ last \in DOMAIN handoffRows /\ handoffRows[last] \in Planned
        /\ handoffRows[last].of = h
    BY <1>2, <1>4 DEF HandoffTypes
  <1> HIDE DEF last
  <1>6. /\ row.of = h /\ row.task = handoffRows[last].task /\ row.state = new
        /\ row.hop = handoffRows[last].hop + 1 /\ row.read = Len(handoffRows)
        /\ row.blind <=> Cut
    BY DEF last
  <1>7. row \in Planned' /\ handoffs \in Nat
    <2>1. handoffRows[last].hop < HopLimit
      BY <1>1 DEF last
    <2>2. handoffRows[last].task \in Works /\ handoffRows[last].hop + 1 \in 1..HopLimit
      BY <1>5, <2>1, HandoffBounds DEF Planned
    <2>3. handoffs' = handoffs /\ handoffs \in Nat /\ Len(handoffRows) \in Nat
      BY <1>1, <1>2 DEF HandoffTypes
    <2> QED
      BY <2>2, <2>3 DEF Planned, Cut, last
  <1>8. handoffRows[last].state \notin Terminal
    BY <1>1 DEF Allowed, Transitions, Terminal, last
  <1> HIDE DEF row
  <1>9. \A i \in DOMAIN handoffRows : handoffRows[i].of = h => handoffRows[i].task = row.task
    BY <1>2, <1>5, <1>6 DEF HandoffInv, OneChain, HandoffTypes
  <1>10. ~row.blind => \A i \in DOMAIN handoffRows :
           handoffRows[i].of = h => Below(i, row.hop) \/ BlindChain(h)
    <2> SUFFICES ASSUME ~row.blind, NEW i \in DOMAIN handoffRows,
                        handoffRows[i].of = h, ~BlindChain(h)
                 PROVE  Below(i, row.hop)
      OBVIOUS
    <2>1. handoffRows[i].hop \in Nat /\ handoffRows[last].hop \in Nat /\ i \in Nat /\ last \in Nat
      BY <1>2, <1>5, RowFields
    <2>2. \/ handoffRows[i].hop < handoffRows[last].hop
          \/ handoffRows[i].hop = handoffRows[last].hop /\ i <= last
      BY <1>3, <1>4, <1>6 DEF last
    <2>3. CASE i = last
      BY <1>6, <1>8, <2>1, <2>3 DEF Below
    <2>4. CASE i < last
      <3>1. Below(i, handoffRows[last].hop)
        BY <1>5, <2>4 DEF HandoffInv, OneChain
      <3> QED
        BY <1>6, <2>1, <3>1 DEF Below
    <2>5. CASE i > last
      <3>1. Below(last, handoffRows[i].hop)
        BY <1>5, <2>5 DEF HandoffInv, OneChain
      <3> QED
        BY <2>1, <2>2, <2>5, <3>1 DEF Below
    <2> QED
      BY <2>1, <2>3, <2>4, <2>5
  <1>11. /\ row.of \in 1..handoffs' /\ row.task \in Works /\ row.state \in States
         /\ row.hop \in 1..HopLimit /\ row.blind \in BOOLEAN
    BY <1>7 DEF Planned
  <1>12. \A b \in Agents \ {a} : turn[b] # NoTurn /\ turn[b].state = "offered" => turn[b].of # h
    BY <1>5 DEF HandoffInv, Foresight, FirstOfIts
  <1>13. /\ handoffs' \in Nat /\ handoffs <= handoffs' /\ UNCHANGED handoffRows
         /\ row.state # "offered" /\ turn' = [turn EXCEPT ![a] = row] /\ turn[a] = NoTurn
    BY <1>1, <1>6, <1>7 DEF row, last
  <1>14. \E i \in DOMAIN handoffRows : handoffRows[i].of = row.of
    BY <1>5, <1>6
  <1>15. \A b \in Agents \ {a} :
           turn[b] # NoTurn /\ (turn[b].state = "offered" \/ row.state = "offered") =>
             row.of # turn[b].of
    BY <1>6, <1>12, <1>13
  <1>16. row.read = Len(handoffRows) /\ row \in Planned' /\ row.of = h
    BY <1>6, <1>7
  <1> HIDE DEF row
  <1> QED
    BY <1>9, <1>10, <1>11, <1>13, <1>14, <1>15, <1>16, PlanKeeps

(* A plan dropped or written leaves the others as they were.               *)
LEMMA FailKeeps ==
  ASSUME HandoffInv, NEW a \in Agents, WriteFails(a) PROVE HandoffInv'
  <1>1. /\ UNCHANGED <<handoffRows, handoffs>>
        /\ turn' = [turn EXCEPT ![a] = NoTurn]
    BY DEF WriteFails
  <1>2. HandoffTypes'
    <2>1. Planned' = Planned
      BY <1>1 DEF Planned
    <2>2. turn' \in [Agents -> {NoTurn} \cup Planned]
      BY <1>1 DEF HandoffInv, HandoffTypes
    <2> QED
      BY <1>1, <2>1, <2>2 DEF HandoffInv, HandoffTypes
  <1>3. Foresight'
    <2> SUFFICES ASSUME NEW b \in Agents, turn'[b] # NoTurn
                 PROVE  (FirstOfIts(b) /\ NextOfIts(b) /\ SawAll(b))'
      BY DEF Foresight
    <2>1. /\ turn'[b] = turn[b] /\ turn[b] # NoTurn /\ turn[b].of # 0
          /\ \A c \in Agents : turn'[c] = turn[c] \/ turn'[c].of = 0
      <3>1. HandoffTypes
        BY DEF HandoffInv
      <3>2. \A c \in Agents : turn'[c] = IF c = a THEN NoTurn ELSE turn[c]
        BY <1>1, <3>1 DEF HandoffTypes
      <3> QED
        BY <3>1, <3>2, TurnFields
    <2>2. FirstOfIts(b) /\ NextOfIts(b) /\ SawAll(b)
      BY <2>1 DEF HandoffInv, Foresight
    <2> QED
      BY <1>1, <2>1, <2>2 DEF FirstOfIts, NextOfIts, SawAll, Below, BlindChain
  <1> QED
    BY <1>1, <1>2, <1>3, SameRows DEF HandoffInv

LEMMA WriteKeeps ==
  ASSUME HandoffInv, NEW a \in Agents, WriteHandoff(a) PROVE HandoffInv'
  <1>a. PICK row : row = turn[a]
    OBVIOUS
  <1>b. PICK n : n = Len(handoffRows) + 1
    OBVIOUS
  <1>c. PICK new : new = [row EXCEPT !.read = 0, !.blind = row.blind \/ Overlapped(row)]
    OBVIOUS
  <1>0. /\ row = turn[a] /\ n = Len(handoffRows) + 1
        /\ new = [row EXCEPT !.read = 0, !.blind = row.blind \/ Overlapped(row)]
    BY <1>a, <1>b, <1>c
  <1>1. /\ row # NoTurn /\ handoffRows' = Append(handoffRows, new)
        /\ turn' = [turn EXCEPT ![a] = NoTurn] /\ UNCHANGED handoffs
    BY <1>0 DEF WriteHandoff
  <1>2. HandoffTypes /\ row \in Planned
    BY <1>0, <1>1 DEF HandoffInv, HandoffTypes
  <1>3. /\ new.of = row.of /\ new.task = row.task /\ new.state = row.state
        /\ new.hop = row.hop /\ (new.blind <=> row.blind \/ Overlapped(row))
        /\ new \in Planned
    BY <1>0, <1>2 DEF Planned, Overlapped
  <1>4. /\ n \in Nat \ {0} /\ DOMAIN handoffRows = 1..(n - 1) /\ DOMAIN handoffRows' = 1..n
        /\ \A i \in DOMAIN handoffRows : handoffRows'[i] = handoffRows[i]
        /\ handoffRows'[n] = new
        /\ handoffRows' \in Seq(Planned)
    BY <1>0, <1>1, <1>2, <1>3 DEF HandoffTypes
  <1>5. /\ \A i \in 1..(n - 1) : i \in 1..n /\ i # n
        /\ \A i \in 1..n : i = n \/ i \in 1..(n - 1)
        /\ \A i, j \in 1..n : i < j => i \in 1..(n - 1)
    BY <1>4
  <1>6. HandoffTypes'
    <2>1. Planned' = Planned
      BY <1>1 DEF Planned
    <2>2. turn' \in [Agents -> {NoTurn} \cup Planned]
      BY <1>1, <1>2 DEF HandoffTypes
    <2> QED
      BY <1>1, <1>2, <1>4, <2>1, <2>2 DEF HandoffTypes
  <1>7. \A h : BlindChain(h) => BlindChain(h)'
    BY <1>4, <1>5 DEF BlindChain
  <1>8. row.of = new.of /\ new.blind => BlindChain(row.of)'
    BY <1>3, <1>4 DEF BlindChain
  (* Unless it is blind, nothing of the task was stored since it was read. *)
  <1>9. ~new.blind => \A i \in 1..(n - 1) :
                        handoffRows[i].task = row.task => i <= row.read
    <2>1. row.read \in Nat
      BY <1>2, PlanFields
    <2>2. ~new.blind => ~Overlapped(row)
      BY <1>3
    <2> QED
      BY <1>4, <2>1, <2>2 DEF Overlapped
  <1>10. FirstOfIts(a) /\ NextOfIts(a) /\ SawAll(a)
    BY <1>0, <1>1 DEF HandoffInv, Foresight
  <1>11. \A i \in 1..(n - 1) : handoffRows[i].of = row.of =>
           row.state # "offered" /\ handoffRows[i].task = row.task
    BY <1>0, <1>4, <1>10 DEF FirstOfIts, NextOfIts
  <1>12. OneChain'
    <2> SUFFICES ASSUME NEW i \in 1..n, NEW j \in 1..n, i < j,
                        handoffRows'[i].of = handoffRows'[j].of
                 PROVE  /\ handoffRows'[i].task = handoffRows'[j].task
                        /\ Below(i, handoffRows[j].hop)' \/ BlindChain(handoffRows[i].of)'
      BY <1>4 DEF OneChain
    <2>1. i \in 1..(n - 1)
      BY <1>5
    <2>2. CASE j # n
      <3>1. j \in 1..(n - 1)
        BY <1>5, <2>2
      <3>2. /\ handoffRows[i].task = handoffRows[j].task
            /\ Below(i, handoffRows[j].hop) \/ BlindChain(handoffRows[i].of)
        BY <1>4, <2>1, <3>1 DEF HandoffInv, OneChain
      <3> QED
        BY <1>4, <1>7, <2>1, <3>1, <3>2 DEF Below
    <2>3. CASE j = n
      <3>1. handoffRows[i].of = row.of /\ handoffRows[i].task = row.task
        BY <1>3, <1>4, <1>11, <2>1, <2>3
      <3>2. CASE new.blind
        BY <1>3, <1>4, <1>8, <2>1, <2>3, <3>1, <3>2
      <3>3. CASE ~new.blind
        <4>1. Below(i, row.hop) \/ BlindChain(row.of)
          BY <1>0, <1>3, <1>4, <1>9, <1>10, <2>1, <3>1, <3>3 DEF SawAll
        <4>2. handoffRows'[i] = handoffRows[i] /\ handoffRows'[j] = new
          BY <1>4, <2>1, <2>3
        <4>3. CASE Below(i, row.hop)
          <5>1. Below(i, handoffRows[j].hop)'
            <6>1. handoffRows'[i].hop = handoffRows[i].hop /\ handoffRows'[j].hop = row.hop
                  /\ handoffRows'[i].state = handoffRows[i].state
              BY <1>3, <4>2
            <6> QED
              BY <4>3, <6>1 DEF Below
          <5> QED
            BY <1>3, <3>1, <4>2, <5>1
        <4>4. CASE BlindChain(row.of)
          <5>1. BlindChain(row.of)'
            BY <1>7, <4>4
          <5> QED
            BY <1>3, <3>1, <4>2, <5>1 DEF BlindChain
        <4> QED
          BY <4>1, <4>3, <4>4
      <3> QED
        BY <3>2, <3>3
    <2> QED
      BY <2>2, <2>3
  <1>13. OffersClimb'
    <2> SUFFICES ASSUME NEW i \in 1..n, NEW j \in 1..n, i < j,
                        handoffRows'[i].task = handoffRows'[j].task,
                        handoffRows'[i].state = "offered", handoffRows'[j].state = "offered",
                        handoffRows'[i].hop >= handoffRows'[j].hop
                 PROVE  \E k \in i..j : handoffRows'[k].blind
      BY <1>4 DEF OffersClimb
    <2>1. i \in 1..(n - 1)
      BY <1>5
    <2>2. CASE j # n
      <3>1. j \in 1..(n - 1)
        BY <1>5, <2>2
      <3>2. PICK k \in i..j : handoffRows[k].blind
        BY <1>4, <2>1, <3>1 DEF HandoffInv, OffersClimb
      <3>3. k \in 1..(n - 1)
        BY <1>4, <2>1, <3>1
      <3> QED
        BY <1>4, <3>2, <3>3
    <2>3. CASE j = n
      <3>1. handoffRows[i].hop \in Nat /\ row.hop \in Nat
        BY <1>2, <1>4, <2>1, RowFields, PlanFields, HandoffBounds
      <3>2. new.blind
        <4>0. handoffRows[i].hop >= row.hop
          <5>1. handoffRows'[i] = handoffRows[i] /\ handoffRows'[j] = new
            BY <1>4, <2>1, <2>3
          <5>2. handoffRows'[i].hop = handoffRows[i].hop /\ handoffRows'[j].hop = row.hop
            BY <1>3, <5>1
          <5> QED
            BY <3>1, <5>2
        <4> SUFFICES ASSUME ~new.blind PROVE handoffRows[i].hop < row.hop
          BY <3>1, <4>0
        <4>1. handoffRows[i].task = row.task /\ row.state = "offered" /\ ~row.blind
          BY <1>3, <1>4, <2>1, <2>3
        <4> QED
          BY <1>0, <1>4, <1>9, <1>10, <2>1, <4>1 DEF SawAll
      <3>3. n \in i..j
        BY <1>4, <2>3
      <3> QED
        BY <1>4, <3>2, <3>3
    <2> QED
      BY <2>2, <2>3
  <1>14. Foresight'
    <2> SUFFICES ASSUME NEW b \in Agents, turn'[b] # NoTurn
                 PROVE  (FirstOfIts(b) /\ NextOfIts(b) /\ SawAll(b))'
      BY DEF Foresight
    <2>1. /\ b # a /\ turn'[b] = turn[b] /\ turn[b] # NoTurn /\ turn[b] \in Planned
          /\ \A c \in Agents : turn'[c] = turn[c] \/ turn'[c].of = 0
          /\ turn[b].of # 0
      <3>1. \A c \in Agents : turn'[c] = IF c = a THEN NoTurn ELSE turn[c]
        BY <1>1, <1>2 DEF HandoffTypes
      <3> QED
        BY <1>2, <3>1, TurnFields
    <2>2. FirstOfIts(b) /\ NextOfIts(b) /\ SawAll(b)
      BY <2>1 DEF HandoffInv, Foresight
    <2>3. row.of = turn[b].of => turn[b].state # "offered" /\ row.state # "offered"
      BY <1>0, <1>10, <2>1, <2>2 DEF FirstOfIts
    <2>4. FirstOfIts(b)'
      BY <1>3, <1>4, <1>5, <2>1, <2>2, <2>3 DEF FirstOfIts
    <2>5. NextOfIts(b)'
      <3> SUFFICES ASSUME turn[b].state # "offered"
                   PROVE  /\ \E i \in 1..n : handoffRows'[i].of = turn[b].of
                          /\ \A i \in 1..n : handoffRows'[i].of = turn[b].of =>
                                               handoffRows'[i].task = turn[b].task
        BY <1>4, <2>1 DEF NextOfIts
      <3>1. PICK i \in 1..(n - 1) : handoffRows[i].of = turn[b].of
        BY <1>4, <2>2 DEF NextOfIts
      <3>2. handoffRows[i].task = turn[b].task
        BY <1>4, <2>2, <3>1 DEF NextOfIts
      <3>3. row.of = turn[b].of => row.task = turn[b].task
        BY <1>11, <3>1, <3>2
      <3>4. \A l \in 1..(n - 1) : handoffRows[l].of = turn[b].of =>
                                    handoffRows[l].task = turn[b].task
        BY <1>4, <2>2 DEF NextOfIts
      <3> QED
        BY <1>3, <1>4, <1>5, <3>1, <3>3, <3>4
    <2>6. SawAll(b)'
      <3>0. turn[b].read <= n - 1 /\ turn[b].read \in Nat
        BY <1>0, <1>4, <2>1, <2>2, PlanFields DEF SawAll
      <3> SUFFICES ASSUME ~turn[b].blind, NEW i \in 1..n, i <= turn[b].read
                   PROVE  /\ turn[b].state = "offered" /\ handoffRows'[i].task = turn[b].task =>
                               handoffRows'[i].hop < turn[b].hop
                          /\ handoffRows'[i].of = turn[b].of =>
                               Below(i, turn[b].hop)' \/ BlindChain(turn[b].of)'
        BY <1>4, <2>1, <3>0 DEF SawAll
      <3>1. CASE i = n
        BY <1>4, <3>0, <3>1
      <3>2. CASE i # n
        BY <1>4, <1>5, <1>7, <2>1, <2>2, <3>2 DEF SawAll, Below
      <3> QED
        BY <3>1, <3>2
    <2> QED
      BY <2>4, <2>5, <2>6
  <1> QED
    BY <1>6, <1>12, <1>13, <1>14 DEF HandoffInv

LEMMA InitHandoff == HandoffInit => HandoffInv
  BY DEF HandoffInit, HandoffInv, HandoffTypes, OneChain, OffersClimb, Foresight

LEMMA NextHandoff == HandoffInv /\ [HandoffNext]_handoffVars => HandoffInv'
  <1> SUFFICES ASSUME HandoffInv, [HandoffNext]_handoffVars PROVE HandoffInv'
    OBVIOUS
  <1>1. CASE UNCHANGED handoffVars
    BY <1>1 DEF handoffVars, HandoffInv, HandoffTypes, Planned, OneChain,
       OffersClimb,
       Foresight, FirstOfIts, NextOfIts, SawAll, Below, BlindChain
  <1>2. ASSUME NEW a \in Agents, NEW t \in Works, NEW fails \in BOOLEAN, Offer(a, t, fails)
        PROVE  HandoffInv'
    BY <1>2, OfferKeeps
  <1>3. ASSUME NEW a \in Agents, NEW h \in 1..handoffs, NEW new \in States \ {"offered"},
               Transition(a, h, new)
        PROVE  HandoffInv'
    BY <1>3, TransitionKeeps
  <1>4. ASSUME NEW a \in Agents, WriteHandoff(a) PROVE HandoffInv'
    BY <1>4, WriteKeeps
  <1>5. ASSUME NEW a \in Agents, WriteFails(a) PROVE HandoffInv'
    BY <1>5, FailKeeps
  <1> QED
    BY <1>1, <1>2, <1>3, <1>4, <1>5 DEF HandoffNext

(* Whatever Tommy processes write, in whatever order, from listings that   *)
(* may be stale: offers of a task climb towards the hop limit and a        *)
(* handoff that ended stays ended, unless a row was written blind.         *)
THEOREM HandoffsStayOrderly == HandoffSpec => []HandoffsOrderly
  <1>1. HandoffInv => HandoffsOrderly
    <2> SUFFICES ASSUME HandoffInv PROVE EndsOnce
      BY DEF HandoffInv, HandoffsOrderly
    <2> QED
      BY DEF HandoffInv, OneChain, EndsOnce, Below, BlindChain
  <1> QED
    BY <1>1, InitHandoff, NextHandoff, PTL DEF HandoffSpec

-----------------------------------------------------------------------------
(* Channel.  What has been heard precedes what is still on the wire; what  *)
(* has been sent are the calls already answered.                           *)
ChannelTypes ==
  /\ proc \in {"new", "up", "ended", "never"} /\ accept \in {"listening", "connected", "over"}
  /\ peer \in {"none", "open", "closed"} /\ taskKnown \in BOOLEAN /\ prompt \in BOOLEAN
  /\ lines \in Seq(LineKinds) /\ wire \in Seq(Nat) /\ heard \in Seq(Nat)
  /\ asking \in Nat /\ outbox \in Seq(Nat) /\ received \in Seq(Nat)
  /\ sends \in Seq([ok : BOOLEAN, gone : BOOLEAN])

Rises(s) == \A i, j \in DOMAIN s : i < j => s[i] < s[j]

WireInOrder ==
  /\ \A i \in DOMAIN wire : wire[i] \in 1..Len(lines)
  /\ \A i \in DOMAIN heard : heard[i] \in 1..Len(lines)
  /\ Rises(wire) /\ Rises(heard)
  /\ \A i \in DOMAIN heard, j \in DOMAIN wire : heard[i] < wire[j]

NoneMissed ==
  accept # "over" => \A i \in DOMAIN lines :
    lines[i] = "message" => i \in Entries(wire) \cup Entries(heard) \cup early

AnswersHonest ==
  /\ asking \in {0, Len(sends) + 1}
  /\ Entries(outbox) \cup Entries(received) \subseteq DOMAIN sends
  /\ SendsHonest

ChannelInv ==
  /\ ChannelTypes /\ WireInOrder /\ NoneMissed /\ AnswersHonest
  /\ accept = "connected" => peer # "none"
  /\ ~prompt => proc = "ended"

LEMMA EntriesAppended ==
  ASSUME NEW s \in Seq(Nat), NEW x \in Nat
  PROVE  Entries(Append(s, x)) = Entries(s) \cup {x}
  <1>1. /\ DOMAIN Append(s, x) = 1..(Len(s) + 1) /\ DOMAIN s = 1..Len(s) /\ Len(s) \in Nat
        /\ \A i \in DOMAIN s : Append(s, x)[i] = s[i]
        /\ Append(s, x)[Len(s) + 1] = x
    OBVIOUS
  <1>2. \A i \in 1..(Len(s) + 1) : i = Len(s) + 1 \/ i \in 1..Len(s)
    BY <1>1
  <1>3. Len(s) + 1 \in 1..(Len(s) + 1) /\ \A i \in 1..Len(s) : i \in 1..(Len(s) + 1)
    BY <1>1
  <1> QED
    BY <1>1, <1>2, <1>3 DEF Entries

LEMMA EntriesTaken ==
  ASSUME NEW s \in Seq(Nat), s # <<>>
  PROVE  /\ Entries(s) = Entries(Tail(s)) \cup {Head(s)} /\ Head(s) = s[1] /\ 1 \in DOMAIN s
         /\ Tail(s) \in Seq(Nat) /\ Head(s) \in Nat
         /\ \A i \in DOMAIN Tail(s) :
              i \in Nat /\ i + 1 \in DOMAIN s /\ i + 1 > 1 /\ Tail(s)[i] = s[i + 1]
  <1>1. /\ DOMAIN Tail(s) = 1..(Len(s) - 1) /\ DOMAIN s = 1..Len(s) /\ Len(s) \in Nat \ {0}
        /\ \A i \in DOMAIN Tail(s) : Tail(s)[i] = s[i + 1]
        /\ Head(s) = s[1] /\ Tail(s) \in Seq(Nat) /\ Head(s) \in Nat
    OBVIOUS
  <1>2. PICK t, h : t = Tail(s) /\ h = Head(s)
    OBVIOUS
  <1>3. 1 \in DOMAIN s /\ h = s[1]
    BY <1>1, <1>2
  <1>4. \A i \in DOMAIN t : i \in Nat /\ i + 1 \in DOMAIN s /\ i + 1 > 1 /\ t[i] = s[i + 1]
    BY <1>1, <1>2
  <1>5. ASSUME NEW i \in DOMAIN s PROVE s[i] = h \/ \E j \in DOMAIN t : t[j] = s[i]
    <2>1. CASE i = 1
      BY <1>3, <2>1
    <2>2. CASE i # 1
      <3>1. i - 1 \in DOMAIN t /\ t[i - 1] = s[(i - 1) + 1] /\ (i - 1) + 1 = i
        BY <1>1, <1>2, <2>2
      <3> QED
        BY <3>1
    <2> QED
      BY <2>1, <2>2
  <1>6. Entries(s) = Entries(t) \cup {h}
    BY <1>3, <1>4, <1>5 DEF Entries
  <1> QED
    BY <1>1, <1>2, <1>3, <1>4, <1>6

LEMMA RisesFurther ==
  ASSUME NEW s \in Seq(Nat), Rises(s), NEW x \in Nat, \A i \in DOMAIN s : s[i] < x
  PROVE  Rises(Append(s, x))
  <1>1. /\ DOMAIN Append(s, x) = 1..(Len(s) + 1) /\ DOMAIN s = 1..Len(s) /\ Len(s) \in Nat
        /\ \A i \in DOMAIN s : Append(s, x)[i] = s[i]
        /\ Append(s, x)[Len(s) + 1] = x
    OBVIOUS
  <1> SUFFICES ASSUME NEW i \in 1..(Len(s) + 1), NEW j \in 1..(Len(s) + 1), i < j
               PROVE  Append(s, x)[i] < Append(s, x)[j]
    BY <1>1 DEF Rises
  <1>2. i \in DOMAIN s
    BY <1>1
  <1>3. CASE j = Len(s) + 1
    BY <1>1, <1>2, <1>3
  <1>4. CASE j # Len(s) + 1
    <2>1. j \in DOMAIN s
      BY <1>1, <1>4
    <2> QED
      BY <1>1, <1>2, <2>1 DEF Rises
  <1> QED
    BY <1>3, <1>4

LEMMA InitChannel == ChannelInit => ChannelInv
  <1> SUFFICES ASSUME ChannelInit PROVE ChannelInv
    OBVIOUS
  <1>1. /\ wire = <<>> /\ heard = <<>> /\ lines = <<>> /\ outbox = <<>> /\ received = <<>>
        /\ sends = <<>> /\ asking = 0
    BY DEF ChannelInit
  <1>2. ChannelTypes
    <2>1. \A S : <<>> \in Seq(S)
      OBVIOUS
    <2>2. sends \in Seq([ok : BOOLEAN, gone : BOOLEAN])
      BY <1>1, <2>1
    <2>3. lines \in Seq(LineKinds) /\ \A s \in {wire, heard, outbox, received} : s \in Seq(Nat)
      BY <1>1, <2>1
    <2> QED
      BY <2>2, <2>3 DEF ChannelInit, ChannelTypes
  <1>3. WireInOrder /\ NoneMissed
    BY <1>1 DEF WireInOrder, Rises, NoneMissed
  <1>4. AnswersHonest
    BY <1>1 DEF AnswersHonest, SendsHonest, Entries
  <1> QED
    BY <1>2, <1>3, <1>4 DEF ChannelInit, ChannelInv

(* The line written is the last of all.                                    *)
LEMMA HarnessWritesKeeps == ChannelInv /\ HarnessWrites => ChannelInv'
  <1> SUFFICES ASSUME ChannelInv, HarnessWrites PROVE ChannelInv'
    OBVIOUS
  <1>1. PICK k \in LineKinds : lines' = Append(lines, k)
    BY DEF HarnessWrites
  <1>2. /\ wire' = Append(wire, Len(lines) + 1)
        /\ UNCHANGED <<proc, accept, peer, heard, early, taskKnown, prompt, asking, outbox,
                       received, sends>>
    BY DEF HarnessWrites, outbound
  <1>3. ChannelTypes /\ Len(lines) + 1 \in Nat
    BY DEF ChannelInv, ChannelTypes
  <1>4. /\ Len(lines') = Len(lines) + 1 /\ DOMAIN lines = 1..Len(lines)
        /\ DOMAIN lines' = 1..(Len(lines) + 1) /\ lines' \in Seq(LineKinds)
        /\ \A i \in 1..Len(lines) : lines'[i] = lines[i]
    BY <1>1, <1>3 DEF ChannelTypes
  <1>5. /\ DOMAIN wire = 1..Len(wire) /\ DOMAIN wire' = 1..(Len(wire) + 1) /\ Len(wire) \in Nat
        /\ \A i \in DOMAIN wire : wire'[i] = wire[i]
        /\ wire'[Len(wire) + 1] = Len(lines) + 1 /\ wire' \in Seq(Nat)
    BY <1>2, <1>3 DEF ChannelTypes
  <1>6. WireInOrder'
    <2>1. \A i \in DOMAIN wire' : i = Len(wire) + 1 \/ i \in DOMAIN wire
      BY <1>5
    <2>2. \A i \in DOMAIN wire' : wire'[i] \in 1..Len(lines')
      BY <1>3, <1>4, <1>5, <2>1 DEF ChannelInv, WireInOrder
    <2>3. \A i \in DOMAIN heard' : heard'[i] \in 1..Len(lines')
      BY <1>2, <1>3, <1>4 DEF ChannelInv, WireInOrder
    <2>4. Rises(wire')
      <3>1. \A i \in DOMAIN wire : wire[i] < Len(lines) + 1
        BY <1>3 DEF ChannelInv, WireInOrder
      <3> QED
        BY <1>2, <1>3, <3>1, RisesFurther DEF ChannelInv, WireInOrder, ChannelTypes
    <2>5. \A i \in DOMAIN heard', j \in DOMAIN wire' : heard'[i] < wire'[j]
      <3>1. \A i \in DOMAIN heard : heard[i] < Len(lines) + 1
        BY <1>3 DEF ChannelInv, WireInOrder
      <3> QED
        BY <1>2, <1>5, <2>1, <3>1 DEF ChannelInv, WireInOrder
    <2> QED
      BY <1>2, <2>2, <2>3, <2>4, <2>5 DEF WireInOrder, ChannelInv, Rises
  <1>7. NoneMissed'
    <2>1. Entries(wire') = Entries(wire) \cup {Len(lines) + 1}
      BY <1>2, <1>3, EntriesAppended DEF ChannelTypes
    <2> SUFFICES ASSUME accept # "over", NEW i \in 1..(Len(lines) + 1), lines'[i] = "message"
                 PROVE  i \in Entries(wire') \cup Entries(heard) \cup early
      BY <1>2, <1>4 DEF NoneMissed
    <2>2. CASE i = Len(lines) + 1
      BY <2>1, <2>2
    <2>3. CASE i # Len(lines) + 1
      <3>1. i \in 1..Len(lines)
        BY <1>3, <2>3
      <3> QED
        BY <1>4, <2>1, <3>1 DEF ChannelInv, NoneMissed
    <2> QED
      BY <2>2, <2>3
  <1>8. AnswersHonest'
    BY <1>2 DEF ChannelInv, AnswersHonest, SendsHonest, Entries
  <1> QED
    BY <1>2, <1>3, <1>4, <1>5, <1>6, <1>7, <1>8 DEF ChannelInv, ChannelTypes

LEMMA ReceivesKeeps == ChannelInv /\ Receives => ChannelInv'
  <1> SUFFICES ASSUME ChannelInv, Receives PROVE ChannelInv'
    OBVIOUS
  <1>1. PICK x : x = Head(wire)
    OBVIOUS
  <1>2. /\ accept = "connected" /\ wire # <<>> /\ wire' = Tail(wire)
        /\ heard' = IF taskKnown /\ lines[x] = "message" THEN Append(heard, x) ELSE heard
        /\ early' = IF taskKnown THEN early ELSE early \cup {x}
        /\ accept' = IF Breaks(lines[x]) THEN "over" ELSE accept
        /\ UNCHANGED <<proc, peer, lines, taskKnown, prompt, asking, outbox, received, sends>>
    BY <1>1 DEF Receives, outbound
  <1>3. ChannelTypes
    BY DEF ChannelInv
  <1>4. /\ Entries(wire) = Entries(wire') \cup {x} /\ x = wire[1] /\ 1 \in DOMAIN wire
        /\ wire' \in Seq(Nat) /\ x \in Nat
        /\ \A i \in DOMAIN wire' :
             i \in Nat /\ i + 1 \in DOMAIN wire /\ i + 1 > 1 /\ wire'[i] = wire[i + 1]
    BY <1>1, <1>2, <1>3, EntriesTaken DEF ChannelTypes
  <1>5. x \in 1..Len(lines) /\ \A i \in DOMAIN heard : heard[i] < x
    BY <1>4 DEF ChannelInv, WireInOrder
  <1>6. heard' = heard \/ heard' = Append(heard, x)
    BY <1>2
  <1>7. Rises(heard') /\ heard' \in Seq(Nat)
    <2>1. heard \in Seq(Nat) /\ Rises(heard)
      BY <1>3 DEF ChannelTypes, ChannelInv, WireInOrder
    <2>2. Rises(Append(heard, x)) /\ Append(heard, x) \in Seq(Nat)
      BY <1>4, <1>5, <2>1, RisesFurther
    <2> QED
      BY <1>6, <2>1, <2>2
  <1>8. \A i \in DOMAIN heard' : heard'[i] = x \/ \E j \in DOMAIN heard : heard'[i] = heard[j]
    <2>1. /\ DOMAIN Append(heard, x) = 1..(Len(heard) + 1) /\ DOMAIN heard = 1..Len(heard)
          /\ Len(heard) \in Nat /\ Append(heard, x)[Len(heard) + 1] = x
          /\ \A i \in DOMAIN heard : Append(heard, x)[i] = heard[i]
      BY <1>3, <1>4 DEF ChannelTypes
    <2>2. \A i \in 1..(Len(heard) + 1) : i = Len(heard) + 1 \/ i \in 1..Len(heard)
      BY <2>1
    <2> QED
      BY <1>6, <2>1, <2>2
  <1>9. WireInOrder'
    <2>1. Rises(wire')
      <3> SUFFICES ASSUME NEW i \in DOMAIN wire', NEW j \in DOMAIN wire', i < j
                   PROVE  wire'[i] < wire'[j]
        BY DEF Rises
      <3>1. i \in Nat /\ j \in Nat
        BY <1>4
      <3>2. i + 1 < j + 1
        BY <3>1
      <3> QED
        BY <1>4, <3>2 DEF ChannelInv, WireInOrder, Rises
    <2>2. \A j \in DOMAIN wire' : x < wire'[j]
      BY <1>4 DEF ChannelInv, WireInOrder, Rises
    <2>3. \A i \in DOMAIN heard', j \in DOMAIN wire' : heard'[i] < wire'[j]
      <3> SUFFICES ASSUME NEW i \in DOMAIN heard', NEW j \in DOMAIN wire'
                   PROVE  heard'[i] < wire'[j]
        OBVIOUS
      <3>1. CASE heard'[i] = x
        BY <2>2, <3>1
      <3>2. CASE \E l \in DOMAIN heard : heard'[i] = heard[l]
        BY <1>4, <3>2 DEF ChannelInv, WireInOrder
      <3> QED
        BY <1>8, <3>1, <3>2
    <2>4. \A i \in DOMAIN wire' : wire'[i] \in 1..Len(lines')
      BY <1>2, <1>4 DEF ChannelInv, WireInOrder
    <2>5. \A i \in DOMAIN heard' : heard'[i] \in 1..Len(lines')
      BY <1>2, <1>5, <1>8 DEF ChannelInv, WireInOrder
    <2> QED
      BY <1>7, <2>1, <2>3, <2>4, <2>5 DEF WireInOrder, Rises
  <1>10. NoneMissed'
    <2>1. Entries(heard) \subseteq Entries(heard')
      <3>1. Entries(Append(heard, x)) = Entries(heard) \cup {x}
        BY <1>3, <1>4, EntriesAppended DEF ChannelTypes
      <3> QED
        BY <1>6, <3>1
    <2>2. lines[x] = "message" => x \in Entries(heard') \cup early'
      <3>1. heard' = Append(heard, x) => x \in Entries(heard')
        BY <1>3, <1>4, EntriesAppended DEF ChannelTypes
      <3> QED
        BY <1>2, <3>1
    <2>3. early \subseteq early' /\ lines' = lines
      BY <1>2
    <2> SUFFICES ASSUME NEW i \in DOMAIN lines, lines[i] = "message"
                 PROVE  i \in Entries(wire') \cup Entries(heard') \cup early'
      BY <2>3 DEF NoneMissed
    <2>4. i \in Entries(wire) \cup Entries(heard) \cup early
      BY <1>2 DEF ChannelInv, NoneMissed
    <2> QED
      BY <1>4, <2>1, <2>2, <2>3, <2>4
  <1>11. AnswersHonest'
    BY <1>2 DEF ChannelInv, AnswersHonest, SendsHonest, Entries
  <1>12. ChannelTypes'
    BY <1>2, <1>3, <1>4, <1>7 DEF ChannelTypes
  <1> QED
    BY <1>2, <1>9, <1>10, <1>11, <1>12 DEF ChannelInv

(* The answer to a control call is what became of its message.             *)
LEMMA ControlSendsKeeps == ChannelInv /\ ControlSends => ChannelInv'
  <1> SUFFICES ASSUME ChannelInv, ControlSends PROVE ChannelInv'
    OBVIOUS
  <1>1. PICK answer : answer = [ok |-> CanSend, gone |-> peer = "closed"]
    OBVIOUS
  <1>2. /\ asking # 0 /\ asking' = 0 /\ sends' = Append(sends, answer)
        /\ outbox' = IF accept = "connected" /\ peer = "open" THEN Append(outbox, asking) ELSE outbox
        /\ UNCHANGED <<proc, accept, peer, wire, lines, heard, early, taskKnown, prompt, received>>
    BY <1>1 DEF ControlSends, inbound
  <1>3. ChannelTypes /\ asking = Len(sends) + 1 /\ asking \in Nat
    BY <1>2 DEF ChannelInv, AnswersHonest, ChannelTypes
  <1>4. /\ answer \in [ok : BOOLEAN, gone : BOOLEAN]
        /\ (answer.ok <=> accept = "connected") /\ (answer.gone <=> peer = "closed")
    BY <1>1 DEF CanSend
  <1>5. /\ DOMAIN sends' = 1..asking /\ DOMAIN sends = 1..(asking - 1)
        /\ sends'[asking] = answer /\ \A i \in DOMAIN sends : sends'[i] = sends[i]
        /\ sends' \in Seq([ok : BOOLEAN, gone : BOOLEAN]) /\ Len(sends') = asking
    BY <1>2, <1>3, <1>4 DEF ChannelTypes
  <1>6. /\ outbox' \in Seq(Nat) /\ Entries(received') = Entries(received)
        /\ accept = "connected" /\ peer = "open" =>
             Entries(outbox') = Entries(outbox) \cup {asking}
        /\ ~(accept = "connected" /\ peer = "open") => Entries(outbox') = Entries(outbox)
    <2>1. outbox \in Seq(Nat) /\ Append(outbox, asking) \in Seq(Nat)
          /\ Entries(Append(outbox, asking)) = Entries(outbox) \cup {asking}
      BY <1>3, EntriesAppended DEF ChannelTypes
    <2> QED
      BY <1>2, <2>1
  <1>7. \A i \in 1..asking : i = asking \/ i \in 1..(asking - 1)
    BY <1>3
  <1>8. asking \notin DOMAIN sends /\ DOMAIN sends \subseteq DOMAIN sends' /\ asking \in DOMAIN sends'
    BY <1>2, <1>3, <1>5
  <1>9. SendsHonest'
    <2> SUFFICES ASSUME NEW i \in DOMAIN sends'
                 PROVE  IF sends'[i].ok
                          THEN i \in Entries(outbox') \cup Entries(received') \/ sends'[i].gone
                          ELSE i \notin Entries(outbox') \cup Entries(received')
      BY DEF SendsHonest
    <2>1. CASE i = asking
      <3>1. i \notin Entries(outbox) \cup Entries(received)
        BY <1>8, <2>1 DEF ChannelInv, AnswersHonest
      <3>2. accept = "connected" => peer = "open" \/ peer = "closed"
        BY <1>3 DEF ChannelInv, ChannelTypes
      <3> QED
        BY <1>4, <1>5, <1>6, <2>1, <3>1, <3>2
    <2>2. CASE i # asking
      <3>1. i \in DOMAIN sends
        BY <1>5, <1>7, <2>2
      <3>2. IF sends[i].ok
              THEN i \in Entries(outbox) \cup Entries(received) \/ sends[i].gone
              ELSE i \notin Entries(outbox) \cup Entries(received)
        BY <3>1 DEF ChannelInv, AnswersHonest, SendsHonest
      <3> QED
        BY <1>5, <1>6, <2>2, <3>1, <3>2
    <2> QED
      BY <2>1, <2>2
  <1>10. AnswersHonest'
    <2>1. Entries(outbox') \cup Entries(received') \subseteq DOMAIN sends'
      BY <1>6, <1>8 DEF ChannelInv, AnswersHonest
    <2> QED
      BY <1>2, <1>9, <2>1 DEF AnswersHonest
  <1>11. WireInOrder' /\ NoneMissed'
    BY <1>2 DEF ChannelInv, WireInOrder, Rises, NoneMissed, Entries
  <1>12. ChannelTypes'
    BY <1>2, <1>3, <1>5, <1>6 DEF ChannelTypes
  <1> QED
    BY <1>2, <1>10, <1>11, <1>12 DEF ChannelInv

LEMMA HarnessReadsKeeps == ChannelInv /\ HarnessReads => ChannelInv'
  <1> SUFFICES ASSUME ChannelInv, HarnessReads PROVE ChannelInv'
    OBVIOUS
  <1>1. /\ outbox # <<>> /\ outbox' = Tail(outbox)
        /\ received' = Append(received, Head(outbox))
        /\ UNCHANGED <<proc, accept, peer, wire, lines, heard, early, taskKnown, prompt,
                       asking, sends>>
    BY DEF HarnessReads, inbound
  <1>2. ChannelTypes
    BY DEF ChannelInv
  <1>3. /\ Entries(outbox) = Entries(outbox') \cup {Head(outbox)}
        /\ outbox' \in Seq(Nat) /\ Head(outbox) \in Nat
    BY <1>1, <1>2, EntriesTaken DEF ChannelTypes
  <1>4. received' \in Seq(Nat) /\ Entries(received') = Entries(received) \cup {Head(outbox)}
    BY <1>1, <1>2, <1>3, EntriesAppended DEF ChannelTypes
  <1>5. Entries(outbox') \cup Entries(received') = Entries(outbox) \cup Entries(received)
    BY <1>3, <1>4
  <1>6. AnswersHonest'
    BY <1>1, <1>5 DEF ChannelInv, AnswersHonest, SendsHonest
  <1>7. WireInOrder' /\ NoneMissed'
    BY <1>1 DEF ChannelInv, WireInOrder, Rises, NoneMissed, Entries
  <1> QED
    BY <1>1, <1>2, <1>3, <1>4, <1>6, <1>7 DEF ChannelInv, ChannelTypes

LEMMA NextChannel == ChannelInv /\ [ChannelNext]_channelVars => ChannelInv'
  <1> SUFFICES ASSUME ChannelInv, [ChannelNext]_channelVars PROVE ChannelInv'
    OBVIOUS
  <1> DEFINE Silent == UNCHANGED <<wire, lines, heard, early, outbox, received, sends>>
  <1>1. ASSUME Silent, accept' # "over" => accept # "over", asking' \in {0, Len(sends) + 1},
               ChannelTypes', accept' = "connected" => peer' # "none",
               ~prompt' => proc' = "ended"
        PROVE  ChannelInv'
    <2>1. WireInOrder' /\ NoneMissed'
      BY <1>1 DEF ChannelInv, WireInOrder, Rises, NoneMissed, Entries
    <2>2. AnswersHonest'
      BY <1>1 DEF ChannelInv, AnswersHonest, SendsHonest, Entries
    <2> QED
      BY <1>1, <2>1, <2>2 DEF ChannelInv
  <1>2. asking \in {0, Len(sends) + 1} /\ Len(sends) + 1 \in Nat /\ ChannelTypes
    BY DEF ChannelInv, AnswersHonest, ChannelTypes
  <1>3. CASE UNCHANGED channelVars
    BY <1>1, <1>2, <1>3 DEF channelVars, ChannelInv, ChannelTypes
  <1>4. CASE \/ HarnessStarts \/ TaskPublished \/ HarnessDials \/ Accepts \/ AcceptTimesOut
             \/ SeesHangUp \/ HarnessStops \/ DrainThreadEnds \/ ControlAsked
    <2>1. Silent /\ (accept' # "over" => accept # "over")
      BY <1>4 DEF HarnessStarts, TaskPublished, HarnessDials, Accepts,
         AcceptTimesOut,
         SeesHangUp, HarnessStops, DrainThreadEnds, ControlAsked, inbound, outbound
    <2>2. asking' \in {0, Len(sends) + 1}
      BY <1>2, <1>4 DEF HarnessStarts, TaskPublished, HarnessDials, Accepts,
         AcceptTimesOut,
         SeesHangUp, HarnessStops, DrainThreadEnds, ControlAsked, inbound, outbound
    <2>3. ChannelTypes'
      BY <1>2, <1>4 DEF HarnessStarts, TaskPublished, HarnessDials, Accepts,
         AcceptTimesOut,
         SeesHangUp, HarnessStops, DrainThreadEnds, ControlAsked, inbound, outbound,
         ChannelTypes
    <2>4. (accept' = "connected" => peer' # "none") /\ (~prompt' => proc' = "ended")
      BY <1>2, <1>4 DEF HarnessStarts, TaskPublished, HarnessDials, Accepts,
         AcceptTimesOut,
         SeesHangUp, HarnessStops, DrainThreadEnds, ControlAsked, inbound, outbound,
         ChannelInv, ChannelTypes, StdoutOver
    <2> QED
      BY <1>1, <2>1, <2>2, <2>3, <2>4
  <1> QED
    BY <1>3, <1>4, HarnessWritesKeeps, ReceivesKeeps, ControlSendsKeeps,
       HarnessReadsKeeps
    DEF ChannelNext

(* However the harness, the two threads and the tool calls interleave, no  *)
(* message of the harness is lost or doubled while the accept thread runs, *)
(* an answer to a control call is true, and the prompt file outlives the   *)
(* harness.                                                                *)
THEOREM ChannelIsSound == ChannelSpec => []ChannelSound
  <1>1. ChannelInv => ChannelSound
    BY DEF ChannelInv, ChannelSound, EveryLineHeard, WireInOrder, Rises, NoneMissed,
       AnswersHonest
  <1> QED
    BY <1>1, InitChannel, NextChannel, PTL DEF ChannelSpec

-----------------------------------------------------------------------------
(* Hooks.  Whose inode a name leads to, and what an invocation under way   *)
(* has in hand: what it will publish if nobody gets in between.            *)
Steps == {"new", "listing", "ready", "opened", "written", "failed", "done"}
Under == {"ready", "opened", "written"}
Left  == {"opened", "written", "failed", "done"}
Temps == {"rules.tmp", "snapshot.tmp", "stats.tmp"}
Names == Files \cup Temps \cup Runs

RunType ==
  [kind : Kinds \cup {"none"}, step : Steps, fd : Runs \cup {NoFile},
   got : SUBSET (Rules \cup Runs), todo : SUBSET {"own", "linked"},
   always : SUBSET Rules, ever : SUBSET Rules,
   answer : {"none", "live", "nothing", "transient", "refused", "clashed"},
   shown : {"none", "live", "stale", "off", "deny", "defer", "ask"}]

HookTypes ==
  /\ active \in SUBSET Rules /\ linked \in BOOLEAN
  /\ dir \in [Names -> Runs \cup {NoFile}]
  /\ data \in [Runs -> [whole : BOOLEAN, of : SUBSET (Rules \cup Runs)]]
  /\ run \in [Runs -> RunType]
  /\ clashed \in SUBSET Files /\ floor \in SUBSET Rules /\ ceiling \in SUBSET Rules
  /\ stops \in SUBSET Runs

(* The kind of invocation whose inodes a name may lead to.                 *)
WriterOf(n) ==
  CASE n \in {"rules", "rules.tmp"} -> "status"
    [] n \in {"snapshot", "snapshot.tmp"} -> "recall"
    [] OTHER -> "stop"

Owned ==
  /\ \A n \in Names : dir[n] # NoFile =>
       run[dir[n]].step \in Left /\ run[dir[n]].kind = WriterOf(n)
  /\ \A n, m \in Names : dir[n] # NoFile /\ dir[n] = dir[m] => n = m
  /\ dir["stats.tmp"] = NoFile /\ \A h \in Runs : dir[h] \in {h, NoFile}

Opened ==
  \A h \in Runs : run[h].step \in {"opened", "written"} =>
    /\ run[h].fd \in Runs /\ run[run[h].fd].step \in Left
    /\ run[run[h].fd].kind = run[h].kind
    /\ run[h].kind = "stop" => run[h].fd = h

(* What the invocation wrote is there for it to publish.                   *)
InHand(h) ==
  /\ run[h].step \in {"opened", "written"} => dir[TempOf(h)] = run[h].fd
  /\ run[h].step = "opened" => data[run[h].fd] = Unreadable
  /\ run[h].step = "written" => data[run[h].fd] = Whole(run[h].got)

OneAtATime ==
  /\ \A f \in Files \ clashed : \A h, g \in Busy(f) : h = g
  /\ \A h \in Runs : FileOf(run[h].kind) \notin clashed \/ run[h].kind = "stop" => InHand(h)

(* The kinds of invocation that reach a step.                              *)
KindOk(r) ==
  /\ r.step \in Under => r.kind \in {"status", "recall", "stop"}
  /\ r.step = "listing" => r.kind = "status"
  /\ r.step = "failed" => r.kind = "recall"
  /\ r.kind = "enforce" => r.step = "done"
  /\ r.kind = "none" => r.step = "new"

(* A refresh has what stood all along, once the namespaces still to be     *)
(* listed are in; a tool call was decided by such a refresh.               *)
RuleOk(r) ==
  /\ r.step = "listing" =>
       /\ r.always \subseteq active /\ active \subseteq r.ever /\ r.got \subseteq r.ever
       /\ \A x \in r.always : x \in r.got \/ Home[x] \in r.todo
  /\ r.kind = "status" /\ r.step \in Under =>
       r.always \subseteq r.got /\ r.got \subseteq r.ever
  /\ r.kind = "enforce" /\ r.answer # "clashed" =>
       /\ r.always \subseteq r.got /\ r.got \subseteq r.ever
       /\ r.shown = Decision(r.got)

LiveAnswer(c) == \E s \in Runs : c = {s} /\ run[s].answer = "live"
RecallOk(h, r) ==
  r.kind = "recall" =>
    /\ r.step \in Under => r.answer = "live" /\ r.got = {h}
    /\ r.step = "failed" /\ r.answer = "live" => "snapshot" \in clashed
    /\ r.step = "done" =>
         /\ r.answer = "refused" => r.shown # "stale"
         /\ r.shown = "stale" => LiveAnswer(r.got)
         /\ r.answer = "live" /\ r.shown \in {"stale", "off"} => "snapshot" \in clashed

(* A counter read before nobody else published has all that was counted.   *)
CountOk(h, r) ==
  r.kind = "stop" /\ r.step \in Under /\ "stats" \notin clashed =>
    stops \cup {h} \subseteq r.got

RunSound(h, r) == KindOk(r) /\ RuleOk(r) /\ RecallOk(h, r) /\ CountOk(h, r)

FilesSound ==
  /\ dir["stats"] # NoFile => data[dir["stats"]].whole
  /\ "stats" \notin clashed => stops \subseteq Loaded("stats").of
  /\ "rules" \notin clashed =>
       floor \subseteq Loaded("rules").of /\ Loaded("rules").of \subseteq ceiling
  /\ \A h \in Runs : run[h].kind = "recall" /\ data[h].whole => LiveAnswer(data[h].of)

Untouched == \A h \in Runs : run[h].step = "new" => run[h].answer = "none" /\ ~data[h].whole

HookInv ==
  /\ HookTypes /\ Owned /\ Opened /\ OneAtATime /\ FilesSound /\ Untouched
  /\ \A h \in Runs : RunSound(h, run[h])

LEMMA RunFields ==
  ASSUME NEW r \in RunType
  PROVE  /\ r.kind \in Kinds \cup {"none"} /\ r.step \in Steps /\ r.fd \in Runs \cup {NoFile}
         /\ r.got \in SUBSET (Rules \cup Runs) /\ r.todo \in SUBSET {"own", "linked"}
         /\ r.always \in SUBSET Rules /\ r.ever \in SUBSET Rules
  BY DEF RunType

LEMMA HookFacts ==
  ASSUME HookTypes
  PROVE  /\ \A h \in Runs :
              /\ run[h] \in RunType /\ run[h].step \in Steps /\ h \in Names /\ h # NoFile
              /\ run[h].kind \in Kinds \cup {"none"} /\ run[h].fd \in Runs \cup {NoFile}
              /\ run[h].got \in SUBSET (Rules \cup Runs)
              /\ TempOf(h) \in Names /\ TempOf(h) \notin Files
              /\ h \notin Files /\ h \notin Temps
         /\ Files \subseteq Names /\ Temps \subseteq Names
         /\ \A n \in Names : dir[n] \in Runs \cup {NoFile}
         /\ Files = {"rules", "snapshot", "stats"}
         /\ Temps = {"rules.tmp", "snapshot.tmp", "stats.tmp"}
  <1>1. \A h \in Runs : run[h] \in RunType
    BY DEF HookTypes
  <1>2. \A h \in Runs : /\ run[h].step \in Steps /\ run[h].kind \in Kinds \cup {"none"}
                        /\ run[h].fd \in Runs \cup {NoFile}
                        /\ run[h].got \in SUBSET (Rules \cup Runs)
    BY <1>1, RunFields
  <1>3. \A h \in Runs : h \in Names /\ h # NoFile /\ h \notin Files /\ h \notin Temps
    BY NamesAssumption DEF Names, Files, Temps
  <1>4. \A h \in Runs : TempOf(h) = h \/ TempOf(h) \in Temps
    BY DEF TempOf, Shared, Temps
  <1>5. \A n \in Temps : n \in Names /\ n \notin Files
    BY DEF Names, Files, Temps
  <1> QED
    BY <1>1, <1>2, <1>3, <1>4, <1>5 DEF HookTypes, Names, Files, Temps

(* What is sound of a run stays so while clashes only become known and     *)
(* the rules and the counters it relies on stay.                           *)
LEMMA SoundKept ==
  ASSUME NEW h \in Runs, NEW r, RunSound(h, r), clashed \subseteq clashed',
         r.step = "listing" => active' = active,
         "stats" \notin clashed' => stops' = stops \/ r.step \notin Under \/ r.kind # "stop",
         \A s \in Runs : run[s].answer = "live" => run'[s].answer = "live"
  PROVE  RunSound(h, r)'
  <1>1. RuleOk(r)'
    BY DEF RunSound, RuleOk, Decision
  <1>2. RecallOk(h, r)'
    BY DEF RunSound, RecallOk, LiveAnswer
  <1>3. CountOk(h, r)'
    BY DEF RunSound, CountOk
  <1> QED
    BY <1>1, <1>2, <1>3 DEF RunSound, KindOk

(* A run that touches no file: it starts, lists, fails or ends.            *)
LEMMA QuietKeeps ==
  ASSUME HookInv, NEW h \in Runs, NEW r \in RunType, run' = [run EXCEPT ![h] = r],
         UNCHANGED <<active, linked, dir, data, floor, ceiling, stops>>,
         clashed \subseteq clashed', clashed' \subseteq Files,
         r.step \notin {"new", "opened", "written"},
         run[h].step \in Left => r.step \in Left,
         run[h].step = "new" \/ (r.kind = run[h].kind /\ r.answer = run[h].answer),
         r.step # "done" /\ FileOf(r.kind) \notin clashed' => Busy(FileOf(r.kind)) \subseteq {h},
         RunSound(h, r)'
  PROVE  HookInv'
  <1>1. HookTypes /\ \A g \in Runs : run'[g] = IF g = h THEN r ELSE run[g]
    BY HookFacts DEF HookInv, HookTypes
  <1>2. HookTypes'
    BY <1>1 DEF HookTypes
  <1>3. \A s \in Runs : run[s].answer = "live" => run'[s].answer = "live"
    BY <1>1 DEF HookInv, Untouched
  <1>4. Owned'
    <2>1. \A n \in Names : dir[n] # NoFile => dir[n] \in Runs
      BY <1>1, HookFacts
    <2>2. \A g \in Runs : run[g].step \in Left => run'[g].step \in Left /\ run'[g].kind = run[g].kind
      BY <1>1 DEF Left
    <2> QED
      BY <1>1, <2>1, <2>2 DEF HookInv, Owned, Names, WriterOf
  <1>5. Opened'
    <2> SUFFICES ASSUME NEW g \in Runs, run'[g].step \in {"opened", "written"}
                 PROVE  /\ run'[g].fd \in Runs /\ run'[run'[g].fd].step \in Left
                        /\ run'[run'[g].fd].kind = run'[g].kind
                        /\ run'[g].kind = "stop" => run'[g].fd = g
      BY DEF Opened
    <2>1. run'[g] = run[g] /\ g # h
      BY <1>1
    <2>2. /\ run[g].fd \in Runs /\ run[run[g].fd].step \in Left
          /\ run[run[g].fd].kind = run[g].kind
          /\ run[g].kind = "stop" => run[g].fd = g
      BY <2>1 DEF HookInv, Opened
    <2> QED
      BY <1>1, <2>1, <2>2 DEF Left
  <1>6. OneAtATime'
    <2>1. \A g \in Runs : InHand(g) => InHand(g)'
      BY <1>1 DEF InHand, TempOf, Whole, Unreadable
    <2>2. \A g \in Runs : g # h => run'[g] = run[g]
      BY <1>1
    <2>3. \A g \in Runs : FileOf(run'[g].kind) \notin clashed' \/ run'[g].kind = "stop" => InHand(g)'
      BY <1>1, <2>1, <2>2 DEF HookInv, OneAtATime, InHand
    <2>4. ASSUME NEW f \in Files \ clashed', NEW one \in Busy(f)', NEW two \in Busy(f)'
          PROVE  one = two
      <3>1. \A g \in Runs : g \in Busy(f)' => g \in Busy(f) \/ g = h
        BY <1>1 DEF Busy
      <3>2. \A g \in Busy(f) : \A i \in Busy(f) : g = i
        BY DEF HookInv, OneAtATime
      <3>3. h \in Busy(f)' => Busy(f) \subseteq {h}
        BY <1>1 DEF Busy
      <3>4. one \in Runs /\ two \in Runs
        BY DEF Busy
      <3> QED
        BY <3>1, <3>2, <3>3, <3>4
    <2> QED
      BY <2>3, <2>4 DEF OneAtATime
  <1>7. FilesSound'
    <2>1. \A g \in Runs : run'[g].kind = "recall" /\ data[g].whole => run[g].kind = "recall"
      BY <1>1 DEF HookInv, Untouched
    <2>2. \A g \in Runs : run'[g].kind = "recall" /\ data[g].whole => LiveAnswer(data[g].of)'
      BY <1>3, <2>1 DEF HookInv, FilesSound, LiveAnswer
    <2> QED
      BY <2>2 DEF HookInv, FilesSound, Loaded, Unreadable
  <1>8. Untouched'
    BY <1>1 DEF HookInv, Untouched
  <1>9. ASSUME NEW g \in Runs PROVE RunSound(g, run[g])'
    <2>1. CASE g = h
      <3>1. run'[g] = r
        BY <1>1, <2>1
      <3> QED
        BY <2>1, <3>1
    <2>2. CASE g # h
      <3>1. PICK q : q = run[g] /\ q = run'[g]
        BY <1>1, <2>2
      <3>2. RunSound(g, q)
        BY <3>1 DEF HookInv
      <3>3. RunSound(g, q)'
        BY <1>3, <3>2, SoundKept
      <3> QED
        BY <3>1, <3>3
    <2> QED
      BY <2>1, <2>2
  <1> QED
    BY <1>2, <1>4, <1>5, <1>6, <1>7, <1>8, <1>9 DEF HookInv

EndedAs(q, c, s) == [Ended(q, c) EXCEPT !.shown = s]

LEMMA EndedFields ==
  ASSUME NEW q \in RunType, NEW c \in SUBSET (Rules \cup Runs),
         NEW s \in {"none", "live", "stale", "off"}, NEW r, r = EndedAs(q, c, s)
  PROVE  /\ r \in RunType /\ r.kind = q.kind /\ r.step = "done" /\ r.answer = q.answer
         /\ r.got = c /\ r.shown = s
         /\ s = "none" => r = Ended(q, c)
  <1>1. /\ q.kind \in Kinds \cup {"none"}
        /\ q.answer \in {"none", "live", "nothing", "transient", "refused", "clashed"}
    BY DEF RunType
  <1>2. PICK e : e = Ended(q, c)
    OBVIOUS
  <1>3. /\ e.kind = q.kind /\ e.step = "done" /\ e.fd = NoFile /\ e.got = c /\ e.todo = {}
        /\ e.always = {} /\ e.ever = {} /\ e.answer = q.answer /\ e.shown = "none"
        /\ e = [kind |-> e.kind, step |-> e.step, fd |-> e.fd, got |-> e.got, todo |-> e.todo,
                always |-> e.always, ever |-> e.ever, answer |-> e.answer, shown |-> e.shown]
    BY <1>2 DEF Ended, Fresh
  <1>4. r = [e EXCEPT !.shown = s]
    BY <1>2 DEF EndedAs
  <1>5. /\ r.kind = q.kind /\ r.step = "done" /\ r.fd = NoFile /\ r.got = c /\ r.todo = {}
        /\ r.always = {} /\ r.ever = {} /\ r.answer = q.answer /\ r.shown = s
        /\ r = [kind |-> r.kind, step |-> r.step, fd |-> r.fd, got |-> r.got, todo |-> r.todo,
                always |-> r.always, ever |-> r.ever, answer |-> r.answer, shown |-> r.shown]
    BY <1>3, <1>4
  <1>6. r \in RunType
    BY <1>1, <1>5 DEF RunType, Steps
  <1>7. s = "none" => r = e
    BY <1>3, <1>5
  <1> QED
    BY <1>2, <1>5, <1>6, <1>7

LEMMA EndedPlain ==
  ASSUME NEW q \in RunType
  PROVE  Ended(q, {}) = EndedAs(q, {}, "none")
  <1>1. PICK r : r = EndedAs(q, {}, "none")
    OBVIOUS
  <1>2. {} \in SUBSET (Rules \cup Runs)
    OBVIOUS
  <1>3. r = Ended(q, {})
    BY <1>1, <1>2, EndedFields
  <1> QED
    BY <1>1, <1>3

(* A run that ends without having published.                               *)
LEMMA EndKeeps ==
  ASSUME HookInv, NEW h \in Runs, NEW c \in SUBSET (Rules \cup Runs),
         NEW s \in {"none", "stale", "off"}, run[h].step \notin {"new", "done"},
         run' = [run EXCEPT ![h] = EndedAs(run[h], c, s)],
         UNCHANGED <<active, linked, dir, data, clashed, floor, ceiling, stops>>,
         run[h].kind = "recall" =>
           /\ run[h].answer = "refused" => s # "stale"
           /\ s = "stale" => LiveAnswer(c)
           /\ run[h].answer = "live" /\ s \in {"stale", "off"} => "snapshot" \in clashed
  PROVE  HookInv'
  <1>1. PICK r : r = EndedAs(run[h], c, s)
    OBVIOUS
  <1>2. HookTypes /\ run[h] \in RunType /\ clashed \subseteq Files
    BY HookFacts DEF HookInv, HookTypes
  <1>3. /\ r \in RunType /\ r.kind = run[h].kind /\ r.step = "done" /\ r.answer = run[h].answer
        /\ r.got = c /\ r.shown = s
    <2>1. s \in {"none", "live", "stale", "off"}
      OBVIOUS
    <2>2. PICK q : q = run[h]
      OBVIOUS
    <2>3. q \in RunType /\ r = EndedAs(q, c, s)
      BY <1>1, <1>2, <2>2
    <2>4. /\ r \in RunType /\ r.kind = q.kind /\ r.step = "done" /\ r.answer = q.answer
          /\ r.got = c /\ r.shown = s
      BY <2>1, <2>3, EndedFields
    <2> QED
      BY <2>2, <2>4
  <1>4. run[h].kind \notin {"none", "enforce"}
    BY DEF HookInv, RunSound, KindOk
  <1>5. \A g \in Runs : run[g].answer = "live" => run'[g].answer = "live"
    BY <1>1, <1>2, <1>3 DEF HookTypes
  <1>6. RunSound(h, r)
    BY <1>3, <1>4 DEF RunSound, KindOk, RuleOk, RecallOk, CountOk, Under
  <1>7. RunSound(h, r)'
    BY <1>3, <1>5, <1>6, SoundKept
  <1> QED
    BY <1>1, <1>2, <1>3, <1>7, QuietKeeps DEF Left

LEMMA GiveUpKeeps ==
  ASSUME HookInv, NEW h \in Runs, GiveUpFile(h) \/ HookKilled(h) PROVE HookInv'
  <1>1. run[h] \in RunType
    BY HookFacts DEF HookInv
  <1>2. Ended(run[h], {}) = EndedAs(run[h], {}, "none")
    BY <1>1, EndedPlain
  <1>3. /\ run' = [run EXCEPT ![h] = EndedAs(run[h], {}, "none")]
        /\ run[h].step \notin {"new", "done"}
        /\ UNCHANGED <<active, linked, dir, data, clashed, floor, ceiling, stops>>
    BY <1>2 DEF GiveUpFile, HookKilled, ruleVars, fileVars, past
  <1> QED
    BY <1>3, EndKeeps

LEMMA FallBackKeeps ==
  ASSUME HookInv, NEW h \in Runs, RecallFallsBack(h) PROVE HookInv'
  <1>1. run[h] \in RunType /\ HookTypes /\ run[h].kind = "recall" /\ run[h].step = "failed"
    BY HookFacts DEF HookInv, RecallFallsBack, RunSound, KindOk
  <1>2. UNCHANGED <<active, linked, dir, data, clashed, floor, ceiling, stops>>
    BY DEF RecallFallsBack, ruleVars, fileVars, past
  <1>3. run[h].answer = "live" => "snapshot" \in clashed
    BY <1>1 DEF HookInv, RunSound, RecallOk
  <1>4. CASE ServesSnapshot(h)
    <2>1. run' = [run EXCEPT ![h] = EndedAs(run[h], Loaded("snapshot").of, "stale")]
      BY <1>4 DEF RecallFallsBack, EndedAs
    <2>2. dir["snapshot"] \in Runs /\ Loaded("snapshot") = data[dir["snapshot"]]
          /\ data[dir["snapshot"]].whole
      BY <1>1, <1>4, HookFacts DEF ServesSnapshot, Loaded, Unreadable, Files
    <2>3. run[dir["snapshot"]].kind = "recall"
      BY <1>1, <2>2, HookFacts DEF HookInv, Owned, WriterOf
    <2>4. LiveAnswer(Loaded("snapshot").of)
      BY <2>2, <2>3 DEF HookInv, FilesSound
    <2>5. Loaded("snapshot").of \in SUBSET (Rules \cup Runs)
      BY <1>1, <2>2 DEF HookTypes
    <2>6. run[h].answer # "refused"
      BY <1>4 DEF ServesSnapshot
    <2> QED
      BY <1>1, <1>2, <1>3, <2>1, <2>4, <2>5, <2>6, EndKeeps
  <1>5. CASE ~ServesSnapshot(h)
    <2>1. run' = [run EXCEPT ![h] = EndedAs(run[h], {}, "off")]
      BY <1>5 DEF RecallFallsBack, EndedAs
    <2> QED
      BY <1>1, <1>2, <1>3, <2>1, EndKeeps
  <1> QED
    BY <1>4, <1>5

LEMMA PublishFailsKeeps ==
  ASSUME HookInv, NEW h \in Runs, PublishFails(h) PROVE HookInv'
  <1>1. /\ run[h] \in RunType /\ HookTypes /\ run[h].step = "written" /\ clashed \subseteq Files
        /\ UNCHANGED <<active, linked, dir, data, clashed, floor, ceiling, stops>>
    BY HookFacts DEF HookInv, HookTypes, PublishFails, Publishes, ruleVars,
       fileVars, past
  <1>2. CASE run[h].kind # "recall"
    <2>1. run' = [run EXCEPT ![h] = EndedAs(run[h], {}, "none")]
      <3>1. run' = [run EXCEPT ![h] = Ended(run[h], {})]
        BY <1>2 DEF PublishFails
      <3> QED
        BY <1>1, <3>1, EndedPlain
    <2>2. {} \in SUBSET (Rules \cup Runs)
      OBVIOUS
    <2> QED
      BY <1>1, <1>2, <2>1, <2>2, EndKeeps
  <1>3. CASE run[h].kind = "recall"
    <2>1. PICK r : r = [run[h] EXCEPT !.step = "failed"]
      OBVIOUS
    <2>2. run' = [run EXCEPT ![h] = r]
      BY <1>3, <2>1 DEF PublishFails
    <2>3. /\ r \in RunType /\ r.kind = "recall" /\ r.step = "failed" /\ r.answer = run[h].answer
      BY <1>1, <1>3, <2>1 DEF RunType, Steps
    <2>4. "snapshot" \in clashed
      <3>1. run[h].fd \in Runs /\ dir[TempOf(h)] = NoFile /\ FileOf(run[h].kind) = "snapshot"
        BY <1>1, <1>3 DEF HookInv, Opened, PublishFails, FileOf
      <3>2. ~InHand(h)
        BY <1>1, <3>1, NamesAssumption DEF InHand
      <3> QED
        BY <3>1, <3>2 DEF HookInv, OneAtATime
    <2>5. \A g \in Runs : run[g].answer = "live" => run'[g].answer = "live"
      BY <1>1, <2>2, <2>3 DEF HookTypes
    <2>6. RunSound(h, r)
      BY <2>3, <2>4 DEF RunSound, KindOk, RuleOk, RecallOk, CountOk, Under
    <2>7. RunSound(h, r)'
      BY <1>1, <2>3, <2>5, <2>6, SoundKept
    <2>8. FileOf(r.kind) \notin clashed => Busy(FileOf(r.kind)) \subseteq {h}
      <3>1. FileOf(r.kind) = "snapshot"
        BY <2>3 DEF FileOf
      <3> QED
        BY <2>4, <3>1
    <2> QED
      BY <1>1, <1>3, <2>2, <2>3, <2>7, <2>8, QuietKeeps DEF Left
  <1> QED
    BY <1>2, <1>3

(* A run that begins knows of a clash when another is at its file.         *)
LEMMA BeginKeeps ==
  ASSUME HookInv, NEW h \in Runs, NEW r \in RunType, Begins(h), run' = [run EXCEPT ![h] = r],
         UNCHANGED <<active, linked, dir, data, floor, ceiling, stops>>,
         \/ r.step = "done" /\ clashed' = clashed
         \/ Clash(r.kind) /\ r.kind \in {"status", "recall", "stop"},
         r.step \notin {"new", "opened", "written"}, RunSound(h, r)
  PROVE  HookInv'
  <1>1. run[h].step = "new" /\ clashed \subseteq clashed' /\ clashed' \subseteq Files /\ HookTypes
    BY DEF Begins, Fresh, Clash, FileOf, Files, HookInv, HookTypes
  <1>2. \A g \in Runs : run[g].answer = "live" => run'[g].answer = "live"
    BY <1>1 DEF HookInv, HookTypes, Untouched
  <1>3. RunSound(h, r)'
    BY <1>1, <1>2, SoundKept
  <1>4. r.step # "done" /\ FileOf(r.kind) \notin clashed' => Busy(FileOf(r.kind)) \subseteq {h}
    BY DEF Clash
  <1> QED
    BY <1>1, <1>3, <1>4, QuietKeeps DEF Left

LEMMA FanOutKeeps ==
  ASSUME HookInv, NEW h \in Runs, FanOut(h) PROVE HookInv'
  <1>1. PICK r : r = [Fresh EXCEPT !.kind = "status", !.step = "listing",
                        !.todo = {"own"} \cup IF linked THEN {"linked"} ELSE {},
                        !.always = Governing, !.ever = active]
    OBVIOUS
  <1>2. HookTypes
    BY DEF HookInv
  <1>3. /\ r.kind = "status" /\ r.step = "listing" /\ r.got = {} /\ r.ever = active
        /\ r.todo = {"own"} \cup (IF linked THEN {"linked"} ELSE {}) /\ r.always = Governing
        /\ r.fd = NoFile /\ r.answer = "none" /\ r.shown = "none"
        /\ r = [kind |-> r.kind, step |-> r.step, fd |-> r.fd, got |-> r.got, todo |-> r.todo,
                always |-> r.always, ever |-> r.ever, answer |-> r.answer, shown |-> r.shown]
    BY <1>1 DEF Fresh
  <1>4. Governing \subseteq active /\ active \subseteq Rules /\ linked \in BOOLEAN
    BY <1>2 DEF Governing, HookTypes
  <1>5. r \in RunType
    BY <1>3, <1>4 DEF RunType, Steps, Kinds
  <1>6. \A x \in Governing : Home[x] \in r.todo
    BY <1>3, <1>4, HookBounds DEF Governing, Reach
  <1>7. RunSound(h, r)
    BY <1>3, <1>4, <1>6 DEF RunSound, KindOk, RuleOk, RecallOk, CountOk, Under
  <1>8. /\ Begins(h) /\ run' = [run EXCEPT ![h] = r] /\ Clash("status")
        /\ UNCHANGED <<active, linked, dir, data, floor, ceiling, stops>>
    BY <1>1 DEF FanOut, ruleVars, fileVars, past
  <1> QED
    BY <1>3, <1>5, <1>7, <1>8, BeginKeeps

LEMMA RecalledKeeps ==
  ASSUME HookInv, NEW h \in Runs, Recalled(h) PROVE HookInv'
  <1>1. PICK a \in {"live", "nothing", "transient", "refused"} :
          run' = [run EXCEPT ![h] = [Fresh EXCEPT !.kind = "recall", !.answer = a, !.got = {h},
                    !.step = CASE a = "live" -> "ready" [] a = "nothing" -> "done"
                               [] OTHER -> "failed",
                    !.shown = IF a = "nothing" THEN "live" ELSE "none"]]
    BY DEF Recalled
  <1>2. PICK r : r = [Fresh EXCEPT !.kind = "recall", !.answer = a, !.got = {h},
                        !.step = CASE a = "live" -> "ready" [] a = "nothing" -> "done"
                                   [] OTHER -> "failed",
                        !.shown = IF a = "nothing" THEN "live" ELSE "none"]
    OBVIOUS
  <1>3. /\ r.kind = "recall" /\ r.got = {h} /\ r.answer = a /\ r.fd = NoFile /\ r.todo = {}
        /\ r.always = {} /\ r.ever = {}
        /\ r.step = (CASE a = "live" -> "ready" [] a = "nothing" -> "done" [] OTHER -> "failed")
        /\ r.shown = (IF a = "nothing" THEN "live" ELSE "none")
        /\ r = [kind |-> r.kind, step |-> r.step, fd |-> r.fd, got |-> r.got, todo |-> r.todo,
                always |-> r.always, ever |-> r.ever, answer |-> r.answer, shown |-> r.shown]
    BY <1>2 DEF Fresh
  <1>4. /\ r.step \in {"ready", "done", "failed"} /\ (r.step = "ready" => a = "live")
        /\ (r.step = "failed" => a # "live") /\ r.shown \in {"live", "none"}
    BY <1>3
  <1>5. r \in RunType
    BY <1>3, <1>4 DEF RunType, Steps, Kinds
  <1>6. RunSound(h, r)
    BY <1>3, <1>4 DEF RunSound, KindOk, RuleOk, RecallOk, CountOk, Under
  <1>7. /\ Begins(h) /\ run' = [run EXCEPT ![h] = r] /\ Clash("recall")
        /\ UNCHANGED <<active, linked, dir, data, floor, ceiling, stops>>
    BY <1>1, <1>2 DEF Recalled, ruleVars, fileVars, past
  <1> QED
    BY <1>3, <1>4, <1>5, <1>6, <1>7, BeginKeeps

LEMMA ReadCountersKeeps ==
  ASSUME HookInv, NEW h \in Runs, ReadCounters(h) PROVE HookInv'
  <1>1. PICK r : r = [Fresh EXCEPT !.kind = "stop", !.step = "ready",
                        !.got = Loaded("stats").of \cup {h}]
    OBVIOUS
  <1>2. HookTypes
    BY DEF HookInv
  <1>3. /\ r.kind = "stop" /\ r.step = "ready" /\ r.got = Loaded("stats").of \cup {h}
        /\ r.fd = NoFile /\ r.answer = "none" /\ r.shown = "none"
        /\ r.todo = {} /\ r.always = {} /\ r.ever = {}
        /\ r = [kind |-> r.kind, step |-> r.step, fd |-> r.fd, got |-> r.got, todo |-> r.todo,
                always |-> r.always, ever |-> r.ever, answer |-> r.answer, shown |-> r.shown]
    BY <1>1 DEF Fresh
  <1>4. Loaded("stats").of \in SUBSET (Rules \cup Runs)
    BY <1>2, HookFacts DEF Loaded, Unreadable, HookTypes
  <1>5. r \in RunType
    BY <1>3, <1>4 DEF RunType, Steps, Kinds
  <1>6. RunSound(h, r)
    <2>1. CountOk(h, r)
      BY <1>3 DEF HookInv, FilesSound, CountOk
    <2> QED
      BY <1>3, <2>1 DEF RunSound, KindOk, RuleOk, RecallOk, Under
  <1>7. /\ Begins(h) /\ run' = [run EXCEPT ![h] = r] /\ Clash("stop")
        /\ UNCHANGED <<active, linked, dir, data, floor, ceiling, stops>>
    BY <1>1 DEF ReadCounters, ruleVars, fileVars, past
  <1> QED
    BY <1>3, <1>5, <1>6, <1>7, BeginKeeps

LEMMA EnforceKeeps ==
  ASSUME HookInv, NEW h \in Runs, Enforce(h) PROVE HookInv'
  <1>1. PICK r : r = [Fresh EXCEPT !.kind = "enforce", !.step = "done",
                        !.got = Loaded("rules").of, !.shown = Decision(Loaded("rules").of),
                        !.always = floor, !.ever = ceiling,
                        !.answer = IF "rules" \in clashed THEN "clashed" ELSE "none"]
    OBVIOUS
  <1>2. HookTypes
    BY DEF HookInv
  <1>3. /\ r.kind = "enforce" /\ r.step = "done" /\ r.got = Loaded("rules").of
        /\ r.shown = Decision(Loaded("rules").of) /\ r.always = floor /\ r.ever = ceiling
        /\ r.answer = (IF "rules" \in clashed THEN "clashed" ELSE "none")
        /\ r.fd = NoFile /\ r.todo = {}
        /\ r = [kind |-> r.kind, step |-> r.step, fd |-> r.fd, got |-> r.got, todo |-> r.todo,
                always |-> r.always, ever |-> r.ever, answer |-> r.answer, shown |-> r.shown]
    BY <1>1 DEF Fresh
  <1>4. Loaded("rules").of \in SUBSET (Rules \cup Runs)
    BY <1>2, HookFacts DEF Loaded, Unreadable, HookTypes
  <1>5. r.shown \in {"deny", "defer", "ask"}
    BY <1>3 DEF Decision
  <1>6. r \in RunType
    BY <1>2, <1>3, <1>4, <1>5 DEF HookTypes, RunType, Steps, Kinds
  <1>7. RunSound(h, r)
    <2>1. RuleOk(r)
      BY <1>3 DEF HookInv, FilesSound, RuleOk
    <2> QED
      BY <1>3, <2>1 DEF RunSound, KindOk, RecallOk, CountOk, Under
  <1>8. /\ Begins(h) /\ run' = [run EXCEPT ![h] = r] /\ clashed' = clashed
        /\ UNCHANGED <<active, linked, dir, data, floor, ceiling, stops>>
    BY <1>1 DEF Enforce, ruleVars, fileVars, past
  <1> QED
    BY <1>3, <1>6, <1>7, <1>8, BeginKeeps

LEMMA ListOneKeeps ==
  ASSUME HookInv, NEW h \in Runs, ListOne(h) PROVE HookInv'
  <1>1. PICK s \in run[h].todo :
          /\ run[h].step = "listing" /\ ("own" \in run[h].todo => s = "own")
          /\ run' = [run EXCEPT ![h] = [run[h] EXCEPT
               !.got = run[h].got \cup {x \in active : Home[x] = s}, !.todo = run[h].todo \ {s},
               !.step = IF run[h].todo = {s} THEN "ready" ELSE "listing"]]
          /\ UNCHANGED <<ruleVars, fileVars, clashed, past>>
    BY Zenon DEF ListOne
  <1>a. UNCHANGED <<active, linked, dir, data, clashed, floor, ceiling, stops>>
    BY <1>1 DEF ruleVars, fileVars, past
  <1>2. PICK q : q = run[h]
    OBVIOUS
  <1> DEFINE e == [q EXCEPT !.got = q.got \cup {x \in active : Home[x] = s},
                            !.todo = q.todo \ {s},
                            !.step = IF q.todo = {s} THEN "ready" ELSE "listing"]
  <1>3. PICK r : r = e
    <2> HIDE DEF e
    <2> QED
      OBVIOUS
  <1>4. q \in RunType /\ HookTypes /\ clashed \subseteq Files /\ active \subseteq Rules
    BY <1>2, HookFacts DEF HookInv, HookTypes
  <1>5. /\ r.kind = q.kind /\ r.answer = q.answer /\ r.always = q.always /\ r.ever = q.ever
        /\ r.got = q.got \cup {x \in active : Home[x] = s} /\ r.todo = q.todo \ {s}
        /\ r.step = (IF q.todo = {s} THEN "ready" ELSE "listing")
        /\ r.fd = q.fd /\ r.shown = q.shown
        /\ r = [kind |-> r.kind, step |-> r.step, fd |-> r.fd, got |-> r.got, todo |-> r.todo,
                always |-> r.always, ever |-> r.ever, answer |-> r.answer, shown |-> r.shown]
    BY <1>3, <1>4 DEF RunType
  <1>6. r.got \in SUBSET (Rules \cup Runs) /\ r.todo \in SUBSET {"own", "linked"}
        /\ r.step \in {"ready", "listing"}
    BY <1>4, <1>5, RunFields
  <1>7. r \in RunType
    BY <1>4, <1>5, <1>6 DEF RunType, Steps
  <1>8. /\ q.kind = "status" /\ q.always \subseteq active /\ active \subseteq q.ever
        /\ q.got \subseteq q.ever /\ \A x \in q.always : x \in q.got \/ Home[x] \in q.todo
    BY <1>1, <1>2 DEF HookInv, RunSound, KindOk, RuleOk
  <1>9. RuleOk(r)
    <2>1. /\ r.always \subseteq active /\ active \subseteq r.ever /\ r.got \subseteq r.ever
          /\ \A x \in r.always : x \in r.got \/ Home[x] \in r.todo
      BY <1>5, <1>8
    <2>2. r.step = "ready" => r.always \subseteq r.got
      <3>1. r.step = "ready" => r.todo = {}
        BY <1>5
      <3> QED
        BY <2>1, <3>1
    <2>3. r.kind # "enforce" /\ (r.step = "ready" \/ r.step = "listing")
      BY <1>5, <1>8
    <2>4. r.step \in Under => r.step = "ready"
      BY <2>3 DEF Under
    <2> QED
      BY <2>1, <2>2, <2>3, <2>4 DEF RuleOk
  <1>10. RunSound(h, r)
    BY <1>5, <1>6, <1>8, <1>9 DEF RunSound, KindOk, RecallOk, CountOk, Under
  <1>11. \A g \in Runs : run[g].answer = "live" => run'[g].answer = "live"
    BY <1>1, <1>2, <1>3, <1>4, <1>5 DEF HookTypes
  <1>12. RunSound(h, r)'
    BY <1>a, <1>10, <1>11, SoundKept
  <1>13. FileOf(r.kind) \notin clashed => Busy(FileOf(r.kind)) \subseteq {h}
    <2>1. h \in Busy(FileOf(r.kind))
      BY <1>1, <1>2, <1>5 DEF Busy
    <2>2. FileOf(r.kind) = "rules"
      BY <1>5, <1>8 DEF FileOf
    <2> QED
      BY <2>1, <2>2 DEF HookInv, OneAtATime, Files
  <1>14. run' = [run EXCEPT ![h] = r]
    BY <1>1, <1>2, <1>3
  <1>15. /\ run[h].step \notin Left /\ r.kind = run[h].kind /\ r.answer = run[h].answer
         /\ r.step \notin {"new", "opened", "written"}
    BY <1>1, <1>2, <1>5, <1>6 DEF Left
  <1> QED
    BY <1>a, <1>4, <1>7, <1>12, <1>13, <1>14, <1>15, QuietKeeps

(* Two invocations at files in order do not write through the same name.   *)
LEMMA TempsApart ==
  ASSUME HookInv, NEW g \in Runs, NEW h \in Runs, g # h, run[h].step \in Under,
         run[g].step \in {"opened", "written"},
         FileOf(run[g].kind) \notin clashed \/ run[g].kind = "stop"
  PROVE  TempOf(g) # TempOf(h)
  <1>1. /\ run[g].kind \in {"status", "recall", "stop"}
        /\ run[h].kind \in {"status", "recall", "stop"}
    BY DEF HookInv, RunSound, KindOk, Under
  <1>2. /\ \A k \in Runs : run[k].kind = "stop" => TempOf(k) = k
        /\ \A k \in Runs : run[k].kind = "status" => TempOf(k) = "rules.tmp" /\ FileOf(run[k].kind) = "rules"
        /\ \A k \in Runs : run[k].kind = "recall" => TempOf(k) = "snapshot.tmp" /\ FileOf(run[k].kind) = "snapshot"
    BY DEF TempOf, FileOf, Shared
  <1>3. g \notin Temps /\ h \notin Temps
    BY HookFacts DEF HookInv
  <1>4. run[g].kind = run[h].kind => run[g].kind = "stop"
    <2> SUFFICES ASSUME run[g].kind = run[h].kind, run[g].kind # "stop" PROVE FALSE
      OBVIOUS
    <2>1. FileOf(run[g].kind) \in Files \ clashed
      BY <1>1, <1>2 DEF Files
    <2>2. g \in Busy(FileOf(run[g].kind)) /\ h \in Busy(FileOf(run[g].kind))
      BY DEF Busy, Under
    <2> QED
      BY <2>1, <2>2 DEF HookInv, OneAtATime
  <1> QED
    BY <1>1, <1>2, <1>3, <1>4 DEF Temps

LEMMA TempKind ==
  ASSUME HookInv, NEW h \in Runs, run[h].step \in Under
  PROVE  /\ run[h].kind \in {"status", "recall", "stop"} /\ WriterOf(TempOf(h)) = run[h].kind
         /\ WriterOf(FileOf(run[h].kind)) = run[h].kind /\ FileOf(run[h].kind) \in Files
         /\ TempOf(h) \in Names /\ TempOf(h) \notin Files /\ TempOf(h) # "stats.tmp"
         /\ \A g \in Runs : TempOf(h) = g => g = h /\ run[h].kind = "stop"
         /\ run[h].kind = "stop" => TempOf(h) = h
  <1>1. run[h].kind \in {"status", "recall", "stop"}
    BY DEF HookInv, RunSound, KindOk
  <1>2. \A g \in Runs : g \notin Files /\ g \notin Temps
    BY HookFacts DEF HookInv
  <1>3. TempOf(h) \in Names /\ TempOf(h) \notin Files
    BY HookFacts DEF HookInv
  <1>4. CASE run[h].kind = "stop"
    BY <1>2, <1>3, <1>4 DEF TempOf, FileOf, WriterOf, Files, Temps
  <1>5. CASE run[h].kind = "status"
    BY <1>2, <1>3, <1>5 DEF TempOf, FileOf, Shared, WriterOf, Files, Temps
  <1>6. CASE run[h].kind = "recall"
    BY <1>2, <1>3, <1>6 DEF TempOf, FileOf, Shared, WriterOf, Files, Temps
  <1> QED
    BY <1>1, <1>4, <1>5, <1>6

LEMMA LiveStays ==
  ASSUME NEW c, LiveAnswer(c), \A g \in Runs : run[g].answer = "live" => run'[g].answer = "live"
  PROVE  LiveAnswer(c)'
  BY DEF LiveAnswer

LEMMA OpenTempKeeps ==
  ASSUME HookInv, NEW h \in Runs, OpenTemp(h) PROVE HookInv'
  <1>1. PICK T : T = TempOf(h)
    OBVIOUS
  <1>2. PICK i : i = IF dir[T] = NoFile THEN h ELSE dir[T]
    OBVIOUS
  <1>3. /\ run[h].step = "ready" /\ dir' = [dir EXCEPT ![T] = i]
        /\ data' = [data EXCEPT ![i] = Unreadable]
        /\ run' = [run EXCEPT ![h].step = "opened", ![h].fd = i]
        /\ UNCHANGED <<active, linked, clashed, floor, ceiling, stops>>
    BY <1>1, <1>2 DEF OpenTemp, ruleVars, past
  <1>4. HookTypes /\ run[h].step \in Under
    BY <1>3 DEF HookInv, Under
  <1>5. /\ run[h].kind \in {"status", "recall", "stop"} /\ WriterOf(T) = run[h].kind
        /\ T \in Names /\ T \notin Files /\ T # "stats.tmp"
        /\ \A g \in Runs : T = g => g = h /\ run[h].kind = "stop"
        /\ run[h].kind = "stop" => T = h
    BY <1>1, <1>4, TempKind
  <1>6. \A n \in Names : dir[n] # h
    BY <1>3, <1>4, HookFacts DEF HookInv, Owned, Left
  <1>7. /\ i \in Runs /\ i # NoFile /\ (i # h => dir[T] = i)
        /\ \A n \in Names : dir[n] = i => n = T
        /\ i # h => run[i].step \in Left /\ run[i].kind = run[h].kind
    <2>1. i \in Runs /\ i # NoFile
      BY <1>2, <1>4, <1>5, HookFacts
    <2> QED
      BY <1>2, <1>5, <1>6, <2>1 DEF HookInv, Owned
  <1>8. run[h].kind = "stop" => i = h
    BY <1>2, <1>5, <1>6 DEF HookInv, Owned, Names
  <1>9. PICK q : q = run[h]
    OBVIOUS
  <1>10. PICK r : r = [[q EXCEPT !.step = "opened"] EXCEPT !.fd = i]
    OBVIOUS
  <1>11. q \in RunType
    BY <1>4, <1>9 DEF HookTypes
  <1>12. /\ r.kind = q.kind /\ r.step = "opened" /\ r.fd = i /\ r.got = q.got /\ r.todo = q.todo
         /\ r.always = q.always /\ r.ever = q.ever /\ r.answer = q.answer /\ r.shown = q.shown
         /\ r \in RunType
    BY <1>7, <1>10, <1>11 DEF RunType, Steps
  <1>13. /\ \A g \in Runs : run'[g] = IF g = h THEN r ELSE run[g]
         /\ run' \in [Runs -> RunType]
    BY <1>3, <1>4, <1>9, <1>10, <1>12 DEF HookTypes
  <1>14. /\ \A n \in Names : dir'[n] = IF n = T THEN i ELSE dir[n]
         /\ dir' \in [Names -> Runs \cup {NoFile}]
    BY <1>3, <1>4, <1>5, <1>7 DEF HookTypes
  <1>15. /\ \A g \in Runs : data'[g] = IF g = i THEN Unreadable ELSE data[g]
         /\ data' \in [Runs -> [whole : BOOLEAN, of : SUBSET (Rules \cup Runs)]]
    BY <1>3, <1>4, <1>7 DEF HookTypes, Unreadable
  <1>16. HookTypes'
    BY <1>3, <1>4, <1>13, <1>14, <1>15 DEF HookTypes
  <1>17. \A g \in Runs : /\ run'[g].kind = run[g].kind /\ run'[g].answer = run[g].answer
                         /\ run[g].step \in Left => run'[g].step \in Left
                         /\ run'[g].got = run[g].got
    BY <1>9, <1>12, <1>13 DEF Left
  <1>18. run'[i].step \in Left /\ run'[i].kind = run[h].kind
    BY <1>7, <1>9, <1>12, <1>13 DEF Left
  <1>19. Owned'
    <2>1. \A n \in Names : dir'[n] # NoFile =>
            run'[dir'[n]].step \in Left /\ run'[dir'[n]].kind = WriterOf(n)
      <3> SUFFICES ASSUME NEW n \in Names, dir'[n] # NoFile
                   PROVE  run'[dir'[n]].step \in Left /\ run'[dir'[n]].kind = WriterOf(n)
        OBVIOUS
      <3>1. CASE n = T
        BY <1>5, <1>14, <1>18, <3>1
      <3>2. CASE n # T
        <4>1. dir'[n] = dir[n] /\ dir[n] \in Runs
          BY <1>4, <1>14, <3>2, HookFacts
        <4>2. run[dir[n]].step \in Left /\ run[dir[n]].kind = WriterOf(n)
          BY <4>1 DEF HookInv, Owned
        <4> QED
          BY <1>17, <4>1, <4>2
      <3> QED
        BY <3>1, <3>2
    <2>2. \A n, m \in Names : dir'[n] # NoFile /\ dir'[n] = dir'[m] => n = m
      BY <1>7, <1>14 DEF HookInv, Owned
    <2>3. dir'["stats.tmp"] = NoFile
      BY <1>4, <1>5, <1>14, HookFacts DEF HookInv, Owned
    <2>4. \A g \in Runs : dir'[g] \in {g, NoFile}
      BY <1>4, <1>5, <1>8, <1>14, HookFacts DEF HookInv, Owned
    <2> QED
      BY <2>1, <2>2, <2>3, <2>4 DEF Owned, WriterOf, Names
  <1>20. Opened'
    <2> SUFFICES ASSUME NEW g \in Runs, run'[g].step \in {"opened", "written"}
                 PROVE  /\ run'[g].fd \in Runs /\ run'[run'[g].fd].step \in Left
                        /\ run'[run'[g].fd].kind = run'[g].kind
                        /\ run'[g].kind = "stop" => run'[g].fd = g
      BY DEF Opened
    <2>1. CASE g = h
      BY <1>7, <1>8, <1>9, <1>12, <1>13, <1>18, <2>1
    <2>2. CASE g # h
      <3>1. run'[g] = run[g]
        BY <1>13, <2>2
      <3>2. /\ run[g].fd \in Runs /\ run[run[g].fd].step \in Left
            /\ run[run[g].fd].kind = run[g].kind
            /\ run[g].kind = "stop" => run[g].fd = g
        BY <3>1 DEF HookInv, Opened
      <3> QED
        BY <1>17, <3>1, <3>2
    <2> QED
      BY <2>1, <2>2
  <1>21. OneAtATime'
    <2>1. \A f : Busy(f)' = Busy(f)
      BY <1>3, <1>9, <1>12, <1>13 DEF Busy
    <2>2. ASSUME NEW g \in Runs, FileOf(run'[g].kind) \notin clashed' \/ run'[g].kind = "stop"
          PROVE  InHand(g)'
      <3>1. CASE g = h
        <4>1. TempOf(h)' = T
          BY <1>1, <1>17 DEF TempOf
        <4> QED
          BY <1>5, <1>7, <1>12, <1>13, <1>14, <1>15, <3>1, <4>1 DEF InHand
      <3>2. CASE g # h
        <4>1. run'[g] = run[g] /\ TempOf(g)' = TempOf(g)
          BY <1>13, <3>2 DEF TempOf
        <4>2. InHand(g)
          BY <1>3, <2>2, <4>1 DEF HookInv, OneAtATime
        <4>3. CASE run[g].step \in {"opened", "written"}
          <5>1. TempOf(g) # T /\ TempOf(g) \in Names
            BY <1>1, <1>3, <1>4, <2>2, <3>2, <4>1, <4>3, TempsApart, HookFacts
          <5>2. dir[TempOf(g)] = run[g].fd /\ run[g].fd \in Runs
            BY <4>2, <4>3 DEF InHand, HookInv, Opened
          <5>3. run[g].fd # i
            BY <1>7, <5>1, <5>2
          <5> QED
            BY <1>14, <1>15, <4>1, <4>2, <5>1, <5>2, <5>3 DEF InHand
        <4>4. CASE run[g].step \notin {"opened", "written"}
          BY <4>1, <4>4 DEF InHand
        <4> QED
          BY <4>3, <4>4
      <3> QED
        BY <3>1, <3>2
    <2> QED
      BY <1>3, <2>1, <2>2 DEF HookInv, OneAtATime
  <1>22. FilesSound'
    <2>1. \A f \in Files : dir'[f] = dir[f] /\ (dir[f] # NoFile => dir[f] \in Runs /\ data'[dir[f]] = data[dir[f]])
      BY <1>4, <1>5, <1>7, <1>14, <1>15, HookFacts
    <2>2. \A f \in Files : Loaded(f)' = Loaded(f)
      BY <2>1 DEF Loaded
    <2>3. ASSUME NEW g \in Runs, run'[g].kind = "recall", data'[g].whole
          PROVE  LiveAnswer(data[g].of)'
      <3>1. g # i /\ data'[g] = data[g] /\ run[g].kind = "recall"
        BY <1>15, <1>17, <2>3 DEF Unreadable
      <3>2. PICK x : x = data[g].of
        OBVIOUS
      <3>3. LiveAnswer(x)
        BY <2>3, <3>1, <3>2 DEF HookInv, FilesSound
      <3>4. LiveAnswer(x)'
        BY <1>17, <3>3, LiveStays
      <3> QED
        BY <3>1, <3>2, <3>4 DEF LiveAnswer
    <2>4. Loaded("stats")' = Loaded("stats") /\ Loaded("rules")' = Loaded("rules")
      BY <2>2 DEF Files
    <2>5. dir'["stats"] # NoFile => data'[dir'["stats"]].whole
      BY <2>1 DEF HookInv, FilesSound, Files
    <2> QED
      BY <1>3, <2>3, <2>4, <2>5 DEF HookInv, FilesSound
  <1>23. Untouched'
    BY <1>12, <1>13, <1>15 DEF HookInv, Untouched, Unreadable
  <1>24. ASSUME NEW g \in Runs PROVE RunSound(g, run[g])'
    <2>1. PICK p : p = run'[g]
      OBVIOUS
    <2>2. RunSound(g, p)
      <3>1. CASE g = h
        <4>1. RunSound(h, q)
          BY <1>9 DEF HookInv
        <4>2. p = r
          BY <1>13, <2>1, <3>1
        <4>3. q.step = "ready" /\ q.kind \in {"status", "recall", "stop"}
          BY <1>3, <1>5, <1>9
        <4> QED
          BY <1>12, <3>1, <4>1, <4>2, <4>3
          DEF RunSound, KindOk, RuleOk, RecallOk, CountOk, Under
      <3>2. CASE g # h
        BY <1>13, <2>1, <3>2 DEF HookInv
      <3> QED
        BY <3>1, <3>2
    <2>3. RunSound(g, p)'
      BY <1>3, <1>17, <2>2, SoundKept
    <2> QED
      BY <2>1, <2>3
  <1> QED
    BY <1>16, <1>19, <1>20, <1>21, <1>22, <1>23, <1>24 DEF HookInv

LEMMA WriteTempKeeps ==
  ASSUME HookInv, NEW h \in Runs, WriteTemp(h) PROVE HookInv'
  <1>1. PICK i : i = run[h].fd
    OBVIOUS
  <1>2. PICK c \in Mixed(data[i], Whole(run[h].got)) : data' = [data EXCEPT ![i] = c]
    BY <1>1 DEF WriteTemp
  <1>3. /\ run[h].step = "opened" /\ run' = [run EXCEPT ![h].step = "written"]
        /\ UNCHANGED <<active, linked, dir, clashed, floor, ceiling, stops>>
    BY DEF WriteTemp, ruleVars, past
  <1>4. HookTypes /\ run[h].step \in Under /\ run[h].step \in Left
    BY <1>3 DEF HookInv, Under, Left
  <1>5. /\ i \in Runs /\ run[i].step \in Left /\ run[i].kind = run[h].kind
        /\ run[h].kind = "stop" => i = h
    BY <1>1, <1>3 DEF HookInv, Opened
  <1>6. /\ c = Whole(run[h].got) \/ c = Unreadable
        /\ data[i] = Unreadable => c = Whole(run[h].got)
    BY <1>2 DEF Mixed, Unreadable
  <1>7. run[h].got \in SUBSET (Rules \cup Runs)
    BY <1>4, HookFacts
  <1>8. c \in [whole : BOOLEAN, of : SUBSET (Rules \cup Runs)]
    <2>1. Unreadable \in [whole : BOOLEAN, of : SUBSET (Rules \cup Runs)]
      BY DEF Unreadable
    <2>2. Whole(run[h].got) \in [whole : BOOLEAN, of : SUBSET (Rules \cup Runs)]
      BY <1>7 DEF Whole
    <2> QED
      BY <1>6, <2>1, <2>2
  <1>9. /\ \A g \in Runs : data'[g] = IF g = i THEN c ELSE data[g]
        /\ data' \in [Runs -> [whole : BOOLEAN, of : SUBSET (Rules \cup Runs)]]
    BY <1>2, <1>4, <1>5, <1>8 DEF HookTypes
  <1>10. PICK q : q = run[h]
    OBVIOUS
  <1>11. PICK r : r = [q EXCEPT !.step = "written"]
    OBVIOUS
  <1>12. q \in RunType
    BY <1>4, <1>10 DEF HookTypes
  <1>13. /\ r.kind = q.kind /\ r.step = "written" /\ r.fd = q.fd /\ r.got = q.got /\ r.todo = q.todo
         /\ r.always = q.always /\ r.ever = q.ever /\ r.answer = q.answer /\ r.shown = q.shown
         /\ r \in RunType
    BY <1>11, <1>12 DEF RunType, Steps
  <1>14. /\ \A g \in Runs : run'[g] = IF g = h THEN r ELSE run[g]
         /\ run' \in [Runs -> RunType]
    BY <1>3, <1>4, <1>10, <1>11, <1>13 DEF HookTypes
  <1>15. HookTypes'
    BY <1>3, <1>4, <1>9, <1>14 DEF HookTypes
  <1>16. \A g \in Runs : /\ run'[g].kind = run[g].kind /\ run'[g].answer = run[g].answer
                         /\ run'[g].fd = run[g].fd /\ run'[g].got = run[g].got
                         /\ run[g].step \in Left => run'[g].step \in Left
    BY <1>10, <1>13, <1>14 DEF Left
  <1>17. Owned'
    <2>1. \A n \in Names : dir[n] # NoFile => dir[n] \in Runs
      BY <1>4, HookFacts
    <2> QED
      BY <1>3, <1>16, <2>1 DEF HookInv, Owned, Names, WriterOf
  <1>18. Opened'
    <2> SUFFICES ASSUME NEW g \in Runs, run'[g].step \in {"opened", "written"}
                 PROVE  /\ run'[g].fd \in Runs /\ run'[run'[g].fd].step \in Left
                        /\ run'[run'[g].fd].kind = run'[g].kind
                        /\ run'[g].kind = "stop" => run'[g].fd = g
      BY DEF Opened
    <2>1. run[g].step \in {"opened", "written"}
      BY <1>3, <1>14
    <2>2. /\ run[g].fd \in Runs /\ run[run[g].fd].step \in Left
          /\ run[run[g].fd].kind = run[g].kind
          /\ run[g].kind = "stop" => run[g].fd = g
      BY <2>1 DEF HookInv, Opened
    <2> QED
      BY <1>16, <2>2
  <1>19. OneAtATime'
    <2>1. \A f : Busy(f)' = Busy(f)
      BY <1>3, <1>10, <1>13, <1>14 DEF Busy
    <2>2. ASSUME NEW g \in Runs, FileOf(run'[g].kind) \notin clashed' \/ run'[g].kind = "stop"
          PROVE  InHand(g)'
      <3>0. /\ FileOf(run[g].kind) \notin clashed \/ run[g].kind = "stop"
            /\ TempOf(g)' = TempOf(g)
        BY <1>3, <1>16, <2>2 DEF TempOf
      <3>1. InHand(g)
        BY <3>0 DEF HookInv, OneAtATime
      <3>2. CASE g = h
        <4>1. data[i] = Unreadable /\ dir[TempOf(h)] = i
          BY <1>1, <1>3, <3>1, <3>2 DEF InHand
        <4>2. data'[i] = Whole(q.got)
          BY <1>5, <1>6, <1>9, <1>10, <4>1
        <4> QED
          BY <1>1, <1>3, <1>10, <1>13, <1>14, <3>0, <3>2, <4>1, <4>2 DEF InHand,
             Whole
      <3>3. CASE g # h
        <4>1. run'[g] = run[g]
          BY <1>14, <3>3
        <4>2. CASE run[g].step \in {"opened", "written"}
          <5>1. TempOf(g) # TempOf(h)
            BY <1>4, <3>0, <3>3, <4>2, TempsApart
          <5>2. run[g].fd # i
            <6> SUFFICES ASSUME run[g].fd = i PROVE FALSE
              OBVIOUS
            <6>1. run[g].kind = run[h].kind /\ (run[g].kind = "stop" => g = i)
              BY <1>5, <4>2 DEF HookInv, Opened
            <6>2. run[g].kind # "stop"
              BY <1>5, <3>3, <6>1
            <6> QED
              BY <5>1, <6>1, <6>2 DEF TempOf
          <5>3. run[g].fd \in Runs
            BY <4>2 DEF HookInv, Opened
          <5> QED
            BY <1>3, <1>9, <3>0, <3>1, <4>1, <5>2, <5>3 DEF InHand, Whole,
               Unreadable
        <4>3. CASE run[g].step \notin {"opened", "written"}
          BY <4>1, <4>3 DEF InHand
        <4> QED
          BY <4>2, <4>3
      <3> QED
        BY <3>2, <3>3
    <2> QED
      BY <1>3, <2>1, <2>2 DEF HookInv, OneAtATime
  (* Nothing published is overwritten, but where others are known to write.*)
  <1>20. ASSUME NEW f \in Files, f \notin clashed \/ f = "stats", dir[f] # NoFile
         PROVE  dir[f] \in Runs /\ dir[f] # i
    <2>1. dir[f] \in Runs /\ f \in Names
      BY <1>4, <1>20, HookFacts
    <2> SUFFICES ASSUME dir[f] = i PROVE FALSE
      BY <2>1
    <2>2. run[h].kind = WriterOf(f)
      BY <1>5, <1>20, <2>1 DEF HookInv, Owned
    <2>3. /\ WriterOf("rules") = "status" /\ WriterOf("snapshot") = "recall"
          /\ WriterOf("stats") = "stop"
      BY DEF WriterOf
    <2>4. FileOf(run[h].kind) = f /\ (f = "stats" => run[h].kind = "stop")
      BY <2>2, <2>3 DEF FileOf, Files
    <2>5. InHand(h)
      BY <1>20, <2>4 DEF HookInv, OneAtATime
    <2>6. dir[TempOf(h)] = i /\ TempOf(h) \in Names /\ TempOf(h) \notin Files
      BY <1>1, <1>3, <1>4, <2>5, TempKind DEF InHand
    <2> QED
      BY <1>20, <2>1, <2>6 DEF HookInv, Owned
  <1>21. FilesSound'
    <2>1. \A f \in Files : f \notin clashed \/ f = "stats" => Loaded(f)' = Loaded(f)
      <3> SUFFICES ASSUME NEW f \in Files, f \notin clashed \/ f = "stats"
                   PROVE  Loaded(f)' = Loaded(f)
        OBVIOUS
      <3>1. dir'[f] = dir[f]
        BY <1>3
      <3>2. dir[f] # NoFile => data'[dir[f]] = data[dir[f]]
        BY <1>9, <1>20
      <3> QED
        BY <3>1, <3>2 DEF Loaded, Unreadable
    <2>2. dir'["stats"] # NoFile => data'[dir'["stats"]].whole
      BY <1>3, <1>9, <1>20 DEF HookInv, FilesSound, Files
    <2>3. ASSUME NEW g \in Runs, run'[g].kind = "recall", data'[g].whole
          PROVE  LiveAnswer(data[g].of)'
      <3>1. PICK x : x = data'[g].of
        OBVIOUS
      <3>2. CASE g # i
        <4>1. data'[g] = data[g] /\ run[g].kind = "recall"
          BY <1>9, <1>16, <2>3, <3>2
        <4>2. LiveAnswer(x)
          BY <2>3, <3>1, <4>1 DEF HookInv, FilesSound
        <4>3. LiveAnswer(x)'
          BY <1>16, <4>2, LiveStays
        <4> QED
          BY <3>1, <4>3 DEF LiveAnswer
      <3>3. CASE g = i
        <4>1. run[h].kind = "recall" /\ data'[g] = c
          BY <1>5, <1>9, <1>16, <2>3, <3>3
        <4>2. run[h].answer = "live" /\ run[h].got = {h}
          BY <1>4, <4>1 DEF HookInv, RunSound, RecallOk
        <4>3. x = {h} /\ run'[h].answer = "live"
          BY <1>6, <1>16, <2>3, <3>1, <4>1, <4>2 DEF Whole, Unreadable
        <4> QED
          BY <3>1, <4>3 DEF LiveAnswer
      <3> QED
        BY <3>2, <3>3
    <2>4. Loaded("stats")' = Loaded("stats")
      BY <2>1 DEF Files
    <2>5. "rules" \notin clashed => Loaded("rules")' = Loaded("rules")
      BY <2>1 DEF Files
    <2> QED
      BY <1>3, <2>2, <2>3, <2>4, <2>5 DEF HookInv, FilesSound
  <1>22. Untouched'
    BY <1>5, <1>9, <1>13, <1>14 DEF HookInv, Untouched, Left
  <1>23. ASSUME NEW g \in Runs PROVE RunSound(g, run[g])'
    <2>1. PICK p : p = run'[g]
      OBVIOUS
    <2>2. RunSound(g, p)
      <3>1. CASE g = h
        <4>1. RunSound(h, q)
          BY <1>10 DEF HookInv
        <4>2. p = r
          BY <1>14, <2>1, <3>1
        <4>3. q.step = "opened" /\ q.kind \in {"status", "recall", "stop"}
          BY <1>3, <1>4, <1>10, TempKind
        <4> QED
          BY <1>13, <3>1, <4>1, <4>2, <4>3
          DEF RunSound, KindOk, RuleOk, RecallOk, CountOk, Under
      <3>2. CASE g # h
        BY <1>14, <2>1, <3>2 DEF HookInv
      <3> QED
        BY <3>1, <3>2
    <2>3. RunSound(g, p)'
      BY <1>3, <1>16, <2>2, SoundKept
    <2> QED
      BY <2>1, <2>3
  <1> QED
    BY <1>15, <1>17, <1>18, <1>19, <1>21, <1>22, <1>23 DEF HookInv

LEMMA PublishKeeps ==
  ASSUME HookInv, NEW h \in Runs, Publish(h) PROVE HookInv'
  <1>1. PICK T : T = TempOf(h)
    OBVIOUS
  <1>2. PICK i : i = dir[T]
    OBVIOUS
  <1>3. PICK f : f = FileOf(run[h].kind)
    OBVIOUS
  <1>4. PICK q : q = run[h]
    OBVIOUS
  <1>5. PICK s : s = IF f = "snapshot" THEN "live" ELSE "none"
    OBVIOUS
  <1>6. PICK r : r = EndedAs(q, {}, s)
    OBVIOUS
  <1>7. /\ run[h].step = "written" /\ i # NoFile
        /\ dir' = [dir EXCEPT ![f] = i, ![T] = NoFile] /\ run' = [run EXCEPT ![h] = r]
        /\ floor' = IF f = "rules" THEN q.always ELSE floor
        /\ ceiling' = IF f = "rules" THEN q.ever ELSE ceiling
        /\ stops' = IF f = "stats" THEN stops \cup {h} ELSE stops
        /\ UNCHANGED <<active, linked, data, clashed>>
    BY <1>1, <1>2, <1>3, <1>4, <1>5, <1>6 DEF Publish, Publishes, ruleVars, EndedAs
  <1>8. HookTypes /\ run[h].step \in Under /\ run[h].step \in Left
    BY <1>7 DEF HookInv, Under, Left
  <1>9. /\ q.kind \in {"status", "recall", "stop"} /\ WriterOf(T) = q.kind /\ WriterOf(f) = q.kind
        /\ T \in Names /\ T \notin Files /\ T # "stats.tmp" /\ f \in Files /\ f \in Names /\ f # T
        /\ \A g \in Runs : T = g => g = h /\ q.kind = "stop"
    BY <1>1, <1>3, <1>4, <1>8, TempKind, HookFacts
  <1>10. /\ f = "stats" => q.kind = "stop"
         /\ f = "rules" => q.kind = "status"
         /\ q.kind = "recall" => f = "snapshot"
    BY <1>3, <1>4, <1>9 DEF FileOf
  <1>11. /\ i \in Runs /\ run[i].step \in Left /\ run[i].kind = q.kind
         /\ \A n \in Names : dir[n] = i => n = T
    BY <1>2, <1>7, <1>8, <1>9, HookFacts DEF HookInv, Owned
  <1>12. q \in RunType
    BY <1>4, <1>8, HookFacts
  <1>13. /\ r \in RunType /\ r.kind = q.kind /\ r.step = "done" /\ r.answer = q.answer
         /\ r.got = {} /\ r.shown = s
    <2>1. s \in {"none", "live", "stale", "off"} /\ {} \in SUBSET (Rules \cup Runs)
      BY <1>5
    <2> QED
      BY <1>6, <1>12, <2>1, EndedFields
  <1>14. /\ \A g \in Runs : run'[g] = IF g = h THEN r ELSE run[g]
         /\ run' \in [Runs -> RunType]
    BY <1>7, <1>8, <1>13 DEF HookTypes
  <1>15. /\ \A n \in Names : dir'[n] = IF n = T THEN NoFile ELSE IF n = f THEN i ELSE dir[n]
         /\ dir' \in [Names -> Runs \cup {NoFile}]
    BY <1>7, <1>8, <1>9, <1>11 DEF HookTypes
  <1>16. HookTypes'
    <2>1. q.always \in SUBSET Rules /\ q.ever \in SUBSET Rules
      BY <1>12, RunFields
    <2> QED
      BY <1>7, <1>8, <1>14, <1>15, <2>1 DEF HookTypes
  <1>17. \A g \in Runs : /\ run'[g].kind = run[g].kind /\ run'[g].answer = run[g].answer
                         /\ run[g].step \in Left => run'[g].step \in Left
    BY <1>4, <1>13, <1>14 DEF Left
  <1>18. Owned'
    <2>1. \A n \in Names : dir'[n] # NoFile =>
            run'[dir'[n]].step \in Left /\ run'[dir'[n]].kind = WriterOf(n)
      <3> SUFFICES ASSUME NEW n \in Names, dir'[n] # NoFile
                   PROVE  run'[dir'[n]].step \in Left /\ run'[dir'[n]].kind = WriterOf(n)
        OBVIOUS
      <3>1. CASE n = f
        BY <1>9, <1>11, <1>15, <1>17, <3>1
      <3>2. CASE n # f
        <4>1. dir'[n] = dir[n] /\ dir[n] \in Runs
          BY <1>8, <1>15, <3>2, HookFacts
        <4>2. run[dir[n]].step \in Left /\ run[dir[n]].kind = WriterOf(n)
          BY <4>1 DEF HookInv, Owned
        <4> QED
          BY <1>17, <4>1, <4>2
      <3> QED
        BY <3>1, <3>2
    <2>2. \A n, m \in Names : dir'[n] # NoFile /\ dir'[n] = dir'[m] => n = m
      BY <1>11, <1>15 DEF HookInv, Owned
    <2>3. dir'["stats.tmp"] = NoFile
      <3>1. "stats.tmp" \in Names /\ "stats.tmp" \notin Files
        BY DEF Names, Temps, Files
      <3> QED
        BY <1>9, <1>15, <3>1 DEF HookInv, Owned
    <2>4. \A g \in Runs : dir'[g] \in {g, NoFile}
      BY <1>8, <1>9, <1>15, HookFacts DEF HookInv, Owned
    <2> QED
      BY <2>1, <2>2, <2>3, <2>4 DEF Owned, WriterOf, Names
  <1>19. Opened'
    <2> SUFFICES ASSUME NEW g \in Runs, run'[g].step \in {"opened", "written"}
                 PROVE  /\ run'[g].fd \in Runs /\ run'[run'[g].fd].step \in Left
                        /\ run'[run'[g].fd].kind = run'[g].kind
                        /\ run'[g].kind = "stop" => run'[g].fd = g
      BY DEF Opened
    <2>1. run'[g] = run[g]
      BY <1>13, <1>14
    <2>2. /\ run[g].fd \in Runs /\ run[run[g].fd].step \in Left
          /\ run[run[g].fd].kind = run[g].kind
          /\ run[g].kind = "stop" => run[g].fd = g
      BY <2>1 DEF HookInv, Opened
    <2> QED
      BY <1>17, <2>1, <2>2
  <1>20. OneAtATime'
    <2>1. \A x : Busy(x)' \subseteq Busy(x)
      BY <1>13, <1>14 DEF Busy
    <2>2. ASSUME NEW g \in Runs, FileOf(run'[g].kind) \notin clashed' \/ run'[g].kind = "stop"
          PROVE  InHand(g)'
      <3>1. CASE run'[g].step \in {"opened", "written"}
        <4>1. g # h /\ run'[g] = run[g] /\ TempOf(g)' = TempOf(g)
          BY <1>13, <1>14, <3>1 DEF TempOf
        <4>2. InHand(g)
          BY <1>7, <2>2, <4>1 DEF HookInv, OneAtATime
        <4>3. TempOf(g) # T /\ TempOf(g) \in Names /\ TempOf(g) \notin Files
          BY <1>1, <1>7, <1>8, <2>2, <3>1, <4>1, TempsApart, HookFacts
        <4>4. dir'[TempOf(g)] = dir[TempOf(g)]
          BY <1>9, <1>15, <4>3
        <4> QED
          BY <1>7, <4>1, <4>2, <4>4 DEF InHand, Whole, Unreadable
      <3>2. CASE run'[g].step \notin {"opened", "written"}
        BY <3>2 DEF InHand
      <3> QED
        BY <3>1, <3>2
    <2> QED
      BY <1>7, <2>1, <2>2 DEF HookInv, OneAtATime
  <1>21. f \notin clashed \/ f = "stats" => data[i] = Whole(q.got)
    BY <1>1, <1>2, <1>3, <1>4, <1>7, <1>10 DEF HookInv, OneAtATime, InHand
  <1>22. FilesSound'
    <2>1. \A x \in Files \ {f} : dir'[x] = dir[x] /\ Loaded(x)' = Loaded(x)
      BY <1>7, <1>9, <1>15, HookFacts, <1>8 DEF Loaded
    <2>2. dir'[f] = i /\ Loaded(f)' = data[i]
      BY <1>7, <1>9, <1>15 DEF Loaded
    <2>3. RunSound(h, q)
      BY <1>4 DEF HookInv
    <2>4. dir'["stats"] # NoFile => data'[dir'["stats"]].whole
      <3>1. CASE f = "stats"
        BY <1>7, <1>21, <2>2, <3>1 DEF Whole
      <3>2. CASE f # "stats"
        BY <1>7, <2>1, <3>2 DEF HookInv, FilesSound, Files
      <3> QED
        BY <3>1, <3>2
    <2>5. "stats" \notin clashed => stops' \subseteq Loaded("stats")'.of
      <3>1. CASE f = "stats"
        <4>1. "stats" \notin clashed => stops \cup {h} \subseteq q.got
          BY <1>4, <1>8, <1>10, <2>3, <3>1 DEF RunSound, CountOk
        <4>2. Loaded("stats")'.of = q.got
          BY <1>21, <2>2, <3>1 DEF Whole
        <4> QED
          BY <1>7, <3>1, <4>1, <4>2
      <3>2. CASE f # "stats"
        <4>1. Loaded("stats")' = Loaded("stats")
          BY <2>1, <3>2 DEF Files
        <4> QED
          BY <1>7, <3>2, <4>1 DEF HookInv, FilesSound
      <3> QED
        BY <3>1, <3>2
    <2>6. "rules" \notin clashed =>
            floor' \subseteq Loaded("rules")'.of /\ Loaded("rules")'.of \subseteq ceiling'
      <3>1. CASE f = "rules"
        <4>1. q.always \subseteq q.got /\ q.got \subseteq q.ever
          BY <1>4, <1>8, <1>10, <2>3, <3>1 DEF RunSound, RuleOk
        <4>2. "rules" \notin clashed => Loaded("rules")'.of = q.got
          BY <1>21, <2>2, <3>1 DEF Whole
        <4> QED
          BY <1>7, <3>1, <4>1, <4>2
      <3>2. CASE f # "rules"
        <4>1. Loaded("rules")' = Loaded("rules")
          BY <2>1, <3>2 DEF Files
        <4> QED
          BY <1>7, <3>2, <4>1 DEF HookInv, FilesSound
      <3> QED
        BY <3>1, <3>2
    <2>7. ASSUME NEW g \in Runs, run'[g].kind = "recall", data'[g].whole
          PROVE  LiveAnswer(data[g].of)'
      <3>1. data'[g] = data[g] /\ run[g].kind = "recall"
        BY <1>7, <1>17, <2>7
      <3>2. PICK x : x = data[g].of
        OBVIOUS
      <3>3. LiveAnswer(x)
        BY <2>7, <3>1, <3>2 DEF HookInv, FilesSound
      <3>4. LiveAnswer(x)'
        BY <1>17, <3>3, LiveStays
      <3> QED
        BY <3>1, <3>2, <3>4 DEF LiveAnswer
    <2> QED
      BY <1>7, <2>4, <2>5, <2>6, <2>7 DEF FilesSound
  <1>23. Untouched'
    BY <1>7, <1>13, <1>14 DEF HookInv, Untouched
  <1>24. ASSUME NEW g \in Runs PROVE RunSound(g, run[g])'
    <2>1. PICK p : p = run'[g]
      OBVIOUS
    <2>2. RunSound(g, p)
      <3>1. CASE g = h
        <4>1. p = r
          BY <1>14, <2>1, <3>1
        <4> QED
          BY <1>5, <1>9, <1>10, <1>13, <4>1
          DEF RunSound, KindOk, RuleOk, RecallOk, CountOk, Under
      <3>2. CASE g # h
        BY <1>14, <2>1, <3>2 DEF HookInv
      <3> QED
        BY <3>1, <3>2
    <2>3. "stats" \notin clashed' => stops' = stops \/ p.step \notin Under \/ p.kind # "stop"
      <3> SUFFICES ASSUME "stats" \notin clashed', stops' # stops, p.step \in Under, p.kind = "stop"
                   PROVE  FALSE
        OBVIOUS
      <3>1. f = "stats" /\ g # h /\ run[g] = p
        BY <1>7, <1>13, <1>14, <2>1 DEF Under
      <3>2. g \in Busy("stats") /\ h \in Busy("stats")
        BY <1>3, <1>7, <3>1 DEF Busy, Under, FileOf
      <3> QED
        BY <1>7, <3>1, <3>2 DEF HookInv, OneAtATime, Files
    <2>4. RunSound(g, p)'
      BY <1>7, <1>17, <2>2, <2>3, SoundKept
    <2> QED
      BY <2>1, <2>4
  <1> QED
    BY <1>16, <1>18, <1>19, <1>20, <1>22, <1>23, <1>24 DEF HookInv

LEMMA ResetCountersKeeps ==
  ASSUME HookInv, ResetCounters PROVE HookInv'
  <1>1. /\ dir' = [dir EXCEPT !["stats"] = NoFile] /\ stops' = {}
        /\ clashed' = IF Busy("stats") # {} THEN clashed \cup {"stats"} ELSE clashed
        /\ UNCHANGED <<active, linked, data, run, floor, ceiling>>
    BY DEF ResetCounters, ruleVars
  <1>2. HookTypes /\ clashed \subseteq clashed' /\ clashed' \subseteq Files
    BY <1>1 DEF HookInv, HookTypes, Files
  <1>3. /\ \A n \in Names : dir'[n] = IF n = "stats" THEN NoFile ELSE dir[n]
        /\ dir' \in [Names -> Runs \cup {NoFile}]
    BY <1>1, <1>2 DEF HookTypes
  <1>4. HookTypes'
    BY <1>1, <1>2, <1>3 DEF HookTypes
  <1>5. Owned'
    <2>1. \A n \in Names : dir'[n] # NoFile => dir'[n] = dir[n]
      BY <1>3
    <2>2. "stats.tmp" \in Names /\ Runs \subseteq Names
      BY DEF Names, Temps
    <2> QED
      BY <1>1, <1>3, <2>1, <2>2 DEF HookInv, Owned, WriterOf, Names
  <1>6. Opened'
    BY <1>1 DEF HookInv, Opened
  <1>7. OneAtATime'
    <2>1. \A g \in Runs : TempOf(g)' = TempOf(g) /\ dir'[TempOf(g)] = dir[TempOf(g)]
      BY <1>1, <1>2, <1>3, HookFacts DEF TempOf
    <2>2. \A g \in Runs : InHand(g) => InHand(g)'
      BY <1>1, <2>1 DEF InHand, Whole, Unreadable
    <2>3. \A x : Busy(x)' = Busy(x)
      BY <1>1 DEF Busy
    <2> QED
      BY <1>1, <1>2, <2>2, <2>3 DEF HookInv, OneAtATime
  <1>8. FilesSound'
    <2>1. dir'["stats"] = NoFile /\ Loaded("rules")' = Loaded("rules")
      BY <1>1, <1>2, <1>3, HookFacts DEF Loaded, Files
    <2> QED
      BY <1>1, <1>2, <2>1 DEF HookInv, FilesSound, LiveAnswer
  <1>9. Untouched'
    BY <1>1 DEF HookInv, Untouched
  <1>10. ASSUME NEW g \in Runs PROVE RunSound(g, run[g])'
    <2>1. PICK p : p = run[g] /\ p = run'[g]
      BY <1>1
    <2>2. RunSound(g, p)
      BY <2>1 DEF HookInv
    <2>3. "stats" \notin clashed' => p.step \notin Under \/ p.kind # "stop"
      BY <1>1, <2>1 DEF Busy, FileOf, Under
    <2>4. RunSound(g, p)'
      BY <1>1, <1>2, <2>2, <2>3, SoundKept
    <2> QED
      BY <2>1, <2>4
  <1> QED
    BY <1>4, <1>5, <1>6, <1>7, <1>8, <1>9, <1>10 DEF HookInv

LEMMA ChangeRulesKeeps ==
  ASSUME HookInv, ChangeRules PROVE HookInv'
  <1>1. UNCHANGED <<dir, data, clashed, floor, ceiling, stops>>
    BY DEF ChangeRules, fileVars, past
  <1>2. HookTypes
    BY DEF HookInv
  <1>3. active' \in SUBSET Rules /\ linked' \in BOOLEAN
    BY <1>2 DEF ChangeRules, HookTypes
  <1>4. PICK reach : reach = Governing'
    OBVIOUS
  <1>5. reach \subseteq active'
    BY <1>4 DEF Governing
  <1>6. run' = [h \in Runs |->
                 IF run[h].step # "listing" THEN run[h]
                 ELSE Witnessed(run[h], run[h].always \cap reach, run[h].ever \cup active')]
    BY <1>4 DEF ChangeRules
  <1>7. ASSUME NEW h \in Runs
        PROVE  /\ run'[h] \in RunType
               /\ run[h].step # "listing" => run'[h] = run[h]
               /\ run'[h].kind = run[h].kind /\ run'[h].step = run[h].step
               /\ run'[h].fd = run[h].fd /\ run'[h].got = run[h].got
               /\ run'[h].todo = run[h].todo /\ run'[h].answer = run[h].answer
               /\ run'[h].shown = run[h].shown
               /\ run[h].step = "listing" => /\ run'[h].always = run[h].always \cap reach
                                             /\ run'[h].ever = run[h].ever \cup active'
    <2>1. PICK q : q = run[h]
      OBVIOUS
    <2>2. q \in RunType
      BY <1>2, <2>1 DEF HookTypes
    <2>3. CASE q.step # "listing"
      BY <1>6, <2>1, <2>2, <2>3
    <2>4. CASE q.step = "listing"
      <3>1. PICK r : r = Witnessed(q, q.always \cap reach, q.ever \cup active')
        OBVIOUS
      <3>2. /\ r.kind = q.kind /\ r.step = q.step /\ r.fd = q.fd /\ r.got = q.got /\ r.todo = q.todo
            /\ r.always = q.always \cap reach /\ r.ever = q.ever \cup active'
            /\ r.answer = q.answer /\ r.shown = q.shown
            /\ r = [kind |-> r.kind, step |-> r.step, fd |-> r.fd, got |-> r.got, todo |-> r.todo,
                    always |-> r.always, ever |-> r.ever, answer |-> r.answer, shown |-> r.shown]
        BY <2>2, <3>1 DEF RunType, Witnessed
      <3>3. r \in RunType
        BY <1>3, <2>2, <3>2 DEF RunType
      <3>4. run'[h] = r
        BY <1>6, <2>1, <2>4, <3>1
      <3> QED
        BY <2>1, <2>4, <3>2, <3>3, <3>4
    <2> QED
      BY <2>3, <2>4
  <1>8. HookTypes'
    <2>1. run' = [h \in Runs |-> run'[h]]
      BY <1>6
    <2>2. run' \in [Runs -> RunType]
      BY <1>7, <2>1
    <2> QED
      BY <1>1, <1>2, <1>3, <2>2 DEF HookTypes
  <1>9. Owned'
    <2>1. \A n \in Names : dir[n] # NoFile => dir[n] \in Runs
      BY <1>2, HookFacts
    <2> QED
      BY <1>1, <1>7, <2>1 DEF HookInv, Owned, Names, WriterOf
  <1>10. Opened'
    BY <1>7 DEF HookInv, Opened
  <1>11. OneAtATime'
    <2>1. \A x : Busy(x)' = Busy(x)
      BY <1>7 DEF Busy
    <2>2. \A g \in Runs : TempOf(g)' = TempOf(g)
      BY <1>7 DEF TempOf
    <2>3. \A g \in Runs : InHand(g) => InHand(g)'
      BY <1>1, <1>7, <2>2 DEF InHand, Whole, Unreadable
    <2> QED
      BY <1>1, <1>7, <2>1, <2>3 DEF HookInv, OneAtATime
  <1>12. FilesSound'
    <2>1. ASSUME NEW g \in Runs, run'[g].kind = "recall", data'[g].whole
          PROVE  LiveAnswer(data[g].of)'
      <3>1. PICK x : x = data[g].of
        OBVIOUS
      <3>2. LiveAnswer(x)
        BY <1>1, <1>7, <2>1, <3>1 DEF HookInv, FilesSound
      <3>3. LiveAnswer(x)'
        BY <1>7, <3>2, LiveStays
      <3> QED
        BY <1>1, <3>1, <3>3 DEF LiveAnswer
    <2> QED
      BY <1>1, <2>1 DEF HookInv, FilesSound, Loaded
  <1>13. Untouched'
    BY <1>1, <1>7 DEF HookInv, Untouched
  <1>14. ASSUME NEW g \in Runs PROVE RunSound(g, run[g])'
    <2>1. PICK p : p = run[g]
      OBVIOUS
    <2>2. RunSound(g, p)
      BY <2>1 DEF HookInv
    <2>3. CASE p.step # "listing"
      <3>1. RunSound(g, p)'
        BY <1>1, <1>7, <2>2, <2>3, SoundKept
      <3>2. p = run'[g]
        BY <1>7, <2>1, <2>3
      <3> QED
        BY <3>1, <3>2
    <2>4. CASE p.step = "listing"
      <3>1. PICK r : r = run'[g]
        OBVIOUS
      <3>2. /\ r.step = "listing" /\ r.kind = "status" /\ r.always = p.always \cap reach
            /\ r.ever = p.ever \cup active' /\ r.got = p.got /\ r.todo = p.todo
        BY <1>7, <2>1, <2>2, <2>4, <3>1 DEF RunSound, KindOk
      <3>3. RuleOk(r)'
        BY <1>5, <2>2, <2>4, <3>2 DEF RunSound, RuleOk, Under
      <3>4. RunSound(g, r)'
        BY <3>2, <3>3 DEF RunSound, KindOk, RecallOk, CountOk, Under
      <3> QED
        BY <3>1, <3>4
    <2> QED
      BY <2>3, <2>4
  <1> QED
    BY <1>8, <1>9, <1>10, <1>11, <1>12, <1>13, <1>14 DEF HookInv

LEMMA InitHook ==
  ASSUME HookInit PROVE HookInv
  <1>1. /\ dir = [n \in Names |-> NoFile] /\ data = [h \in Runs |-> Unreadable]
        /\ run = [h \in Runs |-> Fresh] /\ clashed = {} /\ floor = {} /\ ceiling = Rules
        /\ stops = {} /\ active \in SUBSET Rules /\ linked \in BOOLEAN
    BY DEF HookInit, Names, Files, Temps, Shared
  <1>2. Fresh \in RunType
    BY DEF Fresh, RunType, Steps
  <1>3. Fresh.step = "new" /\ Fresh.kind = "none" /\ Fresh.answer = "none"
    BY DEF Fresh
  <1>4. Unreadable \in [whole : BOOLEAN, of : SUBSET (Rules \cup Runs)]
    BY DEF Unreadable
  <1>5. HookTypes
    BY <1>1, <1>2, <1>4 DEF HookTypes
  <1>6. \A n \in Names : dir[n] = NoFile
    BY <1>1
  <1>7. \A h \in Runs : run[h].step = "new" /\ run[h].kind = "none" /\ run[h].answer = "none"
                        /\ ~data[h].whole
    BY <1>1, <1>3 DEF Unreadable
  <1>8. Owned /\ Opened
    BY <1>6, <1>7 DEF Owned, Opened, Names, Temps
  <1>9. OneAtATime
    BY <1>7 DEF OneAtATime, Busy, InHand
  <1>10. FilesSound
    <2>1. dir["stats"] = NoFile /\ dir["rules"] = NoFile
      BY <1>6 DEF Names, Files
    <2>2. Loaded("rules").of = {}
      BY <2>1 DEF Loaded, Unreadable
    <2> QED
      BY <1>1, <1>7, <2>1, <2>2 DEF FilesSound, Unreadable
  <1>11. Untouched
    BY <1>7 DEF Untouched
  <1>12. \A h \in Runs : RunSound(h, run[h])
    BY <1>7 DEF RunSound, KindOk, RuleOk, RecallOk, CountOk, Under
  <1> QED
    BY <1>5, <1>8, <1>9, <1>10, <1>11, <1>12 DEF HookInv

LEMMA NextHook ==
  ASSUME HookInv, [HookNext]_hookVars PROVE HookInv'
  <1>1. CASE ChangeRules
    BY <1>1, ChangeRulesKeeps
  <1>2. CASE ResetCounters
    BY <1>2, ResetCountersKeeps
  <1>3. CASE \E h \in Runs : FanOut(h) \/ ListOne(h) \/ GiveUpFile(h) \/ Recalled(h)
    BY <1>3, FanOutKeeps, ListOneKeeps, GiveUpKeeps, RecalledKeeps
  <1>4. CASE \E h \in Runs : ReadCounters(h) \/ OpenTemp(h) \/ WriteTemp(h) \/ Publish(h)
    BY <1>4, ReadCountersKeeps, OpenTempKeeps, WriteTempKeeps, PublishKeeps
  <1>5. CASE \E h \in Runs : PublishFails(h) \/ RecallFallsBack(h) \/ Enforce(h) \/ HookKilled(h)
    BY <1>5, PublishFailsKeeps, FallBackKeeps, EnforceKeeps, GiveUpKeeps
  <1>6. CASE UNCHANGED hookVars
    <2>1. UNCHANGED <<active, linked, dir, data, run, clashed, floor, ceiling, stops>>
      BY <1>6 DEF hookVars
    <2>2. /\ HookTypes' /\ Owned' /\ Opened' /\ Untouched' /\ FilesSound'
      BY <2>1 DEF HookInv, HookTypes, Owned, Opened, Untouched, FilesSound,
         LiveAnswer, Loaded,
                  Unreadable, WriterOf
    <2>3. OneAtATime'
      BY <2>1 DEF HookInv, OneAtATime, Busy, InHand, TempOf, Whole, Unreadable
    <2>4. ASSUME NEW h \in Runs PROVE RunSound(h, run[h])'
      <3>1. PICK p : p = run[h] /\ p = run'[h]
        BY <2>1
      <3>2. RunSound(h, p)
        BY <3>1 DEF HookInv
      <3>3. RunSound(h, p)'
        BY <2>1, <3>2, SoundKept
      <3> QED
        BY <3>1, <3>3
    <2> QED
      BY <2>2, <2>3, <2>4 DEF HookInv
  <1> QED
    BY <1>1, <1>2, <1>3, <1>4, <1>5, <1>6 DEF HookNext

(* Rules, counts and recalls are read from the hooks' shared files as they *)
(* were meant, for any number of invocations in any order, killed at any   *)
(* point: a tool call is denied by a block rule that stood all through the *)
(* last refresh and stopped by none that never stood, the counters never   *)
(* become unreadable, and a stale recall is one whole earlier answer.      *)
THEOREM HooksAreSound == HookSpec => []HooksSound
  <1>1. HookInv => HooksSound
    <2> SUFFICES ASSUME HookInv PROVE HooksSound
      OBVIOUS
    <2>1. EnforcedAsRefreshed
      <3> SUFFICES ASSUME NEW h \in Runs, run[h].kind = "enforce", run[h].answer # "clashed"
                   PROVE  /\ run[h].always \subseteq run[h].got /\ run[h].got \subseteq run[h].ever
                          /\ (\E x \in run[h].always : Level[x] = "block") => run[h].shown = "deny"
        BY DEF EnforcedAsRefreshed
      <3>1. /\ run[h].always \subseteq run[h].got /\ run[h].got \subseteq run[h].ever
            /\ run[h].shown = Decision(run[h].got)
        BY DEF HookInv, RunSound, RuleOk
      <3> QED
        BY <3>1 DEF Decision
    <2>2. CountsSurvive
      BY DEF HookInv, FilesSound, CountsSurvive, Loaded
    <2>3. RecallShowsStore
      <3> SUFFICES ASSUME NEW h \in Runs, run[h].kind = "recall", run[h].step = "done"
                   PROVE  /\ run[h].answer = "refused" => run[h].shown # "stale"
                          /\ run[h].shown = "stale" =>
                               \E s \in Runs : run[h].got = {s} /\ run[s].answer = "live"
                          /\ run[h].answer = "live" /\ run[h].shown \in {"stale", "off"} =>
                               "snapshot" \in clashed
        BY DEF RecallShowsStore
      <3>1. RecallOk(h, run[h])
        BY DEF HookInv, RunSound
      <3> QED
        BY <3>1 DEF RecallOk, LiveAnswer
    <2> QED
      BY <2>1, <2>2, <2>3 DEF HooksSound
  <1>2. HookInit => HookInv
    BY InitHook
  <1>3. HookInv /\ [HookNext]_hookVars => HookInv'
    BY NextHook
  <1> QED
    BY <1>1, <1>2, <1>3, PTL DEF HookSpec

-----------------------------------------------------------------------------
(* Scoped workspace files.                                                 *)
Text == [text : Nat, block : BOOLEAN]
ScopeState == [holders : SUBSET Dispatches, signed : SUBSET Slots,
               prior : [Slots -> Text], wrote : [Slots -> Text]]
Places == Inside \cup {"idle", "scoped", "unscoped", "running", "leaving", "done", "dead"}

ScopingTypes ==
  /\ file \in [Slots -> Text] /\ latest \in [Slots -> Nat]
  /\ state \in ScopeState /\ mem \in ScopeState
  /\ at \in [Dispatches -> Places] /\ left \subseteq Slots
  /\ edits \in Nat /\ window \in BOOLEAN

(* One dispatch is inside the lock, and none at work is of a process that  *)
(* is gone.                                                                *)
OneInside == \A d, e \in Dispatches : at[d] \in Inside /\ at[e] \in Inside => d = e
NoneDead == \A d \in Dispatches : AtWork(d) => ProcessOf[d] \notin dead

(* Who runs is a holder, in the file, and in the copy of whoever is about  *)
(* to replace the file; nobody else runs while the files are given back.   *)
Working(d) == at[d] \in {"running", "leaving"}
HoldersKept ==
  \A d \in Dispatches : Working(d) =>
    /\ d \in state.holders
    /\ \A e \in Dispatches :
         /\ at[e] \in {"merging", "recording"} => d \in mem.holders
         /\ at[e] \notin {"giving_back", "snapshot", "restoring", "clearing"}

(* The block is in the files already merged.                               *)
Blocked(s) == file[s].block \/ s \in unblocked \cup torn
Merged ==
  \A d \in Dispatches :
    /\ at[d] = "merging" => \A s \in Slots \ left : Blocked(s)
    /\ at[d] \in {"recording", "running"} => \A s \in Slots : Blocked(s)

(* A block in a file is one the state can take out: the state in the file, *)
(* or the copy that is about to replace it.                                *)
Excused(s) == s \in touched \/ window
Fits(st, s) ==
  file[s].block => Excused(s) \/ (s \in st.signed /\ st.wrote[s] = file[s])
Cleared(s) == file[s].block => Excused(s)

(* What is given back has no block, and the text signed for it.            *)
PriorSound(st) ==
  \A s \in Slots :
    /\ st.prior[s].block => Excused(s)
    /\ s \in st.signed => st.prior[s].text = st.wrote[s].text \/ s \in rejoined \cup torn

FilesFit ==
  /\ (\A d \in Dispatches : at[d] \notin Inside) => \A s \in Slots : Fits(state, s)
  /\ \A d \in Dispatches :
       /\ at[d] \in {"giving_back", "restoring"} =>
            /\ mem.signed = state.signed /\ mem.wrote = state.wrote
            /\ \A s \in Slots : Fits(state, s)
            /\ \A s \in Slots \ left : Cleared(s)
       /\ at[d] \in {"snapshot", "clearing"} => \A s \in Slots : Cleared(s)
       /\ at[d] \in {"merging", "recording"} => \A s \in Slots : Fits(mem, s)

ScopingInv ==
  /\ ScopingTypes /\ OneInside /\ NoneDead /\ HoldersKept /\ Merged
  /\ FilesFit /\ PriorSound(state) /\ PriorSound(mem) /\ EditsUndoneOnlyIfRejoined

-----------------------------------------------------------------------------
LEMMA NoStateShared == NoState \in ScopeState /\ PriorSound(NoState) /\ NoState.holders = {}
                       /\ NoState.signed = {}
  BY DEF NoState, ScopeState, Plain, NoText, Text, PriorSound

LEMMA ScopingInitInv == ASSUME ScopingBounds, ScopingInit PROVE ScopingInv
  <1>1. file \in [Slots -> Text] /\ \A s \in Slots : ~file[s].block /\ file[s].text \in Nat
    <2>4. \A t \in Nat : Plain(t) \in Text /\ ~Plain(t).block
      BY DEF Plain, Text
    <2>1. \A p \in {Plain(NoText), Plain(Original)} : p \in Text /\ ~p.block
      BY <2>4 DEF NoText, Original
    <2>2. file \in [Slots -> {Plain(NoText), Plain(Original)}]
      BY DEF ScopingInit
    <2>3. \A s \in Slots : file[s] \in Text /\ ~file[s].block
      BY <2>1, <2>2
    <2> QED
      BY <2>2, <2>3 DEF Text
  <1>2. latest \in [Slots -> Nat] /\ \A s \in Slots : latest[s] = file[s].text
    BY <1>1 DEF ScopingInit
  <1>3. \A d \in Dispatches : at[d] = "idle"
    BY DEF ScopingInit
  <1>4. ScopingTypes
    BY <1>1, <1>2, NoStateShared DEF ScopingInit, ScopingTypes, Places
  <1>5. OneInside /\ NoneDead /\ HoldersKept /\ Merged
    BY <1>3 DEF OneInside, NoneDead, HoldersKept, Merged, AtWork, Working, Inside
  <1>6. FilesFit
    BY <1>1, <1>3 DEF FilesFit, Fits, Inside
  <1>7. PriorSound(state) /\ PriorSound(mem)
    BY NoStateShared DEF ScopingInit
  <1>8. EditsUndoneOnlyIfRejoined
    BY <1>2 DEF EditsUndoneOnlyIfRejoined
  <1> QED
    BY <1>4, <1>5, <1>6, <1>7, <1>8 DEF ScopingInv

(* Where a dispatch goes the others stay where they are.                   *)
LEMMA DispatchGoes ==
  ASSUME ScopingTypes, NEW d \in Dispatches, NEW from, NEW to \in Places, Goes(d, from, to)
  PROVE  /\ at' \in [Dispatches -> Places] /\ at[d] = from /\ at'[d] = to
         /\ \A e \in Dispatches : e # d => at'[e] = at[e]
         /\ ProcessOf[d] \notin dead
  BY DEF ScopingTypes, Goes

(* The lock: it is entered when nobody is inside.                          *)
LEMMA LockHeld ==
  ASSUME ScopingTypes, OneInside, NoneDead, NEW d \in Dispatches, NEW from, NEW to \in Places,
         Goes(d, from, to), from \in Inside \/ ~Locked \/ to \notin Inside, dead' = dead
  PROVE  OneInside' /\ NoneDead'
  <1>1. /\ at[d] = from /\ at'[d] = to /\ ProcessOf[d] \notin dead
        /\ \A e \in Dispatches : e # d => at'[e] = at[e]
    BY DispatchGoes
  <1>2. from \in Inside \/ ~Locked => \A e \in Dispatches : e # d => at[e] \notin Inside
    BY <1>1 DEF OneInside, Locked
  <1>3. OneInside'
    <2>1. CASE to \notin Inside
      BY <1>1, <2>1 DEF OneInside, Inside
    <2>2. CASE to \in Inside
      BY <1>1, <1>2, <2>2 DEF OneInside, Inside
    <2> QED
      BY <2>1, <2>2
  <1>4. NoneDead'
    BY <1>1 DEF NoneDead, AtWork, Inside
  <1> QED
    BY <1>3, <1>4

(* Steps outside the lock that change where a dispatch is and no more.     *)
LEMMA OutsideSteps ==
  ASSUME ScopingInv, NEW d \in Dispatches, NEW from, NEW to \in Places, Goes(d, from, to),
         from \notin Inside, to \notin Inside, to # "running",
         to = "leaving" => from = "running",
         UNCHANGED <<file, state, mem, left, dead, scopeGhosts>>
  PROVE  ScopingInv'
  <1>1. /\ at' \in [Dispatches -> Places] /\ at[d] = from /\ at'[d] = to
        /\ \A e \in Dispatches : e # d => at'[e] = at[e]
    BY DispatchGoes DEF ScopingInv
  <1>2. UNCHANGED <<file, state, mem, left, dead, latest, unblocked, touched, rejoined, torn,
                    window, edits>>
    BY DEF scopeGhosts
  <1>3. ScopingTypes'
    BY <1>1, <1>2 DEF ScopingInv, ScopingTypes
  <1>4. OneInside' /\ NoneDead'
    BY <1>2, LockHeld DEF ScopingInv
  <1>5. HoldersKept'
    <2>1. \A e \in Dispatches : Working(e)' => Working(e)
      BY <1>1 DEF Working
    <2>2. \A e \in Dispatches : at'[e] \in Inside => at'[e] = at[e]
      BY <1>1
    <2> QED
      BY <1>1, <1>2, <2>1, <2>2 DEF ScopingInv, HoldersKept, Inside
  <1>6. Merged'
    BY <1>1, <1>2 DEF ScopingInv, Merged, Blocked, Inside
  <1>7. FilesFit'
    BY <1>1, <1>2 DEF ScopingInv, FilesFit, Fits, Cleared, Excused, Inside
  <1>8. PriorSound(state)' /\ PriorSound(mem)' /\ EditsUndoneOnlyIfRejoined'
    BY <1>2 DEF ScopingInv, PriorSound, Excused, EditsUndoneOnlyIfRejoined
  <1> QED
    BY <1>3, <1>4, <1>5, <1>6, <1>7, <1>8 DEF ScopingInv

(* A dispatch at work is a live holder.                                    *)
LEMMA WorkersLive ==
  ASSUME ScopingInv PROVE \A d \in Dispatches : Working(d) => d \in LiveHolders
  BY DEF ScopingInv, HoldersKept, NoneDead, AtWork, Working, LiveHolders, PidAlive

LEMMA EnterToAcquireKeeps ==
  ASSUME ScopingInv, NEW d \in Dispatches, EnterToAcquire(d) PROVE ScopingInv'
  <1>1. PICK to : to = IF LiveHolders = {} THEN "giving_back" ELSE "merging"
    OBVIOUS
  <1>2. PICK m : m = [state EXCEPT !.holders = LiveHolders]
    OBVIOUS
  <1>3. /\ ~Locked /\ Goes(d, "scoped", to) /\ mem' = m /\ left' = Slots
        /\ UNCHANGED <<file, state, dead, latest, unblocked, touched, rejoined, torn, window,
                       edits>>
    BY <1>1, <1>2 DEF EnterToAcquire, scopeGhosts
  <1>4. to \in Places /\ to \in {"giving_back", "merging"}
        /\ (to = "giving_back" => LiveHolders = {})
    BY <1>1 DEF Places, Inside
  <1>5. /\ at' \in [Dispatches -> Places] /\ at[d] = "scoped" /\ at'[d] = to
        /\ \A e \in Dispatches : e # d => at'[e] = at[e]
    BY <1>3, <1>4, DispatchGoes DEF ScopingInv
  <1>6. /\ m \in ScopeState /\ m.holders = LiveHolders /\ m.signed = state.signed
        /\ m.prior = state.prior /\ m.wrote = state.wrote
    BY <1>2 DEF ScopingInv, ScopingTypes, ScopeState, LiveHolders
  <1>7. \A e \in Dispatches : at[e] \notin Inside
    BY <1>3 DEF Locked
  <1>8. ScopingTypes'
    BY <1>3, <1>5, <1>6 DEF ScopingInv, ScopingTypes
  <1>9. OneInside' /\ NoneDead'
    BY <1>3, <1>4, LockHeld DEF ScopingInv
  <1>10. HoldersKept'
    <2>1. \A e \in Dispatches : Working(e)' => Working(e) /\ e \in LiveHolders
      BY <1>4, <1>5, WorkersLive DEF Working
    <2>2. \A e \in Dispatches : Working(e) => e \in state.holders
      BY DEF ScopingInv, HoldersKept
    <2>3. \A e \in Dispatches : at'[e] \in Inside => e = d
      BY <1>5, <1>7
    <2> QED
      BY <1>3, <1>4, <1>5, <1>6, <2>1, <2>2, <2>3 DEF HoldersKept, Inside
  <1>11. Merged'
    BY <1>3, <1>4, <1>5 DEF ScopingInv, Merged, Blocked
  <1>12. FilesFit'
    <2>1. \A s \in Slots : Fits(state, s)
      BY <1>7 DEF ScopingInv, FilesFit
    <2>2. \A s \in Slots : Fits(state, s)' /\ Fits(mem, s)'
      BY <1>3, <1>6, <2>1 DEF Fits, Excused
    <2>3. \A e \in Dispatches : at'[e] \in Inside => e = d
      BY <1>5, <1>7
    <2> QED
      BY <1>3, <1>4, <1>5, <1>6, <2>2, <2>3 DEF FilesFit, Inside
  <1>13. PriorSound(state)' /\ PriorSound(mem)' /\ EditsUndoneOnlyIfRejoined'
    BY <1>3, <1>6 DEF ScopingInv, PriorSound, Excused, EditsUndoneOnlyIfRejoined
  <1> QED
    BY <1>8, <1>9, <1>10, <1>11, <1>12, <1>13 DEF ScopingInv

(* One file is given back.                                                 *)
LEMMA RestoreKeeps ==
  ASSUME ScopingInv, NEW d \in Dispatches, NEW s \in Slots, NEW from, NEW next,
         \/ from = "giving_back" /\ next = "snapshot"
         \/ from = "restoring" /\ next = "clearing",
         Restore(d, s, from, next)
  PROVE  ScopingInv'
  <1>1. PICK to : to = IF left = {s} THEN next ELSE from
    OBVIOUS
  <1>2. /\ s \in left /\ left' = left \ {s} /\ Goes(d, from, to) /\ file' = GiveBack(s, mem)
        /\ unblocked' = unblocked \ {s}
        /\ UNCHANGED <<state, mem, dead, latest, touched, rejoined, torn, window, edits>>
    BY <1>1 DEF Restore
  <1>3. to \in Places /\ to \in {from, next} /\ (to = next => left = {s}) /\ from \in Inside
    BY <1>1 DEF Places, Inside
  <1>4. /\ at' \in [Dispatches -> Places] /\ at[d] = from /\ at'[d] = to
        /\ \A e \in Dispatches : e # d => at'[e] = at[e]
    BY <1>2, <1>3, DispatchGoes DEF ScopingInv
  <1>5. ScopingTypes
    BY DEF ScopingInv
  <1>6. /\ \A x \in Slots : x # s => file'[x] = file[x]
        /\ file' \in [Slots -> Text]
        /\ \/ s \in mem.signed /\ mem.wrote[s] = file[s] /\ file'[s] = mem.prior[s]
           \/ ~(s \in mem.signed /\ mem.wrote[s] = file[s]) /\ file'[s] = file[s]
    BY <1>2, <1>5 DEF GiveBack, ScopingTypes, ScopeState
  <1>7. ScopingTypes'
    BY <1>2, <1>4, <1>5, <1>6 DEF ScopingTypes
  <1>8. OneInside' /\ NoneDead'
    BY <1>2, <1>3, LockHeld DEF ScopingInv
  <1>9. \A e \in Dispatches : e # d => at[e] \notin Inside
    BY <1>3, <1>4 DEF ScopingInv, OneInside
  <1>10. \A e \in Dispatches : ~Working(e)
    BY <1>3, <1>4 DEF ScopingInv, HoldersKept
  <1>11. \A e \in Dispatches : ~Working(e)'
    BY <1>3, <1>4, <1>10 DEF Working
  <1>12. HoldersKept'
    BY <1>11 DEF HoldersKept
  <1>13. Merged'
    <2>1. \A e \in Dispatches : at'[e] \notin {"merging", "recording", "running"}
      BY <1>3, <1>4, <1>9, <1>11 DEF Working, Inside
    <2> QED
      BY <2>1 DEF Merged
  <1>14. /\ mem.signed = state.signed /\ mem.wrote = state.wrote
         /\ \A x \in Slots : Fits(state, x)
         /\ \A x \in Slots \ left : Cleared(x)
    BY <1>4 DEF ScopingInv, FilesFit
  <1>15. Cleared(s)' /\ Fits(state, s)'
    <2>1. mem.prior[s].block => Excused(s)
      BY DEF ScopingInv, PriorSound
    <2>2. Fits(state, s) /\ Excused(s)' = Excused(s)
      BY <1>2, <1>14 DEF Excused
    <2> QED
      BY <1>2, <1>6, <1>14, <2>1, <2>2 DEF Cleared, Fits, Excused
  <1>16. \A x \in Slots : x # s => (Fits(state, x)' <=> Fits(state, x))
                                  /\ (Cleared(x)' <=> Cleared(x))
    BY <1>2, <1>6 DEF Fits, Cleared, Excused
  <1>17. FilesFit'
    <2>1. \A x \in Slots : Fits(state, x)'
      BY <1>14, <1>15, <1>16
    <2>2. \A x \in Slots \ left' : Cleared(x)'
      BY <1>2, <1>14, <1>15, <1>16
    <2>3. to = next => \A x \in Slots : Cleared(x)'
      BY <1>2, <1>3, <2>2
    <2>4. \A e \in Dispatches : at'[e] \in Inside => e = d
      BY <1>4, <1>9
    <2> QED
      BY <1>2, <1>3, <1>4, <1>14, <2>1, <2>2, <2>3, <2>4 DEF FilesFit, Inside
  <1>18. PriorSound(state)' /\ PriorSound(mem)'
    BY <1>2 DEF ScopingInv, PriorSound, Excused
  <1>19. EditsUndoneOnlyIfRejoined'
    <2>1. s \in mem.signed => mem.prior[s].text = mem.wrote[s].text \/ s \in rejoined \cup torn
      BY DEF ScopingInv, PriorSound
    <2>2. file'[s].text = file[s].text \/ s \in rejoined \cup torn
      BY <1>6, <2>1
    <2> QED
      BY <1>2, <1>6, <2>2 DEF ScopingInv, EditsUndoneOnlyIfRejoined
  <1> QED
    BY <1>7, <1>8, <1>12, <1>13, <1>17, <1>18, <1>19 DEF ScopingInv

LEMMA FreshSnapshotKeeps ==
  ASSUME ScopingInv, NEW d \in Dispatches, FreshSnapshot(d) PROVE ScopingInv'
  <1>1. PICK m : m = [NoState EXCEPT !.prior = file]
    OBVIOUS
  <1>2. /\ Goes(d, "snapshot", "merging") /\ mem' = m /\ left' = Slots
        /\ UNCHANGED <<file, state, dead, latest, unblocked, touched, rejoined, torn, window,
                       edits>>
    BY <1>1 DEF FreshSnapshot, scopeGhosts
  <1>3. "merging" \in Places /\ "snapshot" \in Inside /\ ScopingTypes
    BY DEF Places, Inside, ScopingInv
  <1>4. /\ at' \in [Dispatches -> Places] /\ at[d] = "snapshot" /\ at'[d] = "merging"
        /\ \A e \in Dispatches : e # d => at'[e] = at[e]
    BY <1>2, <1>3, DispatchGoes
  <1>5. /\ m \in ScopeState /\ m.holders = {} /\ m.signed = {} /\ m.prior = file
    BY <1>1, <1>3, NoStateShared DEF ScopingTypes, ScopeState
  <1>6. ScopingTypes'
    BY <1>2, <1>3, <1>4, <1>5 DEF ScopingTypes
  <1>7. OneInside' /\ NoneDead'
    BY <1>2, <1>3, LockHeld DEF ScopingInv
  <1>8. \A e \in Dispatches : e # d => at'[e] \notin Inside
    BY <1>3, <1>4 DEF ScopingInv, OneInside
  <1>9. \A e \in Dispatches : ~Working(e)'
    BY <1>4 DEF ScopingInv, HoldersKept, Working
  <1>10. HoldersKept'
    BY <1>9 DEF HoldersKept
  <1>11. Merged'
    <2>1. \A e \in Dispatches : at'[e] # "running" /\ at'[e] # "recording"
      BY <1>4, <1>8, <1>9 DEF Working, Inside
    <2> QED
      BY <1>2, <2>1 DEF Merged
  <1>12. \A s \in Slots : Cleared(s)
    BY <1>4 DEF ScopingInv, FilesFit
  <1>13. FilesFit'
    <2>1. \A s \in Slots : Fits(mem, s)'
      BY <1>2, <1>12 DEF Cleared, Fits, Excused
    <2> QED
      BY <1>4, <1>8, <2>1 DEF FilesFit, Inside
  <1>14. PriorSound(state)' /\ EditsUndoneOnlyIfRejoined'
    BY <1>2 DEF ScopingInv, PriorSound, Excused, EditsUndoneOnlyIfRejoined
  <1>15. PriorSound(mem)'
    BY <1>2, <1>5, <1>12 DEF PriorSound, Cleared, Excused
  <1> QED
    BY <1>6, <1>7, <1>10, <1>11, <1>13, <1>14, <1>15 DEF ScopingInv

LEMMA MergeBlockKeeps ==
  ASSUME ScopingInv, NEW d \in Dispatches, NEW s \in Slots, MergeBlock(d, s) PROVE ScopingInv'
  <1>1. PICK to : to = IF left = {s} THEN "recording" ELSE "merging"
    OBVIOUS
  <1>2. PICK merged : merged = [file[s] EXCEPT !.block = TRUE]
    OBVIOUS
  <1>3. PICK w : w = [mem.wrote EXCEPT ![s] = merged]
    OBVIOUS
  <1>4. PICK u : u = [mem EXCEPT !.wrote = w]
    OBVIOUS
  <1>5. PICK m : m = [u EXCEPT !.signed = mem.signed \cup {s}]
    OBVIOUS
  <1>6. ScopingTypes /\ mem \in ScopeState /\ file \in [Slots -> Text]
    BY DEF ScopingInv, ScopingTypes
  <1>7. merged \in Text /\ merged.text = file[s].text /\ merged.block
    BY <1>2, <1>6 DEF Text
  <1>8. w \in [Slots -> Text] /\ w[s] = merged /\ \A x \in Slots : x # s => w[x] = mem.wrote[x]
    BY <1>3, <1>6, <1>7 DEF ScopeState
  <1>9. /\ u \in ScopeState /\ u.wrote = w /\ u.holders = mem.holders /\ u.prior = mem.prior
        /\ u.signed = mem.signed
    BY <1>4, <1>6, <1>8 DEF ScopeState
  <1>10. /\ m \in ScopeState /\ m.wrote = w /\ m.holders = mem.holders /\ m.prior = mem.prior
         /\ m.signed = mem.signed \cup {s}
    BY <1>5, <1>6, <1>9 DEF ScopeState
  <1>11. [mem EXCEPT !.wrote[s] = merged, !.signed = @ \cup {s}] = m
    BY <1>3, <1>4, <1>5, <1>6, <1>9 DEF ScopeState
  <1>12. /\ s \in left /\ left' = left \ {s} /\ Goes(d, "merging", to) /\ mem' = m
         /\ file' = [file EXCEPT ![s] = merged] /\ unblocked' = unblocked \ {s}
         /\ rejoined' = IF mem.prior[s].text # merged.text THEN rejoined \cup {s} ELSE rejoined
         /\ UNCHANGED <<state, dead, latest, touched, torn, window, edits>>
    BY <1>1, <1>2, <1>11 DEF MergeBlock
  <1>13. to \in Places /\ to \in {"merging", "recording"} /\ (to = "recording" => left = {s})
         /\ "merging" \in Inside
    BY <1>1 DEF Places, Inside
  <1>14. /\ at' \in [Dispatches -> Places] /\ at[d] = "merging" /\ at'[d] = to
         /\ \A e \in Dispatches : e # d => at'[e] = at[e]
    BY <1>6, <1>12, <1>13, DispatchGoes
  <1>15. \A e \in Dispatches : e # d => at'[e] \notin Inside
    BY <1>13, <1>14 DEF ScopingInv, OneInside
  <1>16. /\ file' \in [Slots -> Text] /\ file'[s] = merged
         /\ \A x \in Slots : x # s => file'[x] = file[x]
    BY <1>6, <1>7, <1>12
  <1>17. ScopingTypes'
    BY <1>6, <1>10, <1>12, <1>14, <1>16 DEF ScopingTypes
  <1>18. OneInside' /\ NoneDead'
    BY <1>6, <1>12, <1>13, LockHeld DEF ScopingInv
  <1>19. HoldersKept'
    <2>1. \A e \in Dispatches : Working(e)' => Working(e)
      BY <1>13, <1>14 DEF Working
    <2>2. \A e \in Dispatches : Working(e) => e \in state.holders /\ e \in mem.holders
      BY <1>14 DEF ScopingInv, HoldersKept
    <2> QED
      BY <1>10, <1>12, <1>13, <1>14, <1>15, <2>1, <2>2 DEF HoldersKept, Inside
  <1>20. \A x \in Slots : Blocked(x) \/ x = s => Blocked(x)'
    BY <1>7, <1>12, <1>16 DEF Blocked
  <1>21. Merged'
    <2>1. \A x \in Slots \ left' : Blocked(x)'
      BY <1>12, <1>14, <1>20 DEF ScopingInv, Merged
    <2>2. to = "recording" => \A x \in Slots : Blocked(x)'
      BY <1>12, <1>13, <2>1
    <2>3. \A e \in Dispatches : at[e] = "running" => \A x \in Slots : Blocked(x)'
      BY <1>20 DEF ScopingInv, Merged
    <2> QED
      BY <1>12, <1>13, <1>14, <1>15, <2>1, <2>2, <2>3 DEF Merged, Inside
  <1>22. FilesFit'
    <2>1. \A x \in Slots : Fits(mem, x)
      BY <1>14 DEF ScopingInv, FilesFit
    <2>2. \A x \in Slots : Fits(mem, x)'
      BY <1>8, <1>10, <1>12, <1>16, <2>1 DEF Fits, Excused
    <2> QED
      BY <1>13, <1>14, <1>15, <2>2 DEF FilesFit, Inside
  <1>23. PriorSound(state)'
    BY <1>12 DEF ScopingInv, PriorSound, Excused
  <1>24. PriorSound(mem)'
    <2>1. mem.prior[s].text = w[s].text \/ s \in rejoined'
      BY <1>8, <1>12
    <2> QED
      BY <1>8, <1>10, <1>12, <2>1 DEF ScopingInv, PriorSound, Excused
  <1>25. EditsUndoneOnlyIfRejoined'
    BY <1>7, <1>12, <1>16 DEF ScopingInv, EditsUndoneOnlyIfRejoined
  <1> QED
    BY <1>17, <1>18, <1>19, <1>21, <1>22, <1>23, <1>24, <1>25 DEF ScopingInv

LEMMA RecordKeeps ==
  ASSUME ScopingInv, NEW d \in Dispatches, Record(d) PROVE ScopingInv'
  <1>1. PICK m : m = [mem EXCEPT !.holders = mem.holders \cup {d}]
    OBVIOUS
  <1>2. /\ Goes(d, "recording", "running") /\ state' = m /\ mem' = NoState
        /\ UNCHANGED <<file, left, dead, latest, unblocked, touched, rejoined, torn, window,
                       edits>>
    BY <1>1 DEF Record, scopeGhosts
  <1>3. "running" \in Places /\ "recording" \in Inside /\ ScopingTypes
    BY DEF Places, Inside, ScopingInv
  <1>4. /\ at' \in [Dispatches -> Places] /\ at[d] = "recording" /\ at'[d] = "running"
        /\ \A e \in Dispatches : e # d => at'[e] = at[e]
    BY <1>2, <1>3, DispatchGoes
  <1>5. /\ m \in ScopeState /\ m.holders = mem.holders \cup {d} /\ m.signed = mem.signed
        /\ m.prior = mem.prior /\ m.wrote = mem.wrote
    BY <1>1, <1>3 DEF ScopingTypes, ScopeState
  <1>6. ScopingTypes'
    BY <1>2, <1>3, <1>4, <1>5, NoStateShared DEF ScopingTypes
  <1>7. OneInside' /\ NoneDead'
    BY <1>2, <1>3, LockHeld DEF ScopingInv
  <1>8. \A e \in Dispatches : at'[e] \notin Inside
    BY <1>3, <1>4 DEF ScopingInv, OneInside, Inside
  <1>9. HoldersKept'
    <2>1. \A e \in Dispatches : Working(e)' => e = d \/ e \in mem.holders
      BY <1>4 DEF ScopingInv, HoldersKept, Working
    <2> QED
      BY <1>2, <1>5, <1>8, <2>1 DEF HoldersKept, Inside
  <1>10. Merged'
    <2>1. \A e \in Dispatches : at'[e] = "running" => \A s \in Slots : Blocked(s)
      BY <1>4 DEF ScopingInv, Merged
    <2> QED
      BY <1>2, <1>8, <2>1 DEF Merged, Blocked, Inside
  <1>11. FilesFit'
    <2>1. \A s \in Slots : Fits(mem, s)
      BY <1>4 DEF ScopingInv, FilesFit
    <2>2. \A s \in Slots : Fits(state, s)'
      BY <1>2, <1>5, <2>1 DEF Fits, Excused
    <2> QED
      BY <1>8, <2>2 DEF FilesFit, Inside
  <1>12. PriorSound(state)' /\ PriorSound(mem)'
    <2>1. PriorSound(mem)
      BY DEF ScopingInv
    <2>2. PriorSound(NoState)'
      BY DEF NoState, Plain, NoText, PriorSound
    <2> QED
      BY <1>2, <1>5, <2>1, <2>2 DEF PriorSound, Excused
  <1>13. EditsUndoneOnlyIfRejoined'
    BY <1>2 DEF ScopingInv, EditsUndoneOnlyIfRejoined
  <1> QED
    BY <1>6, <1>7, <1>9, <1>10, <1>11, <1>12, <1>13 DEF ScopingInv

LEMMA ReleaseSharedKeeps ==
  ASSUME ScopingInv, NEW d \in Dispatches, ReleaseShared(d) PROVE ScopingInv'
  <1>1. PICK m : m = [state EXCEPT !.holders = OthersOf(d)]
    OBVIOUS
  <1>2. /\ ~Locked /\ Goes(d, "leaving", "done") /\ state' = m
        /\ UNCHANGED <<file, mem, left, dead, latest, unblocked, touched, rejoined, torn,
                       window, edits>>
    BY <1>1 DEF ReleaseShared, scopeGhosts
  <1>3. "done" \in Places /\ ScopingTypes
    BY DEF Places, ScopingInv
  <1>4. /\ at' \in [Dispatches -> Places] /\ at[d] = "leaving" /\ at'[d] = "done"
        /\ \A e \in Dispatches : e # d => at'[e] = at[e]
    BY <1>2, <1>3, DispatchGoes
  <1>5. /\ m \in ScopeState /\ m.holders = LiveHolders \ {d} /\ m.signed = state.signed
        /\ m.prior = state.prior /\ m.wrote = state.wrote
    BY <1>1, <1>3 DEF ScopingTypes, ScopeState, OthersOf, LiveHolders
  <1>6. ScopingTypes'
    BY <1>2, <1>3, <1>4, <1>5 DEF ScopingTypes
  <1>7. OneInside' /\ NoneDead'
    BY <1>2, <1>3, LockHeld DEF ScopingInv
  <1>8. \A e \in Dispatches : at[e] \notin Inside /\ at'[e] \notin Inside
    BY <1>2, <1>4 DEF Locked, Inside
  <1>9. HoldersKept'
    <2>1. \A e \in Dispatches : Working(e)' => e # d /\ e \in LiveHolders
      BY <1>4, WorkersLive DEF Working
    <2> QED
      BY <1>2, <1>5, <1>8, <2>1 DEF HoldersKept, Inside
  <1>10. Merged'
    BY <1>2, <1>4 DEF ScopingInv, Merged, Blocked
  <1>11. FilesFit'
    <2>1. \A s \in Slots : Fits(state, s)
      BY <1>8 DEF ScopingInv, FilesFit
    <2>2. \A s \in Slots : Fits(state, s)'
      BY <1>2, <1>5, <2>1 DEF Fits, Excused
    <2> QED
      BY <1>8, <2>2 DEF FilesFit, Inside
  <1>12. PriorSound(state)' /\ PriorSound(mem)' /\ EditsUndoneOnlyIfRejoined'
    BY <1>2, <1>5 DEF ScopingInv, PriorSound, Excused, EditsUndoneOnlyIfRejoined
  <1> QED
    BY <1>6, <1>7, <1>9, <1>10, <1>11, <1>12 DEF ScopingInv

LEMMA EnterToReleaseKeeps ==
  ASSUME ScopingInv, NEW d \in Dispatches, EnterToRelease(d) PROVE ScopingInv'
  <1>1. /\ ~Locked /\ OthersOf(d) = {} /\ Goes(d, "leaving", "restoring")
        /\ mem' = state /\ left' = Slots
        /\ UNCHANGED <<file, state, dead, latest, unblocked, touched, rejoined, torn, window,
                       edits>>
    BY DEF EnterToRelease, scopeGhosts
  <1>2. "restoring" \in Places /\ ScopingTypes
    BY DEF Places, Inside, ScopingInv
  <1>3. /\ at' \in [Dispatches -> Places] /\ at[d] = "leaving" /\ at'[d] = "restoring"
        /\ \A e \in Dispatches : e # d => at'[e] = at[e]
    BY <1>1, <1>2, DispatchGoes
  <1>4. ScopingTypes'
    BY <1>1, <1>2, <1>3 DEF ScopingTypes
  <1>5. OneInside' /\ NoneDead'
    BY <1>1, <1>2, LockHeld DEF ScopingInv
  <1>6. \A e \in Dispatches : at[e] \notin Inside /\ (e # d => at'[e] \notin Inside)
    BY <1>1, <1>3 DEF Locked
  <1>7. \A e \in Dispatches : ~Working(e)'
    BY <1>1, <1>3, WorkersLive DEF Working, OthersOf
  <1>8. HoldersKept'
    BY <1>7 DEF HoldersKept
  <1>9. Merged'
    BY <1>3, <1>6, <1>7 DEF Merged, Working, Inside
  <1>10. FilesFit'
    <2>1. \A s \in Slots : Fits(state, s)
      BY <1>6 DEF ScopingInv, FilesFit
    <2>2. \A s \in Slots : Fits(state, s)'
      BY <1>1, <2>1 DEF Fits, Excused
    <2> QED
      BY <1>1, <1>3, <1>6, <2>2 DEF FilesFit, Inside
  <1>11. PriorSound(state)' /\ PriorSound(mem)' /\ EditsUndoneOnlyIfRejoined'
    BY <1>1 DEF ScopingInv, PriorSound, Excused, EditsUndoneOnlyIfRejoined
  <1> QED
    BY <1>4, <1>5, <1>8, <1>9, <1>10, <1>11 DEF ScopingInv

LEMMA ClearScopeStateKeeps ==
  ASSUME ScopingInv, NEW d \in Dispatches, ClearScopeState(d) PROVE ScopingInv'
  <1>1. /\ Goes(d, "clearing", "done") /\ state' = NoState /\ mem' = NoState
        /\ UNCHANGED <<file, left, dead, latest, unblocked, touched, rejoined, torn, window,
                       edits>>
    BY DEF ClearScopeState, scopeGhosts
  <1>2. "done" \in Places /\ "clearing" \in Inside /\ ScopingTypes
    BY DEF Places, Inside, ScopingInv
  <1>3. /\ at' \in [Dispatches -> Places] /\ at[d] = "clearing" /\ at'[d] = "done"
        /\ \A e \in Dispatches : e # d => at'[e] = at[e]
    BY <1>1, <1>2, DispatchGoes
  <1>4. ScopingTypes'
    BY <1>1, <1>2, <1>3, NoStateShared DEF ScopingTypes
  <1>5. OneInside' /\ NoneDead'
    BY <1>1, <1>2, LockHeld DEF ScopingInv
  <1>6. \A e \in Dispatches : at'[e] \notin Inside
    BY <1>2, <1>3 DEF ScopingInv, OneInside, Inside
  <1>7. \A e \in Dispatches : ~Working(e)'
    BY <1>3 DEF ScopingInv, HoldersKept, Working
  <1>8. HoldersKept' /\ Merged'
    BY <1>6, <1>7 DEF HoldersKept, Merged, Working, Inside
  <1>9. FilesFit'
    <2>1. \A s \in Slots : Cleared(s)
      BY <1>3 DEF ScopingInv, FilesFit
    <2>2. \A s \in Slots : Fits(state, s)'
      BY <1>1, <2>1 DEF Fits, Cleared, Excused
    <2> QED
      BY <1>6, <2>2 DEF FilesFit, Inside
  <1>10. PriorSound(state)' /\ PriorSound(mem)'
    <2>1. PriorSound(NoState)'
      BY DEF NoState, Plain, NoText, PriorSound
    <2> QED
      BY <1>1, <2>1 DEF PriorSound, Excused
  <1>11. EditsUndoneOnlyIfRejoined'
    BY <1>1 DEF ScopingInv, EditsUndoneOnlyIfRejoined
  <1> QED
    BY <1>4, <1>5, <1>8, <1>9, <1>10, <1>11 DEF ScopingInv

(* A killed process takes its dispatches, and the lock, with it.           *)
LEMMA ProcessDiesKeeps ==
  ASSUME ScopingBounds, ScopingInv, NEW p, ProcessDies(p) PROVE ScopingInv'
  <1> DEFINE Mine(d) == ProcessOf[d] = p
  <1>1. /\ ScopingTypes /\ dead' = dead \cup {p}
        /\ at' = [d \in Dispatches |-> IF Mine(d) THEN "dead" ELSE at[d]]
        /\ UNCHANGED <<state, latest, unblocked, touched, rejoined, edits>>
    BY DEF ScopingInv, ProcessDies
  <1>2. /\ at' \in [Dispatches -> Places]
        /\ \A d \in Dispatches : at'[d] = (IF Mine(d) THEN "dead" ELSE at[d])
    <2>1. "dead" \in Places
      BY DEF Places
    <2> QED
      BY <1>1, <2>1 DEF ScopingTypes
  <1>3. /\ torn \subseteq torn' /\ window' \in BOOLEAN /\ (window => window')
        /\ (\E d \in Dispatches : Mine(d) /\ at[d] \in {"merging", "recording"}) => window'
    BY <1>1 DEF ProcessDies, ScopingTypes, Inside
  <1>4. IF \E d \in Dispatches : Mine(d) /\ at[d] \in Inside
          THEN mem' = NoState /\ left' = {} ELSE UNCHANGED <<mem, left>>
    BY DEF ProcessDies
  <1>5. \/ UNCHANGED file
        \/ \E s \in left : /\ file' = [file EXCEPT ![s] = Plain(Truncated)] /\ s \in torn'
                           /\ \E d \in Dispatches : Mine(d) /\ at[d] \in Inside
    BY DEF ProcessDies
  <1>6. Plain(Truncated) \in Text /\ ~Plain(Truncated).block
    <2>1. Truncated \in Nat
      BY ScopingBounds DEF Truncated, Edited, Original, ScopingBounds
    <2>2. \A t \in Nat : Plain(t) \in Text /\ ~Plain(t).block
      BY DEF Plain, Text
    <2> QED
      BY <2>1, <2>2
  <1> HIDE DEF Mine
  <1>7. /\ file' \in [Slots -> Text]
        /\ \A s \in Slots : file'[s] = file[s] \/ (~file'[s].block /\ s \in torn')
    BY <1>1, <1>5, <1>6 DEF ScopingTypes
  <1>8. mem' \in ScopeState /\ left' \subseteq Slots
    BY <1>1, <1>4, NoStateShared DEF ScopingTypes
  <1>9. ScopingTypes'
    BY <1>1, <1>2, <1>3, <1>7, <1>8 DEF ScopingTypes
  <1>10. OneInside'
    BY <1>2 DEF ScopingInv, OneInside, Inside
  <1>11. NoneDead'
    BY <1>1, <1>2 DEF ScopingInv, NoneDead, AtWork, Inside, Mine
  <1>12. \A d \in Dispatches : at'[d] \in Inside => at'[d] = at[d] /\ UNCHANGED <<mem, left, file>>
    <2>1. ASSUME NEW d \in Dispatches, at'[d] \in Inside
          PROVE  at'[d] = at[d] /\ UNCHANGED <<mem, left, file>>
      <3>1. at'[d] = at[d] /\ ~Mine(d)
        BY <1>2, <2>1 DEF Inside
      <3>2. ~\E e \in Dispatches : Mine(e) /\ at[e] \in Inside
        BY <2>1, <3>1 DEF ScopingInv, OneInside
      <3> QED
        BY <1>4, <1>5, <3>1, <3>2
    <2> QED
      BY <2>1
  <1>13. HoldersKept'
    <2>1. \A d \in Dispatches : Working(d)' => Working(d)
      BY <1>2 DEF Working
    <2>2. \A d, e \in Dispatches : Working(d) /\ at'[e] \in Inside =>
            /\ at'[e] \notin {"giving_back", "snapshot", "restoring", "clearing"}
            /\ at'[e] \in {"merging", "recording"} => d \in mem'.holders
      BY <1>12 DEF ScopingInv, HoldersKept
    <2> QED
      BY <1>1, <2>1, <2>2 DEF ScopingInv, HoldersKept, Inside
  <1>14. Merged'
    <2>1. \A s \in Slots : Blocked(s) => Blocked(s)'
      BY <1>1, <1>3, <1>7 DEF Blocked
    <2>2. \A d \in Dispatches : at'[d] = "running" => at[d] = "running"
      BY <1>2
    <2>3. \A d \in Dispatches : at'[d] \in {"merging", "recording"} =>
            at'[d] = at[d] /\ left' = left
      BY <1>12 DEF Inside
    <2> QED
      BY <2>1, <2>2, <2>3 DEF ScopingInv, Merged
  <1>15. \A s \in Slots : Excused(s) => Excused(s)'
    BY <1>1, <1>3 DEF Excused
  <1>16. FilesFit'
    <2>1. CASE \E d \in Dispatches : at'[d] \in Inside
      <3>1. UNCHANGED <<mem, left, file>>
        BY <1>12, <2>1
      <3>2. \A s \in Slots : /\ Fits(state, s) => Fits(state, s)'
                             /\ Fits(mem, s) => Fits(mem, s)'
                             /\ Cleared(s) => Cleared(s)'
        BY <1>1, <1>15, <3>1 DEF Fits, Cleared
      <3>3. \A d \in Dispatches : at'[d] \in Inside => at'[d] = at[d]
        BY <1>12
      <3> QED
        BY <1>1, <2>1, <3>1, <3>2, <3>3 DEF ScopingInv, FilesFit, Inside
    <2>2. CASE \A d \in Dispatches : at'[d] \notin Inside
      <3>1. \A s \in Slots : Fits(state, s)'
        <4>1. CASE window'
          BY <4>1 DEF Fits, Excused
        <4>2. CASE ~window'
          <5>1. \A d \in Dispatches : at[d] \notin {"merging", "recording"}
            BY <1>2, <1>3, <2>2, <4>2 DEF Inside
          <5>2. \A s \in Slots : Fits(state, s)
            BY <5>1 DEF ScopingInv, FilesFit, Fits, Cleared, Inside
          <5> QED
            BY <1>1, <1>7, <1>15, <5>2 DEF Fits
        <4> QED
          BY <4>1, <4>2
      <3> QED
        BY <2>2, <3>1 DEF FilesFit, Inside
    <2> QED
      BY <2>1, <2>2
  <1>17. PriorSound(state)'
    BY <1>1, <1>3, <1>15 DEF ScopingInv, PriorSound
  <1>18. PriorSound(mem)'
    <2>1. PriorSound(NoState)'
      BY DEF NoState, Plain, NoText, PriorSound
    <2>2. mem' \in {mem, NoState}
      BY <1>4
    <2>3. \A m : PriorSound(m) => PriorSound(m)'
      BY <1>1, <1>3, <1>15 DEF PriorSound
    <2> QED
      BY <2>1, <2>2, <2>3 DEF ScopingInv, PriorSound
  <1>19. EditsUndoneOnlyIfRejoined'
    BY <1>1, <1>3, <1>7 DEF ScopingInv, EditsUndoneOnlyIfRejoined
  <1> QED
    BY <1>9, <1>10, <1>11, <1>13, <1>14, <1>16, <1>17, <1>18, <1>19 DEF ScopingInv

LEMMA EditByHandKeeps ==
  ASSUME ScopingInv, NEW s \in Slots, EditByHand(s) PROVE ScopingInv'
  <1>1. PICK keeps \in {file[s].block, FALSE} :
          /\ file' = [file EXCEPT ![s] = [text |-> Edited(edits + 1), block |-> keeps]]
          /\ unblocked' = IF keeps THEN unblocked ELSE unblocked \cup {s}
    BY DEF EditByHand
  <1>2. PICK new : new = [text |-> Edited(edits + 1), block |-> keeps]
    OBVIOUS
  <1>3. /\ edits' = edits + 1 /\ latest' = [latest EXCEPT ![s] = Edited(edits + 1)]
        /\ touched' = IF file[s].block THEN touched \cup {s} ELSE touched
        /\ UNCHANGED <<state, at, mem, left, dead, rejoined, torn, window>> /\ ScopingTypes
    BY DEF EditByHand, ScopingInv
  <1>4. keeps \in BOOLEAN /\ Edited(edits + 1) \in Nat /\ (keeps => file[s].block)
    <2>1. file[s].block \in BOOLEAN
      BY <1>3 DEF ScopingTypes, Text
    <2>2. Edited(edits + 1) \in Nat
      BY <1>3 DEF ScopingTypes, Edited, Original
    <2> QED
      BY <2>1, <2>2
  <1>5. new \in Text /\ new.text = Edited(edits + 1) /\ (new.block <=> keeps)
    BY <1>2, <1>4 DEF Text
  <1>6. /\ file' \in [Slots -> Text] /\ file'[s] = new
        /\ \A x \in Slots : x # s => file'[x] = file[x]
    BY <1>1, <1>2, <1>3, <1>5 DEF ScopingTypes
  <1>7. /\ latest' \in [Slots -> Nat] /\ latest'[s] = new.text
        /\ \A x \in Slots : x # s => latest'[x] = latest[x]
    BY <1>3, <1>4, <1>5 DEF ScopingTypes
  <1>8. ScopingTypes'
    BY <1>3, <1>6, <1>7 DEF ScopingTypes
  <1>9. OneInside' /\ NoneDead' /\ HoldersKept'
    BY <1>3 DEF ScopingInv, OneInside, NoneDead, AtWork, HoldersKept, Working
  <1>10. \A x \in Slots : Blocked(x) => Blocked(x)'
    BY <1>1, <1>3, <1>4, <1>5, <1>6 DEF Blocked
  <1>11. Merged'
    BY <1>3, <1>10 DEF ScopingInv, Merged
  <1>12. \A x \in Slots : Excused(x) => Excused(x)'
    BY <1>3 DEF Excused
  <1>13. file'[s].block => Excused(s)'
    BY <1>3, <1>4, <1>5, <1>6 DEF Excused
  <1>14. \A x \in Slots : /\ Fits(state, x) => Fits(state, x)'
                          /\ Fits(mem, x) => Fits(mem, x)'
                          /\ Cleared(x) => Cleared(x)'
    BY <1>3, <1>6, <1>12, <1>13 DEF Fits, Cleared
  <1>15. FilesFit'
    BY <1>3, <1>14 DEF ScopingInv, FilesFit
  <1>16. PriorSound(state)' /\ PriorSound(mem)'
    BY <1>3, <1>12 DEF ScopingInv, PriorSound
  <1>17. EditsUndoneOnlyIfRejoined'
    BY <1>3, <1>6, <1>7 DEF ScopingInv, EditsUndoneOnlyIfRejoined
  <1> QED
    BY <1>8, <1>9, <1>11, <1>15, <1>16, <1>17 DEF ScopingInv

LEMMA ScopingNextInv ==
  ASSUME ScopingBounds, ScopingInv, [ScopingNext]_scopingVars PROVE ScopingInv'
  <1>1. ASSUME NEW d \in Dispatches, RunUnscoped(d) \/ DecideToScope(d) \/ HarnessExits(d)
        PROVE  ScopingInv'
    <2>1. {"idle", "unscoped", "scoped", "running", "leaving", "done"} \subseteq Places \ Inside
      BY DEF Places, Inside
    <2>2. UNCHANGED <<file, state, mem, left, dead, scopeGhosts>>
      BY <1>1 DEF RunUnscoped, DecideToScope, HarnessExits
    <2>3. CASE Goes(d, "idle", "unscoped") \/ Goes(d, "idle", "scoped")
      BY <2>1, <2>2, <2>3, OutsideSteps
    <2>4. CASE Goes(d, "running", "leaving") \/ Goes(d, "unscoped", "done")
      BY <2>1, <2>2, <2>4, OutsideSteps
    <2> QED
      BY <1>1, <2>3, <2>4 DEF RunUnscoped, DecideToScope, HarnessExits
  <1>2. ASSUME NEW d \in Dispatches,
               \/ EnterToAcquire(d) \/ FreshSnapshot(d) \/ Record(d) \/ ReleaseShared(d)
               \/ EnterToRelease(d) \/ ClearScopeState(d)
        PROVE  ScopingInv'
    BY <1>2, EnterToAcquireKeeps, FreshSnapshotKeeps, RecordKeeps, ReleaseSharedKeeps,
       EnterToReleaseKeeps, ClearScopeStateKeeps
  <1>3. ASSUME NEW d \in Dispatches, NEW s \in Slots,
               RestoreAbandoned(d, s) \/ MergeBlock(d, s) \/ RestoreLast(d, s)
        PROVE  ScopingInv'
    BY <1>3, RestoreKeeps, MergeBlockKeeps DEF RestoreAbandoned, RestoreLast
  <1>4. CASE \E d \in Dispatches : ProcessDies(ProcessOf[d])
    BY <1>4, ProcessDiesKeeps
  <1>5. CASE \E s \in Slots : EditByHand(s)
    BY <1>5, EditByHandKeeps
  <1>6. CASE WorkspaceBound \/ UNCHANGED scopingVars
    <2>1. UNCHANGED <<file, state, at, mem, left, dead, latest, unblocked, touched, rejoined,
                      torn, window, edits>>
      BY <1>6 DEF WorkspaceBound, scopingVars, scopeGhosts
    <2>2. ScopingTypes' /\ OneInside' /\ NoneDead' /\ HoldersKept' /\ Merged'
      BY <2>1 DEF ScopingInv, ScopingTypes, OneInside, NoneDead, AtWork, HoldersKept, Working,
                  Merged, Blocked
    <2>3. FilesFit' /\ PriorSound(state)' /\ PriorSound(mem)' /\ EditsUndoneOnlyIfRejoined'
      BY <2>1 DEF ScopingInv, FilesFit, Fits, Cleared, Excused, PriorSound,
                  EditsUndoneOnlyIfRejoined
    <2> QED
      BY <2>2, <2>3 DEF ScopingInv
  <1> QED
    BY <1>1, <1>2, <1>3, <1>4, <1>5, <1>6 DEF ScopingNext

(* While a scoped harness runs its files carry the memnos block; a block   *)
(* left behind can be taken out by the next dispatch; no restore undoes an *)
(* edit that was not signed as memnos's own.  Excepted are the files a     *)
(* person or a death has touched, as the properties say.                   *)
THEOREM WorkspaceIsGivenBack == ScopingSpec => [](ScopedWhileRunning /\ WorkspaceGivenBack)
  <1>1. ScopingInit => ScopingInv
    BY ScopingInitInv, ScopingBounds
  <1>2. ScopingInv /\ [ScopingNext]_scopingVars => ScopingInv'
    BY ScopingNextInv, ScopingBounds
  <1>3. ScopingInv => ScopedWhileRunning /\ WorkspaceGivenBack
    <2>1. ScopingInv => ScopedWhileRunning
      BY DEF ScopingInv, Merged, Blocked, ScopedWhileRunning
    <2>2. ScopingInv => BlockTakenOut
      BY DEF ScopingInv, FilesFit, Fits, Excused, BlockTakenOut, AtWork
    <2> QED
      BY <2>1, <2>2 DEF ScopingInv, WorkspaceGivenBack
  <1> QED
    BY <1>1, <1>2, <1>3, PTL DEF ScopingSpec

-----------------------------------------------------------------------------
(* One interactive run.  Past the try block's start the prompt file is     *)
(* deleted and the scope given back on every way out; before it only a     *)
(* refusal leaves quietly, and nothing is there yet.                       *)
Waiting == {"wait", "wait_again", "forwarded"}

SessionTypes ==
  /\ stage \in Preparing \cup Cleaning \cup Waiting \cup {"capture", "exited"}
  /\ written \in Nat /\ scope \in {"none", "due", "held", "back"}
  /\ harnessIs \in {"none", "running", "ended"}

SessionSteps ==
  /\ stage \in {"check", "secrets"} => ~promptFile
  /\ stage \in {"check", "secrets", "prompt", "channel", "scope"} => scope \in {"none", "due"}
  /\ stage \in {"give_back", "capture"} => ~promptFile
  /\ stage = "capture" => scope # "held"
  /\ harnessIs = "none" <=> stage \in {"check", "secrets", "prompt", "channel", "scope", "spawn"}
                            \/ (stage = "exited" /\ harnessIs = "none")
  /\ scope = "back" => stage \in {"capture", "exited"}
  /\ stage \in {"restore", "unlink", "give_back", "capture"} \/ scope = "back" =>
       harnessIs # "running" \/ "impatient" \in mishap
  /\ ingested.of # "none" => stage = "exited"
  /\ ingested.of = "own" => harnessIs = "ended" \/ "impatient" \in mishap

SessionInv ==
  /\ SessionTypes /\ SessionSteps /\ LeavesNothing /\ ScopeOutlastsHarness
  /\ IngestsWholeTranscript

LEMMA SessionInitInv == ASSUME SessionInit PROVE SessionInv
  BY DEF SessionInit, SessionInv, SessionTypes, SessionSteps, LeavesNothing, ScopeOutlastsHarness,
         IngestsWholeTranscript, NotIngested, Preparing, Cleaning, Waiting

LEMMA SessionNextInv ==
  ASSUME SessionInv, [SessionNext]_sessionVars PROVE SessionInv'
  <1> USE DEF SessionInv, SessionTypes, SessionSteps, LeavesNothing, ScopeOutlastsHarness,
              IngestsWholeTranscript, Preparing, Cleaning, Waiting, Proceed, Aside
  <1>1. CASE CheckHarness \/ ResolveSecrets \/ WritePrompt \/ OpenChannel
    BY <1>1 DEF CheckHarness, ResolveSecrets, WritePrompt, OpenChannel
  <1>2. CASE ScopeWorkspace
    BY <1>2 DEF ScopeWorkspace
  <1>3. CASE SpawnHarness \/ ArmHandler
    BY <1>3 DEF SpawnHarness, ArmHandler
  <1>4. CASE NoHarness
    BY <1>4 DEF NoHarness
  <1>5. CASE HarnessReturns \/ HarnessTooSlow
    BY <1>5 DEF HarnessReturns, HarnessTooSlow
  <1>6. CASE RestoreHandler \/ UnlinkPrompt
    BY <1>6 DEF RestoreHandler, UnlinkPrompt
  <1>7. CASE GiveScopeBack
    BY <1>7 DEF GiveScopeBack
  <1>8. CASE CaptureTranscript
    <2>1. ingested' = NotIngested \/ UNCHANGED ingested
          \/ ingested' = [of |-> latestFile, upTo |-> written]
      BY <1>8 DEF CaptureTranscript
    <2> QED
      BY <1>8, <2>1 DEF CaptureTranscript, NotIngested
  <1>9. CASE TranscriptGrows \/ SessionHarnessEnds \/ OtherSessionWrites
    BY <1>9 DEF TranscriptGrows, SessionHarnessEnds, OtherSessionWrites
  <1>10. CASE KilledOutside
    BY <1>10 DEF KilledOutside, TakeSignal
  <1>11. CASE Interrupt
    BY <1>11 DEF Interrupt, TakeSignal, Impatient
  <1>12. CASE Terminate
    BY <1>12 DEF Terminate, TakeSignal, Impatient
  <1>13. CASE UNCHANGED sessionVars
    BY <1>13 DEF sessionVars
  <1> QED
    BY <1>1, <1>2, <1>3, <1>4, <1>5, <1>6, <1>7, <1>8, <1>9, <1>10, <1>11, <1>12, <1>13
       DEF SessionNext

(* Signals during the wait, however many, leave no prompt file and no      *)
(* scoped workspace, the scope outlasts the harness, and a transcript is   *)
(* ingested whole, but for the mishaps the properties name.                *)
THEOREM RunsEndCleanly ==
  SessionSpec => [](LeavesNothing /\ ScopeOutlastsHarness /\ IngestsWholeTranscript)
  <1>1. SessionInit => SessionInv
    BY SessionInitInv
  <1>2. SessionInv /\ [SessionNext]_sessionVars => SessionInv'
    BY SessionNextInv
  <1>3. SessionInv => LeavesNothing /\ ScopeOutlastsHarness /\ IngestsWholeTranscript
    BY DEF SessionInv
  <1> QED
    BY <1>1, <1>2, <1>3, PTL DEF SessionSpec

-----------------------------------------------------------------------------
(* Dispatch.  What the tool in progress knows of the task it is about.     *)
ToolRec ==
  [name : {"idle", "listening", "launching", "launched", "evicting", "waiting", "verdict", "sweep"},
   task : Tasks \cup {NoTask}, seen : 0..MaxCommits, list : SUBSET Tasks, gate : Gates]
CommitRec == [by : Tasks \cup {NoTask}, bad : BOOLEAN]
DispatchTypes ==
  /\ tool \in ToolRec /\ harness \in [Tasks -> {"none", "coming", "up", "ended"}]
  /\ base \in [Tasks -> Int] /\ (\A t \in Tasks : -1 <= base[t] /\ base[t] <= Len(repo))
  /\ published \in SUBSET Tasks /\ IsFiniteSet(published) /\ registry \in [Tasks -> Nat]
  /\ repo \in Seq(CommitRec) /\ 1 <= Len(repo) /\ Len(repo) <= MaxCommits
  /\ crowded \subseteq Tasks /\ slipped \subseteq published /\ asked \in 0..MaxQuestions
Underway == {"up", "ended"}
ToolKnows ==
  /\ tool.name \in {"listening", "launching"} => tool.task \in Tasks /\ harness[tool.task] = "coming"
  /\ tool.name = "launched" =>
       tool.task \in Tasks \ published /\ harness[tool.task] \in Underway
  /\ tool.name = "evicting" =>
       /\ tool.task \in published \ InRegistry /\ tool.list \subseteq InRegistry
       /\ \A u \in InRegistry : registry[u] < Cardinality(published)
       /\ \A u \in tool.list : harness[u] = "ended"
  /\ tool.name = "verdict" =>
       /\ tool.task \in Tasks /\ harness[tool.task] = "ended"
       /\ base[tool.task] >= 0 /\ tool.gate # "broken"

(* The registry numbers what was published in its order.                   *)
Numbered ==
  /\ InRegistry \subseteq published /\ \A t \in published : harness[t] \in Underway
  /\ \A t \in InRegistry : registry[t] <= Cardinality(published)
  /\ \A t, u \in InRegistry : registry[t] = registry[u] => t = u

(* A task commits after its base was taken and before it has ended.        *)
CommitsSince ==
  \A i \in DOMAIN repo : repo[i].by \in Tasks =>
     harness[repo[i].by] \in Underway /\ i > base[repo[i].by]
Judged ==
  \A v \in verdicts :
    /\ v.task \in Tasks /\ v.upto \in Nat /\ v.upto <= Len(repo)
    /\ v.gate # "off" /\ (~v.blocked \/ v.reason = "violations") => harness[v.task] = "ended"
    /\ v.gate # "off" /\ v.reason = "violations" => base[v.task] >= 0
Swept == \A s \in sweeps : s.head \in Nat /\ s.head <= Len(repo) /\ s.asked \in Nat

DispatchInv ==
  /\ DispatchTypes /\ ToolKnows /\ Numbered /\ CommitsSince /\ Judged /\ Swept
  /\ GateHolds /\ RunningTasksKept /\ SweepComplete

LEMMA BoundsOfDispatch ==
  ASSUME DispatchBounds
  PROVE  /\ TaskCap \in Nat /\ MaxCommits \in Nat \ {0} /\ MaxQuestions \in Nat /\ NoTask \notin Tasks
         /\ IdleTool \in ToolRec /\ IdleTool.name = "idle" /\ IdleTool.task = NoTask
  <1>1. TaskCap \in Nat /\ MaxCommits \in Nat \ {0} /\ MaxQuestions \in Nat /\ NoTask \notin Tasks
    BY DEF DispatchBounds
  <1>2. 0 \in 0..MaxCommits /\ "off" \in Gates
    BY <1>1 DEF Gates
  <1> QED
    BY <1>1, <1>2 DEF IdleTool, Call, ToolRec

LEMMA CallFacts ==
  ASSUME DispatchBounds, NEW t \in Tasks,
         NEW n \in {"listening", "launching", "launched", "evicting", "waiting"}
  PROVE  /\ Call(n, t, 0) \in ToolRec /\ Call(n, t, 0).name = n /\ Call(n, t, 0).task = t
         /\ Call(n, t, 0).list = {}
  <1>1. Call(n, t, 0) = [name |-> n, task |-> t, seen |-> 0, list |-> {}, gate |-> "off"]
    BY DEF Call
  <1>2. 0 \in 0..MaxCommits /\ "off" \in Gates
    BY BoundsOfDispatch DEF Gates
  <1> QED
    BY <1>1, <1>2 DEF ToolRec

LEMMA DispatchInitInv == ASSUME DispatchBounds, DispatchInit PROVE DispatchInv
  <1>1. tool \in ToolRec /\ tool.name = "idle" /\ tool.task = NoTask
    BY BoundsOfDispatch DEF DispatchInit
  <1>2. /\ harness = [t \in Tasks |-> "none"] /\ base = [t \in Tasks |-> -1]
        /\ published = {} /\ registry = [t \in Tasks |-> 0]
        /\ verdicts = {} /\ sweeps = {} /\ crowded = {} /\ slipped = {} /\ asked = 0
    BY DEF DispatchInit
  <1>3. repo \in Seq(CommitRec) /\ Len(repo) = 1 /\ DOMAIN repo = {1} /\ repo[1].by = NoTask
    <2>1. repo = <<[by |-> NoTask, bad |-> FALSE]>>
      BY DEF DispatchInit
    <2> QED
      BY <2>1 DEF CommitRec
  <1>4. InRegistry = {} /\ IsFiniteSet({}) /\ Cardinality({}) = 0
    BY <1>2, FS_EmptySet DEF InRegistry
  <1>5. DispatchTypes
    <2>1. asked \in 0..MaxQuestions /\ 1 <= MaxCommits
      BY <1>2, BoundsOfDispatch
    <2>2. base \in [Tasks -> Int] /\ \A t \in Tasks : -1 <= base[t] /\ base[t] <= Len(repo)
      BY <1>2, <1>3
    <2>3. harness \in [Tasks -> {"none", "coming", "up", "ended"}] /\ registry \in [Tasks -> Nat]
      BY <1>2
    <2> QED
      BY <1>1, <1>2, <1>3, <1>4, <2>1, <2>2, <2>3 DEF DispatchTypes
  <1>6. ToolKnows /\ Numbered
    BY <1>1, <1>2, <1>4 DEF ToolKnows, Numbered
  <1>7. CommitsSince /\ Judged /\ Swept /\ GateHolds /\ SweepComplete
    BY <1>2, <1>3, BoundsOfDispatch DEF CommitsSince, Judged, Swept, GateHolds, SweepComplete
  <1>8. RunningTasksKept
    BY <1>2, <1>4, BoundsOfDispatch DEF RunningTasksKept
  <1> QED
    BY <1>5, <1>6, <1>7, <1>8 DEF DispatchInv

(* A step that moves only the tool and harnesses onwards.                  *)
LEMMA MovesOn ==
  ASSUME DispatchInv, UNCHANGED <<base, published, registry, crowded, slipped, repo, verdicts, sweeps>>,
         asked' \in 0..MaxQuestions, tool' \in ToolRec,
         harness' \in [Tasks -> {"none", "coming", "up", "ended"}],
         \A t \in Tasks : /\ harness[t] = "ended" => harness'[t] = "ended"
                          /\ harness[t] = "up" => harness'[t] \in Underway
                          /\ Standing(t)' /\ t \in published => Standing(t),
         tool.name = "evicting" => tool' = tool,
         ToolKnows'
  PROVE  DispatchInv'
  <1> USE DEF DispatchInv
  <1>1. InRegistry' = InRegistry
    BY DEF InRegistry
  <1>2. DispatchTypes'
    BY DEF DispatchTypes
  <1>3. Numbered'
    BY <1>1 DEF Numbered, Underway, DispatchTypes
  <1>4. CommitsSince' /\ Judged' /\ Swept'
    BY DEF CommitsSince, Judged, Swept, Underway
  <1>5. GateHolds' /\ SweepComplete'
    BY DEF GateHolds, SweepComplete
  <1>6. RunningTasksKept'
    BY <1>1 DEF RunningTasksKept, DispatchTypes
  <1> QED
    BY <1>2, <1>3, <1>4, <1>5, <1>6

LEMMA ToolStepsKeep ==
  ASSUME DispatchBounds, DispatchInv, NEW t \in Tasks,
         PreparePrompt(t) \/ Launch(t) \/ LaunchFails(t) \/ WaitForHarness(t) \/ HarnessEnds(t)
  PROVE  DispatchInv'
  <1> USE DEF coderVars, answers
  <1>1. tool \in ToolRec /\ harness \in [Tasks -> {"none", "coming", "up", "ended"}]
        /\ asked \in 0..MaxQuestions /\ published \subseteq Tasks
        /\ \A u \in published : harness[u] \in Underway
    BY DEF DispatchInv, DispatchTypes, Numbered
  <1>2. CASE PreparePrompt(t)
    <2>1. /\ tool.name = "idle" /\ tool' = Call("listening", t, 0) /\ harness[t] = "none"
          /\ harness' = [harness EXCEPT ![t] = "coming"]
          /\ UNCHANGED <<base, published, registry, crowded, slipped, repo, verdicts, sweeps, asked>>
      BY <1>2, BoundsOfDispatch DEF PreparePrompt
    <2>2. tool' \in ToolRec /\ tool'.name = "listening" /\ tool'.task = t
      BY <2>1, CallFacts
    <2>3. ToolKnows'
      BY <1>1, <2>1, <2>2 DEF ToolKnows
    <2> QED
      BY <1>1, <2>1, <2>2, <2>3, MovesOn DEF Underway, Standing
  <1>3. CASE Launch(t) \/ LaunchFails(t)
    <2>1. /\ tool = Call("launching", t, 0)
          /\ \/ harness' = [harness EXCEPT ![t] = "up"] /\ tool' = Call("launched", t, 0)
             \/ harness' = [harness EXCEPT ![t] = "ended"] /\ tool' = IdleTool
          /\ UNCHANGED <<base, published, registry, crowded, slipped, repo, verdicts, sweeps, asked>>
      BY <1>3 DEF Launch, LaunchFails
    <2>2. tool.name = "launching" /\ tool.task = t
      BY <2>1, CallFacts
    <2>3. harness[t] = "coming" /\ t \notin published
      BY <1>1, <2>2 DEF DispatchInv, ToolKnows, Underway
    <2>4. tool' \in ToolRec /\ ((tool'.name = "launched" /\ tool'.task = t /\ harness'[t] = "up")
                                \/ tool'.name = "idle")
      BY <1>1, <2>1, CallFacts, BoundsOfDispatch
    <2>5. ToolKnows'
      BY <1>1, <2>1, <2>3, <2>4 DEF ToolKnows, Underway
    <2> QED
      BY <1>1, <2>1, <2>2, <2>3, <2>4, <2>5, MovesOn DEF Underway, Standing
  <1>4. CASE WaitForHarness(t)
    <2>1. /\ tool = Call("waiting", t, 0) /\ tool' = IdleTool
          /\ UNCHANGED <<harness, base, published, registry, crowded, slipped, repo, verdicts,
                         sweeps, asked>>
      BY <1>4 DEF WaitForHarness
    <2>2. tool.name = "waiting" /\ tool'.name = "idle" /\ tool' \in ToolRec
      BY <2>1, CallFacts, BoundsOfDispatch
    <2>3. ToolKnows'
      BY <2>2 DEF ToolKnows
    <2> QED
      BY <1>1, <2>1, <2>2, <2>3, MovesOn DEF Underway, Standing
  <1>5. CASE HarnessEnds(t)
    <2>1. /\ harness[t] = "up" /\ harness' = [harness EXCEPT ![t] = "ended"]
          /\ UNCHANGED <<tool, base, published, registry, crowded, slipped, repo, verdicts,
                         sweeps, asked>>
      BY <1>5 DEF HarnessEnds, Standing
    <2>2. InRegistry' = InRegistry
      BY <2>1 DEF InRegistry
    <2>3. ToolKnows'
      BY <1>1, <2>1, <2>2 DEF ToolKnows, DispatchInv, Underway, InRegistry
    <2> QED
      BY <1>1, <2>1, <2>3, MovesOn DEF Underway, Standing
  <1> QED
    BY <1>2, <1>3, <1>4, <1>5

LEMMA CaptureHeadKeeps ==
  ASSUME DispatchBounds, DispatchInv, NEW t \in Tasks, CaptureHead(t) PROVE DispatchInv'
  <1> USE DEF DispatchInv
  <1>1. /\ tool = Call("listening", t, 0) /\ tool' = Call("launching", t, 0)
        /\ base' = base \/ base' = [base EXCEPT ![t] = Len(repo)]
        /\ UNCHANGED <<harness, published, registry, crowded, slipped, repo, verdicts, sweeps, asked>>
    BY DEF CaptureHead, HeadAt, TakeBase, answers
  <1>2. /\ tool.name = "listening" /\ tool.task = t
        /\ tool' \in ToolRec /\ tool'.name = "launching" /\ tool'.task = t
    BY <1>1, CallFacts
  <1>3. harness[t] = "coming" /\ harness'[t] = "coming" /\ InRegistry' = InRegistry
    BY <1>1, <1>2 DEF ToolKnows, InRegistry
  <1>4. base' \in [Tasks -> Int] /\ \A u \in Tasks : -1 <= base'[u] /\ base'[u] <= Len(repo)
    <2>1. Len(repo) \in Int /\ -1 <= Len(repo)
      BY DEF DispatchTypes
    <2>2. base \in [Tasks -> Int] /\ \A u \in Tasks : -1 <= base[u] /\ base[u] <= Len(repo)
      BY DEF DispatchTypes
    <2>3. CASE base' = [base EXCEPT ![t] = Len(repo)]
      <3>1. base' \in [Tasks -> Int] /\ \A u \in Tasks : base'[u] = base[u] \/ base'[u] = Len(repo)
        BY <2>1, <2>2, <2>3
      <3> QED
        BY <2>1, <2>2, <3>1
    <2> QED
      BY <1>1, <2>2, <2>3
  <1>5. DispatchTypes'
    BY <1>1, <1>2, <1>4 DEF DispatchTypes
  <1>6. ToolKnows' /\ Numbered'
    BY <1>1, <1>2, <1>3 DEF ToolKnows, Numbered
  <1>7. \A u \in Tasks : harness[u] # "coming" => base'[u] = base[u]
    BY <1>1, <1>3 DEF DispatchTypes
  <1>8. CommitsSince' /\ Judged' /\ Swept'
    BY <1>1, <1>7 DEF CommitsSince, Judged, Swept, Underway
  <1>9. GateHolds' /\ SweepComplete'
    <2>1. \A v \in verdicts : v.gate # "off" /\ v.reason = "violations" => base'[v.task] = base[v.task]
      BY <1>7 DEF Judged
    <2> QED
      BY <1>1, <2>1 DEF GateHolds, SweepComplete
  <1>10. RunningTasksKept'
    BY <1>1, <1>2, <1>3 DEF RunningTasksKept, Standing
  <1> QED
    BY <1>5, <1>6, <1>8, <1>9, <1>10

LEMMA PublishTaskKeeps ==
  ASSUME DispatchBounds, DispatchInv, NEW t \in Tasks, PublishTask(t) PROVE DispatchInv'
  <1> USE DEF DispatchInv
  <1>1. PICK ended : ended = {u \in InRegistry : ~Standing(u)}
    OBVIOUS
  <1>2. /\ tool = Call("launched", t, 0) /\ tool' = [Call("evicting", t, 0) EXCEPT !.list = ended]
        /\ published' = published \cup {t}
        /\ UNCHANGED <<base, harness, registry, crowded, slipped, repo, verdicts, sweeps, asked>>
    BY <1>1 DEF PublishTask, HeadAt, TakeBase, answers
  <1>3. InRegistry' = InRegistry /\ ended \subseteq Tasks
    BY <1>1, <1>2 DEF InRegistry
  <1>4. /\ tool.name = "launched" /\ tool.task = t
        /\ tool' \in ToolRec /\ tool'.name = "evicting" /\ tool'.task = t /\ tool'.list = ended
    BY <1>2, <1>3, CallFacts DEF ToolRec
  <1>5. t \notin published /\ harness[t] \in Underway
    BY <1>4 DEF ToolKnows
  <1>6. /\ IsFiniteSet(published') /\ Cardinality(published') = Cardinality(published) + 1
        /\ Cardinality(published) \in Nat
    BY <1>2, <1>5, FS_AddElement, FS_CardinalityType DEF DispatchTypes
  <1>7. DispatchTypes'
    BY <1>2, <1>4, <1>6 DEF DispatchTypes
  <1>8. \A u \in InRegistry : registry[u] \in Nat /\ registry[u] < Cardinality(published')
    BY <1>6 DEF Numbered, DispatchTypes, InRegistry
  <1>9. ToolKnows'
    <2>1. \A u \in ended : u \in InRegistry /\ harness[u] = "ended"
      BY <1>1 DEF Numbered, Underway, Standing
    <2>2. t \in published' /\ t \notin InRegistry'
      BY <1>2, <1>3, <1>5 DEF Numbered
    <2>3. ended \subseteq InRegistry'
      BY <1>1, <1>3
    <2> QED
      BY <1>2, <1>3, <1>4, <1>8, <2>1, <2>2, <2>3 DEF ToolKnows
  <1>10. Numbered'
    <2>1. \A u \in InRegistry : registry[u] <= Cardinality(published')
      BY <1>6, <1>8
    <2> QED
      BY <1>2, <1>3, <1>5, <2>1 DEF Numbered
  <1>11. CommitsSince' /\ Judged' /\ Swept' /\ GateHolds' /\ SweepComplete'
    BY <1>2 DEF CommitsSince, Judged, Swept, GateHolds, SweepComplete
  <1>12. RunningTasksKept'
    BY <1>2, <1>3, <1>4 DEF RunningTasksKept, Standing
  <1> QED
    BY <1>7, <1>9, <1>10, <1>11, <1>12

(* Among distinct numbers: the n oldest are n, or all.                     *)
LEMMA OldestCount ==
  ASSUME NEW S \in SUBSET InRegistry, IsFiniteSet(S), registry \in [Tasks -> Nat],
         \A t, u \in InRegistry : registry[t] = registry[u] => t = u, NEW n \in Int
  PROVE  /\ OldestOf(S, n) \subseteq S
         /\ OldestOf(S, n) = S \/ Cardinality(OldestOf(S, n)) >= n
         /\ n <= 0 => OldestOf(S, n) = {}
  <1> DEFINE upTo(t) == {u \in S : registry[u] <= registry[t]}
             old == OldestOf(S, n)
  <1>1. old = {t \in S : Cardinality(upTo(t)) <= n} /\ old \subseteq S
    BY DEF OldestOf
  <1>2. ASSUME NEW t \in S PROVE IsFiniteSet(upTo(t)) /\ t \in upTo(t) /\ registry[t] \in Nat
    <2>1. upTo(t) \subseteq S /\ registry[t] \in Nat
      BY DEF InRegistry
    <2> QED
      BY <2>1, FS_Subset
  <1>3. ASSUME n <= 0, NEW t \in old PROVE FALSE
    <2>1. t \in S /\ Cardinality(upTo(t)) <= n
      BY <1>1
    <2>2. Cardinality(upTo(t)) \in Nat /\ Cardinality(upTo(t)) # 0
      BY <1>2, <2>1, FS_CardinalityType, FS_EmptySet
    <2> QED
      BY <1>3, <2>1, <2>2
  <1>4. ASSUME old # S PROVE Cardinality(old) >= n
    <2> DEFINE numbers == {registry[t] : t \in S \ old}
    <2>1. numbers \in SUBSET Nat /\ numbers # {}
      <3>1. \A t \in S \ old : registry[t] \in Nat
        BY <1>2
      <3>2. \E t \in S : t \notin old
        BY <1>1, <1>4
      <3> HIDE DEF old
      <3> QED
        BY <3>1, <3>2
    <2>2. \E x \in numbers : \A y \in numbers : x <= y
      <3> HIDE DEF numbers, old
      <3> QED
        BY <2>1, SmallestExists
    <2>3. PICK t \in S \ old : \A u \in S \ old : registry[t] <= registry[u]
      BY <2>2
    <2> DEFINE before == upTo(t) \ {t}
    <2>4. before \subseteq old
      <3>1. ASSUME NEW u \in before, u \notin old PROVE FALSE
        <4>1. u \in S /\ registry[u] <= registry[t] /\ u # t
          BY DEF OldestOf
        <4>2. registry[t] <= registry[u] /\ registry[t] \in Nat /\ registry[u] \in Nat
          BY <1>2, <2>3, <3>1, <4>1
        <4> QED
          BY <4>1, <4>2
      <3> QED
        BY <3>1
    <2>5. IsFiniteSet(upTo(t)) /\ t \in upTo(t) /\ IsFiniteSet(old)
      BY <1>1, <1>2, FS_Subset
    <2>6. Cardinality(upTo(t)) > n
      <3>1. Cardinality(upTo(t)) \in Nat
        BY <2>5, FS_CardinalityType
      <3>2. ~(Cardinality(upTo(t)) <= n)
        BY <1>1, <2>3
      <3> HIDE DEF upTo
      <3> QED
        BY <3>1, <3>2
    <2> HIDE DEF upTo
    <2>7. IsFiniteSet(before) /\ Cardinality(before) = Cardinality(upTo(t)) - 1
          /\ Cardinality(before) \in Nat
      BY <2>5, FS_RemoveElement, FS_CardinalityType
    <2> HIDE DEF before, old
    <2>8. Cardinality(before) <= Cardinality(old) /\ Cardinality(old) \in Nat
      BY <2>4, <2>5, FS_Subset, FS_CardinalityType
    <2>9. Cardinality(upTo(t)) \in Nat
      BY <2>5, FS_CardinalityType
    <2> QED
      BY <2>6, <2>7, <2>8, <2>9
  <1> QED
    BY <1>1, <1>3, <1>4

(* What an eviction leaves: the registry is within its cap but for what    *)
(* ended meanwhile, and a running task goes only after all finished ones.  *)
LEMMA EvictedEnough ==
  ASSUME DispatchBounds, DispatchInv, tool.name = "evicting", NEW out, out = Evicted(tool.list)
  PROVE  /\ out \subseteq InRegistry
         /\ \A u \in out : Standing(u) => tool.list \subseteq out
         /\ LET ended == {u \in InRegistry \ tool.list : ~Standing(u)}
            IN  Cardinality(InRegistry \ out) <= TaskCap + Cardinality(ended)
                /\ Cardinality(InRegistry \ out) \in Nat /\ Cardinality(ended) \in Nat
  <1> DEFINE list == tool.list
             up == {u \in InRegistry \ list : Standing(u)}
             ended == {u \in InRegistry \ list : ~Standing(u)}
  <1>1. /\ IsFiniteSet(InRegistry) /\ Cardinality(InRegistry) \in Nat
        /\ list \subseteq InRegistry /\ \A u \in list : ~Standing(u)
        /\ registry \in [Tasks -> Nat] /\ \A t, u \in InRegistry : registry[t] = registry[u] => t = u
    <2>1. InRegistry \subseteq published /\ IsFiniteSet(published)
      BY DEF DispatchInv, Numbered, DispatchTypes
    <2>2. IsFiniteSet(InRegistry) /\ Cardinality(InRegistry) \in Nat
      BY <2>1, FS_Subset, FS_CardinalityType
    <2> QED
      BY <2>2 DEF DispatchInv, Numbered, DispatchTypes, ToolKnows, Standing
  <1>2. PICK e : e = Excess
    OBVIOUS
  <1>3. e \in Nat /\ Cardinality(InRegistry) <= TaskCap + e /\ TaskCap \in Nat
    BY <1>1, <1>2, BoundsOfDispatch DEF Excess
  <1>4. PICK front : front = OldestOf(list, e)
    OBVIOUS
  <1>5. IsFiniteSet(list) /\ IsFiniteSet(up) /\ IsFiniteSet(ended) /\ up \subseteq InRegistry
    BY <1>1, FS_Subset
  <1>6. front \subseteq list /\ (front = list \/ Cardinality(front) >= e)
    <2> HIDE DEF list
    <2> QED
      BY <1>1, <1>3, <1>4, <1>5, OldestCount
  <1>7. IsFiniteSet(front) /\ Cardinality(front) \in Nat
    BY <1>5, <1>6, FS_Subset, FS_CardinalityType
  <1>8. PICK m \in Int : m = e - Cardinality(front)
    BY <1>3, <1>7
  <1>9. PICK second : second = OldestOf(up, m)
    OBVIOUS
  <1>10. second \subseteq up /\ (second = up \/ Cardinality(second) >= m)
         /\ (m <= 0 => second = {})
    <2> HIDE DEF up
    <2> QED
      BY <1>1, <1>5, <1>9, OldestCount
  <1>11. out = front \cup second
    BY <1>2, <1>4, <1>8, <1>9 DEF Evicted
  <1>12. out \subseteq InRegistry
    BY <1>1, <1>5, <1>6, <1>10, <1>11
  <1>13. ASSUME NEW u \in out, Standing(u) PROVE list \subseteq out
    <2>1. u \in second
      BY <1>1, <1>6, <1>11, <1>13
    <2>2. ~(m <= 0)
      BY <1>10, <2>1
    <2>3. ~(Cardinality(front) >= e)
      BY <1>3, <1>7, <1>8, <2>2
    <2> QED
      BY <1>6, <1>11, <2>3
  <1>14. IsFiniteSet(second) /\ IsFiniteSet(out) /\ Cardinality(second) \in Nat /\ Cardinality(out) \in Nat
         /\ Cardinality(out) = Cardinality(front) + Cardinality(second)
    <2>1. IsFiniteSet(second)
      BY <1>5, <1>10, FS_Subset
    <2>2. front \cap second = {}
      BY <1>6, <1>10
    <2>3. Cardinality(front \cap second) = 0
      BY <2>2, FS_EmptySet
    <2>4. /\ IsFiniteSet(front \cup second)
          /\ Cardinality(front \cup second)
               = Cardinality(front) + Cardinality(second) - Cardinality(front \cap second)
      BY <1>7, <2>1, FS_Union
    <2>5. Cardinality(second) \in Nat
      BY <2>1, FS_CardinalityType
    <2> QED
      BY <1>7, <1>11, <2>1, <2>3, <2>4, <2>5
  <1>15. Cardinality(InRegistry \ out) = Cardinality(InRegistry) - Cardinality(out)
         /\ Cardinality(InRegistry \ out) \in Nat
    <2>1. InRegistry \cap out = out
      BY <1>12
    <2>2. IsFiniteSet(InRegistry \ out)
          /\ Cardinality(InRegistry \ out) = Cardinality(InRegistry) - Cardinality(InRegistry \cap out)
      BY <1>1, FS_Difference
    <2> QED
      BY <2>1, <2>2, FS_CardinalityType
  <1>16. Cardinality(ended) \in Nat
    BY <1>5, FS_CardinalityType
  <1>17. Cardinality(InRegistry \ out) <= TaskCap + Cardinality(ended)
    <2>1. CASE Cardinality(front) >= e \/ Cardinality(second) >= m
      <3>1. Cardinality(out) >= e
        BY <1>3, <1>7, <1>8, <1>14, <2>1
      <3> HIDE DEF ended
      <3> QED
        BY <1>1, <1>3, <1>14, <1>15, <1>16, <3>1
    <2>2. CASE front = list /\ second = up
      <3>1. InRegistry \ out \subseteq ended
        BY <1>11, <2>2
      <3>2. Cardinality(InRegistry \ out) <= Cardinality(ended)
        BY <1>5, <3>1, FS_Subset
      <3> HIDE DEF ended
      <3> QED
        BY <1>3, <1>15, <1>16, <3>2
    <2> QED
      BY <1>6, <1>10, <2>1, <2>2
  <1> QED
    BY <1>12, <1>13, <1>15, <1>16, <1>17

LEMMA EvictKeeps ==
  ASSUME DispatchBounds, DispatchInv, NEW t \in Tasks, EvictAndRegister(t) PROVE DispatchInv'
  <1> USE DEF DispatchInv
  <1>1. PICK out : out = Evicted(tool.list)
    OBVIOUS
  <1>2. /\ tool.name = "evicting" /\ tool.task = t
        /\ registry' = [u \in Tasks |-> IF u = t THEN Cardinality(published)
                                        ELSE IF u \in out THEN 0 ELSE registry[u]]
        /\ crowded' = crowded \cup IF tool.list \subseteq out THEN {u \in out : Standing(u)} ELSE {}
        /\ slipped' = {u \in InRegistry \ tool.list : ~Standing(u)}
        /\ tool' = Call("waiting", t, 0) \/ tool' = IdleTool
        /\ UNCHANGED <<harness, base, published, repo, verdicts, sweeps, asked>>
    BY <1>1 DEF EvictAndRegister, answers
  <1>3. /\ out \subseteq InRegistry /\ (\A u \in out : Standing(u) => tool.list \subseteq out)
        /\ Cardinality(InRegistry \ out) <= TaskCap + Cardinality(slipped')
        /\ Cardinality(InRegistry \ out) \in Nat /\ Cardinality(slipped') \in Nat
    BY <1>1, <1>2, EvictedEnough
  <1>4. /\ tool' \in ToolRec /\ tool'.name \in {"waiting", "idle"}
    BY <1>2, CallFacts, BoundsOfDispatch
  <1>5. /\ t \in published /\ t \notin InRegistry /\ Cardinality(published) \in Nat
        /\ Cardinality(published) > 0 /\ IsFiniteSet(published)
        /\ \A u \in InRegistry : registry[u] < Cardinality(published)
    <2>1. t \in published /\ t \notin InRegistry /\ IsFiniteSet(published)
          /\ \A u \in InRegistry : registry[u] < Cardinality(published)
      BY <1>2 DEF ToolKnows, DispatchTypes
    <2>2. Cardinality(published) \in Nat /\ Cardinality(published) # 0
      BY <2>1, FS_CardinalityType, FS_EmptySet
    <2> QED
      BY <2>1, <2>2
  <1>6. /\ registry' \in [Tasks -> Nat] /\ registry'[t] = Cardinality(published)
        /\ \A u \in InRegistry \ out : registry'[u] = registry[u]
        /\ InRegistry' = (InRegistry \ out) \cup {t}
    <2>1. \A u \in Tasks : registry'[u] = IF u = t THEN Cardinality(published)
                                          ELSE IF u \in out THEN 0 ELSE registry[u]
      BY <1>2
    <2>2. registry \in [Tasks -> Nat]
      BY DEF DispatchTypes
    <2>3. registry' \in [Tasks -> Nat]
      BY <1>2, <1>5, <2>2
    <2>4. InRegistry' = (InRegistry \ out) \cup {t}
      <3>1. ASSUME NEW u \in Tasks PROVE registry'[u] > 0 <=> u \in (InRegistry \ out) \cup {t}
        BY <1>3, <1>5, <2>1, <2>2 DEF InRegistry
      <3> QED
        BY <3>1 DEF InRegistry
    <2> QED
      BY <1>5, <2>1, <2>3, <2>4 DEF InRegistry
  <1>12. PICK R : R = InRegistry'
    OBVIOUS
  <1>13. R = (InRegistry \ out) \cup {t} /\ InRegistry \subseteq published /\ InRegistry \subseteq Tasks
    <2>1. R = (InRegistry \ out) \cup {t}
      BY <1>6, <1>12, Zenon
    <2>2. InRegistry \subseteq published /\ InRegistry \subseteq Tasks
      BY DEF Numbered, InRegistry
    <2> QED
      BY <2>1, <2>2
  <1>7. DispatchTypes'
    <2>1. slipped' \subseteq published
      BY <1>2 DEF Numbered
    <2>2. crowded' \subseteq Tasks
      BY <1>2, <1>3 DEF DispatchTypes, InRegistry
    <2> QED
      BY <1>2, <1>4, <1>6, <2>1, <2>2 DEF DispatchTypes
  <1>8. ToolKnows'
    BY <1>4 DEF ToolKnows
  <1>9. Numbered'
    <2>1. R \subseteq published /\ \A u \in published : harness[u] \in Underway
      BY <1>5, <1>13 DEF Numbered
    <2>2. \A x \in InRegistry \ out : registry'[x] = registry[x] /\ registry[x] \in Nat
                                      /\ registry[x] < Cardinality(published)
      BY <1>5, <1>6, <1>13 DEF DispatchTypes
    <2>4. \A u \in R : registry'[u] <= Cardinality(published)
      BY <1>5, <1>6, <1>13, <2>2
    <2>3. ASSUME NEW u \in R, NEW w \in R, registry'[u] = registry'[w] PROVE u = w
      <3>1. \A x \in InRegistry \ out : registry'[x] # Cardinality(published)
        BY <1>5, <2>2
      <3>2. \A x, y \in InRegistry \ out : registry'[x] = registry'[y] => x = y
        BY <2>2 DEF Numbered
      <3> QED
        BY <1>6, <1>13, <2>3, <3>1, <3>2
    <2> QED
      BY <1>2, <1>12, <2>1, <2>3, <2>4 DEF Numbered
  <1>10. CommitsSince' /\ Judged' /\ Swept' /\ GateHolds' /\ SweepComplete'
    BY <1>2 DEF CommitsSince, Judged, Swept, GateHolds, SweepComplete
  <1>11. RunningTasksKept'
    <2>1. Cardinality(InRegistry') <= TaskCap + 1 + Cardinality(slipped')
      <3>1. IsFiniteSet(InRegistry \ out) /\ t \notin InRegistry \ out
        <4>1. InRegistry \ out \subseteq published
          BY <1>13
        <4> QED
          BY <1>5, <4>1, FS_Subset
      <3>2. Cardinality(R) = Cardinality(InRegistry \ out) + 1
        BY <1>13, <3>1, FS_AddElement
      <3> QED
        BY <1>3, <1>12, <3>2, BoundsOfDispatch
    <2>2. ASSUME NEW u \in published, Standing(u)', u \notin InRegistry' PROVE u \in crowded'
      <3>1. Standing(u) /\ u # t /\ u \notin R
        BY <1>2, <1>12, <1>13, <2>2 DEF Standing
      <3>2. CASE u \in InRegistry
        <4>1. u \in out
          BY <1>13, <3>1, <3>2
        <4> QED
          BY <1>2, <1>3, <3>1, <4>1
      <3>3. CASE u \notin InRegistry
        BY <1>2, <3>1, <3>3 DEF RunningTasksKept
      <3> QED
        BY <3>2, <3>3
    <2> QED
      BY <1>2, <2>1, <2>2 DEF RunningTasksKept
  <1> QED
    BY <1>7, <1>8, <1>9, <1>10, <1>11

LEMMA CommitsKeep ==
  ASSUME DispatchBounds, DispatchInv, NEW who \in Tasks \cup {NoTask}, NEW bad \in BOOLEAN,
         Commits(who, bad)
  PROVE  DispatchInv'
  <1> USE DEF DispatchInv
  <1>1. PICK c : c = [by |-> who, bad |-> bad]
    OBVIOUS
  <1>2. /\ Len(repo) < MaxCommits /\ (who # NoTask => harness[who] = "up") /\ repo' = Append(repo, c)
        /\ UNCHANGED <<tool, harness, base, published, registry, crowded, slipped, verdicts,
                       sweeps, asked>>
    BY <1>1 DEF Commits, Standing, coderVars, answers
  <1>3. c \in CommitRec /\ c.by = who /\ c.bad = bad
    BY <1>1 DEF CommitRec
  <1>4. /\ repo \in Seq(CommitRec) /\ Len(repo) \in Nat /\ DOMAIN repo = 1..Len(repo)
        /\ repo' \in Seq(CommitRec) /\ Len(repo') = Len(repo) + 1 /\ DOMAIN repo' = 1..Len(repo) + 1
        /\ (\A i \in DOMAIN repo : repo'[i] = repo[i]) /\ repo'[Len(repo) + 1] = c
    <2>1. repo \in Seq(CommitRec)
      BY DEF DispatchTypes
    <2> QED
      BY <1>2, <1>3, <2>1
  <1>5. InRegistry' = InRegistry
    BY <1>2 DEF InRegistry
  <1>6. \A i \in DOMAIN repo' : (i \in DOMAIN repo /\ repo'[i] = repo[i])
                                \/ (i = Len(repo) + 1 /\ repo'[i] = c)
    BY <1>4
  <1>7. DispatchTypes'
    <2>1. Len(repo') <= MaxCommits /\ 1 <= Len(repo')
      BY <1>2, <1>4, BoundsOfDispatch DEF DispatchTypes
    <2>2. \A u \in Tasks : base[u] \in Int /\ -1 <= base[u] /\ base[u] <= Len(repo')
      BY <1>4 DEF DispatchTypes
    <2> QED
      BY <1>2, <1>4, <2>1, <2>2 DEF DispatchTypes
  <1>8. ToolKnows' /\ Numbered'
    BY <1>2, <1>5 DEF ToolKnows, Numbered
  <1>9. CommitsSince'
    <2>1. ASSUME NEW i \in DOMAIN repo', repo'[i].by \in Tasks
          PROVE  harness[repo'[i].by] \in Underway /\ i > base[repo'[i].by]
      <3>1. CASE i \in DOMAIN repo /\ repo'[i] = repo[i]
        BY <2>1, <3>1 DEF CommitsSince
      <3>2. CASE i = Len(repo) + 1 /\ repo'[i] = c
        <4>1. who \in Tasks /\ harness[who] = "up"
          BY <1>2, <1>3, <2>1, <3>2, BoundsOfDispatch
        <4>2. base[who] <= Len(repo) /\ base[who] \in Int
          BY <4>1 DEF DispatchTypes
        <4> QED
          BY <1>3, <1>4, <3>2, <4>1, <4>2 DEF Underway
      <3> QED
        BY <1>6, <3>1, <3>2
    <2> QED
      BY <1>2, <2>1 DEF CommitsSince
  <1>10. Judged' /\ Swept'
    BY <1>2, <1>4 DEF Judged, Swept
  <1>11. GateHolds'
    <2>1. ASSUME NEW v \in verdicts, v.gate # "off", ~v.blocked, NEW i \in DOMAIN repo'
          PROVE  ~(repo'[i].by = v.task /\ repo'[i].bad)
      <3>1. v.task \in Tasks /\ harness[v.task] = "ended"
        BY <2>1 DEF Judged
      <3>2. CASE i \in DOMAIN repo /\ repo'[i] = repo[i]
        BY <2>1, <3>2 DEF GateHolds
      <3>3. CASE i = Len(repo) + 1 /\ repo'[i] = c
        BY <1>2, <1>3, <3>1, <3>3, BoundsOfDispatch
      <3> QED
        BY <1>6, <3>2, <3>3
    <2>2. ASSUME NEW v \in verdicts, v.gate # "off", v.reason = "violations"
          PROVE  \E i \in base[v.task] + 1..v.upto : repo'[i].bad
      <3>1. PICK i \in base[v.task] + 1..v.upto : repo[i].bad
        BY <2>2 DEF GateHolds
      <3>2. base[v.task] \in Int /\ 0 <= base[v.task] /\ v.upto \in Nat /\ v.upto <= Len(repo)
            /\ v.task \in Tasks /\ harness[v.task] = "ended"
        BY <2>2 DEF Judged, DispatchTypes
      <3>3. i \in DOMAIN repo
        BY <1>4, <3>1, <3>2
      <3> QED
        BY <1>4, <3>1, <3>3
    <2> QED
      BY <1>2, <2>1, <2>2 DEF GateHolds
  <1>12. SweepComplete'
    <2>1. ASSUME NEW s \in sweeps, NEW i \in DOMAIN repo', i <= s.head
          PROVE  i \in DOMAIN repo /\ repo'[i] = repo[i]
      BY <1>4, <1>6, <2>1 DEF Swept
    <2> QED
      BY <1>2, <2>1 DEF SweepComplete
  <1>13. RunningTasksKept'
    BY <1>2, <1>5 DEF RunningTasksKept, Standing
  <1> QED
    BY <1>7, <1>8, <1>9, <1>10, <1>11, <1>12, <1>13

LEMMA VerdictKeeps ==
  ASSUME DispatchBounds, DispatchInv, tool.name # "evicting", tool' = IdleTool,
         asked' \in 0..MaxQuestions, NEW v, verdicts' = verdicts \cup {v},
         UNCHANGED <<harness, base, published, registry, crowded, slipped, repo, sweeps>>,
         v.task \in Tasks, v.upto = Len(repo),
         v.gate # "off" =>
           \/ v.blocked /\ v.reason # "violations"
           \/ /\ harness[v.task] = "ended" /\ base[v.task] >= 0
              /\ ~v.blocked => \A i \in DOMAIN repo : ~(repo[i].by = v.task /\ repo[i].bad)
              /\ v.reason = "violations" => \E i \in base[v.task] + 1..Len(repo) : repo[i].bad
  PROVE  DispatchInv'
  <1> USE DEF DispatchInv
  <1>1. tool' \in ToolRec /\ tool'.name = "idle" /\ InRegistry' = InRegistry
    BY BoundsOfDispatch DEF InRegistry
  <1>2. DispatchTypes'
    BY <1>1 DEF DispatchTypes
  <1>3. ToolKnows' /\ Numbered' /\ CommitsSince' /\ Swept' /\ SweepComplete'
    BY <1>1 DEF ToolKnows, Numbered, CommitsSince, Swept, SweepComplete
  <1>4. RunningTasksKept'
    BY <1>1 DEF RunningTasksKept, Standing
  <1>5. Len(repo) \in Nat
    BY DEF DispatchTypes
  <1>6. Judged'
    BY <1>5 DEF Judged
  <1>7. GateHolds'
    <2>1. ASSUME NEW w \in verdicts', w.gate # "off"
          PROVE  /\ ~w.blocked => \A i \in DOMAIN repo : ~(repo[i].by = w.task /\ repo[i].bad)
                 /\ w.reason = "violations" => \E i \in base[w.task] + 1..w.upto : repo[i].bad
      <3>1. CASE w \in verdicts
        BY <2>1, <3>1 DEF GateHolds
      <3>2. CASE w = v
        BY <2>1, <3>2
      <3> QED
        BY <3>1, <3>2
    <2> QED
      BY <2>1 DEF GateHolds
  <1> QED
    BY <1>2, <1>3, <1>4, <1>6, <1>7

LEMMA UnverifiedKeeps ==
  ASSUME DispatchBounds, DispatchInv, NEW t \in Tasks, NEW g \in Gates, VerdictUnverified(t, g)
  PROVE  DispatchInv'
  <1>1. PICK v : v = [task |-> t, gate |-> g, blocked |-> g # "off",
                      reason |-> IF g = "off" THEN "gate_off" ELSE "unverified", upto |-> Len(repo)]
    OBVIOUS
  <1>2. /\ tool = IdleTool /\ tool' = IdleTool /\ verdicts' = verdicts \cup {v}
        /\ asked < MaxQuestions /\ asked' = asked + 1
        /\ UNCHANGED <<harness, base, published, registry, crowded, slipped, repo, sweeps>>
    BY <1>1 DEF VerdictUnverified, Verdict, coderVars
  <1>3. v.task \in Tasks /\ v.upto = Len(repo)
        /\ (v.gate # "off" => v.blocked /\ v.reason # "violations")
    BY <1>1
  <1>4. tool.name # "evicting"
    BY <1>2, BoundsOfDispatch
  <1>5. asked' \in 0..MaxQuestions
    BY <1>2, BoundsOfDispatch DEF DispatchInv, DispatchTypes
  <1> QED
    BY <1>2, <1>3, <1>4, <1>5, VerdictKeeps

LEMMA GivenKeeps ==
  ASSUME DispatchBounds, DispatchInv, NEW t \in Tasks, NEW g \in Gates, VerdictGiven(t, g)
  PROVE  DispatchInv'
  <1>1. PICK bad \in BOOLEAN : bad = \E c \in Since(t, Len(repo)) : c.bad
    OBVIOUS
  <1>2. tool.name = "verdict" /\ tool.gate = g /\ tool.task = t /\ asked' = asked
    BY DEF VerdictGiven
  <1>3. harness[t] = "ended" /\ base[t] >= 0 /\ base[t] \in Int /\ g # "broken"
        /\ Len(repo) \in Nat /\ DOMAIN repo = 1..Len(repo) /\ asked' \in 0..MaxQuestions
    BY <1>2 DEF DispatchInv, ToolKnows, DispatchTypes
  <1>4. \A i \in DOMAIN repo : repo[i].by = t => repo[i] \in Since(t, Len(repo))
    <2>1. ASSUME NEW i \in DOMAIN repo, repo[i].by = t PROVE i \in base[t] + 1..Len(repo)
      <3>1. i > base[t] /\ i \in Int /\ i <= Len(repo)
        BY <1>3, <2>1 DEF DispatchInv, CommitsSince
      <3> QED
        BY <1>3, <3>1
    <2> QED
      BY <2>1 DEF Since
  <1>5. /\ \E blocked \in BOOLEAN, reason \in {"unverified", "gate_off", "no_diff", "violations", "clean"} :
             /\ verdicts' = verdicts \cup {[task |-> t, gate |-> g, blocked |-> blocked,
                                            reason |-> reason, upto |-> Len(repo)]}
             /\ g = "on" => \/ blocked /\ reason # "violations"
                            \/ ~blocked /\ reason # "violations" /\ Since(t, Len(repo)) = {}
                            \/ blocked = bad /\ (reason = "violations" => bad)
        /\ tool' = IdleTool
        /\ UNCHANGED <<harness, base, published, registry, crowded, slipped, repo, sweeps>>
    <2>1. CASE Verdict(t, g, g = "on", IF g = "on" THEN "unverified" ELSE "gate_off")
      BY <2>1 DEF Verdict, coderVars
    <2>2. CASE Since(t, Len(repo)) = {}
               /\ Verdict(t, g, FALSE, IF g = "on" THEN "no_diff" ELSE "gate_off")
      BY <2>2 DEF Verdict, coderVars
    <2>3. CASE Verdict(t, g, g = "on" /\ bad,
                  CASE g = "off" -> "gate_off" [] bad -> "violations" [] OTHER -> "clean")
      <3>1. PICK reason : reason = CASE g = "off" -> "gate_off" [] bad -> "violations"
                                     [] OTHER -> "clean"
        OBVIOUS
      <3>2. reason \in {"gate_off", "violations", "clean"} /\ (reason = "violations" => bad)
        BY <3>1
      <3>3. PICK blocked \in BOOLEAN : blocked = (g = "on" /\ bad)
        OBVIOUS
      <3>4. Verdict(t, g, blocked, reason)
        BY <2>3, <3>1, <3>3
      <3>5. g = "on" => blocked = bad
        BY <3>3
      <3> QED
        BY <3>2, <3>4, <3>5 DEF Verdict, coderVars
    <2>4. \/ Verdict(t, g, g = "on", IF g = "on" THEN "unverified" ELSE "gate_off")
          \/ /\ Since(t, Len(repo)) = {}
             /\ Verdict(t, g, FALSE, IF g = "on" THEN "no_diff" ELSE "gate_off")
          \/ Verdict(t, g, g = "on" /\ bad,
                  CASE g = "off" -> "gate_off" [] bad -> "violations" [] OTHER -> "clean")
      BY <1>1 DEF VerdictGiven
    <2> QED
      BY <2>1, <2>2, <2>3, <2>4
  <1>6. PICK blocked \in BOOLEAN, reason \in {"unverified", "gate_off", "no_diff", "violations", "clean"} :
          /\ verdicts' = verdicts \cup {[task |-> t, gate |-> g, blocked |-> blocked,
                                         reason |-> reason, upto |-> Len(repo)]}
          /\ g = "on" => \/ blocked /\ reason # "violations"
                         \/ ~blocked /\ reason # "violations" /\ Since(t, Len(repo)) = {}
                         \/ blocked = bad /\ (reason = "violations" => bad)
    BY <1>5
  <1>7. PICK v : v = [task |-> t, gate |-> g, blocked |-> blocked, reason |-> reason,
                      upto |-> Len(repo)]
    OBVIOUS
  <1>8. v.task = t /\ v.gate = g /\ v.blocked = blocked /\ v.reason = reason /\ v.upto = Len(repo)
    BY <1>7
  <1>9. ~bad => \A i \in DOMAIN repo : ~(repo[i].by = t /\ repo[i].bad)
    BY <1>1, <1>4
  <1>10. bad => \E i \in base[t] + 1..Len(repo) : repo[i].bad
    BY <1>1 DEF Since
  <1>11. Since(t, Len(repo)) = {} => ~bad
    BY <1>1
  <1>12. g # "off" =>
           \/ blocked /\ reason # "violations"
           \/ /\ harness[t] = "ended" /\ base[t] >= 0
              /\ ~blocked => \A i \in DOMAIN repo : ~(repo[i].by = t /\ repo[i].bad)
              /\ reason = "violations" => \E i \in base[t] + 1..Len(repo) : repo[i].bad
    <2>1. g # "off" => g = "on"
      BY <1>3 DEF Gates
    <2> QED
      BY <1>3, <1>6, <1>9, <1>10, <1>11, <2>1
  <1>13. verdicts' = verdicts \cup {v} /\ tool.name # "evicting"
    BY <1>2, <1>6, <1>7
  <1> QED
    BY <1>3, <1>5, <1>8, <1>12, <1>13, VerdictKeeps

LEMMA AsksKeep ==
  ASSUME DispatchBounds, DispatchInv,
         SweepAsked \/ \E t \in Tasks, g \in Gates : VerdictAsked(t, g)
  PROVE  DispatchInv'
  <1>1. PICK n \in {"verdict", "sweep"}, t \in Tasks \cup {NoTask}, g \in Gates :
          /\ Asks(n, t, g)
          /\ n = "verdict" => t \in InRegistry /\ g # "broken" /\ Judgeable(t)
    BY DEF SweepAsked, VerdictAsked, Gates
  <1>2. PICK q : q = [Call(n, t, Len(repo)) EXCEPT !.gate = g]
    OBVIOUS
  <1>3. /\ tool = IdleTool /\ tool' = q /\ asked < MaxQuestions /\ asked' = asked + 1
        /\ UNCHANGED <<harness, base, published, registry, crowded, slipped, repo, verdicts, sweeps>>
    BY <1>1, <1>2 DEF Asks, coderVars
  <1>4. Len(repo) \in 0..MaxCommits /\ asked' \in 0..MaxQuestions
    BY <1>3, BoundsOfDispatch DEF DispatchInv, DispatchTypes
  <1>5. q \in ToolRec /\ q.name = n /\ q.task = t /\ q.gate = g
    <2>1. q = [name |-> n, task |-> t, seen |-> Len(repo), list |-> {}, gate |-> g]
      BY <1>2 DEF Call
    <2> QED
      BY <1>4, <2>1 DEF ToolRec
  <1>6. tool.name = "idle"
    BY <1>3, BoundsOfDispatch
  <1>7. n = "verdict" => t \in Tasks /\ harness[t] = "ended" /\ base[t] >= 0
    BY <1>1 DEF Judgeable, Standing, DispatchInv, Numbered, Underway, DispatchTypes
  <1>8. ToolKnows'
    BY <1>1, <1>3, <1>5, <1>7 DEF ToolKnows
  <1>9. harness' \in [Tasks -> {"none", "coming", "up", "ended"}]
        /\ \A u \in Tasks : /\ harness[u] = "ended" => harness'[u] = "ended"
                            /\ harness[u] = "up" => harness'[u] \in Underway
                            /\ Standing(u)' /\ u \in published => Standing(u)
    BY <1>3 DEF DispatchInv, DispatchTypes, Underway, Standing
  <1> QED
    BY <1>3, <1>4, <1>5, <1>6, <1>8, <1>9, MovesOn

LEMMA SweepKeeps ==
  ASSUME DispatchBounds, DispatchInv, NEW requested \in 1..MaxCommits, SweepDone(requested)
  PROVE  DispatchInv'
  <1> USE DEF DispatchInv
  <1> DEFINE n == Clamp(requested, tool.seen)
             span == Len(repo) - n + 1..Len(repo)
  <1>1. tool.name = "sweep" /\ tool' = IdleTool
        /\ UNCHANGED <<harness, base, published, registry, crowded, slipped, repo, verdicts, asked>>
    BY DEF SweepDone, coderVars
  <1> HIDE DEF span
  <1>0. span = Len(repo) - Clamp(requested, tool.seen) + 1..Len(repo)
    BY DEF span
  <1>12. \E checked \in SUBSET span, faulted \in BOOLEAN :
           \E answered \in IF faulted THEN SUBSET checked ELSE {checked} :
             sweeps' = sweeps \cup
               {[asked |-> requested, head |-> Len(repo), counted |-> tool.seen,
                 found |-> {i \in answered : repo[i].bad},
                 failures |-> faulted, truncated |-> checked # span]}
    BY DEF SweepDone, span
  <1>13. PICK checked \in SUBSET span, faulted \in BOOLEAN :
           \E answered \in IF faulted THEN SUBSET checked ELSE {checked} :
             sweeps' = sweeps \cup
               {[asked |-> requested, head |-> Len(repo), counted |-> tool.seen,
                 found |-> {i \in answered : repo[i].bad},
                 failures |-> faulted, truncated |-> checked # span]}
    BY <1>12
  <1>2. PICK answered :
          /\ ~faulted => answered = checked
          /\ sweeps' = sweeps \cup
               {[asked |-> requested, head |-> Len(repo), counted |-> tool.seen,
                 found |-> {i \in answered : repo[i].bad},
                 failures |-> faulted, truncated |-> checked # span]}
    BY <1>13
  <1>3. PICK s : s = [asked |-> requested, head |-> Len(repo), counted |-> tool.seen,
                      found |-> {i \in answered : repo[i].bad},
                      failures |-> faulted, truncated |-> checked # span]
    OBVIOUS
  <1>4. /\ s.asked = requested /\ s.head = Len(repo) /\ s.counted = tool.seen
        /\ s.found = {i \in answered : repo[i].bad} /\ s.failures = faulted
        /\ s.truncated = (checked # span)
    BY <1>3
  <1>5. sweeps' = sweeps \cup {s} /\ requested \in Nat /\ Len(repo) \in Nat /\ DOMAIN repo = 1..Len(repo)
    <2>1. requested \in Nat
      BY BoundsOfDispatch
    <2>2. Len(repo) \in Nat /\ DOMAIN repo = 1..Len(repo)
      BY DEF DispatchTypes
    <2> QED
      BY <1>2, <1>3, <2>1, <2>2
  <1>6. ASSUME ~s.failures, ~s.truncated, s.counted = s.head, NEW i \in DOMAIN repo, repo[i].bad,
               i <= s.head, i > 1, s.head - i < s.asked
        PROVE  i \in s.found
    <2>1. answered = span /\ tool.seen = Len(repo)
      BY <1>2, <1>13, <1>4, <1>6
    <2>2. PICK m : m = Clamp(requested, Len(repo))
      OBVIOUS
    <2>3. m \in Int /\ Len(repo) - m + 1 <= i
      BY <1>4, <1>5, <1>6, <2>2 DEF Clamp
    <2>4. i \in span
      <3>1. span = Len(repo) - m + 1..Len(repo)
        BY <1>0, <2>1, <2>2
      <3> QED
        BY <1>4, <1>5, <1>6, <2>3, <3>1
    <2> QED
      BY <1>4, <1>6, <2>1, <2>4
  <1>7. tool' \in ToolRec /\ tool'.name = "idle" /\ InRegistry' = InRegistry
    BY <1>1, BoundsOfDispatch DEF InRegistry
  <1>8. DispatchTypes' /\ ToolKnows' /\ Numbered' /\ CommitsSince' /\ Judged' /\ GateHolds'
    BY <1>1, <1>7 DEF DispatchTypes, ToolKnows, Numbered, CommitsSince, Judged, GateHolds
  <1>9. RunningTasksKept'
    BY <1>1, <1>7 DEF RunningTasksKept, Standing
  <1>10. Swept'
    BY <1>1, <1>4, <1>5 DEF Swept
  <1>11. SweepComplete'
    BY <1>1, <1>5, <1>6 DEF SweepComplete
  <1> QED
    BY <1>8, <1>9, <1>10, <1>11

LEMMA DispatchNextInv ==
  ASSUME DispatchBounds, DispatchInv, [DispatchNext]_dispatchVars PROVE DispatchInv'
  <1>1. ASSUME NEW t \in Tasks, PreparePrompt(t) \/ Launch(t) \/ LaunchFails(t)
                                \/ WaitForHarness(t) \/ HarnessEnds(t)
        PROVE  DispatchInv'
    BY <1>1, ToolStepsKeep
  <1>2. ASSUME NEW t \in Tasks, CaptureHead(t) PROVE DispatchInv'
    BY <1>2, CaptureHeadKeeps
  <1>3. ASSUME NEW t \in Tasks, PublishTask(t) PROVE DispatchInv'
    BY <1>3, PublishTaskKeeps
  <1>4. ASSUME NEW t \in Tasks, EvictAndRegister(t) PROVE DispatchInv'
    BY <1>4, EvictKeeps
  <1>5. ASSUME NEW t \in Tasks, NEW g \in Gates, VerdictUnverified(t, g) PROVE DispatchInv'
    BY <1>5, UnverifiedKeeps
  <1>6. ASSUME NEW t \in Tasks, NEW g \in Gates, VerdictGiven(t, g) PROVE DispatchInv'
    BY <1>6, GivenKeeps
  <1>7. CASE SweepAsked \/ \E t \in Tasks, g \in Gates : VerdictAsked(t, g)
    BY <1>7, AsksKeep
  <1>8. ASSUME NEW who \in Tasks \cup {NoTask}, NEW bad \in BOOLEAN, Commits(who, bad)
        PROVE  DispatchInv'
    BY <1>8, CommitsKeep
  <1>9. ASSUME NEW n \in 1..MaxCommits, SweepDone(n) PROVE DispatchInv'
    BY <1>9, SweepKeeps
  <1>10. CASE UNCHANGED dispatchVars
    <2>1. UNCHANGED <<tool, harness, base, published, registry, repo, verdicts, sweeps, crowded,
                      slipped, asked>>
      BY <1>10 DEF dispatchVars
    <2>2. InRegistry' = InRegistry
      BY <2>1 DEF InRegistry
    <2>3. DispatchTypes' /\ ToolKnows' /\ Numbered' /\ CommitsSince' /\ Judged' /\ Swept'
      BY <2>1, <2>2 DEF DispatchInv, DispatchTypes, ToolKnows, Numbered, CommitsSince, Judged, Swept
    <2>4. GateHolds' /\ RunningTasksKept' /\ SweepComplete'
      BY <2>1, <2>2 DEF DispatchInv, GateHolds, RunningTasksKept, Standing, SweepComplete
    <2> QED
      BY <2>3, <2>4 DEF DispatchInv
  <1> QED
    BY <1>1, <1>2, <1>3, <1>4, <1>5, <1>6, <1>7, <1>8, <1>9, <1>10 DEF DispatchNext

(* Harnesses that commit and end, people who commit, gates switched in     *)
(* between, requests that fail: a gate that is on lets no violation of the *)
(* judged task through and blocks for a real one, the registry stays near  *)
(* its cap and forgets no running task while a finished one is there, and  *)
(* a sweep that names no gap has none.                                     *)
THEOREM DispatchIsSound == DispatchSpec => []DispatchSound
  <1>1. DispatchInit => DispatchInv
    BY DispatchInitInv, DispatchBounds
  <1>2. DispatchInv /\ [DispatchNext]_dispatchVars => DispatchInv'
    BY DispatchNextInv, DispatchBounds
  <1>3. DispatchInv => DispatchSound
    BY DEF DispatchInv, DispatchSound
  <1> QED
    BY <1>1, <1>2, <1>3, PTL DEF DispatchSpec
-----------------------------------------------------------------------------
(* Proxy.  The job of the worker and the turns it is not through with are  *)
(* of calls that were handed over, and those are relayed in full.          *)
JobRec == [exchange : Exchanges \cup {NoCall}, side : {"none", "user", "assistant"}]
ProxyTypes ==
  /\ exchange \in [Exchanges -> {"new", "streaming", "relayed", "given up", "failed"}]
  /\ handed \in SUBSET Exchanges /\ (\A c \in handed : exchange[c] = "relayed")
  /\ queue \in Seq(Exchanges) /\ Len(queue) <= QueueCap
  /\ InSeq(queue) \subseteq handed /\ full \cup gated \cup died \subseteq handed
  /\ job \in JobRec /\ (job # NoJob => job.exchange \in handed /\ job.side # "none")
  /\ seen \in Seq(Texts) /\ Len(seen) <= SeenCap
  /\ stored \in [Texts -> Nat] /\ failed \in SUBSET Texts /\ aged \in SUBSET Texts
  /\ restarts \in 0..MaxRestarts

(* A side is settled when it is stored or a POST of it failed.             *)
SideSettled(x) == stored[x] > 0 \/ x \in failed
AtWorker == IF job = NoJob THEN {} ELSE {job.exchange}
(* The LRU knows what is stored, but for what has dropped out of it, and   *)
(* knows only what was sent.                                               *)
Remembered ==
  /\ \A x \in Texts : stored[x] > 0 => x \in InSeq(seen) \cup aged
  /\ \A x \in InSeq(seen) : SideSettled(x)
  /\ \A x \in Texts : stored[x] > 1 => x \in aged
(* Of the turn at the worker the first side may be settled, and of every   *)
(* turn it is through with both are.                                       *)
SidesSettled ==
  /\ job.side = "assistant" => SideSettled(UserText[job.exchange])
  /\ \A c \in handed \ (InSeq(queue) \cup full \cup gated \cup died \cup AtWorker) :
       SideSettled(UserText[c]) /\ SideSettled(ReplyText[c])

ProxyInv == ProxyTypes /\ Remembered /\ SidesSettled

LEMMA BoundsOfProxy ==
  ASSUME ProxyBounds
  PROVE  /\ QueueCap \in Nat /\ QueueCap # 0 /\ SeenCap \in Nat /\ SeenCap # 0
         /\ MaxRestarts \in Nat /\ NoCall \notin Exchanges
         /\ UserText \in [Exchanges -> Texts] /\ ReplyText \in [Exchanges -> Texts]
  BY DEF ProxyBounds

(* The LRU knows a text put in, and of the others only what it knew.       *)
LEMMA LastKept ==
  ASSUME ProxyBounds, NEW s \in Seq(Texts), NEW x \in Texts, Len(s) <= SeenCap
  PROVE  /\ Trimmed(Append(s, x)) \in Seq(Texts) /\ Len(Trimmed(Append(s, x))) <= SeenCap
         /\ x \in InSeq(Trimmed(Append(s, x)))
         /\ InSeq(Trimmed(Append(s, x))) \subseteq InSeq(s) \cup {x}
  <1> DEFINE S == Texts
             cap == SeenCap
  <1>0. cap \in Nat /\ cap # 0
    BY BoundsOfProxy
  <1> HIDE DEF S, cap
  <1>1. PICK a, q : a = Append(s, x) /\ q = Trimmed(a)
    OBVIOUS
  <1>7. (Len(a) > cap => q = Tail(a)) /\ (~(Len(a) > cap) => q = a) /\ Len(s) <= cap
    BY <1>1 DEF Trimmed, cap
  <1>2. /\ a \in Seq(S) /\ Len(a) = Len(s) + 1 /\ a[Len(a)] = x
        /\ \A i \in 1..Len(s) : a[i] = s[i]
        /\ Len(s) \in Nat
    BY <1>1 DEF S
  <1>3. InSeq(a) \subseteq InSeq(s) \cup {x} /\ x \in InSeq(a)
    <2>1. \A i \in 1..Len(a) : a[i] \in InSeq(s) \cup {x}
      <3>1. ASSUME NEW i \in 1..Len(a) PROVE a[i] \in InSeq(s) \cup {x}
        <4>1. CASE i = Len(a)
          BY <1>2, <4>1
        <4>2. CASE i # Len(a)
          BY <1>2, <4>2 DEF InSeq
        <4> QED
          BY <4>1, <4>2
      <3> QED
        BY <3>1
    <2> QED
      BY <1>2, <2>1 DEF InSeq
  <1>4. CASE Len(a) <= cap
    <2>1. q = a
      BY <1>0, <1>2, <1>4, <1>7
    <2> QED
      BY <1>1, <1>2, <1>3, <1>4, <2>1 DEF S, cap
  <1>5. CASE Len(a) > cap
    <2>1. q = Tail(a)
      BY <1>5, <1>7
    <2>2. Len(a) > 1 /\ Len(a) \in Nat /\ Len(a) - 1 <= cap
      BY <1>0, <1>2, <1>5, <1>7
    <2>3. /\ q \in Seq(S) /\ Len(q) = Len(a) - 1 /\ \A i \in 1..Len(q) : q[i] = a[i + 1]
      BY <1>2, <2>1, <2>2
    <2>4. Len(q) \in 1..Len(q) /\ q[Len(q)] = x
      BY <1>2, <2>2, <2>3
    <2>5. \A i \in 1..Len(q) : q[i] \in InSeq(a)
      <3>1. \A i \in 1..Len(q) : i + 1 \in DOMAIN a
        BY <1>2, <2>2, <2>3
      <3> QED
        BY <2>3, <3>1 DEF InSeq
    <2>6. InSeq(q) \subseteq InSeq(a)
      BY <2>3, <2>5 DEF InSeq
    <2>7. x \in InSeq(q)
      <3>1. DOMAIN q = 1..Len(q)
        BY <2>3
      <3> QED
        BY <2>4, <3>1 DEF InSeq
    <2> QED
      BY <1>1, <1>2, <1>3, <2>2, <2>3, <2>6, <2>7 DEF S, cap
  <1> QED
    BY <1>0, <1>2, <1>4, <1>5

LEMMA MovedKeeps ==
  ASSUME NEW S, NEW s \in Seq(S), NEW x \in InSeq(s)
  PROVE  /\ MovedToEnd(s, x) \in Seq(S) /\ Len(MovedToEnd(s, x)) = Len(s)
         /\ InSeq(MovedToEnd(s, x)) = InSeq(s)
  <1>1. PICK i : i = CHOOSE k \in DOMAIN s : s[k] = x
    OBVIOUS
  <1>2. i \in DOMAIN s /\ s[i] = x
    BY <1>1 DEF InSeq
  <1>3. Len(s) \in Nat /\ DOMAIN s = 1..Len(s) /\ x \in S /\ i \in 1..Len(s)
    BY <1>2 DEF InSeq
  <1>10. Len(s) \in Nat /\ i \in Nat /\ i <= Len(s)
    BY <1>3
  <1>4. PICK q : q = MovedToEnd(s, x)
    OBVIOUS
  <1>5. q = [j \in 1..Len(s) |-> IF j = Len(s) THEN x ELSE IF j < i THEN s[j] ELSE s[j + 1]]
    BY <1>1, <1>3, <1>4 DEF MovedToEnd
  <1>6. ASSUME NEW j \in 1..Len(s) PROVE q[j] \in InSeq(s) /\ q[j] \in S
    <2>1. \A k \in 1..Len(s) : s[k] \in InSeq(s) /\ s[k] \in S
      BY <1>3 DEF InSeq
    <2>2. CASE j = Len(s)
      BY <1>3, <1>5, <2>2
    <2>3. CASE j # Len(s)
      <3>1. j + 1 \in 1..Len(s)
        BY <1>10, <2>3
      <3>2. q[j] = IF j < i THEN s[j] ELSE s[j + 1]
        BY <1>5, <2>3
      <3> QED
        BY <2>1, <3>1, <3>2
    <2> QED
      BY <2>2, <2>3
  <1>7. q \in Seq(S) /\ Len(q) = Len(s) /\ DOMAIN q = 1..Len(s)
    <2>1. q \in [1..Len(s) -> S]
      BY <1>5, <1>6
    <2> HIDE <1>5
    <2> QED
      BY <1>3, <2>1
  <1>8. ASSUME NEW k \in 1..Len(s) PROVE \E j \in 1..Len(s) : q[j] = s[k]
    <2>1. CASE k < i
      <3>1. k # Len(s)
        BY <1>10, <2>1
      <3>2. q[k] = s[k]
        BY <1>5, <2>1, <3>1
      <3> QED
        BY <3>2
    <2>2. CASE k = i
      <3>1. Len(s) \in 1..Len(s)
        BY <1>3
      <3>3. q[Len(s)] = x
        BY <1>5, <3>1
      <3> QED
        BY <1>2, <2>2, <3>1, <3>3
    <2>3. CASE k > i
      <3>1. k - 1 \in 1..Len(s) /\ k - 1 # Len(s) /\ ~(k - 1 < i) /\ k - 1 + 1 = k
        BY <1>2, <1>3, <2>3
      <3>2. q[k - 1] = s[k]
        BY <1>5, <3>1
      <3> QED
        BY <3>1, <3>2
    <2> QED
      BY <1>2, <1>3, <2>1, <2>2, <2>3
  <1>9. InSeq(q) = InSeq(s)
    BY <1>3, <1>6, <1>7, <1>8 DEF InSeq
  <1> QED
    BY <1>4, <1>7, <1>9

LEMMA ProxyInitInv == ASSUME ProxyBounds, ProxyInit PROVE ProxyInv
  <1>1. InSeq(<<>>) = {}
    BY DEF InSeq
  <1>2. NoJob \in JobRec /\ NoJob.side = "none"
    BY DEF NoJob, JobRec
  <1>3. ProxyTypes
    BY <1>1, <1>2 DEF ProxyInit, ProxyTypes, ProxyBounds
  <1>4. Remembered
    BY <1>1 DEF ProxyInit, Remembered
  <1>5. SidesSettled
    BY <1>2 DEF ProxyInit, SidesSettled
  <1> QED
    BY <1>3, <1>4, <1>5 DEF ProxyInv

(* What is settled stays so while texts are only stored and refused more.  *)
LEMMA RelaysKeep ==
  ASSUME ProxyBounds, ProxyInv, NEW c \in Exchanges,
         RelayStarts(c) \/ RelayEnds(c) \/ UpstreamFails(c)
  PROVE  ProxyInv'
  <1> USE DEF ProxyInv
  <1>1. /\ UNCHANGED <<handed, queue, job, seen, stored, gated, failed, aged, full, restarts, died>>
        /\ exchange[c] \in {"new", "streaming"}
        /\ \E how \in {"streaming", "relayed", "given up", "failed"} :
             exchange' = [exchange EXCEPT ![c] = how]
    BY DEF RelayStarts, RelayEnds, UpstreamFails, workerVars
  <1>2. \A h \in handed : exchange'[h] = exchange[h]
    BY <1>1 DEF ProxyTypes
  <1>3. ProxyTypes'
    <2>1. NoJob' = NoJob /\ InSeq(queue)' = InSeq(queue)
      BY <1>1 DEF NoJob, InSeq
    <2>2. exchange' \in [Exchanges -> {"new", "streaming", "relayed", "given up", "failed"}]
      BY <1>1 DEF ProxyTypes
    <2>3. \A h \in handed' : exchange'[h] = "relayed"
      BY <1>1, <1>2 DEF ProxyTypes
    <2> QED
      BY <1>1, <2>1, <2>2, <2>3 DEF ProxyTypes
  <1>4. Remembered'
    BY <1>1 DEF Remembered, SideSettled, InSeq
  <1>5. SidesSettled'
    <2>1. AtWorker' = AtWorker /\ InSeq(queue)' = InSeq(queue)
      BY <1>1 DEF AtWorker, NoJob, InSeq
    <2> QED
      BY <1>1, <2>1 DEF SidesSettled, SideSettled
  <1> QED
    BY <1>3, <1>4, <1>5

LEMMA SubmitKeeps ==
  ASSUME ProxyBounds, ProxyInv, NEW c \in Exchanges, Submit(c) PROVE ProxyInv'
  <1> USE DEF ProxyInv
  <1>1. /\ exchange[c] = "relayed" /\ c \notin handed /\ handed' = handed \cup {c}
        /\ UNCHANGED <<exchange, job, seen, stored, gated, failed, aged, restarts, died>>
    BY DEF Submit, Captures, workerVars
  <1>2. /\ queue' \in Seq(Exchanges) /\ Len(queue') <= QueueCap
        /\ InSeq(queue) \subseteq InSeq(queue') /\ InSeq(queue') \subseteq InSeq(queue) \cup {c}
        /\ full \subseteq full' /\ full' \subseteq full \cup {c}
        /\ c \in InSeq(queue') \cup full'
    <2>1. CASE Len(queue) < QueueCap
      <3>1. queue' = Append(queue, c) /\ full' = full
        BY <2>1 DEF Submit
      <3>2. queue \in Seq(Exchanges) /\ Len(queue) \in Nat /\ QueueCap \in Nat
        <4>1. queue \in Seq(Exchanges)
          BY DEF ProxyTypes
        <4> QED
          BY <4>1, BoundsOfProxy
      <3>3. /\ queue' \in Seq(Exchanges) /\ Len(queue') = Len(queue) + 1
            /\ queue'[Len(queue')] = c /\ \A i \in 1..Len(queue) : queue'[i] = queue[i]
        BY <3>1, <3>2
      <3>4. Len(queue') <= QueueCap
        BY <2>1, <3>2, <3>3
      <3>5. \A i \in 1..Len(queue') : queue'[i] \in InSeq(queue) \cup {c}
        <4>1. ASSUME NEW i \in 1..Len(queue') PROVE queue'[i] \in InSeq(queue) \cup {c}
          <5>1. CASE i = Len(queue')
            BY <3>3, <5>1
          <5>2. CASE i # Len(queue')
            BY <3>2, <3>3, <5>2 DEF InSeq
          <5> QED
            BY <5>1, <5>2
        <4> QED
          BY <4>1
      <3>6. \A i \in 1..Len(queue) : queue[i] \in InSeq(queue')
        BY <3>2, <3>3 DEF InSeq
      <3>7. c \in InSeq(queue')
        BY <3>2, <3>3 DEF InSeq
      <3>8. InSeq(queue') \subseteq InSeq(queue) \cup {c}
        <4>1. DOMAIN queue' = 1..Len(queue')
          BY <3>3
        <4> QED
          BY <3>5, <4>1 DEF InSeq
      <3>9. InSeq(queue) \subseteq InSeq(queue')
        <4>1. DOMAIN queue = 1..Len(queue)
          BY <3>2
        <4> QED
          BY <3>6, <4>1 DEF InSeq
      <3> QED
        BY <3>1, <3>3, <3>4, <3>7, <3>8, <3>9
    <2>2. CASE ~(Len(queue) < QueueCap)
      <3>1. queue' = queue /\ full' = full \cup {c}
        BY <2>2 DEF Submit
      <3>2. InSeq(queue') = InSeq(queue)
        BY <3>1
      <3> QED
        BY <3>1, <3>2 DEF ProxyTypes
    <2> QED
      BY <2>1, <2>2
  <1>3. ProxyTypes'
    BY <1>1, <1>2 DEF ProxyTypes, NoJob
  <1>4. Remembered'
    BY <1>1 DEF Remembered, SideSettled, InSeq
  <1>5. SidesSettled'
    <2>1. AtWorker' = AtWorker
      BY <1>1 DEF AtWorker, NoJob
    <2>2. handed' \ (InSeq(queue') \cup full' \cup gated' \cup died' \cup AtWorker')
            \subseteq handed \ (InSeq(queue) \cup full \cup gated \cup died \cup AtWorker)
      BY <1>1, <1>2, <2>1
    <2> QED
      BY <1>1, <2>2 DEF SidesSettled, SideSettled
  <1> QED
    BY <1>3, <1>4, <1>5

LEMMA TakeTurnKeeps ==
  ASSUME ProxyBounds, ProxyInv, TakeTurn PROVE ProxyInv'
  <1> USE DEF ProxyInv
  <1>1. /\ job = NoJob /\ queue # <<>> /\ queue' = Tail(queue)
        /\ UNCHANGED <<exchange, handed, seen, stored, full, failed, aged, restarts, died>>
        /\ \/ gated' = gated \cup {Head(queue)} /\ UNCHANGED job
           \/ job' = [exchange |-> Head(queue), side |-> "user"] /\ UNCHANGED gated
    BY DEF TakeTurn
  <1>2. PICK h : h = Head(queue)
    OBVIOUS
  <1>3. /\ queue \in Seq(Exchanges) /\ Len(queue) \in Nat /\ Len(queue) # 0
        /\ QueueCap \in Nat /\ Len(queue) <= QueueCap
    <2>1. queue \in Seq(Exchanges) /\ Len(queue) <= QueueCap
      BY DEF ProxyTypes
    <2> QED
      BY <1>1, <2>1, BoundsOfProxy
  <1>4. /\ queue' \in Seq(Exchanges) /\ Len(queue') = Len(queue) - 1 /\ h = queue[1]
        /\ \A i \in 1..Len(queue') : queue'[i] = queue[i + 1]
    BY <1>1, <1>2, <1>3
  <1>5. Len(queue') <= QueueCap
    BY <1>3, <1>4
  <1>6. h \in InSeq(queue) /\ InSeq(queue') \subseteq InSeq(queue)
    <2>1. \A i \in 1..Len(queue') : queue'[i] \in InSeq(queue)
      BY <1>3, <1>4 DEF InSeq
    <2> QED
      BY <1>3, <1>4, <2>1 DEF InSeq
  <1>7. InSeq(queue) \subseteq InSeq(queue') \cup {h}
    <2>1. ASSUME NEW i \in 1..Len(queue) PROVE queue[i] \in InSeq(queue') \cup {h}
      <3>1. CASE i = 1
        BY <1>4, <3>1
      <3>2. CASE i # 1
        <4>1. i - 1 \in 1..Len(queue') /\ i - 1 + 1 = i
          BY <1>3, <1>4, <3>2
        <4>2. queue'[i - 1] = queue[i]
          BY <1>4, <4>1
        <4> QED
          BY <1>4, <4>1, <4>2 DEF InSeq
      <3> QED
        BY <3>1, <3>2
    <2> QED
      BY <1>3, <2>1 DEF InSeq
  <1>8. h \in handed /\ h \in Exchanges
    BY <1>6 DEF ProxyTypes
  <1>9. CASE gated' = gated \cup {h} /\ UNCHANGED job
    <2>1. AtWorker' = AtWorker
      BY <1>9 DEF AtWorker, NoJob
    <2>2. ProxyTypes'
      BY <1>1, <1>4, <1>5, <1>6, <1>8, <1>9 DEF ProxyTypes, NoJob
    <2>3. handed' \ (InSeq(queue') \cup full' \cup gated' \cup died' \cup AtWorker')
            \subseteq handed \ (InSeq(queue) \cup full \cup gated \cup died \cup AtWorker)
      BY <1>1, <1>7, <1>9, <2>1
    <2>4. SidesSettled'
      BY <1>1, <1>9, <2>3 DEF SidesSettled, SideSettled
    <2> QED
      BY <1>1, <2>2, <2>4 DEF Remembered, SideSettled, InSeq
  <1>10. CASE job' = [exchange |-> h, side |-> "user"] /\ UNCHANGED gated
    <2>1. job'.exchange = h /\ job'.side = "user" /\ job' \in JobRec
      BY <1>8, <1>10 DEF JobRec
    <2>2. job' # NoJob
      <3>1. NoJob.side = "none"
        BY DEF NoJob
      <3> QED
        BY <2>1, <3>1
    <2>3. AtWorker' = {h} /\ AtWorker = {}
      <3>1. NoJob' = NoJob
        BY DEF NoJob
      <3> QED
        BY <1>1, <2>1, <2>2, <3>1 DEF AtWorker
    <2>4. ProxyTypes'
      BY <1>1, <1>4, <1>5, <1>6, <1>8, <1>10, <2>1, <2>2 DEF ProxyTypes
    <2>5. handed' \ (InSeq(queue') \cup full' \cup gated' \cup died' \cup AtWorker')
            \subseteq handed \ (InSeq(queue) \cup full \cup gated \cup died \cup AtWorker)
      BY <1>1, <1>7, <1>10, <2>3
    <2>6. SidesSettled'
      BY <1>1, <2>1, <2>5 DEF SidesSettled, SideSettled
    <2> QED
      BY <1>1, <2>4, <2>6 DEF Remembered, SideSettled, InSeq
  <1> QED
    BY <1>1, <1>2, <1>9, <1>10

(* The worker is done with a side: the job goes on to the reply, or the    *)
(* turn is through.                                                        *)
LEMMA OnwardKeeps ==
  ASSUME ProxyBounds, ProxyTypes, SidesSettled, NEW ok \in BOOLEAN, job # NoJob, Onward(ok),
         NEW x, x = TextOf(job.exchange, job.side), SideSettled(x)',
         \A y \in Texts : SideSettled(y) => SideSettled(y)',
         UNCHANGED <<exchange, handed, queue, full, gated, restarts, died>>
  PROVE  /\ SidesSettled'
         /\ job' \in JobRec /\ (job' # NoJob => job'.exchange \in handed /\ job'.side # "none")
  <1>1. PICK c : c = job.exchange
    OBVIOUS
  <1>2. c \in handed /\ c \in Exchanges /\ job.side \in {"user", "assistant"} /\ job \in JobRec
    BY <1>1 DEF ProxyTypes, JobRec
  <1>3. UserText[c] \in Texts /\ ReplyText[c] \in Texts
        /\ \A h \in handed : UserText[h] \in Texts /\ ReplyText[h] \in Texts
    BY <1>2 DEF ProxyBounds, ProxyTypes
  <1>4. NoJob.side = "none" /\ NoJob \in JobRec /\ NoJob.exchange = NoCall
    BY DEF NoJob, JobRec
  <1>5. AtWorker = {c} /\ AtWorker' = IF job' = NoJob THEN {} ELSE {job'.exchange}
    BY <1>1 DEF AtWorker, NoJob
  <1>6. CASE job.side = "user"
    <2>1. job' = [job EXCEPT !.side = "assistant"]
      BY <1>6 DEF Onward, AfterUser
    <2>2. job'.side = "assistant" /\ job'.exchange = c /\ job' \in JobRec
      BY <1>1, <1>2, <2>1 DEF JobRec
    <2>3. job' # NoJob
      BY <1>4, <2>2
    <2>4. SideSettled(UserText[c])'
      BY <1>1, <1>6 DEF TextOf
    <2>5. \A h \in handed' \ (InSeq(queue') \cup full' \cup gated' \cup died' \cup AtWorker') :
            /\ h \in handed
            /\ h \in handed \ (InSeq(queue) \cup full \cup gated \cup died \cup AtWorker)
      BY <1>5, <2>2, <2>3
    <2>6. \A h \in handed' \ (InSeq(queue') \cup full' \cup gated' \cup died' \cup AtWorker') :
            SideSettled(UserText[h])' /\ SideSettled(ReplyText[h])'
      BY <1>3, <2>5 DEF SidesSettled
    <2>7. SidesSettled'
      BY <2>2, <2>4, <2>6 DEF SidesSettled, SideSettled
    <2> QED
      BY <1>2, <2>2, <2>7
  <1>7. CASE job.side = "assistant"
    <2>1. job' = NoJob
      BY <1>7 DEF Onward
    <2>2. SideSettled(ReplyText[c])'
      BY <1>1, <1>2, <1>7 DEF TextOf
    <2>3. SideSettled(UserText[c])'
      BY <1>1, <1>3, <1>7 DEF SidesSettled
    <2>4. ASSUME NEW h \in handed' \ (InSeq(queue') \cup full' \cup gated' \cup died' \cup AtWorker')
          PROVE  SideSettled(UserText[h])' /\ SideSettled(ReplyText[h])'
      <3>1. CASE h = c
        BY <2>2, <2>3, <3>1
      <3>2. CASE h # c
        <4>1. /\ h \in handed
              /\ h \in handed \ (InSeq(queue) \cup full \cup gated \cup died \cup AtWorker)
          BY <1>5, <3>2
        <4> QED
          BY <1>3, <4>1 DEF SidesSettled
      <3> QED
        BY <3>1, <3>2
    <2>5. SidesSettled'
      BY <1>4, <2>1, <2>4 DEF SidesSettled, SideSettled
    <2> QED
      BY <1>4, <2>1, <2>5
  <1> QED
    BY <1>2, <1>6, <1>7

LEMMA SkipSideKeeps ==
  ASSUME ProxyBounds, ProxyInv, SkipSide PROVE ProxyInv'
  <1> USE DEF ProxyInv
  <1>1. PICK x : x = TextOf(job.exchange, job.side)
    OBVIOUS
  <1>2. /\ job # NoJob /\ x \in InSeq(seen) /\ seen' = MovedToEnd(seen, x) /\ Onward(TRUE)
        /\ UNCHANGED <<exchange, handed, queue, stored, full, gated, failed, aged, restarts, died>>
    BY <1>1 DEF SkipSide
  <1>3. seen \in Seq(Texts)
    BY DEF ProxyTypes
  <1>4. seen' \in Seq(Texts) /\ Len(seen') = Len(seen) /\ InSeq(seen') = InSeq(seen)
    BY <1>2, <1>3, MovedKeeps
  <1>5. \A y : SideSettled(y)' = SideSettled(y)
    BY <1>2 DEF SideSettled
  <1>6. SideSettled(x)'
    BY <1>2, <1>5 DEF Remembered
  <1>7. /\ SidesSettled'
        /\ job' \in JobRec /\ (job' # NoJob => job'.exchange \in handed /\ job'.side # "none")
    BY <1>1, <1>2, <1>5, <1>6, OnwardKeeps
  <1>8. ProxyTypes'
    <2>1. NoJob' = NoJob /\ InSeq(queue)' = InSeq(queue)
      BY <1>2 DEF NoJob, InSeq
    <2> QED
      BY <1>2, <1>4, <1>7, <2>1 DEF ProxyTypes
  <1>9. Remembered'
    BY <1>2, <1>4, <1>5 DEF Remembered
  <1> QED
    BY <1>7, <1>8, <1>9

LEMMA StoreSideKeeps ==
  ASSUME ProxyBounds, ProxyInv, StoreSide PROVE ProxyInv'
  <1> USE DEF ProxyInv
  <1>1. PICK x : x = TextOf(job.exchange, job.side)
    OBVIOUS
  <1>2. /\ job # NoJob /\ x \notin InSeq(seen) /\ seen' = Remember(x)
        /\ aged' = aged \cup (InSeq(seen) \ InSeq(seen'))
        /\ UNCHANGED <<exchange, handed, queue, full, gated, restarts, died>>
    BY <1>1 DEF StoreSide
  <1>3. PICK ok \in BOOLEAN, lands \in BOOLEAN :
          /\ ok => lands
          /\ stored' = IF lands THEN [stored EXCEPT ![x] = @ + 1] ELSE stored
          /\ failed' = IF ok THEN failed ELSE failed \cup {x}
          /\ Onward(ok)
    BY <1>1 DEF StoreSide
  <1>4. x \in Texts
    <2>1. job.exchange \in Exchanges
      BY <1>2 DEF ProxyTypes
    <2> QED
      BY <1>1, <2>1, BoundsOfProxy DEF TextOf
  <1>5. seen \in Seq(Texts) /\ Len(seen) <= SeenCap /\ SeenCap \in Nat \ {0}
    <2>1. seen \in Seq(Texts) /\ Len(seen) <= SeenCap
      BY DEF ProxyTypes
    <2> QED
      BY <2>1, BoundsOfProxy
  <1>6. seen' = Trimmed(Append(seen, x))
    BY <1>2 DEF Remember
  <1>7. /\ seen' \in Seq(Texts) /\ Len(seen') <= SeenCap
        /\ x \in InSeq(seen') /\ InSeq(seen') \subseteq InSeq(seen) \cup {x}
    BY <1>4, <1>5, <1>6, LastKept
  <1>8. InSeq(seen) \subseteq Texts
    BY <1>5 DEF InSeq
  <1>9. stored \in [Texts -> Nat] /\ failed \in SUBSET Texts /\ aged \in SUBSET Texts
    BY DEF ProxyTypes
  <1>10. stored' \in [Texts -> Nat] /\ failed' \in SUBSET Texts /\ aged' \in SUBSET Texts
         /\ failed \subseteq failed' /\ aged \subseteq aged'
    BY <1>2, <1>3, <1>4, <1>8, <1>9
  <1>11. \A y \in Texts : y # x => stored'[y] = stored[y]
    BY <1>3, <1>9
  <1>12. stored'[x] \in {stored[x], stored[x] + 1} /\ (lands => stored'[x] = stored[x] + 1)
         /\ (~lands => x \in failed') /\ stored[x] \in Nat
    BY <1>3, <1>4, <1>9
  <1>13. SideSettled(x)'
    BY <1>12 DEF SideSettled
  <1>14. ASSUME NEW y \in Texts, SideSettled(y) PROVE SideSettled(y)'
    <2>1. CASE y = x
      BY <1>13, <2>1
    <2>2. CASE y # x
      BY <1>10, <1>11, <1>14, <2>2 DEF SideSettled
    <2> QED
      BY <2>1, <2>2
  <1>15. /\ SidesSettled'
         /\ job' \in JobRec /\ (job' # NoJob => job'.exchange \in handed /\ job'.side # "none")
    BY <1>1, <1>2, <1>3, <1>13, <1>14, OnwardKeeps
  <1>16. ProxyTypes'
    <2>1. NoJob' = NoJob /\ InSeq(queue)' = InSeq(queue)
      BY <1>2 DEF NoJob, InSeq
    <2> QED
      BY <1>2, <1>7, <1>10, <1>15, <2>1 DEF ProxyTypes
  <1>17. \A y \in Texts : stored'[y] > 0 => y \in InSeq(seen') \cup aged'
    <2>1. ASSUME NEW y \in Texts, stored'[y] > 0 PROVE y \in InSeq(seen') \cup aged'
      <3>1. CASE y = x
        BY <1>7, <3>1
      <3>2. CASE y # x
        <4>1. y \in InSeq(seen) \cup aged
          BY <1>11, <2>1, <3>2 DEF Remembered
        <4> QED
          BY <1>2, <4>1
      <3> QED
        BY <3>1, <3>2
    <2> QED
      BY <2>1
  <1>18. \A y \in InSeq(seen') : SideSettled(y)'
    <2>1. ASSUME NEW y \in InSeq(seen') PROVE SideSettled(y)'
      <3>1. CASE y = x
        BY <1>13, <3>1
      <3>2. CASE y # x
        BY <1>7, <1>8, <1>14, <3>2 DEF Remembered
      <3> QED
        BY <3>1, <3>2
    <2> QED
      BY <2>1
  <1>19. \A y \in Texts : stored'[y] > 1 => y \in aged'
    <2>1. ASSUME NEW y \in Texts, stored'[y] > 1 PROVE y \in aged'
      <3>1. CASE y = x
        <4>1. stored[x] > 0
          BY <1>12, <2>1, <3>1
        <4> QED
          BY <1>2, <1>4, <3>1, <4>1 DEF Remembered
      <3>2. CASE y # x
        BY <1>10, <1>11, <2>1, <3>2 DEF Remembered
      <3> QED
        BY <3>1, <3>2
    <2> QED
      BY <2>1
  <1> QED
    BY <1>15, <1>16, <1>17, <1>18, <1>19 DEF Remembered

LEMMA RestartKeeps ==
  ASSUME ProxyBounds, ProxyInv, ProxyRestarts PROVE ProxyInv'
  <1> USE DEF ProxyInv
  <1>1. /\ restarts < MaxRestarts /\ restarts' = restarts + 1
        /\ exchange' = [c \in Exchanges |-> IF exchange[c] = "streaming" THEN "failed" ELSE exchange[c]]
        /\ died' = died \cup InSeq(queue) \cup ({job.exchange} \cap Exchanges)
                     \cup {c \in Exchanges : exchange[c] = "relayed" /\ c \notin handed}
        /\ handed' = handed \cup {c \in Exchanges : exchange[c] = "relayed"}
        /\ queue' = <<>> /\ job' = NoJob /\ seen' = <<>> /\ aged' = aged \cup InSeq(seen)
        /\ UNCHANGED <<stored, full, gated, failed>>
    BY DEF ProxyRestarts
  <1>2. InSeq(<<>>) = {} /\ NoJob \in JobRec /\ NoJob.side = "none" /\ NoJob' = NoJob
    BY DEF InSeq, NoJob, JobRec
  <1>3. InSeq(seen) \subseteq Texts
    <2>1. seen \in Seq(Texts)
      BY DEF ProxyTypes
    <2> QED
      BY <2>1 DEF InSeq
  <1>4. restarts' \in 0..MaxRestarts
    <2>1. restarts \in 0..MaxRestarts
      BY DEF ProxyTypes
    <2> QED
      BY <1>1, <2>1, BoundsOfProxy
  <1>5. \A c \in handed' : c \in Exchanges /\ exchange[c] = "relayed" /\ exchange'[c] = "relayed"
    BY <1>1 DEF ProxyTypes
  <1>6. exchange' \in [Exchanges -> {"new", "streaming", "relayed", "given up", "failed"}]
    BY <1>1 DEF ProxyTypes
  <1>7. {job.exchange} \cap Exchanges = AtWorker /\ AtWorker \subseteq handed
    <2>1. CASE job = NoJob
      <3>1. job.exchange = NoCall
        BY <2>1 DEF NoJob
      <3> QED
        BY <2>1, <3>1, BoundsOfProxy DEF AtWorker
    <2>2. CASE job # NoJob
      <3>1. job.exchange \in handed /\ job.exchange \in Exchanges
        BY <2>2 DEF ProxyTypes
      <3> QED
        BY <2>2, <3>1 DEF AtWorker
    <2> QED
      BY <2>1, <2>2
  <1>8. full' \cup gated' \cup died' \subseteq handed' /\ handed' \in SUBSET Exchanges
    BY <1>1, <1>7 DEF ProxyTypes
  <1>9. seen' \in Seq(Texts) /\ queue' \in Seq(Exchanges) /\ Len(seen') = 0 /\ Len(queue') = 0
    BY <1>1
  <1>10. 0 <= QueueCap /\ 0 <= SeenCap
    BY BoundsOfProxy
  <1>11. aged' \in SUBSET Texts
    BY <1>1, <1>3 DEF ProxyTypes
  <1>12. InSeq(queue') = {} /\ InSeq(seen') = {}
    BY <1>1, <1>2
  <1>13. job' \in JobRec /\ ~(job' # NoJob) /\ job'.side = "none"
    BY <1>1, <1>2
  <1>14. ProxyTypes'
    <2>1. handed' \in SUBSET Exchanges /\ \A c \in handed' : exchange'[c] = "relayed"
      BY <1>5, <1>8
    <2>2. /\ queue' \in Seq(Exchanges) /\ Len(queue') <= QueueCap
          /\ seen' \in Seq(Texts) /\ Len(seen') <= SeenCap
      BY <1>9, <1>10
    <2>3. InSeq(queue') \subseteq handed' /\ full' \cup gated' \cup died' \subseteq handed'
      BY <1>8, <1>12
    <2>4. /\ job' \in JobRec
          /\ job' # NoJob => job'.exchange \in handed' /\ job'.side # "none"
      BY <1>13
    <2>5. stored' \in [Texts -> Nat] /\ failed' \in SUBSET Texts
      BY <1>1 DEF ProxyTypes
    <2> QED
      BY <1>2, <1>4, <1>6, <1>11, <2>1, <2>2, <2>3, <2>4, <2>5 DEF ProxyTypes
  <1>15. Remembered'
    BY <1>1, <1>12 DEF Remembered, SideSettled
  <1>16. handed' \ (InSeq(queue') \cup full' \cup gated' \cup died' \cup AtWorker')
           \subseteq handed \ (InSeq(queue) \cup full \cup gated \cup died \cup AtWorker)
    <2>1. \A c \in handed' : c \notin died' => c \in handed
      BY <1>1
    <2> QED
      BY <1>1, <1>7, <2>1
  <1>17. SidesSettled'
    BY <1>1, <1>13, <1>16 DEF SidesSettled, SideSettled
  <1> QED
    BY <1>14, <1>15, <1>17

LEMMA ProxyNextInv ==
  ASSUME ProxyBounds, ProxyInv, [ProxyNext]_proxyVars PROVE ProxyInv'
  <1>1. ASSUME NEW c \in Exchanges, RelayStarts(c) \/ RelayEnds(c) \/ UpstreamFails(c)
        PROVE  ProxyInv'
    BY <1>1, RelaysKeep
  <1>2. ASSUME NEW c \in Exchanges, Submit(c) PROVE ProxyInv'
    BY <1>2, SubmitKeeps
  <1>3. CASE TakeTurn
    BY <1>3, TakeTurnKeeps
  <1>4. CASE SkipSide
    BY <1>4, SkipSideKeeps
  <1>5. CASE StoreSide
    BY <1>5, StoreSideKeeps
  <1>6. CASE ProxyRestarts
    BY <1>6, RestartKeeps
  <1>7. CASE UNCHANGED proxyVars
    <2>1. UNCHANGED <<exchange, handed, queue, job, seen, stored, full, gated, failed, aged,
                      restarts, died>>
      BY <1>7 DEF proxyVars
    <2>2. NoJob' = NoJob /\ InSeq(queue)' = InSeq(queue) /\ InSeq(seen)' = InSeq(seen)
          /\ AtWorker' = AtWorker
      BY <2>1 DEF NoJob, InSeq, AtWorker
    <2>3. ProxyTypes'
      BY <2>1, <2>2 DEF ProxyInv, ProxyTypes
    <2>4. Remembered' /\ SidesSettled'
      BY <2>1, <2>2 DEF ProxyInv, Remembered, SidesSettled, SideSettled
    <2> QED
      BY <2>3, <2>4 DEF ProxyInv
  <1> QED
    BY <1>1, <1>2, <1>3, <1>4, <1>5, <1>6, <1>7 DEF ProxyNext

LEMMA ProxyInvSound ==
  ASSUME ProxyBounds, ProxyInv PROVE ProxyTypeOK /\ CapturedRightly
  <1> USE DEF ProxyInv
  <1>1. ProxyTypeOK
    BY DEF ProxyTypes, JobRec, ProxyTypeOK
  <1>2. ASSUME NEW c \in Treated, NEW side \in {"user", "assistant"}, stored[TextOf(c, side)] = 0
        PROVE  TextOf(c, side) \in failed
    <2>1. c \in handed \ (InSeq(queue) \cup full \cup gated \cup died \cup AtWorker)
      BY <1>2 DEF Treated, AtWorker
    <2>2. SideSettled(TextOf(c, side))
      BY <2>1 DEF SidesSettled, TextOf
    <2> QED
      BY <1>2, <2>2 DEF SideSettled
  <1>3. CapturedRightly
    BY <1>2 DEF ProxyTypes, Remembered, CapturedRightly
  <1> QED
    BY <1>1, <1>3

(* Answers that come too late, clients that give up or resend, a queue     *)
(* that is full and restarts: only turns relayed in full are captured,     *)
(* each side of a turn the worker is through with is stored unless a POST  *)
(* of it failed, and none twice while the proxy remembers it.              *)
THEOREM ProxyCapturesRightly == ProxySpec => [](ProxyTypeOK /\ CapturedRightly)
  <1>1. ProxyInit => ProxyInv
    BY ProxyInitInv, ProxyBounds
  <1>2. ProxyInv /\ [ProxyNext]_proxyVars => ProxyInv'
    BY ProxyNextInv, ProxyBounds
  <1>3. ProxyInv => ProxyTypeOK /\ CapturedRightly
    BY ProxyInvSound, ProxyBounds
  <1> QED
    BY <1>1, <1>2, <1>3, PTL DEF ProxySpec
-----------------------------------------------------------------------------
(* Capture.  What the fold over any of the lines yields, in closed form:   *)
(* the last line of the user among them, and the replies that follow it.   *)
Spoken(S) == {i \in S : Speaks(i)}
LastSpoken(S) == IF Spoken(S) = {} THEN 0 ELSE Latest(Spoken(S))
RepliesIn(S) == {i \in S : trail[i] \in ReplyKinds /\ i > LastSpoken(S)}
FoldOf(S) == [last |-> LastSpoken(S), said |-> RepliesIn(S)]

LEMMA LatestIs ==
  ASSUME NEW n \in Nat, NEW S \in SUBSET (1..n), S # {}
  PROVE  Latest(S) \in S /\ (\A j \in S : j <= Latest(S)) /\ Latest(S) \in 1..n
  <1>1. S \in SUBSET Nat /\ \A x \in S : x <= n
    OBVIOUS
  <1>2. \E x \in S : \A y \in S : y <= x
    BY <1>1, LargestExists
  <1> QED
    BY <1>2 DEF Latest

LEMMA LatestOnly ==
  ASSUME NEW n \in Nat, NEW S \in SUBSET (1..n), NEW x \in S, \A j \in S : j <= x
  PROVE  Latest(S) = x
  <1>1. Latest(S) \in S /\ (\A j \in S : j <= Latest(S)) /\ Latest(S) \in 1..n
    BY LatestIs
  <1> QED
    BY <1>1

(* One line on: the latest line of a set changes the fold of the others    *)
(* the way the loop does.                                                  *)
LEMMA FoldStep ==
  ASSUME NEW n \in Nat, NEW S \in SUBSET (1..n), S # {}
  PROVE  FoldOf(S) = Line(Latest(S), FoldOf(S \ {Latest(S)}))
  <1>1. PICK x, T : x = Latest(S) /\ T = S \ {x}
    OBVIOUS
  <1>2. x \in S /\ x \in 1..n /\ (\A j \in S : j <= x) /\ T \in SUBSET (1..n)
        /\ S = T \cup {x} /\ \A j \in T : j < x
    <2>1. x \in S /\ x \in 1..n /\ (\A j \in S : j <= x)
      BY <1>1, LatestIs
    <2>2. \A j \in T : j \in 1..n /\ j # x /\ j <= x
      BY <1>1, <2>1
    <2>3. \A j \in T : j < x
      BY <2>1, <2>2
    <2> QED
      BY <1>1, <2>1, <2>3
  <1>4. CASE Speaks(x)
    <2>1. x \in Spoken(S) /\ Spoken(S) \in SUBSET (1..n) /\ \A j \in Spoken(S) : j <= x
      BY <1>2, <1>4 DEF Spoken
    <2>2. Latest(Spoken(S)) = x
      BY <2>1, LatestOnly
    <2>3. LastSpoken(S) = x
      BY <2>1, <2>2 DEF LastSpoken
    <2>4. RepliesIn(S) = {}
      <3>1. \A i \in S : ~(i > x)
        <4>1. \A i \in S : i <= x /\ i \in 1..n
          BY <1>2
        <4> QED
          BY <1>2, <4>1
      <3> QED
        BY <2>3, <3>1 DEF RepliesIn
    <2> QED
      <3>1. Line(x, FoldOf(T)) = [last |-> x, said |-> {}]
        <4>1. trail[x] \notin ReplyKinds
          BY <1>4 DEF Speaks, UserKinds, ReplyKinds
        <4> QED
          BY <1>4, <4>1 DEF Line
      <3> QED
        BY <1>1, <2>3, <2>4, <3>1 DEF FoldOf
  <1>5. CASE ~Speaks(x)
    <2>1. Spoken(S) = Spoken(T)
      BY <1>2, <1>5 DEF Spoken
    <2>2. LastSpoken(S) = LastSpoken(T)
      BY <2>1 DEF LastSpoken
    <2>3. LastSpoken(T) < x
      <3>1. CASE Spoken(T) = {}
        BY <1>2, <3>1 DEF LastSpoken
      <3>2. CASE Spoken(T) # {}
        <4>1. Spoken(T) \in SUBSET (1..n)
          BY <1>2 DEF Spoken
        <4>2. Latest(Spoken(T)) \in Spoken(T)
          BY <3>2, <4>1, LatestIs
        <4> QED
          BY <1>2, <3>2, <4>2 DEF LastSpoken, Spoken
      <3> QED
        BY <3>1, <3>2
    <2>4. CASE trail[x] \in ReplyKinds
      <3>1. RepliesIn(S) = RepliesIn(T) \cup {x}
        BY <1>2, <2>2, <2>3, <2>4 DEF RepliesIn
      <3>2. Line(x, FoldOf(T)) = [FoldOf(T) EXCEPT !.said = @ \cup {x}]
        BY <1>5, <2>4 DEF Line
      <3>3. [FoldOf(T) EXCEPT !.said = @ \cup {x}] = [last |-> LastSpoken(T), said |-> RepliesIn(T) \cup {x}]
        BY DEF FoldOf
      <3> QED
        BY <1>1, <2>2, <3>1, <3>2, <3>3 DEF FoldOf
    <2>5. CASE trail[x] \notin ReplyKinds
      <3>1. RepliesIn(S) = RepliesIn(T)
        BY <1>2, <2>2, <2>5 DEF RepliesIn
      <3>2. Line(x, FoldOf(T)) = FoldOf(T)
        BY <1>5, <2>5 DEF Line
      <3> QED
        BY <1>1, <2>2, <3>1, <3>2 DEF FoldOf
    <2> QED
      BY <2>4, <2>5
  <1> QED
    BY <1>4, <1>5

(* A function that satisfies the recursion of the loop is the closed form: *)
(* a smallest set where they differ would differ from the one before.      *)
LEMMA FoldUnique ==
  ASSUME NEW n \in Nat, NEW f,
         f = [s \in SUBSET (1..n) |->
                IF s = {} THEN Nothing ELSE Line(Latest(s), f[s \ {Latest(s)}])],
         NEW S \in SUBSET (1..n)
  PROVE  f[S] = FoldOf(S)
  <1> DEFINE bad == {s \in SUBSET (1..n) : f[s] # FoldOf(s)}
             sizes == {Cardinality(s) : s \in bad}
  <1>1. \A s \in SUBSET (1..n) : IsFiniteSet(s) /\ Cardinality(s) \in Nat
    <2>1. IsFiniteSet(1..n)
      BY FS_Interval
    <2> QED
      BY <2>1, FS_Subset, FS_CardinalityType
  <1>2. FoldOf({}) = Nothing
    <2>1. Spoken({}) = {} /\ RepliesIn({}) = {}
      BY DEF Spoken, RepliesIn
    <2> QED
      BY <2>1 DEF FoldOf, LastSpoken, Nothing
  <1>3. SUFFICES ASSUME bad # {} PROVE FALSE
    OBVIOUS
  <1>4. sizes \in SUBSET Nat /\ sizes # {}
    BY <1>1, <1>3
  <1>5. PICK s \in bad : \A z \in bad : Cardinality(s) <= Cardinality(z)
    <2> HIDE DEF bad
    <2>1. PICK m \in sizes : \A k \in sizes : m <= k
      <3> HIDE DEF sizes
      <3> QED
        BY <1>4, SmallestExists
    <2> QED
      BY <2>1
  <1>6. s \in SUBSET (1..n) /\ f[s] # FoldOf(s)
    BY <1>5
  <1>7. s # {}
    BY <1>2, <1>6
  <1>8. PICK x, t : x = Latest(s) /\ t = s \ {x}
    OBVIOUS
  <1>9. x \in s /\ t \in SUBSET (1..n)
    BY <1>6, <1>7, <1>8, LatestIs
  <1>10. Cardinality(t) = Cardinality(s) - 1
    BY <1>1, <1>6, <1>8, <1>9, FS_RemoveElement
  <1>11. f[t] = FoldOf(t)
    <2>1. t \notin bad
      <3> HIDE DEF bad
      <3>1. Cardinality(s) \in Nat /\ Cardinality(t) \in Nat
        BY <1>1, <1>6, <1>9
      <3> QED
        BY <1>5, <1>10, <3>1
    <2> QED
      BY <1>9, <2>1
  <1>12. f[s] = Line(x, f[t])
    BY <1>6, <1>7, <1>8
  <1>13. FoldOf(s) = Line(x, FoldOf(t))
    BY <1>6, <1>7, <1>8, FoldStep
  <1> QED
    BY <1>6, <1>11, <1>12, <1>13

LEMMA FoldedIs ==
  ASSUME hook.seen \in Nat
  PROVE  Folded = [last |-> Asked(hook.seen), said |-> SaidSince(Asked(hook.seen), hook.seen)]
  <1>1. PICK n \in Nat : n = hook.seen
    OBVIOUS
  <1>2. PICK f : f = CHOOSE h : h = [s \in SUBSET (1..n) |->
                       IF s = {} THEN Nothing ELSE Line(Latest(s), h[s \ {Latest(s)}])]
    OBVIOUS
  <1>3. Folded = f[1..n]
    BY <1>1, <1>2 DEF Folded, MapThenFoldSet
  <1> DEFINE g == [s \in SUBSET (1..n) |-> FoldOf(s)]
  <1>4. g = [s \in SUBSET (1..n) |-> IF s = {} THEN Nothing ELSE Line(Latest(s), g[s \ {Latest(s)}])]
    <2>1. FoldOf({}) = Nothing
      <3>1. Spoken({}) = {} /\ RepliesIn({}) = {}
        BY DEF Spoken, RepliesIn
      <3> QED
        BY <3>1 DEF FoldOf, LastSpoken, Nothing
    <2>2. ASSUME NEW s \in SUBSET (1..n), s # {}
          PROVE  FoldOf(s) = Line(Latest(s), g[s \ {Latest(s)}])
      BY <2>2, FoldStep
    <2> QED
      BY <2>1, <2>2
  <1> HIDE DEF g
  <1>5. f = [s \in SUBSET (1..n) |-> IF s = {} THEN Nothing ELSE Line(Latest(s), f[s \ {Latest(s)}])]
    BY <1>2, <1>4
  <1>6. f[1..n] = FoldOf(1..n)
    <2>1. \A s \in SUBSET (1..n) : f[s] = FoldOf(s)
      BY <1>5, FoldUnique, Zenon
    <2>2. 1..n \in SUBSET (1..n)
      OBVIOUS
    <2> QED
      BY <2>1, <2>2
  <1>7. LastSpoken(1..n) = Asked(n)
    BY DEF LastSpoken, Spoken, Speaks, Asked
  <1>8. Asked(n) \in Nat
    <2>1. PICK u : u = {i \in 1..n : trail[i] \in UserKinds}
      OBVIOUS
    <2>2. u # {} => Latest(u) \in 1..n
      BY <2>1, LatestIs
    <2> QED
      BY <2>1, <2>2 DEF Asked
  <1>9. RepliesIn(1..n) = SaidSince(Asked(n), n)
    <2>1. PICK a \in Nat : a = Asked(n)
      BY <1>8
    <2>2. RepliesIn(1..n) = {i \in 1..n : trail[i] \in ReplyKinds /\ i > a}
      BY <1>7, <2>1 DEF RepliesIn
    <2>3. {i \in 1..n : trail[i] \in ReplyKinds /\ i > a} = {i \in a + 1..n : trail[i] \in ReplyKinds}
      OBVIOUS
    <2> QED
      BY <2>1, <2>2, <2>3 DEF SaidSince
  <1> QED
    BY <1>1, <1>3, <1>6, <1>7, <1>9 DEF FoldOf

(* What a Stop hook is to store when the session has u events, n of them   *)
(* in the file, and what a hook that ended owes.                           *)
ReplyTo(u, n) == IF SaidSince(Asked(u), n) = {} /\ headless THEN {u} ELSE SaidSince(Asked(u), n)
Sided(s) ==
  ~s.cut =>
    /\ Asked(s.upto) > 0 /\ trail[Asked(s.upto)] = "plain"
         => [who |-> "user", of |-> {Asked(s.upto)}] \in Kept
    /\ s.killed => s.slow
    /\ (\E i \in ReplyTo(s.upto, s.seen) : trail[i] # "brief")
       /\ Asked(s.upto) > 0 /\ trail[Asked(s.upto)] # "eval" /\ ~s.killed
         => [who |-> "assistant", of |-> ReplyTo(s.upto, s.seen)] \in Kept

TrailKinds == UserKinds \cup OtherKinds \cup ReplyKinds
HookRec == [at : {"none", "reading", "user", "reply", "ended", "killed"}, seen : Nat,
            cut : BOOLEAN, last : 0..MaxEvents, said : SUBSET (1..MaxEvents), clock : Nat]
CaptureTypes ==
  /\ trail \in Seq(TrailKinds) /\ Len(trail) <= MaxEvents /\ headless \in BOOLEAN
  /\ hook \in HookRec
  /\ \A s \in settled : s.upto \in 1..Len(trail) /\ s.seen \in 0..s.upto
(* Time passes in a POST only, the hook is killed only after one, and it   *)
(* was woken by a reply, of which the file may lack the last line.         *)
HookRuns ==
  /\ hook.at \in {"reading", "user"} => hook.clock = 0
  /\ hook.at = "killed" => hook.clock > 0
  /\ hook.at # "none" => /\ Len(trail) > 0 /\ trail[Len(trail)] \in ReplyKinds
                         /\ hook.seen \in {Len(trail) - 1, Len(trail)}
(* What the hook has read, and what it has kept of it so far.              *)
ReadRight ==
  hook.at \in {"user", "reply", "ended", "killed"} /\ ~hook.cut =>
    hook.last = Asked(Len(trail)) /\ hook.said = ReplyTo(Len(trail), hook.seen)
UserKept ==
  hook.at \in {"reply", "ended", "killed"} /\ hook.last > 0 /\ trail[hook.last] = "plain"
    => UserItem \in Kept
ReplyKept ==
  (\E i \in hook.said : trail[i] # "brief")
  /\ hook.at = "ended" /\ hook.last > 0 /\ trail[hook.last] # "eval"
    => ReplyItem \in Kept
AllSided == \A s \in settled : Sided(s)

CaptureInv == CaptureTypes /\ HookRuns /\ ReadRight /\ UserKept /\ ReplyKept /\ AllSided

LEMMA BoundsOfCapture ==
  ASSUME CaptureBounds
  PROVE  /\ MaxEvents \in Nat /\ MaxStops \in Nat /\ PostTimeout \in Nat /\ HookLimit \in Nat
         /\ 0 < PostTimeout /\ PostTimeout <= HookLimit
  BY DEF CaptureBounds

LEMMA AskedIn ==
  ASSUME NEW n \in Nat
  PROVE  /\ Asked(n) \in 0..n
         /\ Asked(n) > 0 => trail[Asked(n)] \in UserKinds
  <1>1. PICK u : u = {i \in 1..n : trail[i] \in UserKinds}
    OBVIOUS
  <1>2. Asked(n) = IF u = {} THEN 0 ELSE Latest(u)
    BY <1>1 DEF Asked
  <1>3. u \in SUBSET (1..n)
    BY <1>1
  <1>4. u # {} => Latest(u) \in u
    BY <1>3, LatestIs
  <1>5. CASE u = {}
    BY <1>2, <1>5
  <1>6. CASE u # {}
    BY <1>1, <1>2, <1>4, <1>6
  <1> QED
    BY <1>5, <1>6

(* A reply does not change who asked last.                                 *)
LEMMA AskedBefore ==
  ASSUME NEW u \in Nat, u > 0, trail[u] \in ReplyKinds PROVE Asked(u - 1) = Asked(u)
  <1>1. trail[u] \notin UserKinds
    BY DEF UserKinds, ReplyKinds
  <1>2. {i \in 1..u - 1 : trail[i] \in UserKinds} = {i \in 1..u : trail[i] \in UserKinds}
    <2>1. \A i : i \in 1..u <=> (i \in 1..u - 1 \/ i = u)
      OBVIOUS
    <2> QED
      BY <1>1, <2>1
  <1> QED
    BY <1>2 DEF Asked

(* The session goes on: what is asked and said up to a line stays.         *)
LEMMA PrefixStays ==
  ASSUME trail \in Seq(TrailKinds), NEW k \in TrailKinds, trail' = Append(trail, k),
         NEW n \in 0..Len(trail)
  PROVE  /\ Asked(n)' = Asked(n)
         /\ \A a \in Nat : SaidSince(a, n)' = SaidSince(a, n)
         /\ \A i \in 1..n : trail'[i] = trail[i]
         /\ trail' \in Seq(TrailKinds) /\ Len(trail') = Len(trail) + 1
  <1>1. /\ \A i \in 1..Len(trail) : trail'[i] = trail[i]
        /\ trail' \in Seq(TrailKinds) /\ Len(trail') = Len(trail) + 1
    OBVIOUS
  <1>2. \A i \in 1..n : trail'[i] = trail[i]
    BY <1>1
  <1>3. {i \in 1..n : trail'[i] \in UserKinds} = {i \in 1..n : trail[i] \in UserKinds}
    BY <1>2
  <1>4. Asked(n)' = Asked(n)
    BY <1>3 DEF Asked
  <1>5. ASSUME NEW a \in Nat PROVE SaidSince(a, n)' = SaidSince(a, n)
    <2>1. \A i \in a + 1..n : i \in 1..n
      OBVIOUS
    <2> QED
      BY <1>2, <2>1 DEF SaidSince
  <1> QED
    BY <1>1, <1>2, <1>4, <1>5

LEMMA CaptureInitInv == ASSUME CaptureBounds, CaptureInit PROVE CaptureInv
  <1>1. hook \in HookRec /\ hook.at = "none"
    BY BoundsOfCapture DEF CaptureInit, NoHook, HookRec
  <1>2. CaptureTypes
    BY <1>1, BoundsOfCapture DEF CaptureInit, CaptureTypes
  <1> QED
    BY <1>1, <1>2 DEF CaptureInit, CaptureInv, HookRuns, ReadRight, UserKept, ReplyKept, AllSided

(* What a hook that ended owes is kept while lines and turns are added.    *)
LEMMA SidedStays ==
  ASSUME CaptureTypes, NEW s \in settled, Sided(s), Kept \subseteq Kept', headless' = headless,
         trail' = trail \/ \E k \in TrailKinds : trail' = Append(trail, k)
  PROVE  Sided(s)'
  <1>1. PICK u, n : u = s.upto /\ n = s.seen
    OBVIOUS
  <1>2. u \in 1..Len(trail) /\ n \in 0..u /\ trail \in Seq(TrailKinds) /\ Len(trail) \in Nat
    BY <1>1 DEF CaptureTypes
  <1>3. PICK a : a = Asked(u)
    OBVIOUS
  <1>4. a \in 0..u /\ u \in Nat /\ a \in Nat /\ u \in 0..Len(trail) /\ n \in 0..Len(trail)
    <2>1. u \in Nat /\ u \in 0..Len(trail) /\ n \in 0..Len(trail)
      BY <1>2
    <2> QED
      BY <1>3, <2>1, AskedIn
  <1>5. /\ Asked(u)' = a /\ SaidSince(a, n)' = SaidSince(a, n)
        /\ \A i \in 1..u : trail'[i] = trail[i]
    <2>1. CASE trail' = trail
      BY <1>3, <2>1 DEF Asked, SaidSince
    <2>2. ASSUME NEW k \in TrailKinds, trail' = Append(trail, k)
          PROVE  /\ Asked(u)' = a /\ SaidSince(a, n)' = SaidSince(a, n)
                 /\ \A i \in 1..u : trail'[i] = trail[i]
      BY <1>2, <1>3, <1>4, <2>2, PrefixStays
    <2> QED
      BY <2>1, <2>2
  <1>6. PICK said : said = ReplyTo(u, n)
    OBVIOUS
  <1>7. ReplyTo(u, n)' = said /\ said \subseteq 1..u
    <2>1. SaidSince(a, n) \subseteq 1..u
      BY <1>2, <1>4 DEF SaidSince
    <2>2. said = IF SaidSince(a, n) = {} /\ headless THEN {u} ELSE SaidSince(a, n)
      BY <1>3, <1>6 DEF ReplyTo
    <2>3. ReplyTo(u, n)' = IF SaidSince(a, n)' = {} /\ headless' THEN {u} ELSE SaidSince(a, n)'
      BY <1>5 DEF ReplyTo
    <2>4. u \in 1..u
      BY <1>2
    <2> QED
      BY <1>5, <2>1, <2>2, <2>3, <2>4
  <1>8. a > 0 => trail'[a] = trail[a]
    BY <1>4, <1>5
  <1>9. \A i \in said : trail'[i] = trail[i]
    BY <1>5, <1>7
  <1> QED
    BY <1>1, <1>3, <1>5, <1>6, <1>7, <1>8, <1>9 DEF Sided

LEMMA SessionKeeps == ASSUME CaptureBounds, CaptureInv, SessionGoesOn PROVE CaptureInv'
  <1> USE DEF CaptureInv
  <1>1. /\ hook = NoHook /\ Len(trail) < MaxEvents
        /\ UNCHANGED <<headless, hook, onServer, inQueue, settled>>
    BY DEF SessionGoesOn
  <1>2. PICK k \in TrailKinds : trail' = Append(trail, k)
    BY DEF SessionGoesOn, TrailKinds
  <1>3. trail \in Seq(TrailKinds) /\ Len(trail) \in Nat /\ MaxEvents \in Nat
    BY BoundsOfCapture DEF CaptureTypes
  <1>4. trail' \in Seq(TrailKinds) /\ Len(trail') = Len(trail) + 1 /\ Len(trail') <= MaxEvents
    BY <1>1, <1>2, <1>3
  <1>5. hook.at = "none" /\ Kept' = Kept
    BY <1>1 DEF NoHook, Kept
  <1>6. \A s \in settled' : s.upto \in 1..Len(trail') /\ s.seen \in 0..s.upto
    BY <1>1, <1>3, <1>4 DEF CaptureTypes
  <1>7. CaptureTypes'
    BY <1>1, <1>4, <1>6 DEF CaptureTypes, HookRec
  <1>8. AllSided'
    BY <1>1, <1>2, <1>5, SidedStays DEF AllSided
  <1> QED
    BY <1>1, <1>5, <1>7, <1>8 DEF HookRuns, ReadRight, UserKept, ReplyKept

LEMMA StopKeeps == ASSUME CaptureBounds, CaptureInv, StopFires PROVE CaptureInv'
  <1> USE DEF CaptureInv
  <1>1. /\ trail # <<>> /\ trail[Len(trail)] \in ReplyKinds
        /\ UNCHANGED <<trail, headless, onServer, inQueue, settled>>
    BY DEF StopFires
  <1>2. PICK half \in BOOLEAN, lag \in 0..1 :
          hook' = [NoHook EXCEPT !.at = "reading", !.cut = half, !.seen = Len(trail) - lag]
    BY DEF StopFires
  <1>3. hook' = [at |-> "reading", seen |-> Len(trail) - lag, cut |-> half, last |-> 0, said |-> {},
                 clock |-> 0]
    BY <1>2 DEF NoHook
  <1>4. trail \in Seq(TrailKinds) /\ Len(trail) \in Nat /\ Len(trail) > 0
    <2>1. trail \in Seq(TrailKinds)
      BY DEF CaptureTypes
    <2> QED
      BY <1>1, <2>1
  <1>5. Len(trail) - lag \in Nat /\ Len(trail) - lag \in {Len(trail) - 1, Len(trail)}
    BY <1>4
  <1>6. hook' \in HookRec
    BY <1>3, <1>5, BoundsOfCapture DEF HookRec
  <1>7. CaptureTypes'
    BY <1>1, <1>6 DEF CaptureTypes, HookRec
  <1>8. HookRuns'
    BY <1>1, <1>3, <1>4, <1>5 DEF HookRuns
  <1>9. AllSided'
    <2>1. Kept \subseteq Kept'
      BY <1>1 DEF Kept
    <2> QED
      BY <1>1, <2>1, SidedStays DEF AllSided
  <1> QED
    BY <1>3, <1>7, <1>8, <1>9 DEF ReadRight, UserKept, ReplyKept

LEMMA ReadKeeps == ASSUME CaptureBounds, CaptureInv, ReadTranscript PROVE CaptureInv'
  <1> USE DEF CaptureInv
  <1>1. hook.at = "reading" /\ UNCHANGED <<trail, headless, onServer, inQueue, settled>>
        /\ hook' = [hook EXCEPT !.at = "user",
                      !.last = IF hook.cut THEN 0 ELSE Folded.last,
                      !.said = IF Folded.said = {} THEN Payload ELSE Folded.said]
    BY DEF ReadTranscript
  <1>2. PICK n, u : n = hook.seen /\ u = Len(trail)
    OBVIOUS
  <1>3. n \in Nat /\ u \in Nat /\ u > 0 /\ u <= MaxEvents /\ n \in {u - 1, u} /\ n <= u
        /\ trail[u] \in ReplyKinds
    <2>1. trail \in Seq(TrailKinds) /\ Len(trail) <= MaxEvents /\ hook \in HookRec
      BY DEF CaptureTypes
    <2>2. u \in Nat /\ n \in Nat
      BY <1>2, <2>1 DEF HookRec
    <2>3. u > 0 /\ n \in {u - 1, u} /\ trail[u] \in ReplyKinds
      BY <1>1, <1>2 DEF HookRuns
    <2> QED
      BY <1>2, <2>1, <2>2, <2>3
  <1>4. PICK a : a = Asked(n)
    OBVIOUS
  <1>5. Folded.last = a /\ Folded.said = SaidSince(a, n)
    BY <1>2, <1>3, <1>4, FoldedIs
  <1>6. a \in 0..n
    BY <1>3, <1>4, AskedIn
  <1>7. Asked(u) = a
    <2>1. Asked(u - 1) = Asked(u)
      BY <1>3, AskedBefore
    <2> QED
      BY <1>3, <1>4, <2>1
  <1>8. SaidSince(a, n) \subseteq 1..u /\ Payload \subseteq {u} /\ (headless => Payload = {u})
        /\ (~headless => Payload = {})
    BY <1>2, <1>3, <1>6 DEF SaidSince, Payload
  <1>9. PICK said : said = IF SaidSince(a, n) = {} THEN Payload ELSE SaidSince(a, n)
    OBVIOUS
  <1>10. said = ReplyTo(u, n)
    BY <1>7, <1>8, <1>9 DEF ReplyTo
  <1>11. PICK last : last = IF hook.cut THEN 0 ELSE a
    OBVIOUS
  <1>12. hook' = [hook EXCEPT !.at = "user", !.last = last, !.said = said]
    BY <1>1, <1>5, <1>9, <1>11
  <1>13. hook \in HookRec /\ MaxEvents \in Nat
    BY BoundsOfCapture DEF CaptureTypes
  <1>14. last \in 0..MaxEvents /\ said \in SUBSET (1..MaxEvents)
    <2>1. 0 \in 0..MaxEvents /\ a \in 0..MaxEvents
      BY <1>3, <1>6, <1>13
    <2>2. 1..u \subseteq 1..MaxEvents /\ {u} \subseteq 1..u
      BY <1>3, <1>13
    <2> QED
      BY <1>8, <1>9, <1>11, <2>1, <2>2
  <1>15. /\ hook'.at = "user" /\ hook'.last = last /\ hook'.said = said /\ hook'.seen = n
         /\ hook'.cut = hook.cut /\ hook'.clock = hook.clock /\ hook' \in HookRec
    BY <1>2, <1>12, <1>13, <1>14 DEF HookRec
  <1>16. CaptureTypes'
    <2>1. HookRec' = HookRec
      BY DEF HookRec
    <2> QED
      BY <1>1, <1>15, <2>1 DEF CaptureTypes
  <1>17. HookRuns'
    BY <1>1, <1>2, <1>3, <1>15 DEF HookRuns
  <1>18. Kept' = Kept /\ ReplyTo(u, n)' = ReplyTo(u, n) /\ Asked(u)' = Asked(u)
    BY <1>1 DEF Kept, ReplyTo, SaidSince, Asked
  <1>19. ReadRight'
    BY <1>1, <1>2, <1>7, <1>10, <1>11, <1>15, <1>18 DEF ReadRight
  <1>20. AllSided'
    BY <1>1, <1>18, SidedStays DEF AllSided
  <1> QED
    BY <1>15, <1>16, <1>17, <1>19, <1>20 DEF UserKept, ReplyKept

(* A turn is stored or queued, unless its POST runs into the time limit of *)
(* the hook.                                                               *)
LEMMA SaveKeeps ==
  ASSUME CaptureBounds, hook \in HookRec, NEW nx \in {"reply", "ended"}, NEW item,
         Save(item, [hook EXCEPT !.at = nx])
  PROVE  /\ Kept \subseteq Kept' /\ hook' \in HookRec
         /\ hook'.seen = hook.seen /\ hook'.cut = hook.cut
         /\ hook'.last = hook.last /\ hook'.said = hook.said
         /\ \/ hook'.at = nx /\ item \in Kept'
            \/ hook'.at = "killed" /\ hook.clock + PostTimeout > HookLimit /\ hook'.clock = hook.clock
  <1>1. PICK q : q = [hook EXCEPT !.at = nx]
    OBVIOUS
  <1>2. /\ q \in HookRec /\ q.at = nx /\ q.seen = hook.seen /\ q.cut = hook.cut /\ q.last = hook.last
        /\ q.said = hook.said /\ q.clock = hook.clock /\ hook.clock \in Nat
    BY <1>1 DEF HookRec
  <1>3. CASE item \in Kept' /\ Kept \subseteq Kept' /\ hook' = q
    BY <1>2, <1>3
  <1>4. CASE item \in Kept' /\ Kept \subseteq Kept' /\ hook' = [q EXCEPT !.clock = @ + PostTimeout]
    <2>1. hook.clock + PostTimeout \in Nat
      BY <1>2, BoundsOfCapture
    <2>2. hook' \in HookRec /\ hook'.at = nx /\ hook'.seen = q.seen /\ hook'.cut = q.cut
          /\ hook'.last = q.last /\ hook'.said = q.said
      BY <1>2, <1>4, <2>1 DEF HookRec
    <2> QED
      BY <1>2, <1>4, <2>2
  <1>5. CASE /\ hook.clock + PostTimeout > HookLimit /\ Kept \subseteq Kept'
             /\ hook' = [hook EXCEPT !.at = "killed"]
    <2>1. hook' \in HookRec /\ hook'.at = "killed" /\ hook'.seen = hook.seen /\ hook'.cut = hook.cut
          /\ hook'.last = hook.last /\ hook'.said = hook.said /\ hook'.clock = hook.clock
      BY <1>5 DEF HookRec
    <2> QED
      BY <1>5, <2>1
  <1> QED
    BY <1>1, <1>3, <1>4, <1>5 DEF Save, Kept

(* The hook goes from one save to the next: what it has read stands.       *)
LEMMA HookMoves ==
  ASSUME CaptureBounds, CaptureInv, hook.at \in {"user", "reply"}, hook' \in HookRec,
         hook'.at \in {"reply", "ended", "killed"},
         hook'.seen = hook.seen, hook'.cut = hook.cut, hook'.last = hook.last, hook'.said = hook.said,
         hook'.at = "killed" => hook'.clock > 0,
         Kept \subseteq Kept', UNCHANGED <<trail, headless, settled>>
  PROVE  CaptureTypes' /\ HookRuns' /\ ReadRight' /\ AllSided'
  <1> USE DEF CaptureInv
  <1>1. CaptureTypes'
    <2>1. HookRec' = HookRec
      BY DEF HookRec
    <2> QED
      BY <2>1 DEF CaptureTypes
  <1>2. HookRuns'
    BY DEF HookRuns
  <1>3. \A u, n : ReplyTo(u, n)' = ReplyTo(u, n) /\ Asked(u)' = Asked(u)
    BY DEF ReplyTo, SaidSince, Asked
  <1>4. ReadRight'
    <2>1. PICK u, n : u = Len(trail) /\ n = hook.seen
      OBVIOUS
    <2>2. ReplyTo(u, n)' = ReplyTo(u, n) /\ Asked(u)' = Asked(u)
      BY <1>3
    <2> QED
      BY <2>1, <2>2 DEF ReadRight
  <1>5. AllSided'
    BY SidedStays DEF AllSided
  <1> QED
    BY <1>1, <1>2, <1>4, <1>5

LEMMA SaveUserKeeps == ASSUME CaptureBounds, CaptureInv, SaveUser PROVE CaptureInv'
  <1> USE DEF CaptureInv
  <1>1. hook.at = "user" /\ UNCHANGED <<trail, headless, settled>> /\ hook \in HookRec
        /\ hook.clock = 0
    BY DEF SaveUser, CaptureTypes, HookRuns
  <1>2. PICK item : item = UserItem
    OBVIOUS
  <1>3. CASE UserIsNoise
    <2>1. hook' = [hook EXCEPT !.at = "reply"] /\ Kept' = Kept
      BY <1>3 DEF SaveUser, Kept
    <2>2. hook'.at = "reply" /\ hook' \in HookRec /\ hook'.seen = hook.seen /\ hook'.cut = hook.cut
          /\ hook'.last = hook.last /\ hook'.said = hook.said
      BY <1>1, <2>1 DEF HookRec
    <2>3. CaptureTypes' /\ HookRuns' /\ ReadRight' /\ AllSided'
      BY <1>1, <2>1, <2>2, HookMoves
    <2>4. ~(hook'.last > 0 /\ trail'[hook'.last] = "plain")
      BY <1>1, <1>3, <2>2 DEF UserIsNoise
    <2> QED
      BY <2>2, <2>3, <2>4 DEF UserKept, ReplyKept
  <1>4. CASE ~UserIsNoise
    <2>1. Save(item, [hook EXCEPT !.at = "reply"])
      BY <1>2, <1>4 DEF SaveUser
    <2>2. /\ Kept \subseteq Kept' /\ hook' \in HookRec
          /\ hook'.seen = hook.seen /\ hook'.cut = hook.cut
          /\ hook'.last = hook.last /\ hook'.said = hook.said
          /\ \/ hook'.at = "reply" /\ item \in Kept'
             \/ hook'.at = "killed" /\ hook.clock + PostTimeout > HookLimit /\ hook'.clock = hook.clock
      BY <1>1, <2>1, SaveKeeps
    <2>3. ~(hook.clock + PostTimeout > HookLimit)
      BY <1>1, BoundsOfCapture
    <2>4. hook'.at = "reply" /\ item \in Kept'
      BY <2>2, <2>3
    <2>5. CaptureTypes' /\ HookRuns' /\ ReadRight' /\ AllSided'
      BY <1>1, <2>2, <2>4, HookMoves
    <2>6. UserItem' = item
      BY <1>2, <2>2 DEF UserItem
    <2> QED
      BY <2>4, <2>5, <2>6 DEF UserKept, ReplyKept
  <1> QED
    BY <1>3, <1>4

LEMMA SaveReplyKeeps == ASSUME CaptureBounds, CaptureInv, SaveReply PROVE CaptureInv'
  <1> USE DEF CaptureInv
  <1>1. hook.at = "reply" /\ UNCHANGED <<trail, headless, settled>> /\ hook \in HookRec
        /\ hook.clock \in Nat
    BY DEF SaveReply, CaptureTypes, HookRec
  <1>2. PICK item : item = ReplyItem
    OBVIOUS
  <1>3. CASE TooBrief \/ ReplyIsNoise
    <2>1. hook' = [hook EXCEPT !.at = "ended"] /\ Kept' = Kept
      BY <1>3 DEF SaveReply, Kept
    <2>2. hook'.at = "ended" /\ hook' \in HookRec /\ hook'.seen = hook.seen /\ hook'.cut = hook.cut
          /\ hook'.last = hook.last /\ hook'.said = hook.said
      BY <1>1, <2>1 DEF HookRec
    <2>3. CaptureTypes' /\ HookRuns' /\ ReadRight' /\ AllSided'
      BY <1>1, <2>1, <2>2, HookMoves
    <2>4. UserKept'
      <3>1. UserItem' = UserItem
        BY <2>2 DEF UserItem
      <3> QED
        BY <1>1, <2>1, <2>2, <3>1 DEF UserKept
    <2>5. ~((\E i \in hook'.said : trail'[i] # "brief") /\ hook'.last > 0 /\ trail'[hook'.last] # "eval")
      BY <1>1, <1>3, <2>2 DEF TooBrief, ReplyIsNoise
    <2> QED
      BY <2>3, <2>4, <2>5 DEF ReplyKept
  <1>4. CASE ~(TooBrief \/ ReplyIsNoise)
    <2>1. Save(item, [hook EXCEPT !.at = "ended"])
      BY <1>2, <1>4 DEF SaveReply
    <2>2. /\ Kept \subseteq Kept' /\ hook' \in HookRec
          /\ hook'.seen = hook.seen /\ hook'.cut = hook.cut
          /\ hook'.last = hook.last /\ hook'.said = hook.said
          /\ \/ hook'.at = "ended" /\ item \in Kept'
             \/ hook'.at = "killed" /\ hook.clock + PostTimeout > HookLimit /\ hook'.clock = hook.clock
      BY <1>1, <2>1, SaveKeeps
    <2>3. hook'.at = "killed" => hook'.clock > 0
      BY <1>1, <2>2, BoundsOfCapture
    <2>4. CaptureTypes' /\ HookRuns' /\ ReadRight' /\ AllSided'
      BY <1>1, <2>2, <2>3, HookMoves
    <2>5. UserItem' = UserItem /\ ReplyItem' = item
      BY <1>2, <2>2 DEF UserItem, ReplyItem
    <2>6. UserKept'
      BY <1>1, <2>2, <2>5 DEF UserKept
    <2>7. ReplyKept'
      BY <2>2, <2>5 DEF ReplyKept
    <2> QED
      BY <2>4, <2>6, <2>7
  <1> QED
    BY <1>3, <1>4

LEMMA HookEndKeeps == ASSUME CaptureBounds, CaptureInv, HookEnds PROVE CaptureInv'
  <1> USE DEF CaptureInv
  <1>1. PICK s : s = [upto |-> Len(trail), seen |-> hook.seen, cut |-> hook.cut,
                      killed |-> hook.at = "killed", slow |-> hook.clock > 0]
    OBVIOUS
  <1>2. /\ hook.at \in {"ended", "killed"} /\ hook' = NoHook /\ settled' = settled \cup {s}
        /\ UNCHANGED <<trail, headless, onServer, inQueue>>
    BY <1>1 DEF HookEnds
  <1>3. /\ s.upto = Len(trail) /\ s.seen = hook.seen /\ s.cut = hook.cut
        /\ s.killed = (hook.at = "killed") /\ s.slow = (hook.clock > 0)
    BY <1>1
  <1>4. hook'.at = "none" /\ hook' \in HookRec
    BY <1>2, BoundsOfCapture DEF NoHook, HookRec
  <1>5. Kept' = Kept /\ \A u, n : ReplyTo(u, n)' = ReplyTo(u, n) /\ Asked(u)' = Asked(u)
    BY <1>2 DEF Kept, ReplyTo, SaidSince, Asked
  <1>6. s.upto \in 1..Len(trail) /\ s.seen \in 0..s.upto
    <2>1. hook.seen \in Nat /\ Len(trail) \in Nat
      BY DEF CaptureTypes, HookRec
    <2>2. Len(trail) > 0 /\ hook.seen \in {Len(trail) - 1, Len(trail)}
      BY <1>2 DEF HookRuns
    <2> QED
      BY <1>3, <2>1, <2>2
  <1>7. CaptureTypes'
    BY <1>2, <1>4, <1>6 DEF CaptureTypes, HookRec
  <1>8. ~s.cut => s.upto = Len(trail) /\ hook.last = Asked(s.upto)
                  /\ hook.said = ReplyTo(s.upto, s.seen)
    BY <1>2, <1>3 DEF ReadRight
  <1>9. s.killed => s.slow
    BY <1>3 DEF HookRuns
  <1>10. ~s.killed => hook.at = "ended"
    BY <1>2, <1>3
  <1>11. Sided(s)
    BY <1>2, <1>8, <1>9, <1>10 DEF Sided, UserKept, UserItem, ReplyKept, ReplyItem
  <1>12. AllSided'
    <2>1. Sided(s)'
      BY <1>2, <1>5, <1>11 DEF Sided
    <2>2. \A z \in settled : Sided(z)'
      BY <1>2, <1>5, SidedStays DEF AllSided
    <2> QED
      BY <1>2, <2>1, <2>2 DEF AllSided
  <1> QED
    BY <1>4, <1>7, <1>12 DEF HookRuns, ReadRight, UserKept, ReplyKept

LEMMA CaptureNextInv ==
  ASSUME CaptureBounds, CaptureInv, [CaptureNext]_captureVars PROVE CaptureInv'
  <1>1. CASE UNCHANGED captureVars
    <2>1. UNCHANGED <<trail, headless, hook, onServer, inQueue, settled>>
      BY <1>1 DEF captureVars
    <2>2. Kept' = Kept /\ \A u, n : ReplyTo(u, n)' = ReplyTo(u, n) /\ Asked(u)' = Asked(u)
      BY <2>1 DEF Kept, ReplyTo, SaidSince, Asked
    <2>3. CaptureTypes' /\ HookRuns' /\ UserKept' /\ ReplyKept'
      BY <2>1, <2>2 DEF CaptureInv, CaptureTypes, HookRec, HookRuns, UserKept, UserItem, ReplyKept, ReplyItem
    <2>4. ReadRight'
      <3>1. PICK u, n : u = Len(trail) /\ n = hook.seen
        OBVIOUS
      <3>2. ReplyTo(u, n)' = ReplyTo(u, n) /\ Asked(u)' = Asked(u)
        BY <2>2
      <3> QED
        BY <2>1, <3>1, <3>2 DEF CaptureInv, ReadRight
    <2>5. AllSided'
      BY <2>1, <2>2, SidedStays DEF CaptureInv, AllSided
    <2> QED
      BY <2>3, <2>4, <2>5 DEF CaptureInv
  <1> QED
    BY <1>1, SessionKeeps, StopKeeps, ReadKeeps, SaveUserKeeps, SaveReplyKeeps, HookEndKeeps
       DEF CaptureNext

LEMMA CaptureInvSound ==
  ASSUME CaptureBounds, CaptureInv PROVE CaptureTypeOK /\ SidesKept
  <1>1. CaptureTypeOK
    BY DEF CaptureInv, CaptureTypes, HookRec, TrailKinds, CaptureTypeOK
  <1>2. SidesKept
    BY DEF CaptureInv, AllSided, Sided, ReplyTo, SidesKept
  <1> QED
    BY <1>1, <1>2

(* A transcript that is still written, read in part, a payload in its      *)
(* place, a server that fails or answers too late: what was last asked and *)
(* the whole reply to it are stored or queued, but for noise and for a     *)
(* reply the time limit took behind a POST that ran into its timeout.      *)
THEOREM HookKeepsBothSides == CaptureSpec => [](CaptureTypeOK /\ SidesKept)
  <1>1. CaptureInit => CaptureInv
    BY CaptureInitInv, CaptureBounds
  <1>2. CaptureInv /\ [CaptureNext]_captureVars => CaptureInv'
    BY CaptureNextInv, CaptureBounds
  <1>3. CaptureInv => CaptureTypeOK /\ SidesKept
    BY CaptureInvSound, CaptureBounds
  <1> QED
    BY <1>1, <1>2, <1>3, PTL DEF CaptureSpec
-----------------------------------------------------------------------------
(* Whichever of the programs a behaviour runs, the files of a workspace    *)
(* belong to the dispatch or the session that runs in it, and are given    *)
(* back: what the run of all local programs checks of these two.           *)
THEOREM WorkspacesAreKept == LocalSpec => []WorkspaceKept
  <1>1. LocalInit => ScopingInv /\ SessionInv
    <2>1. LocalInit => ScopingInit /\ SessionInit
      BY DEF LocalInit
    <2> QED
      BY <2>1, ScopingInitInv, ScopingBounds, SessionInitInv
  <1> DEFINE local == <<part, vars, launchVars, reexecVars, scopingVars, handoffVars, hookVars,
                        captureVars, dispatchVars, channelVars, proxyVars, sessionVars,
                        noticeVars>>
  <1>2. ScopingInv /\ SessionInv /\ [LocalNext]_local => ScopingInv' /\ SessionInv'
    <2>1. [LocalNext]_local => [ScopingNext]_scopingVars /\ [SessionNext]_sessionVars
      BY DEF LocalNext
    <2> QED
      BY <2>1, ScopingNextInv, ScopingBounds, SessionNextInv
  <1>3. ScopingInv /\ SessionInv => WorkspaceKept
    <2>1. ScopingInv => ScopedWhileRunning
      BY DEF ScopingInv, Merged, Blocked, ScopedWhileRunning
    <2>2. ScopingInv => BlockTakenOut
      BY DEF ScopingInv, FilesFit, Fits, Excused, BlockTakenOut, AtWork
    <2>3. ScopingInv => WorkspaceGivenBack
      BY <2>2 DEF ScopingInv, WorkspaceGivenBack
    <2> QED
      BY <2>1, <2>3 DEF SessionInv, WorkspaceKept
  <1> QED
    BY <1>1, <1>2, <1>3, PTL DEF LocalSpec

-----------------------------------------------------------------------------
(* Launch.  A gateway that serves or is about to.                          *)
Live(g) == gw[g] \in {"starting", "bound", "booting", "up", "sick"}
Recorded(g) == gw[g] \in {"booting", "up", "sick"}
Phases == {"none", "starting", "bound", "booting", "up", "sick", "closing", "cleared"}
Stations == {"idle", "start", "stop", "restart", "install", "remove", "check", "spawn",
             "write_pid", "wait", "wait_for_service", "signal", "unpid", "clear", "stopped",
             "await_down"}
Deeds == {"none", "start", "stop", "restart", "autostart"}
Errand == [cmd : Deeds, at : Stations, own : Gateways \cup {NoGateway}]

LaunchTypes ==
  /\ gw \in [Gateways -> Phases]
  /\ {pidFile, stateFile, child} \subseteq Gateways \cup {NoGateway}
  /\ service \in {"none", "loaded", "stopped"}
  /\ shell \in [Shells -> Errand] /\ \A c \in Shells : At(c, "idle") => shell[c] = Idle
  /\ \A c \in Shells : At(c, "stop") => shell[c].cmd = "stop"
  /\ contested \subseteq Gateways

(* One process holds the port; between the write of the state file and its *)
(* deletion at the latest, the file is its own or gone.                    *)
OnePort == \A g, h \in Gateways : HoldsPort(g) /\ HoldsPort(h) => g = h
StateOwn ==
  \A g \in Gateways : Recorded(g) \/ gw[g] = "closing" => stateFile \in {g, NoGateway}
NoServiceNoChild == service = "none" => child = NoGateway

(* Commands one after the other.                                           *)
OneCommand == \A c, d \in Shells : shell[c] # Idle /\ shell[d] # Idle => c = d
Unserviced(c) ==
  /\ shell[c].at \in {"check", "spawn", "write_pid", "wait", "await_down"} => service = "none"
  /\ shell[c].at \in {"signal", "unpid", "clear", "stopped"} => service # "loaded"
  /\ shell[c].at \in {"signal", "unpid", "clear"} /\ shell[c].cmd # "stop" => service = "none"

(* Where the gateways are that no start has put another beside.            *)
Known(g) == g = child \/ g = pidFile \/ \E c \in Shells : At(c, "write_pid") /\ shell[c].own = g
Accounted(c) ==
  \A g \in Gateways \ contested : Live(g) =>
    /\ At(c, "signal") => g = pidFile
    /\ shell[c].at \notin {"unpid", "clear", "stopped"}
    /\ shell[c].at \in {"write_pid", "wait"} => g = shell[c].own
InHandOf ==
  /\ OneCommand
  /\ \A c \in Shells : Unserviced(c) /\ Accounted(c)
  /\ \A g \in Gateways \ contested : (Live(g) => Known(g)) /\ (Recorded(g) => stateFile = g)

LaunchInv ==
  /\ LaunchTypes /\ OnePort /\ StateOwn /\ NoServiceNoChild
  /\ ~muddled => InHandOf

LEMMA LaunchInitInv == ASSUME LaunchInit PROVE LaunchInv
  <1>1. LaunchTypes
    BY DEF LaunchInit, LaunchTypes, Phases, Idle, Errand, Deeds, Stations, At
  <1>2. \A g \in Gateways : gw[g] = "none"
    BY DEF LaunchInit
  <1>3. OnePort /\ StateOwn /\ NoServiceNoChild
    BY <1>2 DEF LaunchInit, OnePort, HoldsPort, StateOwn, Recorded, NoServiceNoChild
  <1>4. InHandOf
    BY <1>2 DEF LaunchInit, InHandOf, OneCommand, Unserviced, Accounted, Live, Recorded, Idle, At
  <1> QED
    BY <1>1, <1>3, <1>4 DEF LaunchInv

(* Gateways.  What a gateway does beside the commands: it never comes to   *)
(* serve that was not about to.                                            *)
LEMMA GatewaysTurn ==
  ASSUME LaunchInv, LaunchTypes', OnePort', StateOwn',
         UNCHANGED <<pidFile, service, shell, contested, muddled>>,
         \A g \in Gateways : Live(g)' => Live(g),
         child' = child \/ (child' = NoGateway /\ \A g \in Gateways : g = child => ~Live(g)'),
         ~muddled => \A g \in Gateways \ contested : Recorded(g)' => stateFile' = g
  PROVE  LaunchInv'
  <1>1. NoServiceNoChild'
    BY DEF LaunchInv, NoServiceNoChild
  <1>2. ASSUME ~muddled PROVE InHandOf'
    <2>1. InHandOf
      BY <1>2 DEF LaunchInv
    <2>2. OneCommand' /\ \A c \in Shells : Unserviced(c)'
      BY <2>1 DEF InHandOf, OneCommand, Unserviced
    <2>3. \A c \in Shells : Accounted(c)'
      BY <2>1 DEF InHandOf, Accounted, At
    <2>4. \A g \in Gateways \ contested : Live(g)' => Known(g)'
      BY <2>1 DEF InHandOf, Known, At
    <2> QED
      BY <1>2, <2>2, <2>3, <2>4 DEF InHandOf
  <1> QED
    BY <1>1, <1>2 DEF LaunchInv

LEMMA GatewayStep ==
  ASSUME LaunchInv, NEW g \in Gateways,
         Bind(g) \/ WriteState(g) \/ BackendUp(g) \/ BackendLost(g)
         \/ GatewayFails(g) \/ ClearState(g) \/ GatewayExits(g) \/ GatewayKilled(g)
  PROVE  LaunchInv'
  <1>1. LaunchTypes /\ OnePort /\ StateOwn /\ (~muddled => InHandOf)
    BY DEF LaunchInv
  <1>2. UNCHANGED <<pidFile, service, shell, contested, muddled>>
    BY DEF Bind, WriteState, BackendUp, BackendLost, GatewayFails, ClearState, GatewayExits,
           GatewayKilled, Turn
  <1>3. PICK to \in Phases :
          /\ gw' = [gw EXCEPT ![g] = to] /\ gw[g] \in Phases
          /\ to \in {"starting", "bound", "booting", "up", "sick"} => Live(g)
          /\ to \in {"bound", "booting", "up", "sick", "closing", "cleared"} =>
               HoldsPort(g) \/ PortFree
          /\ to \in {"booting", "up", "sick", "closing"} =>
               stateFile' = g \/ (Recorded(g) /\ stateFile' = stateFile)
          /\ stateFile' # stateFile => HoldsPort(g) /\ stateFile' \in {g, NoGateway}
          /\ child' = child \/ (child' = NoGateway /\ child = g /\ to = "none")
          /\ stateFile' # stateFile => to \in {"booting", "cleared"}
    <2>1. gw[g] \in Phases
      BY <1>1 DEF LaunchTypes
    <2>2. CASE Bind(g)
      <3>1. PICK to : to = IF PortFree THEN "bound" ELSE "none"
        OBVIOUS
      <3>2. to \in Phases /\ gw' = [gw EXCEPT ![g] = to] /\ gw[g] = "starting"
        BY <2>2, <3>1 DEF Bind, Turn, Phases
      <3> QED
        BY <2>1, <2>2, <3>1, <3>2 DEF Bind, Live
    <2>3. CASE WriteState(g)
      BY <2>1, <2>3 DEF WriteState, Turn, Phases, Live, HoldsPort
    <2>4. CASE BackendUp(g)
      BY <2>1, <2>4 DEF BackendUp, Turn, Phases, Live, HoldsPort, Recorded
    <2>5. CASE BackendLost(g)
      BY <2>1, <2>5 DEF BackendLost, Turn, Phases, Live, HoldsPort, Recorded
    <2>6. CASE GatewayFails(g)
      BY <2>1, <2>6 DEF GatewayFails, Turn, Phases, Live, HoldsPort, Recorded
    <2>7. CASE ClearState(g)
      BY <2>1, <2>7 DEF ClearState, Turn, Phases, Live, HoldsPort, Recorded
    <2>8. CASE GatewayExits(g)
      BY <2>1, <2>8 DEF GatewayExits, Turn, Phases
    <2>9. CASE GatewayKilled(g)
      BY <2>1, <2>9 DEF GatewayKilled, Turn, Phases
    <2> QED
      BY <2>2, <2>3, <2>4, <2>5, <2>6, <2>7, <2>8, <2>9
  <1>4. /\ gw' \in [Gateways -> Phases] /\ gw'[g] = to
        /\ \A h \in Gateways : h # g => gw'[h] = gw[h]
    BY <1>1, <1>3 DEF LaunchTypes
  <1>5. LaunchTypes'
    BY <1>1, <1>2, <1>3, <1>4 DEF LaunchTypes, At
  <1>6. \A h \in Gateways : h # g => /\ HoldsPort(h)' <=> HoldsPort(h)
                                     /\ Live(h)' <=> Live(h)
                                     /\ Recorded(h)' <=> Recorded(h)
    BY <1>4 DEF HoldsPort, Live, Recorded
  <1>7. HoldsPort(g)' => \A h \in Gateways : h # g => ~HoldsPort(h)
    BY <1>1, <1>3, <1>4 DEF HoldsPort, OnePort, PortFree
  <1>8. OnePort'
    BY <1>1, <1>6, <1>7 DEF OnePort
  <1>9. \A h \in Gateways : Live(h)' => Live(h)
    BY <1>3, <1>4, <1>6 DEF Live
  <1>10. \A h \in Gateways : h # g /\ (Recorded(h) \/ gw[h] = "closing") => stateFile' = stateFile
    BY <1>1, <1>3 DEF OnePort, HoldsPort, Recorded
  <1>11. StateOwn'
    <2>1. ASSUME NEW h \in Gateways, h # g, Recorded(h)' \/ gw'[h] = "closing"
          PROVE  stateFile' \in {h, NoGateway}
      BY <1>1, <1>4, <1>6, <1>10, <2>1 DEF StateOwn
    <2>2. ASSUME Recorded(g)' \/ gw'[g] = "closing" PROVE stateFile' \in {g, NoGateway}
      <3>1. stateFile' = g \/ (Recorded(g) /\ stateFile' = stateFile)
        BY <1>3, <1>4, <2>2 DEF Recorded
      <3> QED
        BY <1>1, <3>1 DEF StateOwn
    <2> QED
      BY <2>1, <2>2 DEF StateOwn
  <1>12. ASSUME ~muddled, NEW h \in Gateways \ contested, Recorded(h)' PROVE stateFile' = h
    <2>1. InHandOf
      BY <1>1, <1>12
    <2>2. CASE h = g
      <3>1. stateFile' = g \/ (Recorded(g) /\ stateFile' = stateFile)
        BY <1>3, <1>4, <1>12, <2>2 DEF Recorded
      <3> QED
        BY <2>1, <2>2, <3>1 DEF InHandOf
    <2>3. CASE h # g
      BY <1>6, <1>10, <1>12, <2>1, <2>3 DEF InHandOf
    <2> QED
      BY <2>2, <2>3
  <1>13. child' = child \/ (child' = NoGateway /\ \A h \in Gateways : h = child => ~Live(h)')
    BY <1>3, <1>4 DEF Live
  <1> QED
    BY <1>2, <1>5, <1>8, <1>9, <1>11, <1>12, <1>13, GatewaysTurn

LEMMA NewPidFacts ==
  ASSUME LaunchInv, NEW g \in Unused, g = NewPid
  PROVE  /\ g \in Gateways /\ gw[g] = "none" /\ g \notin {pidFile, stateFile, child}
         /\ \A c \in Shells : shell[c].own # g
  BY DEF Unused, Running

LEMMA ServiceSpawnsKeeps == ASSUME LaunchInv, ServiceSpawns PROVE LaunchInv'
  <1>1. PICK g \in Unused : /\ g = NewPid /\ gw' = [gw EXCEPT ![g] = "starting"]
                            /\ child' = g /\ contested' = contested \ {g}
    BY DEF ServiceSpawns
  <1>2. /\ g \in Gateways /\ gw[g] = "none" /\ g \notin {pidFile, stateFile, child}
        /\ \A c \in Shells : shell[c].own # g
    BY <1>1, NewPidFacts
  <1>3. /\ service = "loaded" /\ child = NoGateway
        /\ UNCHANGED <<pidFile, stateFile, service, shell, muddled>>
        /\ LaunchTypes /\ OnePort /\ StateOwn /\ (~muddled => InHandOf)
    BY DEF ServiceSpawns, LaunchInv
  <1>4. /\ gw' \in [Gateways -> Phases] /\ gw'[g] = "starting"
        /\ \A h \in Gateways : h # g => gw'[h] = gw[h]
    BY <1>1, <1>2, <1>3 DEF LaunchTypes, Phases
  <1>5. LaunchTypes' /\ OnePort' /\ StateOwn' /\ NoServiceNoChild'
    <2>1. LaunchTypes'
      BY <1>1, <1>2, <1>3, <1>4 DEF LaunchTypes, At
    <2>2. \A h \in Gateways : /\ HoldsPort(h)' => HoldsPort(h)
                              /\ Recorded(h)' => Recorded(h)
                              /\ gw'[h] = "closing" => gw[h] = "closing"
      BY <1>4 DEF HoldsPort, Recorded
    <2> QED
      BY <1>3, <2>1, <2>2 DEF OnePort, StateOwn, NoServiceNoChild
  <1>6. ASSUME ~muddled' PROVE InHandOf'
    <2>1. InHandOf
      BY <1>3, <1>6
    <2>2. \A c \in Shells : shell[c].at \notin {"check", "spawn", "write_pid", "wait", "await_down",
                                                "signal", "unpid", "clear", "stopped"}
      BY <1>3, <2>1 DEF InHandOf, Unserviced
    <2>3. OneCommand' /\ \A c \in Shells : Unserviced(c)' /\ Accounted(c)'
      BY <1>3, <2>1, <2>2 DEF InHandOf, OneCommand, Unserviced, Accounted, At
    <2>4. ASSUME NEW h \in Gateways \ contested' PROVE (Live(h)' => Known(h)') /\ (Recorded(h)' => stateFile' = h)
      <3>1. CASE h = g
        BY <1>1, <1>4, <3>1 DEF Known, Recorded
      <3>2. CASE h # g
        <4>1. h \in Gateways \ contested /\ (Live(h)' <=> Live(h)) /\ (Recorded(h)' <=> Recorded(h))
          BY <1>1, <1>4, <3>2 DEF Live, Recorded
        <4>2. Live(h) => h = pidFile
          BY <1>2, <1>3, <2>1, <2>2, <4>1, NoGatewayIsNone DEF InHandOf, Known, At
        <4> QED
          BY <1>3, <2>1, <4>1, <4>2 DEF InHandOf, Known
      <3> QED
        BY <3>1, <3>2
    <2> QED
      BY <2>3, <2>4 DEF InHandOf
  <1> QED
    BY <1>3, <1>5, <1>6 DEF LaunchInv

LEMMA RebootKeeps == ASSUME LaunchInv, Reboot PROVE LaunchInv'
  <1>1. /\ gw' = [g \in Gateways |-> "none"] /\ child' = NoGateway
        /\ service' \in {"none", "loaded", "stopped"}
        /\ shell' = [c \in Shells |-> Idle] /\ contested' = {}
        /\ UNCHANGED <<pidFile, stateFile>> /\ LaunchTypes
    BY DEF Reboot, LaunchInv, LaunchTypes
  <1>2. LaunchTypes'
    BY <1>1 DEF LaunchTypes, Phases, Idle, Errand, Deeds, Stations, At
  <1>3. \A g \in Gateways : gw'[g] = "none"
    BY <1>1
  <1>4. \A c \in Shells : shell'[c] = Idle /\ shell'[c].at = "idle"
    BY <1>1 DEF Idle
  <1>5. OnePort' /\ StateOwn' /\ NoServiceNoChild'
    BY <1>1, <1>3 DEF OnePort, HoldsPort, StateOwn, Recorded, NoServiceNoChild
  <1>6. InHandOf'
    BY <1>3, <1>4 DEF InHandOf, OneCommand, Unserviced, Accounted, Live, Recorded, At
  <1> QED
    BY <1>2, <1>5, <1>6 DEF LaunchInv

(* Commands.  A signalled gateway closes if it can, or is gone at once.    *)
LEMMA Signalled ==
  ASSUME LaunchTypes, OnePort, StateOwn, NEW S, gw' = AfterSigterm(S)
  PROVE  /\ gw' \in [Gateways -> Phases]
         /\ \A g \in Gateways : /\ g \in S => ~Live(g)'
                                /\ g \notin S => gw'[g] = gw[g]
                                /\ Live(g)' => Live(g)
                                /\ Recorded(g)' => Recorded(g)
                                /\ gw'[g] = "closing" => Recorded(g) \/ gw[g] = "closing"
                                /\ HoldsPort(g)' => HoldsPort(g)
         /\ OnePort' /\ (stateFile' \in {stateFile, NoGateway} => StateOwn')
  <1>1. \A g \in Gateways :
          /\ gw[g] \in Phases
          /\ gw'[g] = (IF g \notin S THEN gw[g]
                       ELSE CASE gw[g] \in {"starting", "bound", "booting"} -> "none"
                              [] gw[g] \in {"up", "sick"} -> "closing"
                              [] OTHER -> gw[g])
    BY DEF AfterSigterm, LaunchTypes
  <1>2. ASSUME NEW g \in Gateways
        PROVE  /\ gw'[g] \in Phases
               /\ g \in S => ~Live(g)' /\ gw'[g] \in {"none", "closing", "cleared"}
               /\ g \notin S => gw'[g] = gw[g]
               /\ gw'[g] = "closing" => Recorded(g) \/ gw[g] = "closing"
               /\ gw'[g] = "cleared" => gw[g] = "cleared"
    BY <1>1 DEF Phases, Live, Recorded
  <1>3. gw' \in [Gateways -> Phases]
    <2>1. gw' = [g \in Gateways |-> gw'[g]]
      BY DEF AfterSigterm
    <2> QED
      BY <1>2, <2>1
  <1>4. \A g \in Gateways : /\ Live(g)' => Live(g)
                            /\ Recorded(g)' => Recorded(g)
                            /\ HoldsPort(g)' => HoldsPort(g)
    BY <1>2 DEF Live, Recorded, HoldsPort
  <1>5. OnePort'
    BY <1>4 DEF OnePort
  <1>6. stateFile' \in {stateFile, NoGateway} => StateOwn'
    BY <1>2, <1>4 DEF StateOwn
  <1> QED
    BY <1>2, <1>3, <1>4, <1>5, <1>6

(* Where a command goes.                                                   *)
LEMMA CommandMoves ==
  ASSUME LaunchTypes, NEW c \in Shells, NEW step \in Stations, GoTo(c, step)
  PROVE  /\ shell' \in [Shells -> Errand] /\ \A d \in Shells : At(d, "idle")' => shell'[d] = Idle
         /\ \A d \in Shells : d # c => shell'[d] = shell[d]
         /\ shell'[c].at = step /\ (step = "idle" => shell'[c] = Idle)
         /\ step # "stop" => \A d \in Shells : At(d, "stop")' => shell'[d].cmd = "stop"
         /\ step # "idle" => shell'[c].cmd = shell[c].cmd /\ shell'[c].own = shell[c].own
  <1>1. PICK s : s = IF step = "idle" THEN Idle ELSE [shell[c] EXCEPT !.at = step]
    OBVIOUS
  <1>2. shell' = [shell EXCEPT ![c] = s]
    BY <1>1 DEF GoTo
  <1>3. Idle \in Errand /\ Idle.at = "idle"
    BY DEF Idle, Errand, Deeds, Stations
  <1>4. shell[c] \in Errand
    BY DEF LaunchTypes
  <1>5. s \in Errand /\ s.at = step /\ (step = "idle" => s = Idle)
        /\ (step # "idle" => s.cmd = shell[c].cmd /\ s.own = shell[c].own)
    <2>1. CASE step = "idle"
      BY <1>1, <1>3, <2>1
    <2>2. CASE step # "idle"
      BY <1>1, <1>4, <2>2 DEF Errand
    <2> QED
      BY <2>1, <2>2
  <1>6. shell' \in [Shells -> Errand] /\ shell'[c] = s /\ \A d \in Shells : d # c => shell'[d] = shell[d]
    BY <1>2, <1>5 DEF LaunchTypes
  <1> QED
    BY <1>5, <1>6 DEF At, LaunchTypes

(* The one command under way moves on, with no other about.                *)
LEMMA OneMoves ==
  ASSUME LaunchTypes, InHandOf, NEW c \in Shells, shell[c] # Idle,
         \A d \in Shells : d # c => shell'[d] = shell[d]
  PROVE  /\ OneCommand' /\ \A d \in Shells : d # c => shell[d] = Idle /\ shell'[d] = Idle
         /\ \A d \in Shells : d # c => Unserviced(d)' /\ Accounted(d)'
         /\ \A d \in Shells : d # c => ~At(d, "write_pid") /\ ~At(d, "write_pid")'
  <1>1. \A d \in Shells : d # c => shell[d] = Idle /\ shell'[d] = Idle
    BY DEF InHandOf, OneCommand
  <1>2. Idle.at = "idle"
    BY DEF Idle
  <1>3. \A d \in Shells : d # c => Unserviced(d)' /\ Accounted(d)'
    BY <1>1, <1>2 DEF Unserviced, Accounted, At
  <1>4. OneCommand'
    BY <1>1 DEF OneCommand
  <1> QED
    BY <1>1, <1>2, <1>3, <1>4 DEF At

LEMMA CommandStep ==
  ASSUME LaunchInv, NEW c \in Shells, shell[c] # Idle, NEW step \in Stations \ {"stop"},
         GoTo(c, step), UNCHANGED <<contested, muddled>>,
         gw' \in [Gateways -> Phases],
         {pidFile', stateFile', child'} \subseteq Gateways \cup {NoGateway},
         service' \in {"none", "loaded", "stopped"},
         OnePort', StateOwn', NoServiceNoChild',
         ~muddled => Unserviced(c)' /\ Accounted(c)',
         ~muddled => \A g \in Gateways \ contested : Live(g)' => Known(g)',
         ~muddled => \A g \in Gateways \ contested : Recorded(g)' => stateFile' = g
  PROVE  LaunchInv'
  <1>1. LaunchTypes /\ (~muddled => InHandOf)
    BY DEF LaunchInv
  <1>2. /\ shell' \in [Shells -> Errand] /\ \A d \in Shells : At(d, "idle")' => shell'[d] = Idle
        /\ \A d \in Shells : d # c => shell'[d] = shell[d]
        /\ \A d \in Shells : At(d, "stop")' => shell'[d].cmd = "stop"
    BY <1>1, CommandMoves
  <1>3. LaunchTypes'
    BY <1>1, <1>2 DEF LaunchTypes
  <1>4. ASSUME ~muddled PROVE InHandOf'
    <2>1. OneCommand' /\ \A d \in Shells : d # c => Unserviced(d)' /\ Accounted(d)'
      BY <1>1, <1>2, <1>4, OneMoves
    <2>2. \A d \in Shells : Unserviced(d)' /\ Accounted(d)'
      BY <1>4, <2>1
    <2>3. \A g \in Gateways \ contested' : (Live(g)' => Known(g)') /\ (Recorded(g)' => stateFile' = g)
      BY <1>4
    <2> QED
      BY <2>1, <2>2, <2>3 DEF InHandOf
  <1> QED
    BY <1>3, <1>4 DEF LaunchInv

(* Steps of a command that leave the gateways and the files alone.         *)
LEMMA QuietStep ==
  ASSUME LaunchInv, NEW c \in Shells, shell[c] # Idle, NEW step \in Stations \ {"stop"},
         GoTo(c, step), UNCHANGED <<gw, pidFile, stateFile, child, contested, muddled>>,
         service' \in {"none", "loaded", "stopped"}, NoServiceNoChild',
         shell[c].at # "write_pid",
         step \notin {"write_pid", "wait", "signal", "unpid", "clear"},
         ~muddled => Unserviced(c)' /\ Accounted(c)'
  PROVE  LaunchInv'
  <1>1. LaunchTypes /\ OnePort /\ StateOwn /\ (~muddled => InHandOf)
    BY DEF LaunchInv
  <1>2. gw' \in [Gateways -> Phases]
        /\ {pidFile', stateFile', child'} \subseteq Gateways \cup {NoGateway}
    BY <1>1 DEF LaunchTypes
  <1>3. OnePort' /\ StateOwn'
    BY <1>1 DEF OnePort, HoldsPort, StateOwn, Recorded
  <1>4. ASSUME ~muddled PROVE \A g \in Gateways \ contested : Live(g)' => Known(g)'
    <2>1. \A d \in Shells : d # c => shell'[d] = shell[d]
      BY <1>1, CommandMoves
    <2> QED
      BY <1>1, <1>4, <2>1 DEF InHandOf, Known, Live, At
  <1>5. ASSUME ~muddled PROVE \A g \in Gateways \ contested : Recorded(g)' => stateFile' = g
    BY <1>1, <1>5 DEF InHandOf, Recorded
  <1> QED
    BY <1>2, <1>3, <1>4, <1>5, CommandStep

LEMMA NotIdle == ASSUME LaunchTypes, NEW c \in Shells, shell[c].at # "idle" PROVE shell[c] # Idle
  BY DEF Idle

LEMMA IssueKeeps ==
  ASSUME LaunchInv, NEW c \in Shells, Command(c) PROVE LaunchInv'
  <1>1. PICK cmd \in {"start", "stop", "restart", "autostart"},
             there \in {"start", "stop", "restart", "install", "remove"} :
          Issue(c, cmd, there) /\ (there = "stop" => cmd = "stop")
    BY DEF Command
  <1>2. PICK a : a = [Idle EXCEPT !.cmd = cmd]
    OBVIOUS
  <1>3. PICK b : b = [a EXCEPT !.at = there]
    OBVIOUS
  <1>4. /\ shell[c] = Idle /\ shell' = [shell EXCEPT ![c] = b]
        /\ muddled' = (muddled \/ \E d \in Shells : shell[d] # Idle)
        /\ UNCHANGED <<gw, pidFile, stateFile, service, child, contested>>
        /\ LaunchTypes /\ OnePort /\ StateOwn /\ NoServiceNoChild /\ (~muddled => InHandOf)
    BY <1>1, <1>2, <1>3 DEF Issue, LaunchInv
  <1>5. Idle \in Errand /\ Idle.at = "idle"
    BY DEF Idle, Errand, Deeds, Stations
  <1>6. a \in Errand /\ a.cmd = cmd
    BY <1>2, <1>5 DEF Errand, Deeds
  <1>7. b \in Errand /\ b.cmd = cmd /\ b.at = there
    BY <1>3, <1>6 DEF Errand, Deeds, Stations
  <1>8. shell' \in [Shells -> Errand] /\ shell'[c] = b /\ \A d \in Shells : d # c => shell'[d] = shell[d]
    BY <1>4, <1>7 DEF LaunchTypes
  <1>9. LaunchTypes'
    BY <1>1, <1>4, <1>7, <1>8 DEF LaunchTypes, At
  <1>10. OnePort' /\ StateOwn' /\ NoServiceNoChild'
    BY <1>4 DEF OnePort, HoldsPort, StateOwn, Recorded, NoServiceNoChild
  <1>11. ASSUME ~muddled' PROVE InHandOf'
    <2>1. ~muddled /\ \A d \in Shells : shell[d] = Idle
      BY <1>4, <1>11
    <2>2. InHandOf
      BY <1>4, <2>1
    <2>3. OneCommand' /\ \A d \in Shells : Unserviced(d)' /\ Accounted(d)'
      BY <1>5, <1>7, <1>8, <2>1 DEF OneCommand, Unserviced, Accounted, At
    <2>4. \A d \in Shells : ~At(d, "write_pid")
      BY <1>5, <2>1 DEF At
    <2>5. \A g \in Gateways : Known(g) => Known(g)'
      BY <1>4, <2>4 DEF Known
    <2> QED
      BY <1>4, <2>2, <2>3, <2>5 DEF InHandOf, Live, Recorded
  <1> QED
    BY <1>9, <1>10, <1>11 DEF LaunchInv

LEMMA PlainSteps ==
  ASSUME LaunchInv, NEW c \in Shells,
         Start(c) \/ CheckNothingUp(c) \/ WaitForService(c) \/ Stopped(c) \/ AwaitDown(c)
  PROVE  LaunchInv'
  <1>1. LaunchTypes /\ NoServiceNoChild /\ (~muddled => InHandOf)
        /\ service \in {"none", "loaded", "stopped"}
    BY DEF LaunchInv, LaunchTypes
  <1>2. UNCHANGED <<gw, pidFile, stateFile, child, contested, muddled>>
        /\ shell[c].at \in {"start", "check", "wait_for_service", "stopped", "await_down"}
    BY DEF Start, CheckNothingUp, WaitForService, Stopped, AwaitDown, Still, At
  <1>3. PICK step \in {"idle", "check", "spawn", "wait_for_service"} :
          /\ GoTo(c, step) /\ service' \in {"none", "loaded", "stopped"}
          /\ service = "none" <=> service' = "none"
          /\ step \in {"check", "spawn"} /\ ~muddled => service' = "none"
    <2>1. CASE Start(c)
      <3>1. CASE service = "none"
        BY <2>1, <3>1 DEF Start
      <3>2. CASE service # "none"
        <4>1. PICK step : step = IF ServerUp THEN "idle" ELSE "wait_for_service"
          OBVIOUS
        <4>2. GoTo(c, step) /\ step \in {"idle", "wait_for_service"}
          BY <2>1, <3>2, <4>1 DEF Start
        <4>3. service' = IF ServerUp THEN service ELSE "loaded"
          BY <2>1, <3>2 DEF Start
        <4> QED
          BY <1>1, <3>2, <4>2, <4>3
      <3> QED
        BY <3>1, <3>2
    <2>2. CASE CheckNothingUp(c)
      <3>1. PICK step : step = IF ServerUp THEN "idle" ELSE "spawn"
        OBVIOUS
      <3>2. GoTo(c, step) /\ step \in {"idle", "spawn"} /\ service' = service
        BY <2>2, <3>1 DEF CheckNothingUp
      <3>3. ~muddled => service = "none"
        BY <1>1, <2>2 DEF CheckNothingUp, At, InHandOf, Unserviced
      <3> QED
        BY <1>1, <3>2, <3>3
    <2>3. CASE WaitForService(c) \/ Stopped(c)
      BY <1>1, <2>3 DEF WaitForService, Stopped
    <2>4. CASE AwaitDown(c)
      <3>1. PICK step : step = IF ServerUp THEN "idle" ELSE "check"
        OBVIOUS
      <3>2. GoTo(c, step) /\ step \in {"idle", "check"} /\ service' = service
        BY <2>4, <3>1 DEF AwaitDown
      <3>3. ~muddled => service = "none"
        BY <1>1, <2>4 DEF AwaitDown, At, InHandOf, Unserviced
      <3> QED
        BY <1>1, <3>2, <3>3
    <2> QED
      BY <2>1, <2>2, <2>3, <2>4
  <1>4. step \in Stations \ {"stop"}
    BY <1>3 DEF Stations
  <1>5. shell'[c].at = step
    BY <1>1, <1>3, <1>4, CommandMoves
  <1>6. ~muddled => Unserviced(c)' /\ Accounted(c)'
    BY <1>3, <1>5 DEF Unserviced, Accounted, At
  <1>7. NoServiceNoChild'
    BY <1>1, <1>2, <1>3 DEF NoServiceNoChild
  <1>8. shell[c] # Idle
    BY <1>1, <1>2, NotIdle
  <1> QED
    BY <1>2, <1>3, <1>4, <1>6, <1>7, <1>8, QuietStep

LEMMA SpawnGatewayKeeps == ASSUME LaunchInv, NEW c \in Shells, SpawnGateway(c) PROVE LaunchInv'
  <1>1. PICK beside : beside = {h \in Gateways : Running(h)}
    OBVIOUS
  <1>2. PICK g \in Unused :
          /\ g = NewPid /\ gw' = [gw EXCEPT ![g] = "starting"]
          /\ shell' = [shell EXCEPT ![c].at = "write_pid", ![c].own = g]
          /\ contested' = (contested \ {g}) \cup beside
                          \cup (IF beside = {} THEN {} ELSE {g})
    BY <1>1 DEF SpawnGateway
  <1>3. /\ shell[c].at = "spawn" /\ UNCHANGED <<pidFile, stateFile, service, child, muddled>>
        /\ LaunchTypes /\ OnePort /\ StateOwn /\ NoServiceNoChild /\ (~muddled => InHandOf)
    BY DEF SpawnGateway, Still, At, LaunchInv
  <1>4. /\ g \in Gateways /\ gw[g] = "none" /\ g \notin {pidFile, stateFile, child}
    BY <1>2, NewPidFacts
  <1>5. /\ gw' \in [Gateways -> Phases] /\ gw'[g] = "starting"
        /\ \A h \in Gateways : h # g => gw'[h] = gw[h]
    BY <1>2, <1>3, <1>4 DEF LaunchTypes, Phases
  <1>6. PICK a : a = [shell[c] EXCEPT !.at = "write_pid"]
    OBVIOUS
  <1>7. PICK b : b = [a EXCEPT !.own = g]
    OBVIOUS
  <1>8. a \in Errand /\ a.at = "write_pid"
    BY <1>3, <1>6 DEF LaunchTypes, Errand, Stations
  <1>9. b \in Errand /\ b.at = "write_pid" /\ b.own = g
    BY <1>4, <1>7, <1>8 DEF Errand
  <1>10. /\ shell' \in [Shells -> Errand] /\ shell'[c] = b
         /\ \A d \in Shells : d # c => shell'[d] = shell[d]
    <2>1. PICK moved : moved = [shell EXCEPT ![c].at = "write_pid"]
      OBVIOUS
    <2>2. shell' = [moved EXCEPT ![c].own = g]
      BY <1>2, <2>1
    <2>3. moved \in [Shells -> Errand] /\ moved[c] = a /\ \A d \in Shells : d # c => moved[d] = shell[d]
      BY <1>3, <1>6, <1>8, <2>1 DEF LaunchTypes
    <2>4. shell' = [moved EXCEPT ![c] = b]
      BY <1>7, <2>2, <2>3
    <2> QED
      BY <1>9, <2>3, <2>4
  <1>11. LaunchTypes'
    <2>1. contested' \subseteq Gateways
      BY <1>1, <1>2, <1>3, <1>4 DEF LaunchTypes
    <2> QED
      BY <1>3, <1>5, <1>9, <1>10, <2>1 DEF LaunchTypes, At
  <1>12. \A h \in Gateways : /\ HoldsPort(h)' => HoldsPort(h)
                             /\ Recorded(h)' => Recorded(h)
                             /\ gw'[h] = "closing" => gw[h] = "closing"
    BY <1>5 DEF HoldsPort, Recorded
  <1>13. OnePort' /\ StateOwn' /\ NoServiceNoChild'
    BY <1>3, <1>12 DEF OnePort, StateOwn, NoServiceNoChild
  <1>14. \A h \in Gateways \ contested' : Live(h)' => h = g
    <2>1. \A h \in Gateways \ contested' : h # g => gw[h] = "none"
      BY <1>1, <1>2 DEF Running
    <2> QED
      BY <1>5, <2>1 DEF Live
  <1>15. ~Recorded(g)'
    BY <1>5 DEF Recorded
  <1>16. \A h \in Gateways : Recorded(h)' => Live(h)'
    BY DEF Recorded, Live
  <1>17. ASSUME ~muddled PROVE InHandOf'
    <2>1. InHandOf /\ shell[c] # Idle
      BY <1>3, <1>17, NotIdle
    <2>2. OneCommand' /\ \A d \in Shells : d # c => Unserviced(d)' /\ Accounted(d)'
      BY <1>3, <1>10, <2>1, OneMoves
    <2>3. Unserviced(c)'
      BY <1>3, <1>9, <1>10, <2>1 DEF InHandOf, Unserviced
    <2>4. Accounted(c)'
      BY <1>9, <1>10, <1>14 DEF Accounted, At
    <2>5. Known(g)'
      BY <1>9, <1>10 DEF Known, At
    <2> QED
      BY <1>14, <1>15, <1>16, <2>2, <2>3, <2>4, <2>5 DEF InHandOf
  <1> QED
    BY <1>3, <1>11, <1>13, <1>17 DEF LaunchInv

LEMMA WritePidKeeps == ASSUME LaunchInv, NEW c \in Shells, WritePid(c) PROVE LaunchInv'
  <1>1. /\ shell[c].at = "write_pid" /\ GoTo(c, "wait") /\ pidFile' = shell[c].own
        /\ UNCHANGED <<gw, stateFile, service, child, contested, muddled>>
        /\ LaunchTypes /\ OnePort /\ StateOwn /\ NoServiceNoChild /\ (~muddled => InHandOf)
    BY DEF WritePid, Still, At, LaunchInv
  <1>2. "wait" \in Stations \ {"stop"} /\ shell[c] # Idle
    BY <1>1, NotIdle DEF Stations
  <1>3. shell'[c].at = "wait" /\ shell'[c].own = shell[c].own
    BY <1>1, <1>2, CommandMoves
  <1>4. /\ gw' \in [Gateways -> Phases] /\ service' \in {"none", "loaded", "stopped"}
        /\ {pidFile', stateFile', child'} \subseteq Gateways \cup {NoGateway}
    BY <1>1 DEF LaunchTypes, Errand
  <1>5. OnePort' /\ StateOwn' /\ NoServiceNoChild'
    BY <1>1 DEF OnePort, HoldsPort, StateOwn, Recorded, NoServiceNoChild
  <1>6. ASSUME ~muddled
        PROVE  /\ Unserviced(c)' /\ Accounted(c)'
               /\ \A g \in Gateways \ contested : Live(g)' => Known(g)'
               /\ \A g \in Gateways \ contested : Recorded(g)' => stateFile' = g
    <2>1. InHandOf
      BY <1>1, <1>6
    <2>2. service = "none" /\ \A g \in Gateways \ contested : Live(g) => g = shell[c].own
      BY <1>1, <2>1 DEF InHandOf, Unserviced, Accounted
    <2>3. Unserviced(c)' /\ Accounted(c)'
      BY <1>1, <1>3, <2>2 DEF Unserviced, Accounted, At, Live
    <2>4. \A g \in Gateways \ contested : Live(g)' => Known(g)'
      BY <1>1, <2>2 DEF Known, Live
    <2>5. \A g \in Gateways \ contested : Recorded(g)' => stateFile' = g
      BY <1>1, <2>1 DEF InHandOf, Recorded
    <2> QED
      BY <2>3, <2>4, <2>5
  <1> QED
    BY <1>1, <1>2, <1>4, <1>5, <1>6, CommandStep

LEMMA WaitForBootKeeps == ASSUME LaunchInv, NEW c \in Shells, WaitForBoot(c) PROVE LaunchInv'
  <1>1. /\ shell[c].at = "wait" /\ GoTo(c, "idle")
        /\ stateFile' = stateFile \/ (gw[shell[c].own] = "none" /\ stateFile' = NoGateway)
                                  \/ (~Running(shell[c].own) /\ stateFile' = NoGateway)
        /\ UNCHANGED <<gw, pidFile, service, child, contested, muddled>>
        /\ LaunchTypes /\ OnePort /\ StateOwn /\ NoServiceNoChild /\ (~muddled => InHandOf)
    BY DEF WaitForBoot, Still, At, LaunchInv
  <1>2. "idle" \in Stations \ {"stop"} /\ shell[c] # Idle
    BY <1>1, NotIdle DEF Stations
  <1>3. shell'[c].at = "idle" /\ \A d \in Shells : d # c => shell'[d] = shell[d]
    BY <1>1, <1>2, CommandMoves
  <1>4. /\ gw' \in [Gateways -> Phases] /\ service' \in {"none", "loaded", "stopped"}
        /\ {pidFile', stateFile', child'} \subseteq Gateways \cup {NoGateway}
    BY <1>1 DEF LaunchTypes
  <1>5. OnePort' /\ StateOwn' /\ NoServiceNoChild'
    BY <1>1 DEF OnePort, HoldsPort, StateOwn, Recorded, NoServiceNoChild
  <1>6. ASSUME ~muddled
        PROVE  /\ Unserviced(c)' /\ Accounted(c)'
               /\ \A g \in Gateways \ contested : Live(g)' => Known(g)'
               /\ \A g \in Gateways \ contested : Recorded(g)' => stateFile' = g
    <2>1. InHandOf
      BY <1>1, <1>6
    <2>2. \A g \in Gateways \ contested : Live(g) => g = shell[c].own
      BY <1>1, <2>1 DEF InHandOf, Accounted
    <2>3. Unserviced(c)' /\ Accounted(c)'
      BY <1>3 DEF Unserviced, Accounted, At
    <2>4. \A g \in Gateways \ contested : Live(g)' => Known(g)'
      BY <1>1, <1>3, <2>1 DEF InHandOf, Known, Live, At
    <2>5. \A g \in Gateways \ contested : Recorded(g)' => stateFile' = g
      <3>1. ASSUME NEW g \in Gateways \ contested, Recorded(g) PROVE g = shell[c].own /\ Running(g) /\ gw[g] # "none"
        BY <2>2, <3>1 DEF Recorded, Live, Running
      <3> QED
        BY <1>1, <2>1, <3>1 DEF InHandOf, Recorded
    <2> QED
      BY <2>3, <2>4, <2>5
  <1> QED
    BY <1>1, <1>2, <1>4, <1>5, <1>6, CommandStep

(* Nothing that could be stopped is left once the signals are out.         *)
LEMMA ClearingSteps ==
  ASSUME LaunchInv, NEW c \in Shells, DropPid(c) \/ DropState(c)
  PROVE  LaunchInv'
  <1>1. /\ shell[c].at \in {"unpid", "clear"}
        /\ pidFile' \in {pidFile, NoGateway} /\ stateFile' \in {stateFile, NoGateway}
        /\ UNCHANGED <<gw, service, child, contested, muddled>>
        /\ LaunchTypes /\ OnePort /\ StateOwn /\ NoServiceNoChild /\ (~muddled => InHandOf)
    BY DEF DropPid, DropState, Still, At, LaunchInv
  <1>2. PICK step \in {"clear", "stopped", "await_down"} :
          GoTo(c, step) /\ (step = "clear" => shell[c].at = "unpid")
          /\ (step = "await_down" => shell[c].at = "clear" /\ shell[c].cmd # "stop")
    <2>1. CASE DropPid(c)
      BY <2>1 DEF DropPid, At
    <2>2. CASE DropState(c)
      <3>1. PICK step : step = IF shell[c].cmd = "stop" THEN "stopped" ELSE "await_down"
        OBVIOUS
      <3>2. GoTo(c, step) /\ shell[c].at = "clear"
        BY <2>2, <3>1 DEF DropState, At
      <3> QED
        BY <3>1, <3>2
    <2> QED
      BY <2>1, <2>2
  <1>3. step \in Stations \ {"stop"} /\ shell[c] # Idle
    BY <1>1, <1>2, NotIdle DEF Stations
  <1>4. shell'[c].at = step /\ shell'[c].cmd = shell[c].cmd
    BY <1>1, <1>2, <1>3, CommandMoves
  <1>5. /\ gw' \in [Gateways -> Phases] /\ service' \in {"none", "loaded", "stopped"}
        /\ {pidFile', stateFile', child'} \subseteq Gateways \cup {NoGateway}
    BY <1>1 DEF LaunchTypes
  <1>6. OnePort' /\ StateOwn' /\ NoServiceNoChild'
    BY <1>1 DEF OnePort, HoldsPort, StateOwn, Recorded, NoServiceNoChild
  <1>7. ASSUME ~muddled
        PROVE  /\ Unserviced(c)' /\ Accounted(c)'
               /\ \A g \in Gateways \ contested : Live(g)' => Known(g)'
               /\ \A g \in Gateways \ contested : Recorded(g)' => stateFile' = g
    <2>1. InHandOf
      BY <1>1, <1>7
    <2>2. \A g \in Gateways \ contested : ~Live(g) /\ ~Live(g)' /\ ~Recorded(g)'
      BY <1>1, <2>1 DEF InHandOf, Accounted, Live, Recorded
    <2>3. Unserviced(c)'
      BY <1>1, <1>2, <1>4, <2>1 DEF InHandOf, Unserviced
    <2>4. Accounted(c)'
      BY <1>1, <2>2 DEF Accounted
    <2> QED
      BY <2>2, <2>3, <2>4
  <1> QED
    BY <1>1, <1>2, <1>3, <1>5, <1>6, <1>7, CommandStep

(* Steps of a command that may send a SIGTERM.                             *)
LEMMA SignalPidsKeeps == ASSUME LaunchInv, NEW c \in Shells, SignalPids(c) PROVE LaunchInv'
  <1>1. PICK step : step = IF pidFile = NoGateway THEN "clear" ELSE "unpid"
    OBVIOUS
  <1>2. /\ shell[c].at = "signal" /\ GoTo(c, step) /\ gw' = AfterSigterm({pidFile})
        /\ UNCHANGED <<pidFile, stateFile, service, child, contested, muddled>>
        /\ LaunchTypes /\ OnePort /\ StateOwn /\ NoServiceNoChild /\ (~muddled => InHandOf)
    BY <1>1 DEF SignalPids, Still, At, LaunchInv
  <1>3. step \in Stations \ {"stop"} /\ shell[c] # Idle /\ step \in {"clear", "unpid"}
    BY <1>1, <1>2, NotIdle DEF Stations
  <1>4. shell'[c].at = step /\ shell'[c].cmd = shell[c].cmd
    BY <1>2, <1>3, CommandMoves
  <1>5. /\ gw' \in [Gateways -> Phases] /\ OnePort' /\ StateOwn'
        /\ \A g \in Gateways : /\ g = pidFile => ~Live(g)'
                               /\ Live(g)' => Live(g)
    BY <1>2, Signalled
  <1>6. service' \in {"none", "loaded", "stopped"}
        /\ {pidFile', stateFile', child'} \subseteq Gateways \cup {NoGateway}
        /\ NoServiceNoChild'
    BY <1>2 DEF LaunchTypes, NoServiceNoChild
  <1>7. ASSUME ~muddled
        PROVE  /\ Unserviced(c)' /\ Accounted(c)'
               /\ \A g \in Gateways \ contested : Live(g)' => Known(g)'
               /\ \A g \in Gateways \ contested : Recorded(g)' => stateFile' = g
    <2>1. InHandOf
      BY <1>2, <1>7
    <2>2. \A g \in Gateways \ contested : ~Live(g)'
      BY <1>2, <1>5, <2>1 DEF InHandOf, Accounted, At
    <2>3. \A g \in Gateways \ contested : ~Recorded(g)'
      BY <2>2 DEF Live, Recorded
    <2>4. Unserviced(c)'
      BY <1>2, <1>3, <1>4, <2>1 DEF InHandOf, Unserviced
    <2>5. Accounted(c)'
      BY <1>2, <2>2 DEF Accounted
    <2> QED
      BY <2>2, <2>3, <2>4, <2>5
  <1> QED
    BY <1>2, <1>3, <1>5, <1>6, <1>7, CommandStep

(* A step that signals the child of the service, or leaves it be, and goes *)
(* to where nothing hangs on the gateways but the pid file.                *)
LEMMA ServiceStep ==
  ASSUME LaunchInv, NEW c \in Shells,
         shell[c].at \in {"stop", "restart", "install", "remove"},
         NEW step \in {"idle", "signal", "wait_for_service"}, GoTo(c, step),
         UNCHANGED <<pidFile, stateFile, contested, muddled>>,
         service' \in {"none", "loaded", "stopped"},
         \/ UNCHANGED <<gw, child>>
         \/ /\ gw' = AfterSigterm({child}) /\ child' \in {ChildAfter, NoGateway},
         service' = "none" => child' = NoGateway,
         step = "signal" => /\ service' # "loaded"
                            /\ shell[c].cmd # "stop" => service' = "none"
                            /\ child = NoGateway \/ gw' = AfterSigterm({child})
  PROVE  LaunchInv'
  <1>1. LaunchTypes /\ OnePort /\ StateOwn /\ NoServiceNoChild /\ (~muddled => InHandOf)
    BY DEF LaunchInv
  <1>2. step \in Stations \ {"stop"} /\ shell[c] # Idle
    BY <1>1, NotIdle DEF Stations
  <1>3. /\ shell'[c].at = step /\ \A d \in Shells : d # c => shell'[d] = shell[d]
        /\ step # "idle" => shell'[c].cmd = shell[c].cmd
    BY <1>1, <1>2, CommandMoves
  <1>4. child' = child \/ child' = NoGateway
    BY DEF ChildAfter
  <1>5. /\ gw' \in [Gateways -> Phases] /\ OnePort' /\ StateOwn'
        /\ \A g \in Gateways : /\ Live(g)' => Live(g)
                               /\ Recorded(g)' => Recorded(g)
                               /\ Live(g)' /\ g = child => gw' # AfterSigterm({child})
                               /\ Live(g)' /\ g = child => child' = child
    <2>1. CASE UNCHANGED <<gw, child>>
      <3>1. gw' \in [Gateways -> Phases] /\ OnePort' /\ StateOwn'
        BY <1>1, <2>1 DEF LaunchTypes, OnePort, HoldsPort, StateOwn, Recorded
      <3>2. \A g \in Gateways : (Live(g)' <=> Live(g)) /\ (Recorded(g)' <=> Recorded(g))
        BY <2>1 DEF Live, Recorded
      <3>3. ASSUME gw' = AfterSigterm({child}) PROVE \A g \in Gateways : g = child => ~Live(g)'
        BY <1>1, <3>3, Signalled
      <3> QED
        BY <2>1, <3>1, <3>2, <3>3
    <2>2. CASE gw' = AfterSigterm({child})
      BY <1>1, <2>2, Signalled
    <2> QED
      BY <2>1, <2>2
  <1>6. {pidFile', stateFile', child'} \subseteq Gateways \cup {NoGateway} /\ NoServiceNoChild'
    BY <1>1, <1>4 DEF LaunchTypes, NoServiceNoChild
  <1>7. ASSUME ~muddled
        PROVE  /\ Unserviced(c)' /\ Accounted(c)'
               /\ \A g \in Gateways \ contested : Live(g)' => Known(g)'
               /\ \A g \in Gateways \ contested : Recorded(g)' => stateFile' = g
    <2>1. InHandOf
      BY <1>1, <1>7
    <2>2. \A d \in Shells : ~At(d, "write_pid")
      BY <1>1, <1>2, <1>3, <2>1, OneMoves DEF At
    <2>3. \A g \in Gateways \ contested : Live(g) => g = child \/ g = pidFile
      BY <2>1, <2>2 DEF InHandOf, Known
    <2>4. Unserviced(c)'
      BY <1>3 DEF Unserviced
    <2>5. Accounted(c)'
      <3>1. ASSUME step = "signal", NEW g \in Gateways \ contested, Live(g)' PROVE g = pidFile
        BY <1>5, <2>3, <3>1, NoGatewayIsNone
      <3> QED
        BY <1>3, <3>1 DEF Accounted, At
    <2>6. \A g \in Gateways \ contested : Live(g)' => Known(g)'
      BY <1>5, <2>3 DEF Known
    <2>7. \A g \in Gateways \ contested : Recorded(g)' => stateFile' = g
      BY <1>5, <2>1 DEF InHandOf
    <2> QED
      BY <2>4, <2>5, <2>6, <2>7
  <1> QED
    BY <1>2, <1>5, <1>6, <1>7, CommandStep

LEMMA ServiceSteps ==
  ASSUME LaunchInv, NEW c \in Shells,
         Stop(c) \/ Restart(c) \/ InstallService(c) \/ RemoveService(c)
  PROVE  LaunchInv'
  <1>1. /\ LaunchTypes /\ NoServiceNoChild
        /\ UNCHANGED <<pidFile, stateFile, contested, muddled>>
        /\ service \in {"none", "loaded", "stopped"}
    BY DEF LaunchInv, LaunchTypes, Stop, Restart, InstallService, RemoveService, Still
  <1>3. CASE Stop(c)
    <2>1. shell[c].at = "stop" /\ shell[c].cmd = "stop"
      BY <1>1, <1>3 DEF Stop, At, LaunchTypes
    <2>2. CASE service # "none"
      <3>1. service' = "stopped" /\ gw' = AfterSigterm({child}) /\ child' = ChildAfter
            /\ GoTo(c, "signal")
        BY <1>3, <2>2 DEF Stop
      <3> QED
        BY <1>1, <2>1, <3>1, ServiceStep
    <2>3. CASE service = "none"
      <3>1. PICK step : step = IF pidFile = NoGateway THEN "idle" ELSE "signal"
        OBVIOUS
      <3>2. UNCHANGED <<service, gw, child>> /\ GoTo(c, step) /\ step \in {"idle", "signal"}
        BY <1>3, <2>3, <3>1 DEF Stop
      <3>3. child = NoGateway
        BY <1>1, <2>3 DEF NoServiceNoChild
      <3> QED
        BY <1>1, <2>1, <2>3, <3>2, <3>3, ServiceStep
    <2> QED
      BY <2>2, <2>3
  <1>4. CASE Restart(c)
    <2>1. shell[c].at = "restart"
      BY <1>4 DEF Restart, At
    <2>2. CASE ControlAnswers
      <3>1. GoTo(c, "idle") /\ UNCHANGED <<service, gw, child>>
        BY <1>4, <2>2 DEF Restart
      <3> QED
        BY <1>1, <2>1, <3>1, ServiceStep DEF NoServiceNoChild
    <2>3. CASE ~ControlAnswers /\ service # "none"
      <3>1. service' = "loaded" /\ gw' = AfterSigterm({child}) /\ child' = ChildAfter
            /\ GoTo(c, "wait_for_service")
        BY <1>4, <2>3 DEF Restart
      <3> QED
        BY <1>1, <2>1, <3>1, ServiceStep
    <2>4. CASE ~ControlAnswers /\ service = "none"
      <3>1. GoTo(c, "signal") /\ UNCHANGED <<service, gw, child>>
        BY <1>4, <2>4 DEF Restart
      <3>2. child = NoGateway
        BY <1>1, <2>4 DEF NoServiceNoChild
      <3> QED
        BY <1>1, <2>1, <2>4, <3>1, <3>2, ServiceStep
    <2> QED
      BY <2>2, <2>3, <2>4
  <1>5. CASE InstallService(c)
    <2>1. shell[c].at = "install" /\ GoTo(c, "idle") /\ service' = "loaded"
          /\ ((gw' = AfterSigterm({child}) /\ child' = ChildAfter) \/ UNCHANGED <<gw, child>>)
      BY <1>5 DEF InstallService, At
    <2> QED
      BY <1>1, <2>1, ServiceStep
  <1>6. CASE RemoveService(c)
    <2>1. shell[c].at = "remove" /\ GoTo(c, "idle") /\ service' = "none"
          /\ gw' = AfterSigterm({child}) /\ child' = NoGateway
      BY <1>6 DEF RemoveService, At
    <2> QED
      BY <1>1, <2>1, ServiceStep
  <1> QED
    BY <1>3, <1>4, <1>5, <1>6

LEMMA CommandDiesKeeps == ASSUME LaunchInv, NEW c \in Shells, CommandDies(c) PROVE LaunchInv'
  <1>1. /\ GoTo(c, "idle") /\ muddled' = TRUE
        /\ UNCHANGED <<gw, pidFile, stateFile, service, child, contested>>
        /\ LaunchTypes /\ OnePort /\ StateOwn /\ NoServiceNoChild
    BY DEF CommandDies, LaunchInv
  <1>2. "idle" \in Stations
    BY DEF Stations
  <1>3. /\ shell' \in [Shells -> Errand] /\ \A d \in Shells : At(d, "idle")' => shell'[d] = Idle
        /\ \A d \in Shells : At(d, "stop")' => shell'[d].cmd = "stop"
    BY <1>1, <1>2, CommandMoves
  <1>4. LaunchTypes' /\ OnePort' /\ StateOwn' /\ NoServiceNoChild'
    BY <1>1, <1>3 DEF LaunchTypes, OnePort, HoldsPort, StateOwn, Recorded, NoServiceNoChild
  <1> QED
    BY <1>1, <1>4 DEF LaunchInv

LEMMA LaunchNextInv ==
  ASSUME LaunchInv, [LaunchNext]_launchVars PROVE LaunchInv'
  <1>1. CASE \E g \in Gateways :
               \/ Bind(g) \/ WriteState(g) \/ BackendUp(g) \/ BackendLost(g)
               \/ GatewayFails(g) \/ ClearState(g) \/ GatewayExits(g) \/ GatewayKilled(g)
    BY <1>1, GatewayStep
  <1>2. CASE \E c \in Shells :
               \/ Start(c) \/ CheckNothingUp(c) \/ WaitForService(c) \/ Stopped(c) \/ AwaitDown(c)
    BY <1>2, PlainSteps
  <1>3. CASE \E c \in Shells : DropPid(c) \/ DropState(c)
    BY <1>3, ClearingSteps
  <1>4. CASE \E c \in Shells : Stop(c) \/ Restart(c) \/ InstallService(c) \/ RemoveService(c)
    BY <1>4, ServiceSteps
  <1>5. CASE \E c \in Shells :
               \/ Command(c) \/ SpawnGateway(c) \/ WritePid(c) \/ WaitForBoot(c)
               \/ SignalPids(c) \/ CommandDies(c)
    BY <1>5, IssueKeeps, SpawnGatewayKeeps, WritePidKeeps, WaitForBootKeeps, SignalPidsKeeps,
       CommandDiesKeeps
  <1>6. CASE ServiceSpawns \/ Reboot
    BY <1>6, ServiceSpawnsKeeps, RebootKeeps
  <1>7. CASE UNCHANGED launchVars
    <2>1. UNCHANGED <<gw, pidFile, stateFile, service, child, shell, contested, muddled>>
      BY <1>7 DEF launchVars
    <2>2. LaunchTypes' /\ OnePort' /\ StateOwn' /\ NoServiceNoChild'
      BY <2>1 DEF LaunchInv, LaunchTypes, OnePort, HoldsPort, StateOwn, Recorded,
                  NoServiceNoChild, At
    <2>3. InHandOf => InHandOf'
      <3>1. \A g \in Gateways : (Live(g)' <=> Live(g)) /\ (Recorded(g)' <=> Recorded(g))
                                /\ (Known(g) => Known(g)')
        BY <2>1 DEF Live, Recorded, Known, At
      <3>2. \A c \in Shells : Unserviced(c) => Unserviced(c)'
        BY <2>1 DEF Unserviced
      <3>3. \A c \in Shells : Accounted(c) => Accounted(c)'
        BY <2>1, <3>1 DEF Accounted, At
      <3>4. OneCommand => OneCommand'
        BY <2>1 DEF OneCommand
      <3> QED
        BY <2>1, <3>1, <3>2, <3>3, <3>4 DEF InHandOf
    <2> QED
      BY <2>1, <2>2, <2>3 DEF LaunchInv
  <1> QED
    BY <1>1, <1>2, <1>3, <1>4, <1>5, <1>6, <1>7 DEF LaunchNext

LEMMA LaunchInvProperties ==
  ASSUME LaunchInv PROVE ShutdownClearsOwnState /\ ControlLostOnlyWhenContested /\ StopStops
  <1>1. ShutdownClearsOwnState
    BY DEF LaunchInv, StateOwn, ShutdownClearsOwnState
  <1>2. ControlLostOnlyWhenContested
    <2>1. ASSUME Quiet, NEW g \in Gateways \ contested, gw[g] \in {"up", "sick"}
          PROVE  stateFile = g /\ g \in {pidFile, child}
      <3>1. InHandOf /\ \A c \in Shells : shell[c] = Idle
        BY <2>1 DEF Quiet, LaunchInv
      <3>2. Idle.at = "idle"
        BY DEF Idle
      <3>3. Live(g) /\ Recorded(g)
        BY <2>1 DEF Live, Recorded
      <3> QED
        BY <3>1, <3>2, <3>3 DEF InHandOf, Known, At
    <2> QED
      BY <2>1 DEF ControlLostOnlyWhenContested
  <1>3. StopStops
    <2>1. ASSUME ~muddled, NEW c \in Shells, At(c, "stopped"), NEW g \in Gateways \ contested
          PROVE  gw[g] \in {"none", "closing", "cleared"}
      <3>1. ~Live(g)
        BY <2>1 DEF LaunchInv, InHandOf, Accounted, At
      <3>2. gw[g] \in Phases
        BY DEF LaunchInv, LaunchTypes
      <3> QED
        BY <3>1, <3>2 DEF Live, Phases
    <2> QED
      BY <2>1 DEF StopStops
  <1> QED
    BY <1>1, <1>2, <1>3

(* Whatever commands, gateways, the login service, kills and reboots do    *)
(* among each other: a gateway that shuts down clears no other's state     *)
(* file; commands that do not overlap keep hold of every gateway that no   *)
(* start put another beside; and when `stop` reports success, none of      *)
(* those serves or is about to.                                            *)
THEOREM CommandsKeepControl ==
  LaunchSpec => [](ShutdownClearsOwnState /\ ControlLostOnlyWhenContested /\ StopStops)
  <1>1. LaunchInit => LaunchInv
    BY LaunchInitInv
  <1>2. LaunchInv /\ [LaunchNext]_launchVars => LaunchInv'
    BY LaunchNextInv
  <1>3. LaunchInv => ShutdownClearsOwnState /\ ControlLostOnlyWhenContested /\ StopStops
    BY LaunchInvProperties
  <1> QED
    BY <1>1, <1>2, <1>3, PTL DEF LaunchSpec

-----------------------------------------------------------------------------
(* Reexec.  The image that runs has read no more than what is installed,   *)
(* and so has the watcher's last look.                                     *)
ImageRec == [sig : 0..MaxInstalls, torn : BOOLEAN, overtaken : BOOLEAN,
             initialized : BOOLEAN, resumed : BOOLEAN]
CallSteps == {"none", "in_the_pipe", "read", "running", "finished", "answered", "refused", "lost"}
ReexecTypes ==
  /\ image \in ImageRec /\ {disk, prev, installs} \subseteq 0..MaxInstalls
  /\ install \in {"none", "before", "after"} /\ {ticked, hostReady, overtaken} \subseteq BOOLEAN
  /\ watcher \in {"watching", "waiting", "leaving", "gone"}
  /\ call \in [Calls -> CallSteps]
ReadSoFar ==
  /\ image.sig <= disk /\ prev <= disk /\ disk <= installs
  /\ install = "before" => disk < installs

(* Every call was sent after `initialize`, which this image has seen or    *)
(* been told of; what runs when the watcher leaves came after its look.    *)
CallsHeard ==
  /\ hostReady => Admits
  /\ \A r \in Calls : /\ call[r] # "none" => hostReady
                      /\ call[r] # "refused"
                      /\ watcher = "leaving" /\ call[r] \in {"running", "finished"} => r \in late

(* A watcher that waits has seen a new signature, and in an install only   *)
(* when that install overtook an earlier one: the signature of the install *)
(* itself is looked at once at most before the install ends.               *)
SeenTwice ==
  /\ watcher \in {"waiting", "leaving"} => disk # image.sig /\ (install # "none" => overtaken)
  /\ install = "before" /\ disk # image.sig => overtaken
  /\ install = "after" /\ ~ticked /\ disk # image.sig => prev # disk
  /\ image.torn => image.overtaken

ReexecInv == ReexecTypes /\ ReadSoFar /\ CallsHeard /\ SeenTwice

LEMMA ReexecInitInv == ASSUME ReexecBounds, ReexecInit PROVE ReexecInv
  <1>1. image = [sig |-> 0, torn |-> FALSE, overtaken |-> FALSE, initialized |-> FALSE,
                 resumed |-> FALSE]
    BY DEF ReexecInit, Launched
  <1>5. image \in ImageRec /\ image.sig = 0 /\ image.torn = FALSE
    BY <1>1 DEF ReexecBounds, ImageRec
  <1>6. {disk, prev, installs} \subseteq 0..MaxInstalls
    BY DEF ReexecBounds, ReexecInit
  <1>7. call \in [Calls -> CallSteps]
    BY DEF ReexecInit, CallSteps
  <1>2. ReexecTypes
    BY <1>5, <1>6, <1>7 DEF ReexecInit, ReexecTypes
  <1>3. ReadSoFar /\ SeenTwice
    <2>1. ReadSoFar
      <3>1. image.sig = 0 /\ disk = 0 /\ prev = 0 /\ installs = 0 /\ install = "none"
        BY <1>5 DEF ReexecInit
      <3> QED
        BY <3>1 DEF ReadSoFar
    <2>2. ~image.torn /\ install = "none" /\ watcher = "watching"
      BY <1>5 DEF ReexecInit
    <2> QED
      BY <2>1, <2>2 DEF SeenTwice
  <1>4. CallsHeard
    BY DEF ReexecInit, CallsHeard
  <1> QED
    BY <1>2, <1>3, <1>4 DEF ReexecInv

LEMMA ReexecNextInv ==
  ASSUME ReexecBounds, ReexecInv, [ReexecNext]_reexecVars PROVE ReexecInv'
  <1> USE DEF ReexecInv
  <1>1. CASE InstallBegins
    <2>5. installs' \in 0..MaxInstalls /\ overtaken' \in BOOLEAN
      BY <1>1 DEF InstallBegins, ReexecTypes, ReexecBounds
    <2>1. ReexecTypes'
      BY <1>1, <2>5 DEF InstallBegins, ReexecTypes
    <2>2. ReadSoFar'
      BY <1>1 DEF InstallBegins, ReadSoFar, ReexecTypes, ImageRec, ReexecBounds
    <2>3. CallsHeard'
      BY <1>1 DEF InstallBegins, CallsHeard, Admits
    <2>4. SeenTwice'
      BY <1>1 DEF InstallBegins, SeenTwice
    <2> QED
      BY <2>1, <2>2, <2>3, <2>4
  <1>2. CASE SignatureMoves
    <2>1. disk < installs /\ disk' = disk + 1 /\ disk \in Nat /\ image.sig \in Nat /\ prev \in Nat
      BY <1>2 DEF SignatureMoves, ReexecTypes, ReadSoFar, ImageRec, ReexecBounds
    <2>2. ReexecTypes'
      BY <1>2, <2>1 DEF SignatureMoves, ReexecTypes, ReexecBounds
    <2>3. ReadSoFar'
      BY <1>2, <2>1 DEF SignatureMoves, ReadSoFar, ReexecTypes, ReexecBounds
    <2>4. CallsHeard'
      BY <1>2 DEF SignatureMoves, CallsHeard, Admits
    <2>5. disk' # image.sig /\ disk' # prev
      BY <2>1 DEF ReadSoFar
    <2>6. SeenTwice'
      BY <1>2, <2>5 DEF SignatureMoves, SeenTwice
    <2> QED
      BY <2>2, <2>3, <2>4, <2>6
  <1>3. CASE InstallEnds
    BY <1>3 DEF InstallEnds, ReexecTypes, ReadSoFar, CallsHeard, Admits, SeenTwice
  <1>4. CASE HostInitializes
    <2>1. image' = [image EXCEPT !.initialized = TRUE]
      BY <1>4 DEF HostInitializes
    <2>2. /\ image' \in ImageRec /\ image'.sig = image.sig /\ image'.torn = image.torn
          /\ image'.overtaken = image.overtaken /\ image'.initialized = TRUE
      BY <2>1 DEF ReexecTypes, ImageRec
    <2>3. ReexecTypes' /\ ReadSoFar'
      BY <1>4, <2>2 DEF HostInitializes, ReexecTypes, ReadSoFar
    <2>4. CallsHeard'
      BY <1>4, <2>2 DEF HostInitializes, CallsHeard, Admits
    <2>5. SeenTwice'
      BY <1>4, <2>2 DEF HostInitializes, SeenTwice
    <2> QED
      BY <2>3, <2>4, <2>5
  <1>5. ASSUME NEW r \in Calls, HostCalls(r) \/ ReadCall(r) \/ EnterCall(r) \/ ExitCall(r) \/ FlushReply(r)
        PROVE  ReexecInv'
    <2>1. ReadSoFar' /\ SeenTwice' /\ Elsewhere
      BY <1>5 DEF HostCalls, ReadCall, EnterCall, ExitCall, FlushReply, Elsewhere, ReadSoFar,
                  SeenTwice
    <2>2. PICK to \in CallSteps : call' = [call EXCEPT ![r] = to]
      BY <1>5 DEF HostCalls, ReadCall, EnterCall, ExitCall, FlushReply, Advance, CallSteps
    <2>3. ReexecTypes'
      BY <2>1, <2>2 DEF Elsewhere, ReexecTypes
    <2>4. hostReady /\ Admits
      BY <1>5 DEF HostCalls, ReadCall, EnterCall, ExitCall, FlushReply, Advance, CallsHeard
    <2>5. call'[r] # "refused"
      BY <1>5, <2>4 DEF HostCalls, ReadCall, EnterCall, ExitCall, FlushReply, Advance, ReexecTypes
    <2>6. watcher = "leaving" /\ call'[r] \in {"running", "finished"} => r \in late'
      BY <1>5, <2>4 DEF HostCalls, ReadCall, EnterCall, ExitCall, FlushReply, Advance, ReexecTypes,
                        CallsHeard
    <2>7. \A s \in Calls \ {r} : call'[s] = call[s] /\ (s \in late => s \in late')
      BY <1>5, <2>2 DEF HostCalls, ReadCall, EnterCall, ExitCall, FlushReply, ReexecTypes
    <2>8. CallsHeard'
      BY <2>1, <2>4, <2>5, <2>6, <2>7 DEF CallsHeard, Elsewhere, Admits
    <2> QED
      BY <2>1, <2>3, <2>8
  <1>6. CASE Tick
    <2>1. ReexecTypes' /\ ReadSoFar'
      BY <1>6 DEF Tick, ReexecTypes, ReadSoFar, ReexecBounds
    <2>2. CallsHeard'
      BY <1>6 DEF Tick, CallsHeard, Admits
    <2>3. SeenTwice'
      BY <1>6 DEF Tick, SeenTwice, ReexecTypes
    <2> QED
      BY <2>1, <2>2, <2>3
  <1>7. CASE SeesIdle
    BY <1>7 DEF SeesIdle, In, ReexecTypes, ReadSoFar, CallsHeard, Admits, SeenTwice
  <1>8. CASE Exec
    <2>1. image' = [sig |-> disk, torn |-> install # "none", overtaken |-> overtaken,
                    initialized |-> FALSE, resumed |-> TRUE]
      BY <1>8 DEF Exec, Launched
    <2>6. /\ image'.sig = disk /\ image'.torn = (install # "none") /\ image'.overtaken = overtaken
          /\ image'.resumed = TRUE /\ image' \in ImageRec
      BY <2>1 DEF ReexecTypes, ImageRec
    <2>7. call' \in [Calls -> CallSteps]
          /\ \A r \in Calls : call'[r] = call[r] \/ (call'[r] = "lost" /\ call[r] # "none")
      <3>1. call' = [r \in Calls |-> IF call[r] \in {"read", "running", "finished"}
                                      THEN "lost" ELSE call[r]]
        BY <1>8 DEF Exec
      <3>2. ASSUME NEW r \in Calls
            PROVE  /\ call'[r] \in CallSteps
                   /\ call'[r] = call[r] \/ (call'[r] = "lost" /\ call[r] # "none")
        <4>1. call'[r] = IF call[r] \in {"read", "running", "finished"} THEN "lost" ELSE call[r]
          BY <3>1
        <4>2. call[r] \in CallSteps
          BY DEF ReexecTypes
        <4> QED
          BY <4>1, <4>2 DEF CallSteps
      <3> QED
        BY <3>1, <3>2
    <2>2. ReexecTypes'
      BY <1>8, <2>6, <2>7 DEF Exec, ReexecTypes
    <2>3. ReadSoFar'
      <3>1. disk' = disk /\ prev' = disk /\ install' = install /\ installs' = installs
        BY <1>8 DEF Exec
      <3>2. disk \in Nat /\ image'.sig = disk
        BY <2>6 DEF ReexecTypes, ReexecBounds
      <3> QED
        BY <3>1, <3>2 DEF ReadSoFar
    <2>4. CallsHeard'
      <3>1. Admits' /\ hostReady' = hostReady /\ watcher' = "watching"
        BY <1>8, <2>6 DEF Exec, Admits
      <3> QED
        BY <2>7, <3>1, Zenon DEF CallsHeard
    <2>5. SeenTwice'
      BY <1>8, <2>6 DEF Exec, SeenTwice
    <2> QED
      BY <2>2, <2>3, <2>4, <2>5
  <1>9. CASE ExecFails
    BY <1>9 DEF ExecFails, ReexecTypes, ReadSoFar, CallsHeard, Admits, SeenTwice
  <1>10. CASE UNCHANGED reexecVars
    BY <1>10 DEF reexecVars, ReexecTypes, ReadSoFar, CallsHeard, Admits, SeenTwice
  <1> QED
    BY <1>1, <1>2, <1>3, <1>4, <1>5, <1>6, <1>7, <1>8, <1>9, <1>10 DEF ReexecNext

LEMMA ReexecInvSound ==
  ASSUME ReexecInv PROVE ReexecTypeOK /\ CountedCallsAnswered /\ WholeImageUnlessOvertaken
  BY DEF ReexecInv, ReexecTypes, ImageRec, CallSteps, CallsHeard, SeenTwice, ReexecTypeOK,
         CountedCallsAnswered, In, WholeImageUnlessOvertaken

(* The adapter that replaces itself loses no call it could count when it   *)
(* last looked, and comes up on half an install only when that install     *)
(* began before an earlier one had been picked up.                         *)
THEOREM ReexecIsQuiet ==
  ReexecSpec => [](ReexecTypeOK /\ CountedCallsAnswered /\ WholeImageUnlessOvertaken)
  <1>1. ReexecInit => ReexecInv
    BY ReexecInitInv, ReexecBounds
  <1>2. ReexecInv /\ [ReexecNext]_reexecVars => ReexecInv'
    BY ReexecNextInv, ReexecBounds
  <1>3. ReexecInv => ReexecTypeOK /\ CountedCallsAnswered /\ WholeImageUnlessOvertaken
    BY ReexecInvSound
  <1> QED
    BY <1>1, <1>2, <1>3, PTL DEF ReexecSpec

-----------------------------------------------------------------------------
(* UpdateNotice.  A launch that writes knows what it writes and what it    *)
(* does next.                                                              *)
Vers == 0..MaxVersions
NotesRec == [checked : BOOLEAN, known : Vers, notified : Vers, auto : BOOLEAN]
Changes == {<<>>} \cup ({"known", "notified"} \X Vers) \cup ({"auto"} \X BOOLEAN)
LaunchRec ==
  [step : {"none", "look", "ask", "read", "replace", "compare", "wish"}, has : Vers, told : Vers,
   latest : Vers, change : Changes, next : {"none", "compare", "wish", "end"}, draft : NotesRec,
   seen : Nat]
Writing(q) == q.step \in {"read", "replace"}
WellFormed(q) ==
  /\ q \in LaunchRec /\ (q.step = "none" => q = Gone)
  /\ Writing(q) => \/ q.change[1] = "auto" /\ q.change[2] \in BOOLEAN /\ q.next = "end"
                   \/ q.change[1] = "known" /\ q.change[2] \in Vers /\ q.next = "compare"
                   \/ q.change[1] = "notified" /\ q.change[2] \in Vers /\ q.next = "wish"

NoticeTypes ==
  /\ notes \in NotesRec /\ launch \in [Launches -> LaunchRec]
  /\ \A l \in Launches : WellFormed(launch[l])
  /\ writes \in Nat /\ {newest, installed} \subseteq Vers
  /\ printed \subseteq 1..MaxVersions /\ {reprinted, wished} \subseteq BOOLEAN
  /\ slips \subseteq {"overlap", "stale", "unwritten", "cut off"}

(* What is about to be written is the notes with one field changed, unless *)
(* another write came between.                                             *)
DraftFits(q) ==
  q.step = "replace" =>
    /\ q.seen <= writes
    /\ q.seen = writes =>
         /\ q.draft.known = IF q.change[1] = "known" THEN q.change[2] ELSE notes.known
         /\ q.draft.notified = IF q.change[1] = "notified" THEN q.change[2] ELSE notes.notified
         /\ q.draft.auto = IF q.change[1] = "auto" THEN q.change[2] ELSE notes.auto
DraftsFit == \A l \in Launches : DraftFits(launch[l])
AutoAsWished == slips \subseteq {"overlap"} => notes.auto = wished

(* Launches one after the other and no write lost: what the notes say was  *)
(* told of bounds what was printed, but for the one who is about to say.   *)
Active(l) == launch[l].step # "none"
OneLaunch == \A k, l \in Launches : Active(k) /\ Active(l) => k = l
Learned(q) ==
  /\ q.step \in {"ask", "compare"} => q.told = notes.notified /\ q.latest = notes.known
  /\ Writing(q) /\ q.change[1] = "known" =>
       /\ q.told = notes.notified /\ q.latest = q.change[2]
       /\ notes.known <= q.latest /\ q.latest <= newest
  /\ Writing(q) /\ q.change[1] = "notified" => q.change[2] = notes.known
Telling(q) == Writing(q) /\ q.change[1] = "notified"
InTurn ==
  /\ OneLaunch /\ \A l \in Launches : Learned(launch[l])
  /\ notes.notified <= notes.known /\ notes.known <= newest
  /\ \A v \in printed : v <= notes.notified
                        \/ \E l \in Launches : Telling(launch[l]) /\ v <= launch[l].change[2]

NoticeInv == /\ NoticeTypes /\ DraftsFit /\ AutoAsWished /\ ToldOnce
             /\ slips = {} => InTurn

LEMMA VersNat == ASSUME NoticeBounds PROVE MaxVersions \in Nat /\ Vers \subseteq Nat
  BY DEF NoticeBounds, Vers

LEMMA GoneFacts ==
  ASSUME NoticeBounds
  PROVE  /\ MaxVersions \in Nat /\ WellFormed(Gone) /\ Gone.step = "none" /\ ~Writing(Gone)
         /\ Gone.seen = 0 /\ Gone.draft = NoNotes /\ Gone.told = 0 /\ Gone.latest = 0
         /\ DraftFits(Gone) /\ Learned(Gone) /\ ~Telling(Gone)
         /\ NoNotes \in NotesRec
  <1>1. MaxVersions \in Nat /\ 0 \in Vers
    BY DEF NoticeBounds, Vers
  <1>2. NoNotes \in NotesRec
    BY <1>1 DEF NoNotes, NotesRec
  <1>3. <<>> \in Changes
    BY DEF Changes
  <1>4. Gone \in LaunchRec
    BY <1>1, <1>2, <1>3 DEF Gone, LaunchRec
  <1>5. /\ Gone.step = "none" /\ Gone.seen = 0 /\ Gone.draft = NoNotes /\ Gone.told = 0
        /\ Gone.latest = 0
    BY DEF Gone
  <1> QED
    BY <1>1, <1>2, <1>4, <1>5 DEF WellFormed, Writing, DraftFits, Learned, Telling

LEMMA NoticeInitInv == ASSUME NoticeBounds, NoticeInit PROVE NoticeInv
  <1>1. \A l \in Launches : launch[l] = Gone
    BY DEF NoticeInit
  <1>2. /\ notes = NoNotes /\ writes = 0 /\ newest = 0 /\ installed = 0
        /\ printed = {} /\ reprinted = FALSE /\ wished = FALSE /\ slips = {}
    BY DEF NoticeInit
  <1>3. launch \in [Launches -> LaunchRec]
    BY GoneFacts DEF NoticeInit, WellFormed
  <1>4. NoticeTypes
    <2>1. 0 \in Vers
      BY GoneFacts DEF Vers
    <2> QED
      BY <1>1, <1>2, <1>3, <2>1, GoneFacts DEF NoticeTypes
  <1>5. DraftsFit
    BY <1>1, GoneFacts DEF DraftsFit
  <1>6. notes.auto = FALSE /\ notes.notified = 0 /\ notes.known = 0
    BY <1>2 DEF NoNotes
  <1>7. InTurn
    BY <1>1, <1>2, <1>6, GoneFacts DEF InTurn, OneLaunch, Active
  <1> QED
    BY <1>2, <1>4, <1>5, <1>6, <1>7 DEF NoticeInv, AutoAsWished, ToldOnce

(* What one launch does leaves the others as they are.                     *)
LEMMA LaunchMoves ==
  ASSUME NoticeTypes, NEW l \in Launches, NEW q, WellFormed(q), launch' = [launch EXCEPT ![l] = q]
  PROVE  /\ launch' \in [Launches -> LaunchRec] /\ launch'[l] = q
         /\ \A k \in Launches \ {l} : launch'[k] = launch[k]
         /\ \A k \in Launches : WellFormed(launch'[k])
         /\ Active(l)' <=> q.step # "none"
         /\ \A k \in Launches \ {l} : Active(k)' <=> Active(k)
  <1>1. q \in LaunchRec
    BY DEF WellFormed
  <1>2. launch' \in [Launches -> LaunchRec] /\ launch'[l] = q
         /\ \A k \in Launches \ {l} : launch'[k] = launch[k]
    BY <1>1 DEF NoticeTypes
  <1> QED
    BY <1>2 DEF NoticeTypes, Active

(* A step of one launch that writes nothing.                               *)
LEMMA UnwrittenKeeps ==
  ASSUME NoticeInv, NEW l \in Launches, NEW q, WellFormed(q), launch' = [launch EXCEPT ![l] = q],
         UNCHANGED <<notes, writes, newest, wished>>, installed' \in Vers,
         printed' \subseteq 1..MaxVersions, reprinted' \in BOOLEAN, DraftFits(q),
         slips \subseteq slips', slips' \subseteq {"overlap", "stale", "unwritten", "cut off"},
         slips' = {} => /\ Active(l) \/ \A k \in Launches : ~Active(k)
                        /\ Learned(q) /\ (reprinted' => reprinted)
                        /\ Telling(launch[l]) => Telling(q) /\ q.change[2] = launch[l].change[2]
                        /\ \A v \in printed' \ printed : Telling(q) /\ v <= q.change[2]
  PROVE  NoticeInv'
  <1> USE DEF NoticeInv
  <1>1. /\ launch' \in [Launches -> LaunchRec] /\ launch'[l] = q
        /\ \A k \in Launches \ {l} : launch'[k] = launch[k]
        /\ \A k \in Launches : WellFormed(launch'[k])
        /\ Active(l)' <=> q.step # "none"
        /\ \A k \in Launches \ {l} : Active(k)' <=> Active(k)
    BY LaunchMoves
  <1>2. NoticeTypes'
    <2>1. \A k \in Launches : WellFormed(launch[k])'
      BY <1>1 DEF WellFormed, Writing
    <2> QED
      BY <1>1, <2>1 DEF NoticeTypes
  <1>3. DraftsFit'
    BY <1>1 DEF DraftsFit, DraftFits
  <1>4. AutoAsWished'
    BY DEF AutoAsWished
  <1>5. ASSUME slips' = {} PROVE InTurn'
    <2>1. slips = {} /\ InTurn
      BY <1>5
    <2>2. OneLaunch'
      BY <1>1, <1>5, <2>1 DEF InTurn, OneLaunch
    <2>3. \A k \in Launches : Learned(launch[k])'
      BY <1>1, <1>5, <2>1 DEF InTurn, Learned, Writing
    <2>4. ASSUME NEW v \in printed' PROVE (v <= notes.notified
                        \/ \E k \in Launches : Telling(launch[k]) /\ v <= launch[k].change[2])'
      <3>1. CASE v \in printed
        <4>1. CASE v <= notes.notified
          BY <4>1
        <4>2. ASSUME NEW k \in Launches, Telling(launch[k]), v <= launch[k].change[2]
              PROVE  \E j \in Launches : Telling(launch'[j]) /\ v <= launch'[j].change[2]
          <5>1. CASE k = l
            <6>1. Telling(q) /\ q.change[2] = launch[l].change[2]
              BY <1>5, <4>2, <5>1
            <6> QED
              BY <1>1, <4>2, <5>1, <6>1
          <5>2. CASE k # l
            BY <1>1, <4>2, <5>2
          <5> QED
            BY <5>1, <5>2
        <4> QED
          BY <2>1, <3>1, <4>1, <4>2 DEF InTurn, Telling, Writing
      <3>2. CASE v \notin printed
        BY <1>1, <1>5, <3>2 DEF Telling, Writing
      <3> QED
        BY <3>1, <3>2
    <2> QED
      BY <2>1, <2>2, <2>3, <2>4 DEF InTurn
  <1>6. ToldOnce'
    BY DEF ToldOnce
  <1> QED
    BY <1>2, <1>3, <1>4, <1>5, <1>6

LEMMA LaunchBegins ==
  ASSUME NoticeBounds, NoticeInv, NEW l \in Launches, NEW q, WellFormed(q), Begin(l, q),
         q.step \in {"look", "read"}, q.step = "read" => q.change[1] = "auto"
  PROVE  NoticeInv'
  <1>1. DraftFits(q) /\ Learned(q) /\ ~Telling(q)
    BY DEF DraftFits, Learned, Telling, Writing
  <1>2. launch[l].step = "none" /\ ~Telling(launch[l])
    BY GoneFacts DEF Begin, Telling
  <1>3. slips' = slips \cup (IF \E k \in Launches : launch[k] # Gone THEN {"overlap"} ELSE {})
    BY DEF Begin
  <1>4. slips' = {} => \A k \in Launches : ~Active(k)
    <2>1. \A k \in Launches : launch[k] = Gone => ~Active(k)
      BY GoneFacts DEF Active
    <2> QED
      BY <1>3, <2>1
  <1>5. /\ launch' = [launch EXCEPT ![l] = q]
        /\ UNCHANGED <<notes, writes, newest, wished, installed, printed, reprinted>>
    BY DEF Begin, World
  <1>6. installed' \in Vers /\ printed' \subseteq 1..MaxVersions /\ reprinted' \in BOOLEAN
    BY <1>5 DEF NoticeInv, NoticeTypes
  <1>7. slips \subseteq slips' /\ slips' \subseteq {"overlap", "stale", "unwritten", "cut off"}
    BY <1>3 DEF NoticeInv, NoticeTypes
  <1> QED
    BY <1>1, <1>2, <1>4, <1>5, <1>6, <1>7, UnwrittenKeeps

LEMMA BeginsKeep ==
  ASSUME NoticeBounds, NoticeInv, NEW l \in Launches,
         LaunchTommy(l) \/ \E on \in BOOLEAN : Prefer(l, on)
  PROVE  NoticeInv'
  <1>1. CASE LaunchTommy(l)
    <2>1. PICK q : q = [Gone EXCEPT !.step = "look", !.has = installed]
      OBVIOUS
    <2>2. WellFormed(q) /\ q.step = "look"
      <3>1. Gone \in LaunchRec /\ installed \in Vers
        BY GoneFacts DEF WellFormed, NoticeInv, NoticeTypes
      <3>2. q \in LaunchRec /\ q.step = "look"
        BY <2>1, <3>1 DEF LaunchRec
      <3> QED
        BY <3>2 DEF WellFormed, Writing
    <2>3. Begin(l, q)
      BY <1>1, <2>1 DEF LaunchTommy
    <2> QED
      BY <2>2, <2>3, LaunchBegins
  <1>2. ASSUME NEW on \in BOOLEAN, Prefer(l, on) PROVE NoticeInv'
    <2>1. PICK q : q = [Gone EXCEPT !.step = "read", !.change = <<"auto", on>>, !.next = "end"]
      OBVIOUS
    <2>2. WellFormed(q) /\ q.step = "read" /\ q.change[1] = "auto"
      <3>1. Gone \in LaunchRec
        BY GoneFacts DEF WellFormed
      <3>2. <<"auto", on>> \in Changes
        BY DEF Changes
      <3>3. q \in LaunchRec /\ q.step = "read" /\ q.change = <<"auto", on>> /\ q.next = "end"
        BY <2>1, <3>1, <3>2 DEF LaunchRec
      <3>4. q.change[1] = "auto" /\ q.change[2] \in BOOLEAN
        BY <3>3
      <3> QED
        BY <3>3, <3>4 DEF WellFormed, Writing
    <2>3. Begin(l, q)
      BY <1>2, <2>1 DEF Prefer
    <2> QED
      BY <2>2, <2>3, LaunchBegins
  <1> QED
    BY <1>1, <1>2

(* A step that only takes the launch somewhere else.                       *)
LEMMA GoesTo ==
  ASSUME NoticeBounds, NoticeInv, NEW l \in Launches,
         NEW s \in {"compare", "wish", "end"}, To(l, s)
  PROVE  \E q : /\ launch' = [launch EXCEPT ![l] = q] /\ WellFormed(q) /\ ~Writing(q)
                /\ q.step = (IF s = "end" THEN "none" ELSE s)
                /\ q.told = (IF s = "end" THEN 0 ELSE launch[l].told)
                /\ q.latest = (IF s = "end" THEN 0 ELSE launch[l].latest)
  <1>1. CASE s = "end"
    BY <1>1, GoneFacts DEF To
  <1>2. CASE s # "end"
    <2>1. PICK q : q = [launch[l] EXCEPT !.step = s]
      OBVIOUS
    <2>2. launch' = [launch EXCEPT ![l] = q]
      BY <1>2, <2>1 DEF To, NoticeInv, NoticeTypes
    <2>3. launch[l] \in LaunchRec
      BY DEF NoticeInv, NoticeTypes
    <2>4. q \in LaunchRec /\ q.step = s /\ q.told = launch[l].told /\ q.latest = launch[l].latest
      BY <1>2, <2>1, <2>3 DEF LaunchRec
    <2>5. WellFormed(q) /\ ~Writing(q)
      BY <1>2, <2>4 DEF WellFormed, Writing
    <2> QED
      BY <1>2, <2>2, <2>4, <2>5
  <1> QED
    BY <1>1, <1>2

LEMMA LookKeeps ==
  ASSUME NoticeBounds, NoticeInv, NEW l \in Launches, Look(l) PROVE NoticeInv'
  <1>1. PICK q : q = [launch[l] EXCEPT !.step = IF notes.checked THEN "compare" ELSE "ask",
                        !.told = notes.notified, !.latest = notes.known]
    OBVIOUS
  <1>2. launch[l] \in LaunchRec /\ notes.notified \in Vers /\ notes.known \in Vers
    BY DEF NoticeInv, NoticeTypes, NotesRec
  <1>3. launch' = [launch EXCEPT ![l] = q]
    BY <1>1 DEF Look, NoticeInv, NoticeTypes
  <1>4. /\ q \in LaunchRec /\ q.step \in {"compare", "ask"} /\ q.told = notes.notified
        /\ q.latest = notes.known
    BY <1>1, <1>2 DEF LaunchRec
  <1>5. WellFormed(q) /\ DraftFits(q) /\ Learned(q) /\ ~Telling(launch[l]) /\ Active(l)
    BY <1>4 DEF WellFormed, Writing, DraftFits, Learned, Telling, Look, Active
  <1>6. UNCHANGED <<notes, writes, newest, wished, installed, printed, reprinted, slips>>
    BY DEF Look, World
  <1>7. installed \in Vers /\ printed \subseteq 1..MaxVersions /\ reprinted \in BOOLEAN
        /\ slips \subseteq {"overlap", "stale", "unwritten", "cut off"}
    BY DEF NoticeInv, NoticeTypes
  <1> QED
    BY <1>3, <1>5, <1>6, <1>7, UnwrittenKeeps

LEMMA AskKeeps ==
  ASSUME NoticeBounds, NoticeInv, NEW l \in Launches, AskPyPI(l) PROVE NoticeInv'
  <1>1. UNCHANGED <<notes, writes, newest, wished, installed, printed, reprinted, slips>>
        /\ launch[l].step = "ask"
    BY DEF AskPyPI, World
  <1>2. installed \in Vers /\ printed \subseteq 1..MaxVersions /\ reprinted \in BOOLEAN
        /\ slips \subseteq {"overlap", "stale", "unwritten", "cut off"} /\ newest \in Vers
        /\ launch[l] \in LaunchRec
    BY DEF NoticeInv, NoticeTypes
  <1>3. ~Telling(launch[l]) /\ Active(l)
    BY <1>1 DEF Telling, Writing, Active
  <1>4. CASE launch' = [launch EXCEPT ![l].step = "read", ![l].latest = newest,
                          ![l].change = <<"known", newest>>, ![l].next = "compare"]
    <2>1. PICK q : q = [launch[l] EXCEPT !.step = "read", !.latest = newest,
                          !.change = <<"known", newest>>, !.next = "compare"]
      OBVIOUS
    <2>2. launch' = [launch EXCEPT ![l] = q]
      BY <1>4, <2>1 DEF NoticeInv, NoticeTypes
    <2>3. <<"known", newest>> \in Changes
      BY <1>2 DEF Changes
    <2>4. /\ q \in LaunchRec /\ q.step = "read" /\ q.latest = newest /\ q.told = launch[l].told
          /\ q.change = <<"known", newest>> /\ q.next = "compare"
      BY <2>1, <1>2, <2>3 DEF LaunchRec
    <2>5. q.change[1] = "known" /\ q.change[2] = newest
      BY <2>4
    <2>6. WellFormed(q) /\ DraftFits(q)
      BY <1>2, <2>4, <2>5 DEF WellFormed, Writing, DraftFits
    <2>7. slips = {} => Learned(q)
      <3>1. slips = {} => launch[l].told = notes.notified /\ notes.known <= newest
        BY <1>1 DEF NoticeInv, InTurn, Learned
      <3>2. newest \in Nat
        BY <1>2, VersNat
      <3> QED
        BY <2>4, <2>5, <3>1, <3>2 DEF Learned, Writing
    <2> QED
      BY <1>1, <1>2, <1>3, <2>2, <2>6, <2>7, UnwrittenKeeps
  <1>5. CASE To(l, "compare")
    <2>1. PICK q : /\ launch' = [launch EXCEPT ![l] = q] /\ WellFormed(q) /\ ~Writing(q)
                   /\ q.step = "compare" /\ q.told = launch[l].told /\ q.latest = launch[l].latest
      BY <1>5, GoesTo
    <2>2. DraftFits(q)
      BY <2>1 DEF DraftFits
    <2>3. slips = {} => Learned(q)
      BY <1>1, <2>1 DEF NoticeInv, InTurn, Learned
    <2> QED
      BY <1>1, <1>2, <1>3, <2>1, <2>2, <2>3, UnwrittenKeeps
  <1> QED
    BY <1>4, <1>5 DEF AskPyPI

LEMMA ReadNotesKeeps ==
  ASSUME NoticeBounds, NoticeInv, NEW l \in Launches, ReadNotes(l) PROVE NoticeInv'
  <1> DEFINE change == launch[l].change
  <1>1. PICK d : d = [notes EXCEPT !.checked = @ \/ change[1] = "known",
                        !.known = IF change[1] = "known" THEN change[2] ELSE @,
                        !.notified = IF change[1] = "notified" THEN change[2] ELSE @,
                        !.auto = IF change[1] = "auto" THEN change[2] ELSE @]
    OBVIOUS
  <1>2. PICK q : q = [launch[l] EXCEPT !.step = "replace", !.seen = writes, !.draft = d]
    OBVIOUS
  <1>3. launch[l] \in LaunchRec /\ WellFormed(launch[l]) /\ Writing(launch[l])
        /\ notes \in NotesRec /\ writes \in Nat
    BY DEF NoticeInv, NoticeTypes, ReadNotes, Writing
  <1>4. launch' = [launch EXCEPT ![l] = q]
    BY <1>1, <1>2 DEF ReadNotes, NoticeInv, NoticeTypes
  <1>5. /\ d.known = IF change[1] = "known" THEN change[2] ELSE notes.known
        /\ d.notified = IF change[1] = "notified" THEN change[2] ELSE notes.notified
        /\ d.auto = IF change[1] = "auto" THEN change[2] ELSE notes.auto
    BY <1>1, <1>3 DEF NotesRec
  <1>6. d \in NotesRec
    <2>1. PICK b : b = (notes.checked \/ change[1] = "known")
      OBVIOUS
    <2>2. b \in BOOLEAN
      BY <2>1
    <2>3. d = [notes EXCEPT !.checked = b,
                 !.known = IF change[1] = "known" THEN change[2] ELSE @,
                 !.notified = IF change[1] = "notified" THEN change[2] ELSE @,
                 !.auto = IF change[1] = "auto" THEN change[2] ELSE @]
      BY <1>1, <2>1
    <2>4. /\ change[1] = "known" => change[2] \in Vers
          /\ change[1] = "notified" => change[2] \in Vers
          /\ change[1] = "auto" => change[2] \in BOOLEAN
      BY <1>3 DEF WellFormed
    <2> QED
      BY <1>3, <2>2, <2>3, <2>4 DEF NotesRec
  <1>7. q \in LaunchRec /\ q.step = "replace" /\ q.seen = writes /\ q.draft = d
        /\ q.told = launch[l].told /\ q.latest = launch[l].latest /\ q.change = change
        /\ q.next = launch[l].next
    BY <1>2, <1>3, <1>6 DEF LaunchRec
  <1>8. WellFormed(q) /\ Writing(q)
    BY <1>3, <1>7 DEF WellFormed, Writing
  <1>9. DraftFits(q)
    BY <1>3, <1>5, <1>7 DEF DraftFits
  <1>10. slips = {} => Learned(q)
    <2>1. slips = {} => Learned(launch[l])
      BY DEF NoticeInv, InTurn
    <2> QED
      BY <1>3, <1>7, <1>8, <2>1 DEF Learned, Writing
  <1>11. Telling(launch[l]) => Telling(q) /\ q.change[2] = launch[l].change[2]
    BY <1>7, <1>8 DEF Telling
  <1>12. UNCHANGED <<notes, writes, newest, wished, installed, printed, reprinted, slips>>
    BY DEF ReadNotes, World
  <1>13. installed \in Vers /\ printed \subseteq 1..MaxVersions /\ reprinted \in BOOLEAN
         /\ slips \subseteq {"overlap", "stale", "unwritten", "cut off"}
    BY DEF NoticeInv, NoticeTypes
  <1>14. Active(l)
    BY <1>3 DEF Active, Writing
  <1> QED
    BY <1>4, <1>8, <1>9, <1>10, <1>11, <1>12, <1>13, <1>14, UnwrittenKeeps

(* The write, or its failure.                                              *)
LEMMA ReplaceKeeps ==
  ASSUME NoticeBounds, NoticeInv, NEW l \in Launches, ReplaceNotes(l) PROVE NoticeInv'
  <1> DEFINE p == launch[l]
  <1>1. p \in LaunchRec /\ WellFormed(p) /\ Writing(p) /\ p.step = "replace" /\ DraftFits(p)
        /\ p.draft \in NotesRec /\ writes \in Nat /\ notes \in NotesRec /\ Active(l)
    BY DEF NoticeInv, NoticeTypes, ReplaceNotes, Writing, DraftsFit, LaunchRec, Active
  <1>2. p.next \in {"compare", "wish", "end"} /\ To(l, p.next)
    BY <1>1 DEF WellFormed, ReplaceNotes
  <1>3. PICK q : /\ launch' = [launch EXCEPT ![l] = q] /\ WellFormed(q) /\ ~Writing(q)
                 /\ q.step = (IF p.next = "end" THEN "none" ELSE p.next)
                 /\ q.told = (IF p.next = "end" THEN 0 ELSE p.told)
                 /\ q.latest = (IF p.next = "end" THEN 0 ELSE p.latest)
    BY <1>2, GoesTo
  <1>4. /\ launch' \in [Launches -> LaunchRec] /\ launch'[l] = q
        /\ \A k \in Launches \ {l} : launch'[k] = launch[k]
        /\ \A k \in Launches : WellFormed(launch'[k])
        /\ Active(l)' <=> q.step # "none"
        /\ \A k \in Launches \ {l} : Active(k)' <=> Active(k)
    BY <1>3, LaunchMoves DEF NoticeInv
  <1>5. wished' = IF p.change[1] = "auto" THEN p.change[2] ELSE wished
    BY DEF ReplaceNotes
  <1>6. wished' \in BOOLEAN
    BY <1>1, <1>5 DEF WellFormed, NoticeInv, NoticeTypes
  <1>7. UNCHANGED <<newest, installed, printed, reprinted>>
    BY DEF ReplaceNotes
  <1>8. \A k \in Launches : WellFormed(launch[k])'
    BY <1>4 DEF WellFormed, Writing
  <1>9. CASE /\ badWrites < MaxBadWrites /\ badWrites' = badWrites + 1
             /\ slips' = slips \cup {"unwritten"} /\ UNCHANGED <<notes, writes>>
    <2>1. NoticeTypes'
      BY <1>4, <1>6, <1>7, <1>8, <1>9 DEF NoticeInv, NoticeTypes
    <2>2. DraftsFit'
      BY <1>3, <1>4, <1>9 DEF NoticeInv, DraftsFit, DraftFits, Writing
    <2>3. AutoAsWished' /\ ToldOnce' /\ slips' # {}
      BY <1>9 DEF AutoAsWished, ToldOnce
    <2> QED
      BY <2>1, <2>2, <2>3 DEF NoticeInv
  <1>10. CASE /\ notes' = p.draft /\ writes' = writes + 1
              /\ slips' = slips \cup (IF p.seen # writes THEN {"stale"} ELSE {})
              /\ UNCHANGED badWrites
    <2>1. NoticeTypes'
      <3>1. slips' \subseteq {"overlap", "stale", "unwritten", "cut off"} /\ writes' \in Nat
        <4>1. slips \subseteq {"overlap", "stale", "unwritten", "cut off"}
          BY DEF NoticeInv, NoticeTypes
        <4>2. slips' \subseteq slips \cup {"stale"}
          BY <1>10
        <4>3. slips' \subseteq {"overlap", "stale", "unwritten", "cut off"}
          BY <4>1, <4>2
        <4>4. writes' \in Nat
          BY <1>1, <1>10
        <4> QED
          BY <4>3, <4>4
      <3> QED
        BY <1>1, <1>4, <1>6, <1>7, <1>8, <1>10, <3>1 DEF NoticeInv, NoticeTypes
    <2>2. DraftsFit'
      <3>1. ASSUME NEW k \in Launches, launch'[k].step = "replace"
            PROVE  launch'[k].seen <= writes' /\ launch'[k].seen # writes'
        <4>1. k # l
          BY <1>3, <1>4, <3>1 DEF Writing
        <4>2. launch[k].seen <= writes /\ launch[k].seen \in Nat
          BY <1>4, <3>1, <4>1 DEF NoticeInv, NoticeTypes, DraftsFit, DraftFits, LaunchRec
        <4> QED
          BY <1>1, <1>4, <1>10, <4>1, <4>2
      <3> QED
        BY <3>1 DEF DraftsFit, DraftFits
    <2>3. slips' \subseteq {"overlap"} => p.seen = writes /\ slips \subseteq {"overlap"}
      BY <1>10
    <2>4. AutoAsWished'
      <3>1. slips' \subseteq {"overlap"} => notes'.auto = wished'
        BY <1>1, <1>5, <1>10, <2>3 DEF DraftFits, NoticeInv, AutoAsWished
      <3> QED
        BY <3>1 DEF AutoAsWished
    <2>5. slips' = {} => slips = {} /\ p.seen = writes
      BY <1>10
    <2>6. ToldOnce'
      BY <1>7, <2>5 DEF NoticeInv, ToldOnce
    <2>7. ASSUME slips' = {} PROVE InTurn'
      <3>1. InTurn /\ p.seen = writes /\ Learned(p)
        BY <2>5, <2>7 DEF NoticeInv, InTurn
      <3>2. /\ notes'.known = IF p.change[1] = "known" THEN p.change[2] ELSE notes.known
            /\ notes'.notified = IF p.change[1] = "notified" THEN p.change[2] ELSE notes.notified
        BY <1>1, <1>10, <3>1 DEF DraftFits
      <3>3. \A k \in Launches \ {l} : ~Active(k) /\ ~Active(k)'
        BY <1>1, <1>4, <3>1 DEF InTurn, OneLaunch
      <3>4. OneLaunch'
        BY <3>3 DEF OneLaunch
      <3>5. \/ p.change[1] = "auto" /\ p.next = "end"
            \/ p.change[1] = "known" /\ p.next = "compare"
            \/ p.change[1] = "notified" /\ p.next = "wish"
        BY <1>1 DEF WellFormed
      <3>6. notes.known \in Nat /\ notes.notified \in Nat /\ newest \in Nat
        <4>1. {notes.known, notes.notified, newest} \subseteq Vers
          BY <1>1 DEF NotesRec, NoticeInv, NoticeTypes
        <4> QED
          BY <4>1, VersNat
      <3>7. notes.notified <= notes.known /\ notes.known <= newest
        BY <3>1 DEF InTurn
      <3>8. /\ p.change[1] = "known" => p.told = notes.notified /\ p.latest = p.change[2]
                                        /\ notes.known <= p.latest /\ p.latest <= newest
                                        /\ p.latest \in Nat
            /\ p.change[1] = "notified" => p.change[2] = notes.known
        <4>1. p.latest \in Nat
          BY <1>1, VersNat DEF LaunchRec
        <4> QED
          BY <1>1, <3>1, <4>1 DEF Learned
      <3>9. (notes.notified <= notes.known /\ notes.known <= newest)' /\ notes.notified <= notes'.notified
        BY <1>7, <3>2, <3>6, <3>7, <3>8
      <3>10. notes'.known \in Nat /\ notes'.notified \in Nat
        BY <3>2, <3>5, <3>6, <3>8
      <3>11. \A k \in Launches : Learned(launch[k])'
        <4>1. Learned(q)'
          BY <1>3, <3>2, <3>5, <3>8 DEF Learned, Writing
        <4>2. ASSUME NEW k \in Launches, k # l PROVE Learned(launch[k])'
          BY <3>3, <4>2 DEF Learned, Writing, Active
        <4> QED
          BY <1>4, <4>1, <4>2 DEF Learned, Writing
      <3>12. ASSUME NEW v \in printed PROVE v <= notes'.notified
        <4>3. v \in Nat
          <5>1. printed \subseteq 1..MaxVersions
            BY DEF NoticeInv, NoticeTypes
          <5> QED
            BY <5>1, VersNat
        <4>1. CASE v <= notes.notified
          BY <3>6, <3>9, <3>10, <4>1, <4>3
        <4>2. CASE \E k \in Launches : Telling(launch[k]) /\ v <= launch[k].change[2]
          <5>1. PICK k \in Launches : Telling(launch[k]) /\ v <= launch[k].change[2]
            BY <4>2
          <5>2. k = l
            BY <3>3, <5>1 DEF Active, Telling, Writing
          <5> QED
            BY <3>2, <5>1, <5>2 DEF Telling
        <4> QED
          BY <3>1, <4>1, <4>2 DEF InTurn
      <3> QED
        BY <1>7, <3>4, <3>9, <3>11, <3>12 DEF InTurn
    <2> QED
      BY <2>1, <2>2, <2>4, <2>6, <2>7 DEF NoticeInv
  <1> QED
    BY <1>9, <1>10 DEF ReplaceNotes

LEMMA CompareKeeps ==
  ASSUME NoticeBounds, NoticeInv, NEW l \in Launches, Compare(l) PROVE NoticeInv'
  <1> DEFINE v == launch[l].latest
  <1>1. UNCHANGED <<notes, writes, newest, wished, installed, slips>>
        /\ launch[l].step = "compare"
    BY DEF Compare, World
  <1>2. installed \in Vers /\ printed \subseteq 1..MaxVersions /\ reprinted \in BOOLEAN
        /\ slips \subseteq {"overlap", "stale", "unwritten", "cut off"}
        /\ launch[l] \in LaunchRec
    BY DEF NoticeInv, NoticeTypes
  <1>3. ~Telling(launch[l]) /\ Active(l)
    BY <1>1 DEF Telling, Writing, Active
  <1>4. CASE (To(l, "end") \/ To(l, "wish")) /\ UNCHANGED <<printed, reprinted>>
    <2>1. PICK q : /\ launch' = [launch EXCEPT ![l] = q] /\ WellFormed(q) /\ ~Writing(q)
                   /\ q.step \in {"none", "wish"}
      <3>1. CASE To(l, "end")
        BY <3>1, GoesTo
      <3>2. CASE To(l, "wish")
        BY <3>2, GoesTo
      <3> QED
        BY <1>4, <3>1, <3>2
    <2>2. DraftFits(q) /\ Learned(q)
      BY <2>1 DEF DraftFits, Learned
    <2> QED
      BY <1>1, <1>2, <1>3, <1>4, <2>1, <2>2, UnwrittenKeeps
  <1>5. CASE /\ ~(v <= launch[l].has) /\ v # launch[l].told
             /\ launch' = [launch EXCEPT ![l].step = "read", ![l].next = "wish",
                                         ![l].change = <<"notified", v>>]
             /\ printed' = printed \cup {v} /\ reprinted' = (reprinted \/ v \in printed)
    <2>1. PICK q : q = [launch[l] EXCEPT !.step = "read", !.next = "wish",
                          !.change = <<"notified", v>>]
      OBVIOUS
    <2>2. launch' = [launch EXCEPT ![l] = q]
      BY <1>5, <2>1 DEF NoticeInv, NoticeTypes
    <2>3. v \in Vers /\ launch[l].has \in Vers /\ launch[l].told \in Vers
      BY <1>2 DEF LaunchRec
    <2>4. <<"notified", v>> \in Changes
      BY <2>3 DEF Changes
    <2>5. /\ q \in LaunchRec /\ q.step = "read" /\ q.told = launch[l].told /\ q.latest = v
          /\ q.change = <<"notified", v>> /\ q.next = "wish"
      BY <1>2, <2>1, <2>4 DEF LaunchRec
    <2>6. q.change[1] = "notified" /\ q.change[2] = v
      BY <2>5
    <2>7. WellFormed(q) /\ DraftFits(q) /\ Telling(q)
      BY <2>3, <2>5, <2>6 DEF WellFormed, Writing, DraftFits, Telling
    <2>8. v \in Nat /\ launch[l].has \in Nat /\ v \in 1..MaxVersions
      BY <1>5, <2>3, VersNat DEF Vers
    <2>9. printed' \subseteq 1..MaxVersions /\ reprinted' \in BOOLEAN
      BY <1>2, <1>5, <2>8
    <2>10. slips = {} => Learned(q)
      <3>1. slips = {} => v = notes.known
        BY <1>1 DEF NoticeInv, InTurn, Learned
      <3> QED
        BY <2>5, <2>6, <3>1 DEF Learned, Writing
    <2>11. slips = {} => v \notin printed
      <3>1. SUFFICES ASSUME slips = {} PROVE v \notin printed
        OBVIOUS
      <3>2. v = notes.known /\ launch[l].told = notes.notified /\ notes.notified <= notes.known
        BY <1>1, <3>1 DEF NoticeInv, InTurn, Learned
      <3>3. notes.notified \in Nat /\ notes.notified < v
        BY <1>5, <2>3, <2>8, <3>2, VersNat
      <3>4. \A k \in Launches : ~Telling(launch[k])
        <4>1. ASSUME NEW k \in Launches, Telling(launch[k]) PROVE FALSE
          <5>1. Active(k)
            BY <4>1 DEF Telling, Writing, Active
          <5>2. k = l
            BY <1>3, <3>1, <5>1 DEF NoticeInv, InTurn, OneLaunch
          <5> QED
            BY <1>3, <4>1, <5>2
        <4> QED
          BY <4>1
      <3>5. \A u \in printed : u <= notes.notified
        BY <3>1, <3>4 DEF NoticeInv, InTurn
      <3> QED
        BY <2>8, <3>3, <3>5
    <2>12. slips = {} => (reprinted' => reprinted)
      BY <1>5, <2>11
    <2>13. \A u \in printed' \ printed : Telling(q) /\ u <= q.change[2]
      BY <1>5, <2>6, <2>7, <2>8
    <2> QED
      BY <1>1, <1>2, <1>3, <2>2, <2>7, <2>9, <2>10, <2>12, <2>13, UnwrittenKeeps
  <1> QED
    BY <1>4, <1>5 DEF Compare

LEMMA EndsKeep ==
  ASSUME NoticeBounds, NoticeInv, NEW l \in Launches, UpgradeIfWished(l) \/ CutOff(l)
  PROVE  NoticeInv'
  <1>1. UNCHANGED <<notes, writes, newest, wished, printed, reprinted>> /\ To(l, "end")
    BY DEF UpgradeIfWished, CutOff, World
  <1>2. installed \in Vers /\ printed \subseteq 1..MaxVersions /\ reprinted \in BOOLEAN
        /\ slips \subseteq {"overlap", "stale", "unwritten", "cut off"} /\ newest \in Vers
    BY DEF NoticeInv, NoticeTypes
  <1>3. launch' = [launch EXCEPT ![l] = Gone]
    BY <1>1 DEF To
  <1>4. CASE UpgradeIfWished(l)
    <2>1. launch[l].step = "wish" /\ slips' = slips
      BY <1>4 DEF UpgradeIfWished
    <2>2. ~Telling(launch[l]) /\ Active(l)
      BY <2>1 DEF Telling, Writing, Active
    <2>3. installed' \in installed..newest \/ installed' = installed
      BY <1>4 DEF UpgradeIfWished
    <2>4. installed' \in Vers
      <3>1. installed \in Nat /\ newest \in Nat /\ newest <= MaxVersions /\ MaxVersions \in Nat
        <4>1. installed \in Vers /\ newest \in Vers
          BY <1>2
        <4>2. MaxVersions \in Nat
          BY VersNat
        <4> QED
          BY <4>1, <4>2 DEF Vers
      <3>2. CASE installed' \in installed..newest
        <4>1. installed' \in Nat /\ installed' <= newest
          BY <3>1, <3>2
        <4> QED
          BY <3>1, <4>1 DEF Vers
      <3> QED
        BY <1>2, <2>3, <3>2
    <2> QED
      BY <1>1, <1>2, <1>3, <2>1, <2>2, <2>4, GoneFacts, UnwrittenKeeps
  <1>5. CASE CutOff(l)
    <2>1. slips' = slips \cup {"cut off"} /\ installed' = installed
      BY <1>5 DEF CutOff, World
    <2>2. slips' # {} /\ slips \subseteq slips'
          /\ slips' \subseteq {"overlap", "stale", "unwritten", "cut off"}
      BY <1>2, <2>1
    <2> QED
      BY <1>1, <1>2, <1>3, <2>1, <2>2, GoneFacts, UnwrittenKeeps
  <1> QED
    BY <1>4, <1>5

LEMMA ReleaseKeeps ==
  ASSUME NoticeBounds, NoticeInv, Release PROVE NoticeInv'
  <1>1. newest' = newest + 1 /\ newest' \in Vers /\ newest \in Nat
    <2>1. newest \in Vers /\ newest < MaxVersions /\ newest' = newest + 1
      BY DEF Release, NoticeInv, NoticeTypes
    <2> QED
      BY <2>1, VersNat DEF Vers
  <1>2. UNCHANGED <<notes, launch, writes, installed, printed, reprinted, wished, slips>>
    BY DEF Release
  <1>3. \A l \in Launches : WellFormed(launch[l])' <=> WellFormed(launch[l])
    BY <1>2 DEF WellFormed, Writing
  <1>4. NoticeTypes'
    BY <1>1, <1>2, <1>3 DEF NoticeInv, NoticeTypes
  <1>5. DraftsFit' /\ AutoAsWished' /\ ToldOnce'
    BY <1>2 DEF NoticeInv, DraftsFit, DraftFits, AutoAsWished, ToldOnce
  <1>6. ASSUME slips = {} PROVE InTurn'
    <2>1. notes.known \in Nat /\ notes.known <= newest'
      <3>1. notes.known \in Vers /\ notes.known <= newest
        BY <1>6 DEF NoticeInv, NoticeTypes, NotesRec, InTurn
      <3>2. notes.known \in Nat
        BY <3>1, VersNat
      <3> QED
        BY <1>1, <3>1, <3>2
    <2>2. ASSUME NEW l \in Launches PROVE Learned(launch[l])'
      <3>1. launch[l].latest \in Nat
        BY VersNat DEF NoticeInv, NoticeTypes, LaunchRec
      <3>2. launch[l].latest <= newest => launch[l].latest <= newest'
        BY <1>1, <3>1
      <3>3. Learned(launch[l])
        BY <1>6 DEF NoticeInv, InTurn
      <3> QED
        BY <1>2, <3>2, <3>3, Zenon DEF Learned, Writing
    <2>3. OneLaunch' /\ (\A v \in printed : v <= notes.notified
                        \/ \E l \in Launches : Telling(launch[l]) /\ v <= launch[l].change[2])'
      BY <1>2, <1>6 DEF NoticeInv, InTurn, OneLaunch, Active, Telling, Writing
    <2>4. (notes.notified <= notes.known)'
      BY <1>2, <1>6 DEF NoticeInv, InTurn
    <2> QED
      BY <1>2, <2>1, <2>2, <2>3, <2>4 DEF InTurn
  <1> QED
    BY <1>2, <1>4, <1>5, <1>6 DEF NoticeInv

LEMMA DayPassesKeeps ==
  ASSUME NoticeBounds, NoticeInv, DayPasses PROVE NoticeInv'
  <1>1. UNCHANGED <<writes, newest, installed, printed, reprinted, wished, slips>>
        /\ notes' = [notes EXCEPT !.checked = FALSE]
        /\ launch' = [l \in Launches |-> [launch[l] EXCEPT !.draft.checked = FALSE]]
    BY DEF DayPasses
  <1>2. notes' \in NotesRec /\ notes'.known = notes.known /\ notes'.notified = notes.notified
        /\ notes'.auto = notes.auto
    BY <1>1 DEF NoticeInv, NoticeTypes, NotesRec
  <1>3. ASSUME NEW l \in Launches
        PROVE  /\ WellFormed(launch'[l]) /\ launch'[l].step = launch[l].step
               /\ launch'[l].told = launch[l].told /\ launch'[l].latest = launch[l].latest
               /\ launch'[l].change = launch[l].change /\ launch'[l].seen = launch[l].seen
               /\ launch'[l].draft.known = launch[l].draft.known
               /\ launch'[l].draft.notified = launch[l].draft.notified
               /\ launch'[l].draft.auto = launch[l].draft.auto
    <2>1. WellFormed(launch[l]) /\ launch[l] \in LaunchRec /\ launch[l].draft \in NotesRec
      BY DEF NoticeInv, NoticeTypes, LaunchRec
    <2>2. PICK d : d = [launch[l].draft EXCEPT !.checked = FALSE]
      OBVIOUS
    <2>3. d \in NotesRec /\ d.known = launch[l].draft.known
          /\ d.notified = launch[l].draft.notified /\ d.auto = launch[l].draft.auto
      BY <2>1, <2>2 DEF NotesRec
    <2>4. PICK q : q = [launch[l] EXCEPT !.draft = d]
      OBVIOUS
    <2>5. launch'[l] = q
      BY <1>1, <2>2, <2>4
    <2>6. /\ q \in LaunchRec /\ q.step = launch[l].step /\ q.told = launch[l].told
          /\ q.latest = launch[l].latest /\ q.change = launch[l].change
          /\ q.seen = launch[l].seen /\ q.next = launch[l].next /\ q.draft = d
      BY <2>1, <2>3, <2>4 DEF LaunchRec
    <2>7. ASSUME q.step = "none" PROVE q = Gone
      <3>1. launch[l] = Gone
        BY <2>1, <2>6, <2>7 DEF WellFormed
      <3>2. d = [NoNotes EXCEPT !.checked = FALSE]
        BY <2>2, <3>1, GoneFacts
      <3>3. d = NoNotes
        BY <3>2 DEF NoNotes
      <3> QED
        BY <2>4, <3>1, <3>3 DEF Gone
    <2>8. WellFormed(q)
      BY <2>1, <2>6, <2>7 DEF WellFormed, Writing
    <2> QED
      BY <2>3, <2>5, <2>6, <2>8
  <1>4. launch' \in [Launches -> LaunchRec]
    BY <1>1, <1>3 DEF WellFormed
  <1>5. NoticeTypes'
    <2>1. \A l \in Launches : WellFormed(launch[l])'
      BY <1>3 DEF WellFormed, Writing
    <2> QED
      BY <1>1, <1>2, <1>4, <2>1 DEF NoticeInv, NoticeTypes
  <1>6. DraftsFit'
    <2>1. ASSUME NEW l \in Launches PROVE DraftFits(launch[l])'
      <3>1. DraftFits(launch[l])
        BY DEF NoticeInv, DraftsFit
      <3> QED
        BY <1>1, <1>2, <1>3, <3>1 DEF DraftFits
    <2> QED
      BY <2>1 DEF DraftsFit
  <1>7. AutoAsWished' /\ ToldOnce'
    BY <1>1, <1>2 DEF NoticeInv, AutoAsWished, ToldOnce
  <1>8. ASSUME slips = {} PROVE InTurn'
    <2>1. InTurn
      BY <1>8 DEF NoticeInv
    <2>2. \A l \in Launches : /\ Active(l)' <=> Active(l)
                              /\ Telling(launch[l])' <=> Telling(launch[l])
                              /\ Learned(launch[l])' <=> Learned(launch[l])
      BY <1>1, <1>2, <1>3 DEF Active, Telling, Learned, Writing
    <2>3. OneLaunch' /\ \A l \in Launches : Learned(launch[l])'
      BY <2>1, <2>2 DEF InTurn, OneLaunch
    <2>4. (notes.notified <= notes.known /\ notes.known <= newest)'
      BY <1>1, <1>2, <2>1 DEF InTurn
    <2>5. ASSUME NEW v \in printed
          PROVE  v <= notes'.notified
                 \/ \E l \in Launches : Telling(launch[l])' /\ v <= launch'[l].change[2]
      BY <1>2, <1>3, <2>1, <2>2 DEF InTurn
    <2> QED
      BY <1>1, <2>3, <2>4, <2>5 DEF InTurn
  <1> QED
    BY <1>1, <1>5, <1>6, <1>7, <1>8 DEF NoticeInv

LEMMA NoticeNextInv ==
  ASSUME NoticeBounds, NoticeInv, [NoticeNext]_noticeVars PROVE NoticeInv'
  <1>1. ASSUME NEW l \in Launches, LaunchTommy(l) \/ \E on \in BOOLEAN : Prefer(l, on)
        PROVE  NoticeInv'
    BY <1>1, BeginsKeep
  <1>2. ASSUME NEW l \in Launches, Look(l) PROVE NoticeInv'
    BY <1>2, LookKeeps
  <1>3. ASSUME NEW l \in Launches, AskPyPI(l) PROVE NoticeInv'
    BY <1>3, AskKeeps
  <1>4. ASSUME NEW l \in Launches, ReadNotes(l) PROVE NoticeInv'
    BY <1>4, ReadNotesKeeps
  <1>5. ASSUME NEW l \in Launches, ReplaceNotes(l) PROVE NoticeInv'
    BY <1>5, ReplaceKeeps
  <1>6. ASSUME NEW l \in Launches, Compare(l) PROVE NoticeInv'
    BY <1>6, CompareKeeps
  <1>7. ASSUME NEW l \in Launches, UpgradeIfWished(l) \/ CutOff(l) PROVE NoticeInv'
    BY <1>7, EndsKeep
  <1>8. CASE Release
    BY <1>8, ReleaseKeeps
  <1>9. CASE DayPasses
    BY <1>9, DayPassesKeeps
  <1>10. CASE UNCHANGED noticeVars
    <2>1. UNCHANGED <<notes, launch, writes, newest, installed, printed, reprinted, wished, slips>>
      BY <1>10 DEF noticeVars
    <2>2. \A l \in Launches : WellFormed(launch[l])' <=> WellFormed(launch[l])
      BY <2>1 DEF WellFormed, Writing
    <2>3. NoticeTypes' /\ DraftsFit' /\ AutoAsWished' /\ ToldOnce'
      BY <2>1, <2>2 DEF NoticeInv, NoticeTypes, DraftsFit, DraftFits, AutoAsWished, ToldOnce
    <2>4. InTurn' <=> InTurn
      BY <2>1 DEF InTurn, OneLaunch, Active, Learned, Telling, Writing
    <2> QED
      BY <2>1, <2>3, <2>4 DEF NoticeInv
  <1> QED
    BY <1>1, <1>2, <1>3, <1>4, <1>5, <1>6, <1>7, <1>8, <1>9, <1>10 DEF NoticeNext

LEMMA NoticeInvSound ==
  ASSUME NoticeBounds, NoticeInv PROVE NoticeTypeOK /\ ToldOnce /\ PreferenceKept
  <1>1. NoticeTypeOK
    BY DEF NoticeInv, NoticeTypes, NotesRec, LaunchRec, Vers, NoticeTypeOK
  <1>2. PreferenceKept
    BY DEF NoticeInv, AutoAsWished, PreferenceKept
  <1> QED
    BY <1>1, <1>2 DEF NoticeInv

(* A version is told of once unless launches overlap or a write is lost,   *)
(* and the update preference is what was last wished unless a write was    *)
(* overtaken or lost.                                                      *)
THEOREM NoticesAreRight == NoticeSpec => [](NoticeTypeOK /\ ToldOnce /\ PreferenceKept)
  <1>1. NoticeInit => NoticeInv
    BY NoticeInitInv, NoticeBounds
  <1>2. NoticeInv /\ [NoticeNext]_noticeVars => NoticeInv'
    BY NoticeNextInv, NoticeBounds
  <1>3. NoticeInv => NoticeTypeOK /\ ToldOnce /\ PreferenceKept
    BY NoticeInvSound, NoticeBounds
  <1> QED
    BY <1>1, <1>2, <1>3, PTL DEF NoticeSpec
-----------------------------------------------------------------------------
(* Whichever of the programs a behaviour runs, its starting, stopping,     *)
(* self-replacement and update notice keep what the run of all local       *)
(* programs checks of them.                                                *)
THEOREM ServicesAreSound == LocalSpec => []ServicesSound
  <1>1. LocalInit => LaunchInv /\ ReexecInv /\ NoticeInv
    <2>1. LocalInit => LaunchInit /\ ReexecInit /\ NoticeInit
      BY DEF LocalInit
    <2> QED
      BY <2>1, LaunchInitInv, ReexecInitInv, ReexecBounds, NoticeInitInv, NoticeBounds
  <1> DEFINE local == <<part, vars, launchVars, reexecVars, scopingVars, handoffVars, hookVars,
                        captureVars, dispatchVars, channelVars, proxyVars, sessionVars,
                        noticeVars>>
  <1>2. LaunchInv /\ ReexecInv /\ NoticeInv /\ [LocalNext]_local
          => LaunchInv' /\ ReexecInv' /\ NoticeInv'
    <2>1. [LocalNext]_local => [LaunchNext]_launchVars /\ [ReexecNext]_reexecVars
                               /\ [NoticeNext]_noticeVars
      BY DEF LocalNext
    <2> QED
      BY <2>1, LaunchNextInv, ReexecNextInv, ReexecBounds, NoticeNextInv, NoticeBounds
  <1>3. LaunchInv /\ ReexecInv /\ NoticeInv => ServicesSound
    BY LaunchInvProperties, ReexecInvSound, NoticeInvSound, NoticeBounds DEF ServicesSound
  <1> QED
    BY <1>1, <1>2, <1>3, PTL DEF LocalSpec

(* Whichever of the programs a behaviour runs, the gates, the registry and *)
(* the sweep of dispatches keep what the run checks of them.               *)
THEOREM DispatchesAreSound == LocalSpec => []DispatchSound
  <1>1. LocalInit => DispatchInv
    BY DispatchInitInv, DispatchBounds DEF LocalInit
  <1> DEFINE local == <<part, vars, launchVars, reexecVars, scopingVars, handoffVars, hookVars,
                        captureVars, dispatchVars, channelVars, proxyVars, sessionVars,
                        noticeVars>>
  <1>2. DispatchInv /\ [LocalNext]_local => DispatchInv'
    <2>1. [LocalNext]_local => [DispatchNext]_dispatchVars
      BY DEF LocalNext
    <2> QED
      BY <2>1, DispatchNextInv, DispatchBounds
  <1>3. DispatchInv => DispatchSound
    BY DEF DispatchInv, DispatchSound
  <1> QED
    BY <1>1, <1>2, <1>3, PTL DEF LocalSpec

(* Whichever of the programs a behaviour runs, the Stop hook, the proxy    *)
(* and the interactive run capture what the run checks of them.            *)
THEOREM TurnsAreCaptured == LocalSpec => []CaptureSound
  <1>1. LocalInit => CaptureInv /\ ProxyInv /\ SessionInv
    BY CaptureInitInv, CaptureBounds, ProxyInitInv, ProxyBounds, SessionInitInv DEF LocalInit
  <1> DEFINE local == <<part, vars, launchVars, reexecVars, scopingVars, handoffVars, hookVars,
                        captureVars, dispatchVars, channelVars, proxyVars, sessionVars,
                        noticeVars>>
  <1>2. CaptureInv /\ ProxyInv /\ SessionInv /\ [LocalNext]_local
          => CaptureInv' /\ ProxyInv' /\ SessionInv'
    <2>1. [LocalNext]_local => [CaptureNext]_captureVars /\ [ProxyNext]_proxyVars
                               /\ [SessionNext]_sessionVars
      BY DEF LocalNext
    <2> QED
      BY <2>1, CaptureNextInv, CaptureBounds, ProxyNextInv, ProxyBounds, SessionNextInv
  <1>3. CaptureInv /\ ProxyInv /\ SessionInv => CaptureSound
    BY CaptureInvSound, CaptureBounds, ProxyInvSound, ProxyBounds DEF SessionInv, CaptureSound
  <1> QED
    BY <1>1, <1>2, <1>3, PTL DEF LocalSpec
-----------------------------------------------------------------------------
(* What the launch commands, the hooks and a session count.                *)
Ordered == {"start", "stop", "restart", "install", "remove", "autostart"}
LaunchTallies == muddled \in BOOLEAN /\ commands \in 0..MaxCommands /\ crashes \in 0..MaxCrashes

LEMMA LaunchTalliesKept ==
  ASSUME LaunchTallies, [LaunchNext]_launchVars PROVE LaunchTallies'
  <1>1. /\ muddled' = muddled \/ muddled' = TRUE
           \/ Reboot \/ \E c \in Shells, cmd, where \in Ordered : Issue(c, cmd, where)
        /\ commands' = commands \/ (commands < MaxCommands /\ commands' = commands + 1)
        /\ crashes' = crashes \/ (crashes < MaxCrashes /\ crashes' = crashes + 1)
    <2>1. CASE UNCHANGED launchVars
      BY <2>1 DEF launchVars
    <2>2. CASE \E g \in Gateways :
                 \/ Bind(g) \/ WriteState(g) \/ BackendUp(g) \/ BackendLost(g)
                 \/ GatewayFails(g) \/ ClearState(g) \/ GatewayExits(g) \/ GatewayKilled(g)
      BY <2>2 DEF Bind, WriteState, BackendUp, BackendLost, GatewayFails, ClearState, GatewayExits,
                  GatewayKilled, Turn
    <2>3. CASE ServiceSpawns \/ Reboot
      BY <2>3 DEF ServiceSpawns, Reboot
    <2>4. CASE \E c \in Shells : Command(c)
      <3>1. PICK c \in Shells : Command(c)
        BY <2>4
      <3>2. \E cmd, where \in Ordered : Issue(c, cmd, where)
        BY <3>1 DEF Command, Ordered
      <3>3. commands < MaxCommands /\ commands' = commands + 1 /\ crashes' = crashes
        BY <3>2 DEF Issue
      <3> QED
        BY <3>2, <3>3
    <2>5. CASE \E c \in Shells :
                 \/ Start(c) \/ CheckNothingUp(c) \/ SpawnGateway(c) \/ WritePid(c)
                 \/ WaitForBoot(c) \/ WaitForService(c) \/ Stop(c) \/ SignalPids(c)
      BY <2>5 DEF Start, CheckNothingUp, SpawnGateway, WritePid, WaitForBoot, WaitForService, Stop,
                  SignalPids, Still
    <2>6. CASE \E c \in Shells :
                 \/ DropPid(c) \/ DropState(c) \/ Stopped(c) \/ Restart(c) \/ AwaitDown(c)
                 \/ InstallService(c) \/ RemoveService(c) \/ CommandDies(c)
      BY <2>6 DEF DropPid, DropState, Stopped, Restart, AwaitDown, InstallService, RemoveService,
                  CommandDies, Still
    <2> QED
      BY <2>1, <2>2, <2>3, <2>4, <2>5, <2>6 DEF LaunchNext
  <1>2. muddled' \in BOOLEAN
    <2>1. CASE Reboot
      <3>1. muddled' = (muddled \/ \E c \in Shells : shell[c] # Idle)
        BY <2>1 DEF Reboot
      <3>2. PICK b \in BOOLEAN : b = (\E c \in Shells : shell[c] # Idle)
        OBVIOUS
      <3>3. muddled' = (muddled \/ b)
        BY <3>1, <3>2
      <3> QED
        BY <3>3 DEF LaunchTallies
    <2>2. CASE \E c \in Shells, cmd, where \in Ordered : Issue(c, cmd, where)
      <3>1. muddled' = (muddled \/ \E d \in Shells : shell[d] # Idle)
        BY <2>2 DEF Issue
      <3>2. PICK b \in BOOLEAN : b = (\E d \in Shells : shell[d] # Idle)
        OBVIOUS
      <3>3. muddled' = (muddled \/ b)
        BY <3>1, <3>2
      <3> QED
        BY <3>3 DEF LaunchTallies
    <2> QED
      BY <1>1, <2>1, <2>2 DEF LaunchTallies
  <1>3. commands' \in 0..MaxCommands /\ crashes' \in 0..MaxCrashes
    BY <1>1, LaunchBounds DEF LaunchTallies
  <1> QED
    BY <1>2, <1>3 DEF LaunchTallies

LEMMA LaunchTyped == ASSUME LaunchInv, LaunchTallies PROVE LaunchTypeOK
  BY DEF LaunchInv, LaunchTypes, Phases, LaunchTallies, LaunchTypeOK

HookTallies == changes \in 0..MaxRuleChanges

LEMMA HookTalliesKept == ASSUME HookTallies, [HookNext]_hookVars PROVE HookTallies'
  <1>1. changes' = changes \/ (changes < MaxRuleChanges /\ changes' = changes + 1)
    <2>1. CASE UNCHANGED hookVars
      BY <2>1 DEF hookVars
    <2>2. CASE ChangeRules \/ ResetCounters
      BY <2>2 DEF ChangeRules, ResetCounters, ruleVars
    <2>3. CASE \E h \in Runs : FanOut(h) \/ ListOne(h) \/ GiveUpFile(h) \/ Recalled(h)
                               \/ ReadCounters(h) \/ OpenTemp(h)
      BY <2>3 DEF FanOut, ListOne, GiveUpFile, Recalled, ReadCounters, OpenTemp, ruleVars
    <2>4. CASE \E h \in Runs : WriteTemp(h) \/ Publish(h) \/ PublishFails(h)
                               \/ RecallFallsBack(h) \/ Enforce(h) \/ HookKilled(h)
      BY <2>4 DEF WriteTemp, Publish, PublishFails, RecallFallsBack, Enforce, HookKilled, ruleVars
    <2> QED
      BY <2>1, <2>2, <2>3, <2>4 DEF HookNext
  <1> QED
    BY <1>1, HookBounds DEF HookTallies

LEMMA HookTyped == ASSUME HookInv, HookTallies PROVE HookTypeOK
  <1>1. HookTypes
    BY DEF HookInv
  <1>2. \A n \in DOMAIN dir : dir[n] \in Runs \cup {NoFile}
    BY <1>1 DEF HookTypes
  <1>3. \A h \in Runs : /\ data[h].whole \in BOOLEAN
                        /\ run[h].kind \in Kinds \cup {"none"}
                        /\ run[h].fd \in Runs \cup {NoFile}
    BY <1>1 DEF HookTypes, RunType
  <1> QED
    BY <1>1, <1>2, <1>3 DEF HookTypes, HookTallies, HookTypeOK

SessionTallies ==
  /\ {memnos, promptFile, leaving} \subseteq BOOLEAN
  /\ mishap \subseteq {"no_harness", "outside", "impatient"}
  /\ written \in 0..MaxWritten /\ latestFile \in {"none", "own", "other"}
  /\ ingested \in [of : {"none", "own", "other"}, upTo : 0..MaxWritten]

LEMMA SessionTalliesInit == ASSUME SessionInit PROVE SessionTallies
  <1>1. memnos \in BOOLEAN /\ promptFile = FALSE /\ leaving = FALSE
    BY DEF SessionInit
  <1>2. {memnos, promptFile, leaving} \subseteq BOOLEAN
    BY <1>1
  <1>3. /\ mishap = {} /\ written = 0 /\ latestFile = "none"
        /\ ingested = [of |-> "none", upTo |-> 0]
    BY DEF SessionInit, NotIngested
  <1>4. /\ written \in 0..MaxWritten
        /\ ingested \in [of : {"none", "own", "other"}, upTo : 0..MaxWritten]
    BY <1>3, SessionBounds DEF SessionBounds
  <1> QED
    BY <1>2, <1>3, <1>4 DEF SessionTallies

LEMMA SessionTalliesKept == ASSUME SessionTallies, [SessionNext]_sessionVars PROVE SessionTallies'
  <1>1. /\ memnos' = memnos /\ promptFile' \in {promptFile, TRUE, FALSE}
        /\ leaving' \in {leaving, TRUE}
        /\ mishap' \subseteq mishap \cup {"no_harness", "outside", "impatient"}
        /\ latestFile' \in {latestFile, "own", "other"}
        /\ written' = written \/ (written < MaxWritten /\ written' = written + 1)
        /\ \/ ingested' = ingested \/ ingested' = NotIngested
           \/ ingested' = [of |-> latestFile, upTo |-> written]
    <2>1. CASE UNCHANGED sessionVars
      BY <2>1 DEF sessionVars
    <2>2. CASE CheckHarness \/ ResolveSecrets \/ WritePrompt \/ OpenChannel \/ ScopeWorkspace
      BY <2>2 DEF CheckHarness, ResolveSecrets, WritePrompt, OpenChannel, ScopeWorkspace, Aside
    <2>3. CASE SpawnHarness \/ NoHarness \/ ArmHandler \/ HarnessReturns \/ HarnessTooSlow
      BY <2>3 DEF SpawnHarness, NoHarness, ArmHandler, HarnessReturns, HarnessTooSlow, Aside
    <2>4. CASE RestoreHandler \/ UnlinkPrompt \/ GiveScopeBack \/ CaptureTranscript
      BY <2>4 DEF RestoreHandler, UnlinkPrompt, GiveScopeBack, CaptureTranscript, Aside
    <2>5. CASE TranscriptGrows \/ SessionHarnessEnds \/ OtherSessionWrites
      BY <2>5 DEF TranscriptGrows, SessionHarnessEnds, OtherSessionWrites
    <2>6. CASE KilledOutside \/ Interrupt \/ Terminate
      BY <2>6 DEF KilledOutside, Interrupt, Terminate, Impatient
    <2> QED
      BY <2>1, <2>2, <2>3, <2>4, <2>5, <2>6 DEF SessionNext
  <1>2. written' \in 0..MaxWritten
    BY <1>1, SessionBounds DEF SessionTallies
  <1>3. ingested' \in [of : {"none", "own", "other"}, upTo : 0..MaxWritten]
    BY <1>1, SessionBounds DEF SessionTallies, NotIngested
  <1>4. {memnos', promptFile', leaving'} \subseteq BOOLEAN
    <2>1. memnos' \in BOOLEAN
      BY <1>1 DEF SessionTallies
    <2>2. promptFile' \in BOOLEAN
      BY <1>1 DEF SessionTallies
    <2>3. leaving' \in BOOLEAN
      BY <1>1 DEF SessionTallies
    <2> QED
      BY <2>1, <2>2, <2>3
  <1>5. /\ mishap' \subseteq {"no_harness", "outside", "impatient"}
        /\ latestFile' \in {"none", "own", "other"}
    BY <1>1 DEF SessionTallies
  <1> QED
    BY <1>2, <1>3, <1>4, <1>5 DEF SessionTallies

LEMMA SessionTyped == ASSUME SessionInv, SessionTallies PROVE SessionTypeOK
  BY DEF SessionInv, SessionTypes, SessionTallies, SessionTypeOK, Waiting
-----------------------------------------------------------------------------
(* Scoped workspace files: the texts there are.                            *)
Written(st) == st.prior \in [Slots -> Content] /\ st.wrote \in [Slots -> Content]

ScopingTallies ==
  /\ edits \in 0..MaxEdits /\ recycled \subseteq dead
  /\ file \in [Slots -> Content] /\ latest \in [Slots -> NoText..Truncated]
  /\ Written(state) /\ Written(mem)

LEMMA TextsThere ==
  ASSUME ScopingBounds
  PROVE  /\ Plain(NoText) \in Content /\ Plain(Original) \in Content /\ Plain(Truncated) \in Content
         /\ \A n \in 0..MaxEdits : Edited(n) \in NoText..Truncated
         /\ Written(NoState)
  <1>1. /\ MaxEdits \in Nat /\ {NoText, Original, Truncated} \subseteq NoText..Truncated
        /\ \A n \in 0..MaxEdits : Edited(n) \in NoText..Truncated
    BY DEF ScopingBounds, NoText, Original, Truncated, Edited
  <1>2. \A t \in NoText..Truncated : Plain(t) \in Content
    BY DEF Plain, Content
  <1>3. Plain(NoText) \in Content /\ Plain(Original) \in Content /\ Plain(Truncated) \in Content
    BY <1>1, <1>2
  <1>4. Written(NoState)
    BY <1>3 DEF Written, NoState
  <1> QED
    BY <1>1, <1>3, <1>4

LEMMA ScopingTalliesInit == ASSUME ScopingBounds, ScopingInit PROVE ScopingTallies
  <1>1. file \in [Slots -> Content] /\ edits = 0 /\ recycled = {} /\ state = NoState /\ mem = NoState
    BY TextsThere DEF ScopingInit
  <1>2. \A c \in Content : c.text \in NoText..Truncated
    BY DEF Content
  <1>3. latest \in [Slots -> NoText..Truncated]
    BY <1>1, <1>2 DEF ScopingInit
  <1>4. edits \in 0..MaxEdits
    BY <1>1 DEF ScopingBounds
  <1> QED
    BY <1>1, <1>3, <1>4, TextsThere DEF ScopingTallies

(* What the steps of one dispatch write.                                   *)
LEMMA DispatchWrites ==
  ASSUME ScopingBounds, ScopingInv, ScopingTallies, NEW d \in Dispatches,
         \/ RunUnscoped(d) \/ DecideToScope(d) \/ EnterToAcquire(d)
         \/ FreshSnapshot(d) \/ Record(d) \/ HarnessExits(d)
         \/ ReleaseShared(d) \/ EnterToRelease(d) \/ ClearScopeState(d)
         \/ \E s \in Slots : RestoreAbandoned(d, s) \/ MergeBlock(d, s) \/ RestoreLast(d, s)
  PROVE  ScopingTallies'
  <1>1. UNCHANGED <<edits, latest, recycled, dead>>
    BY DEF RunUnscoped, DecideToScope, EnterToAcquire, FreshSnapshot, Record, HarnessExits,
           ReleaseShared, EnterToRelease, ClearScopeState, RestoreAbandoned, MergeBlock,
           RestoreLast, Restore, scopeGhosts
  <1>2. state \in ScopeState /\ mem \in ScopeState /\ file \in [Slots -> Content]
        /\ Written(state) /\ Written(mem) /\ Written(NoState)
    BY TextsThere DEF ScopingInv, ScopingTypes, ScopingTallies
  <1>3. file' \in [Slots -> Content] /\ Written(state') /\ Written(mem')
    <2>1. CASE RunUnscoped(d) \/ DecideToScope(d) \/ HarnessExits(d) \/ EnterToRelease(d)
               \/ ClearScopeState(d)
      BY <2>1, <1>2 DEF RunUnscoped, DecideToScope, HarnessExits, EnterToRelease, ClearScopeState
    <2>2. CASE EnterToAcquire(d)
      <3>1. /\ UNCHANGED <<file, state>>
            /\ mem'.prior = state.prior /\ mem'.wrote = state.wrote
        BY <2>2, <1>2 DEF EnterToAcquire, ScopeState
      <3> QED
        BY <1>2, <3>1 DEF Written
    <2>3. CASE FreshSnapshot(d)
      <3>1. /\ UNCHANGED <<file, state>>
            /\ mem'.prior = file /\ mem'.wrote = NoState.wrote
        BY <2>3 DEF FreshSnapshot, NoState
      <3> QED
        BY <1>2, <3>1 DEF Written
    <2>4. CASE Record(d)
      <3>1. /\ UNCHANGED file /\ mem' = NoState
            /\ state'.prior = mem.prior /\ state'.wrote = mem.wrote
        BY <2>4, <1>2 DEF Record, ScopeState
      <3> QED
        BY <1>2, <3>1 DEF Written
    <2>5. CASE ReleaseShared(d)
      <3>1. /\ UNCHANGED <<file, mem>>
            /\ state'.prior = state.prior /\ state'.wrote = state.wrote
        BY <2>5, <1>2 DEF ReleaseShared, ScopeState
      <3> QED
        BY <1>2, <3>1 DEF Written
    <2>6. ASSUME NEW s \in Slots, RestoreAbandoned(d, s) \/ RestoreLast(d, s)
          PROVE  file' \in [Slots -> Content] /\ Written(state') /\ Written(mem')
      <3>1. UNCHANGED <<state, mem>> /\ file' = GiveBack(s, mem)
        BY <2>6 DEF RestoreAbandoned, RestoreLast, Restore
      <3>2. mem.prior[s] \in Content
        BY <1>2 DEF Written
      <3>3. file' = file \/ file' = [file EXCEPT ![s] = mem.prior[s]]
        BY <3>1 DEF GiveBack
      <3> QED
        BY <1>2, <3>1, <3>2, <3>3
    <2>7. ASSUME NEW s \in Slots, MergeBlock(d, s)
          PROVE  file' \in [Slots -> Content] /\ Written(state') /\ Written(mem')
      <3>1. PICK m : m = [file[s] EXCEPT !.block = TRUE]
        OBVIOUS
      <3>2. m \in Content
        BY <1>2, <3>1 DEF Content
      <3>3. UNCHANGED state /\ file' = [file EXCEPT ![s] = m]
            /\ mem'.prior = mem.prior /\ mem'.wrote = [mem.wrote EXCEPT ![s] = m]
        BY <2>7, <1>2, <3>1 DEF MergeBlock, ScopeState
      <3> QED
        BY <1>2, <3>2, <3>3 DEF Written
    <2> QED
      BY <2>1, <2>2, <2>3, <2>4, <2>5, <2>6, <2>7
  <1> QED
    BY <1>1, <1>3 DEF ScopingTallies

LEMMA ScopingTalliesKept ==
  ASSUME ScopingBounds, ScopingInv, ScopingTallies, [ScopingNext]_scopingVars PROVE ScopingTallies'
  <1>1. CASE \E d \in Dispatches :
               \/ RunUnscoped(d) \/ DecideToScope(d) \/ EnterToAcquire(d)
               \/ FreshSnapshot(d) \/ Record(d) \/ HarnessExits(d)
               \/ ReleaseShared(d) \/ EnterToRelease(d) \/ ClearScopeState(d)
               \/ \E s \in Slots : RestoreAbandoned(d, s) \/ MergeBlock(d, s) \/ RestoreLast(d, s)
    BY <1>1, DispatchWrites
  <1>2. ASSUME NEW p, ProcessDies(p) PROVE ScopingTallies'
    <2>1. /\ UNCHANGED <<state, latest, edits>> /\ dead' = dead \cup {p}
          /\ recycled' \in {recycled, recycled \cup {p}} /\ mem' \in {mem, NoState}
          /\ file' = file \/ \E s \in left : file' = [file EXCEPT ![s] = Plain(Truncated)]
      BY <1>2 DEF ProcessDies
    <2>2. left \subseteq Slots
      BY DEF ScopingInv, ScopingTypes
    <2>3. file' \in [Slots -> Content]
      BY <2>1, <2>2, TextsThere DEF ScopingTallies
    <2>4. recycled' \subseteq dead'
      BY <2>1 DEF ScopingTallies
    <2> QED
      BY <2>1, <2>3, <2>4, TextsThere DEF ScopingTallies
  <1>3. ASSUME NEW s \in Slots, EditByHand(s) PROVE ScopingTallies'
    <2>1. /\ edits < MaxEdits /\ edits' = edits + 1
          /\ latest' = [latest EXCEPT ![s] = Edited(edits + 1)]
          /\ UNCHANGED <<state, mem, dead, recycled>>
      BY <1>3 DEF EditByHand
    <2>2. edits + 1 \in 0..MaxEdits
      BY <2>1, ScopingBounds DEF ScopingTallies, ScopingBounds
    <2>3. Edited(edits + 1) \in NoText..Truncated
      BY <2>2, TextsThere
    <2>4. file[s].block \in BOOLEAN
      BY DEF ScopingTallies, Content
    <2>5. PICK keeps \in {file[s].block, FALSE} :
            file' = [file EXCEPT ![s] = [text |-> Edited(edits + 1), block |-> keeps]]
      BY <1>3 DEF EditByHand
    <2>6. [text |-> Edited(edits + 1), block |-> keeps] \in Content
      BY <2>3, <2>4 DEF Content
    <2>7. file' \in [Slots -> Content] /\ latest' \in [Slots -> NoText..Truncated]
      BY <2>1, <2>3, <2>5, <2>6 DEF ScopingTallies
    <2> QED
      BY <2>1, <2>2, <2>7 DEF ScopingTallies
  <1>4. CASE WorkspaceBound \/ UNCHANGED scopingVars
    BY <1>4 DEF WorkspaceBound, scopingVars, scopeGhosts, ScopingTallies
  <1> QED
    BY <1>1, <1>2, <1>3, <1>4 DEF ScopingNext

LEMMA ScopingTyped ==
  ASSUME ScopingInv, ScopingTallies PROVE ScopingTypeOK
  <1>1. Cardinality({d \in Dispatches : at[d] \in Inside}) <= 1
    <2>1. CASE \A d \in Dispatches : at[d] \notin Inside
      <3>1. {d \in Dispatches : at[d] \in Inside} = {}
        BY <2>1
      <3> QED
        BY <3>1, FS_EmptySet
    <2>2. CASE \E d \in Dispatches : at[d] \in Inside
      <3>1. PICK e \in Dispatches : at[e] \in Inside
        BY <2>2
      <3>2. {d \in Dispatches : at[d] \in Inside} = {e}
        BY <3>1 DEF ScopingInv, OneInside
      <3> QED
        BY <3>2, FS_Singleton
    <2> QED
      BY <2>1, <2>2
  <1>2. \A st \in {state, mem} : /\ st.holders \subseteq Dispatches /\ st.signed \subseteq Slots
                                 /\ st.prior \in [Slots -> Content]
                                 /\ st.wrote \in [Slots -> Content]
    BY DEF ScopingInv, ScopingTypes, ScopeState, ScopingTallies, Written
  <1>3. \A d \in Dispatches :
          at[d] \in Inside \cup {"idle", "scoped", "unscoped", "running", "leaving", "done", "dead"}
    BY DEF ScopingInv, ScopingTypes, Places
  <1> QED
    BY <1>1, <1>2, <1>3 DEF ScopingInv, ScopingTypes, ScopingTallies, ScopingTypeOK
-----------------------------------------------------------------------------
(* Handoffs, the channel and dispatches: what they count.                  *)
HandoffTallies ==
  faults \in 0..MaxFaults /\ Len(handoffRows) <= MaxRows

LEMMA HandoffTalliesKept ==
  ASSUME HandoffBounds, HandoffInv, HandoffTallies, [HandoffNext]_handoffVars
  PROVE  HandoffTallies'
  <1>1. Len(handoffRows) \in Nat /\ MaxFaults \in Nat /\ MaxRows \in Nat
    BY DEF HandoffInv, HandoffTypes, HandoffBounds
  <1>2. CASE UNCHANGED handoffVars
    BY <1>2 DEF handoffVars, HandoffTallies
  <1>3. ASSUME NEW a \in Agents, NEW t \in Works, NEW fails \in BOOLEAN, Offer(a, t, fails)
        PROVE  HandoffTallies'
    <2>1. /\ fails => faults < MaxFaults
          /\ faults' = faults + IF fails THEN 1 ELSE 0
          /\ handoffRows' = handoffRows
      BY <1>3 DEF Offer
    <2>2. CASE fails
      BY <1>1, <2>1, <2>2 DEF HandoffTallies
    <2>3. CASE ~fails
      BY <1>1, <2>1, <2>3 DEF HandoffTallies
    <2> QED
      BY <2>2, <2>3
  <1>4. ASSUME NEW a \in Agents, NEW h \in 1..handoffs, NEW new \in States \ {"offered"},
               Transition(a, h, new)
        PROVE  HandoffTallies'
    BY <1>4 DEF Transition, HandoffTallies
  <1>5. ASSUME NEW a \in Agents, WriteHandoff(a) PROVE HandoffTallies'
    <2>1. PICK row : handoffRows' = Append(handoffRows, row)
      BY <1>5 DEF WriteHandoff
    <2>2. Len(handoffRows') = Len(handoffRows) + 1
      BY <2>1 DEF HandoffInv, HandoffTypes
    <2>3. Len(handoffRows) < MaxRows /\ faults' = faults
      BY <1>5 DEF WriteHandoff
    <2> QED
      BY <1>1, <2>2, <2>3 DEF HandoffTallies
  <1>6. ASSUME NEW a \in Agents, WriteFails(a) PROVE HandoffTallies'
    BY <1>1, <1>6 DEF WriteFails, HandoffTallies
  <1> QED
    BY <1>2, <1>3, <1>4, <1>5, <1>6 DEF HandoffNext

LEMMA HandoffTyped == ASSUME HandoffInv, HandoffTallies PROVE HandoffTypeOK
  <1>1. \A i \in DOMAIN handoffRows : handoffRows[i] \in Planned
    BY DEF HandoffInv, HandoffTypes
  <1>2. \A i \in DOMAIN handoffRows :
          /\ handoffRows[i].of \in 1..handoffs /\ handoffRows[i].task \in Works
          /\ handoffRows[i].state \in States /\ handoffRows[i].hop \in 1..HopLimit
    BY <1>1 DEF Planned
  <1>3. \A a \in Agents : turn[a] = NoTurn \/ turn[a] \in Planned
    BY DEF HandoffInv, HandoffTypes
  <1>4. \A a \in Agents : turn[a] = NoTurn \/ turn[a].hop \in 1..HopLimit
    BY <1>3 DEF Planned
  <1> QED
    BY <1>2, <1>4 DEF HandoffTallies, HandoffTypeOK

ChannelTallies ==
  /\ Len(sends) <= MaxSends /\ asking <= MaxSends /\ early \subseteq DOMAIN lines

LEMMA ChannelTalliesKept ==
  ASSUME ChannelBounds, ChannelInv, ChannelTallies, [ChannelNext]_channelVars
  PROVE  ChannelTallies'
  <1>1. /\ Len(sends) \in Nat /\ Len(lines) \in Nat /\ MaxSends \in Nat /\ asking \in Nat
        /\ DOMAIN lines = 1..Len(lines) /\ sends \in Seq([ok : BOOLEAN, gone : BOOLEAN])
        /\ lines \in Seq(LineKinds) /\ wire \in Seq(Nat) /\ asking \in {0, Len(sends) + 1}
    BY DEF ChannelBounds, ChannelInv, ChannelTypes, AnswersHonest
  <1>2. CASE \/ HarnessStarts \/ TaskPublished \/ HarnessDials \/ Accepts \/ AcceptTimesOut
             \/ SeesHangUp \/ HarnessStops \/ DrainThreadEnds \/ HarnessReads
             \/ UNCHANGED channelVars
    <2>1. UNCHANGED <<asking, sends, early, lines>>
      BY <1>2 DEF HarnessStarts, TaskPublished, HarnessDials, Accepts, AcceptTimesOut, SeesHangUp,
         HarnessStops, DrainThreadEnds, HarnessReads, inbound, outbound, channelVars
    <2> QED
      BY <2>1 DEF ChannelTallies
  <1>3. CASE HarnessWrites
    <2>1. PICK k \in LineKinds : lines' = Append(lines, k)
      BY <1>3 DEF HarnessWrites
    <2>2. DOMAIN lines' = 1..Len(lines) + 1
      BY <1>1, <2>1
    <2>3. DOMAIN lines \subseteq DOMAIN lines'
      BY <1>1, <2>2
    <2>4. UNCHANGED <<asking, sends, early>>
      BY <1>3 DEF HarnessWrites, outbound
    <2> QED
      BY <2>3, <2>4 DEF ChannelTallies
  <1>4. CASE Receives
    <2>1. wire # <<>> /\ early' \subseteq early \cup {Head(wire)} /\ UNCHANGED <<asking, sends, lines>>
      BY <1>4 DEF Receives, outbound
    <2>2. 1 \in DOMAIN wire /\ Head(wire) = wire[1]
      BY <1>1, <2>1
    <2>3. Head(wire) \in DOMAIN lines
      BY <1>1, <2>2 DEF ChannelInv, WireInOrder
    <2> QED
      BY <2>1, <2>3 DEF ChannelTallies
  <1>5. CASE ControlAsked
    <2>1. Len(sends) < MaxSends /\ asking' = Len(sends) + 1 /\ UNCHANGED <<sends, early, lines>>
      BY <1>5 DEF ControlAsked, inbound
    <2> QED
      BY <1>1, <2>1 DEF ChannelTallies
  <1>6. CASE ControlSends
    <2>1. asking # 0 /\ asking' = 0 /\ UNCHANGED <<early, lines>>
      BY <1>6 DEF ControlSends, inbound
    <2>2. PICK answer : sends' = Append(sends, answer)
      BY <1>6 DEF ControlSends
    <2>3. Len(sends') = Len(sends) + 1
      BY <1>1, <2>2
    <2>4. asking = Len(sends) + 1
      BY <1>1, <2>1
    <2> QED
      BY <1>1, <2>1, <2>3, <2>4 DEF ChannelTallies
  <1> QED
    BY <1>2, <1>3, <1>4, <1>5, <1>6 DEF ChannelNext

LEMMA ChannelTyped ==
  ASSUME ChannelBounds, ChannelInv, ChannelTallies PROVE ChannelTypeOK
  <1>1. /\ ChannelTypes /\ DOMAIN lines = 1..Len(lines) /\ DOMAIN sends = 1..Len(sends)
        /\ Len(sends) \in Nat
    BY DEF ChannelInv, ChannelTypes
  <1>2. Entries(wire) \cup Entries(heard) \cup early \subseteq DOMAIN lines
    BY <1>1 DEF ChannelInv, WireInOrder, ChannelTallies, Entries
  <1>3. Entries(outbox) \cup Entries(received) \subseteq DOMAIN sends
    BY DEF ChannelInv, AnswersHonest
  <1>4. asking \in 0..MaxSends /\ DOMAIN sends \subseteq 1..MaxSends
    BY <1>1 DEF ChannelTallies, ChannelTypes, ChannelBounds
  <1> QED
    BY <1>1, <1>2, <1>3, <1>4 DEF ChannelTypes, ChannelTypeOK

LEMMA DispatchTyped == ASSUME DispatchBounds, DispatchInv PROVE DispatchTypeOK
  <1>1. /\ DispatchTypes /\ MaxCommits \in Nat /\ Len(repo) \in Nat /\ Len(repo) <= MaxCommits
    BY BoundsOfDispatch DEF DispatchInv, DispatchTypes
  <1>2. base \in [Tasks -> -1..MaxCommits]
    BY <1>1 DEF DispatchTypes
  <1>3. tool.task \in Tasks \cup {NoTask} /\ tool.seen \in 0..MaxCommits
    BY <1>1 DEF DispatchTypes, ToolRec
  <1>4. InRegistry \in SUBSET published
    BY DEF DispatchInv, Numbered
  <1> QED
    BY <1>1, <1>2, <1>3, <1>4 DEF DispatchTypes, DispatchTypeOK
-----------------------------------------------------------------------------
LEMMA LaunchKeepsTypes == LaunchSpec => []LaunchTypeOK
  <1>1. LaunchInit => LaunchInv /\ LaunchTallies
    <2>1. LaunchInit => muddled = FALSE /\ commands = 0 /\ crashes = 0
      BY DEF LaunchInit
    <2>2. LaunchInit => commands \in 0..MaxCommands /\ crashes \in 0..MaxCrashes
      BY <2>1, LaunchBounds DEF LaunchBounds
    <2>3. LaunchInit => muddled \in BOOLEAN
      BY <2>1
    <2> QED
      BY <2>2, <2>3, LaunchInitInv DEF LaunchTallies
  <1>2. LaunchInv /\ LaunchTallies /\ [LaunchNext]_launchVars => (LaunchInv /\ LaunchTallies)'
    BY LaunchNextInv, LaunchTalliesKept
  <1>3. LaunchInv /\ LaunchTallies => LaunchTypeOK
    BY LaunchTyped
  <1> QED
    BY <1>1, <1>2, <1>3, PTL DEF LaunchSpec

LEMMA ScopingKeepsTypes == ScopingSpec => []ScopingTypeOK
  <1>1. ScopingInit => ScopingInv /\ ScopingTallies
    BY ScopingInitInv, ScopingTalliesInit, ScopingBounds
  <1>2. ScopingInv /\ ScopingTallies /\ [ScopingNext]_scopingVars
          => (ScopingInv /\ ScopingTallies)'
    BY ScopingNextInv, ScopingTalliesKept, ScopingBounds
  <1>3. ScopingInv /\ ScopingTallies => ScopingTypeOK
    BY ScopingTyped
  <1> QED
    BY <1>1, <1>2, <1>3, PTL DEF ScopingSpec

LEMMA HandoffsKeepTypes == HandoffSpec => []HandoffTypeOK
  <1>1. HandoffInit => HandoffInv /\ HandoffTallies
    BY InitHandoff, HandoffBounds DEF HandoffInit, HandoffTallies, HandoffBounds
  <1>2. HandoffInv /\ HandoffTallies /\ [HandoffNext]_handoffVars
          => (HandoffInv /\ HandoffTallies)'
    BY NextHandoff, HandoffTalliesKept, HandoffBounds
  <1>3. HandoffInv /\ HandoffTallies => HandoffTypeOK
    BY HandoffTyped
  <1> QED
    BY <1>1, <1>2, <1>3, PTL DEF HandoffSpec

LEMMA HooksKeepTypes == HookSpec => []HookTypeOK
  <1>1. HookInit => HookInv /\ HookTallies
    BY InitHook, HookBounds DEF HookInit, HookTallies, HookBounds
  <1>2. HookInv /\ HookTallies /\ [HookNext]_hookVars => (HookInv /\ HookTallies)'
    BY NextHook, HookTalliesKept
  <1>3. HookInv /\ HookTallies => HookTypeOK
    BY HookTyped
  <1> QED
    BY <1>1, <1>2, <1>3, PTL DEF HookSpec

LEMMA ChannelKeepsTypes == ChannelSpec => []ChannelTypeOK
  <1>1. ChannelInit => ChannelInv /\ ChannelTallies
    BY InitChannel, ChannelBounds DEF ChannelInit, ChannelTallies, ChannelBounds
  <1>2. ChannelInv /\ ChannelTallies /\ [ChannelNext]_channelVars
          => (ChannelInv /\ ChannelTallies)'
    BY NextChannel, ChannelTalliesKept, ChannelBounds
  <1>3. ChannelInv /\ ChannelTallies => ChannelTypeOK
    BY ChannelTyped, ChannelBounds
  <1> QED
    BY <1>1, <1>2, <1>3, PTL DEF ChannelSpec

LEMMA DispatchKeepsTypes == DispatchSpec => []DispatchTypeOK
  <1>1. DispatchInit => DispatchInv
    BY DispatchInitInv, DispatchBounds
  <1>2. DispatchInv /\ [DispatchNext]_dispatchVars => DispatchInv'
    BY DispatchNextInv, DispatchBounds
  <1>3. DispatchInv => DispatchTypeOK
    BY DispatchTyped, DispatchBounds
  <1> QED
    BY <1>1, <1>2, <1>3, PTL DEF DispatchSpec

LEMMA SessionKeepsTypes == SessionSpec => []SessionTypeOK
  <1>1. SessionInit => SessionInv /\ SessionTallies
    BY SessionInitInv, SessionTalliesInit
  <1>2. SessionInv /\ SessionTallies /\ [SessionNext]_sessionVars
          => (SessionInv /\ SessionTallies)'
    BY SessionNextInv, SessionTalliesKept
  <1>3. SessionInv /\ SessionTallies => SessionTypeOK
    BY SessionTyped
  <1> QED
    BY <1>1, <1>2, <1>3, PTL DEF SessionSpec

LocalPartNamed ==
  part \in {"gateway", "launch", "reexec", "scoping", "handoff", "hooks",
            "capture", "dispatch", "channel", "proxy", "session", "notice"}

LEMMA LocalPartsTyped ==
  ASSUME LocalPartNamed, TypeOK, LaunchTypeOK, ReexecTypeOK, ScopingTypeOK, HandoffTypeOK,
         HookTypeOK, CaptureTypeOK, DispatchTypeOK, ChannelTypeOK, ProxyTypeOK, SessionTypeOK,
         NoticeTypeOK
  PROVE  LocalTypeOK
  <1>1. CASE part \in {"gateway", "launch", "reexec", "scoping"}
    BY <1>1 DEF LocalTypeOK
  <1>2. CASE part \in {"handoff", "hooks", "capture", "dispatch"}
    BY <1>2 DEF LocalTypeOK
  <1>3. CASE part \in {"channel", "proxy", "session", "notice"}
    BY <1>3 DEF LocalTypeOK
  <1> QED
    BY <1>1, <1>2, <1>3 DEF LocalPartNamed

(* The type invariant of the programs on a user's machine, for every size  *)
(* of each: one dispatch at most is inside the workspace lock and a file   *)
(* has no text nobody gave it, no line is heard and no message received    *)
(* that was not sent, every handoff row is of a handoff that was offered   *)
(* and below the hop limit, a base is a commit there was at the launch.    *)
THEOREM TheProgramsKeepTheirTypes == LocalSpec => []LocalTypeOK
  <1>1. LocalInit =>
          /\ LocalPartNamed /\ Init /\ LaunchInit /\ ReexecInit /\ ScopingInit /\ HandoffInit
          /\ HookInit /\ CaptureInit /\ DispatchInit /\ ChannelInit /\ ProxyInit /\ SessionInit
          /\ NoticeInit
    BY DEF LocalInit, LocalPartNamed
  <1>2. ASSUME [LocalNext]_<<part, vars, launchVars, reexecVars, scopingVars, handoffVars, hookVars,
                             captureVars, dispatchVars, channelVars, proxyVars, sessionVars,
                             noticeVars>>
        PROVE  /\ [Next]_vars /\ [LaunchNext]_launchVars /\ [ReexecNext]_reexecVars
               /\ [ScopingNext]_scopingVars /\ [HandoffNext]_handoffVars /\ [HookNext]_hookVars
               /\ [CaptureNext]_captureVars /\ [DispatchNext]_dispatchVars
               /\ [ChannelNext]_channelVars /\ [ProxyNext]_proxyVars
               /\ [SessionNext]_sessionVars /\ [NoticeNext]_noticeVars
    BY <1>2 DEF LocalNext
  <1>3. ASSUME LocalPartNamed,
               [LocalNext]_<<part, vars, launchVars, reexecVars, scopingVars, handoffVars, hookVars,
                             captureVars, dispatchVars, channelVars, proxyVars, sessionVars,
                             noticeVars>>
        PROVE  LocalPartNamed'
    BY <1>3 DEF LocalNext, LocalPartNamed
  <1>4. LocalSpec =>
          /\ Init /\ [][Next]_vars /\ LaunchSpec /\ ReexecSpec /\ ScopingSpec /\ HandoffSpec
          /\ HookSpec /\ CaptureSpec /\ DispatchSpec /\ ChannelSpec /\ ProxySpec /\ SessionSpec
          /\ NoticeSpec
    BY <1>1, <1>2, PTL DEF LocalSpec, LaunchSpec, ReexecSpec, ScopingSpec, HandoffSpec, HookSpec,
       CaptureSpec, DispatchSpec, ChannelSpec, ProxySpec, SessionSpec, NoticeSpec
  <1>5. LocalSpec => []LocalPartNamed
    BY <1>1, <1>3, PTL DEF LocalSpec
  <1>6. GatewayInv => TypeOK
    BY DEF GatewayInv
  <1>7. Init /\ [][Next]_vars => []TypeOK
    BY <1>6, InitGateway, GatewayNext, PTL
  <1> QED
    BY <1>4, <1>5, <1>7, LocalPartsTyped, LaunchKeepsTypes, ReexecIsQuiet, ScopingKeepsTypes,
       HandoffsKeepTypes, HooksKeepTypes, HookKeepsBothSides, DispatchKeepsTypes,
       ChannelKeepsTypes, ProxyCapturesRightly, SessionKeepsTypes, NoticesAreRight, PTL
=============================================================================
