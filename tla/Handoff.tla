------------------------------ MODULE Handoff ------------------------------
(***************************************************************************)
(* Tommy's structured handoffs (mcp_server.py, issue 193): a task is       *)
(* offered from harness to harness as a chain of rows in a namespace.      *)
(* Every Tommy process reads the rows, checks, and appends one, with       *)
(* nothing held in between; the reading lists the oldest rows only.        *)
(***************************************************************************)
EXTENDS Naturals, Sequences, FiniteSets

CONSTANTS
  Agents,      \* Tommy processes
  Works,       \* underlying tasks
  HopLimit,    \* handoff_hop_limit
  ListLimit,   \* rows memories_by_type returns
  MaxRows,     \* bound: rows written
  MaxFaults    \* bound: failed reads and writes

ASSUME HandoffBounds ==
  {HopLimit, ListLimit, MaxRows, MaxFaults} \subseteq Nat /\ HopLimit > 0

VARIABLES
  handoffRows,    \* the namespace's handoff rows, in the order they were stored
  turn,     \* turn[a]: the row the agent is about to write, or NoTurn
  handoffs, \* handoff ids given out
  faults

handoffVars == <<handoffRows, turn, handoffs, faults>>

States == {"offered", "accepted", "in_progress", "completed", "escalated"}
Terminal == {"completed", "escalated"}
Transitions(s) ==
  CASE s = "offered"     -> {"accepted", "escalated"}
    [] s = "accepted"    -> {"in_progress", "escalated"}
    [] s = "in_progress" -> {"completed", "escalated"}
    [] OTHER             -> {}

(* read: rows stored when it decided; blind: it may not have seen them all.*)
NoTurn == [of |-> 0, read |-> 0, blind |-> FALSE]

HandoffInit ==
  /\ handoffRows = <<>> /\ turn = [a \in Agents |-> NoTurn]
  /\ handoffs = 0 /\ faults = 0

(* _handoff_records, sorted by hop and then by age: what a reader sees.    *)
Listed == {i \in DOMAIN handoffRows : i <= ListLimit}
Cut    == Len(handoffRows) > ListLimit
Last(S) == CHOOSE i \in S : \A j \in S :
             \/ handoffRows[j].hop < handoffRows[i].hop
             \/ handoffRows[j].hop = handoffRows[i].hop /\ j <= i
Hops(rows) == IF rows = {} THEN 0 ELSE handoffRows[Last(rows)].hop

Plans(a, row) == turn[a] = NoTurn /\ turn' = [turn EXCEPT ![a] = row]

(* tommy_handoff: the hops of the task over all its handoffs; a listing    *)
(* that fails counts as no rows at all.                                    *)
Offer(a, t, fails) ==
  LET rows == IF fails THEN {} ELSE {i \in Listed : handoffRows[i].task = t}
  IN /\ fails => faults < MaxFaults
     /\ faults' = faults + IF fails THEN 1 ELSE 0
     /\ Hops(rows) < HopLimit
     /\ handoffs' = handoffs + 1
     /\ Plans(a, [of |-> handoffs + 1, task |-> t, state |-> "offered",
                  hop |-> Hops(rows) + 1, read |-> Len(handoffRows),
                  blind |-> fails \/ Cut])
     /\ UNCHANGED handoffRows

(* A mutated transition that any state but the new one allows.             *)
AnyTransition(current, new) == new # current

Allowed(current, new) == new \in Transitions(current)

(* tommy_handoff_transition.                                               *)
Transition(a, h, new) ==
  LET rows == {i \in Listed : handoffRows[i].of = h}
      now  == handoffRows[Last(rows)]
  IN /\ rows # {} /\ Allowed(now.state, new)
     /\ now.hop < HopLimit
     /\ Plans(a, [of |-> h, task |-> now.task, state |-> new, hop |-> now.hop + 1,
                  read |-> Len(handoffRows), blind |-> Cut])
     /\ UNCHANGED <<handoffRows, handoffs, faults>>

(* _handoff_write.                                                         *)
Overlapped(row) ==
  \E i \in DOMAIN handoffRows : i > row.read /\ handoffRows[i].task = row.task
WriteHandoff(a) ==
  LET row == turn[a]
  IN /\ row # NoTurn /\ Len(handoffRows) < MaxRows
     /\ handoffRows' = Append(handoffRows, [row EXCEPT !.read = 0, !.blind = @ \/ Overlapped(row)])
     /\ turn' = [turn EXCEPT ![a] = NoTurn]
     /\ UNCHANGED <<handoffs, faults>>

(* The write fails before anything is stored, or the answer is lost.       *)
WriteFails(a) ==
  /\ turn[a] # NoTurn /\ faults < MaxFaults
  /\ faults' = faults + 1
  /\ turn' = [turn EXCEPT ![a] = NoTurn]
  /\ UNCHANGED <<handoffRows, handoffs>>

HandoffNext ==
  \E a \in Agents :
    \/ \E t \in Works, fails \in BOOLEAN : Offer(a, t, fails)
    \/ \E h \in 1..handoffs, new \in States \ {"offered"} : Transition(a, h, new)
    \/ WriteHandoff(a)
    \/ WriteFails(a)

HandoffSpec == HandoffInit /\ [][HandoffNext]_handoffVars

-----------------------------------------------------------------------------
(* Type invariant.                                                         *)
HandoffTypeOK ==
  /\ \A i \in DOMAIN handoffRows :
       /\ handoffRows[i].of \in 1..handoffs /\ handoffRows[i].task \in Works
       /\ handoffRows[i].state \in States /\ handoffRows[i].hop \in 1..HopLimit
  /\ \A a \in Agents : turn[a] = NoTurn \/ turn[a].hop \in 1..HopLimit
  /\ faults \in 0..MaxFaults /\ Len(handoffRows) <= MaxRows

(* The hop cap caps: two offers of a task stand at different hops, so at   *)
(* most HopLimit are ever made, unless one was made blind: while another   *)
(* agent's row of the task was under way, after a listing that failed, or  *)
(* one that was cut short.                                                 *)
OffersClimb ==
  \A i, j \in DOMAIN handoffRows :
    (/\ i < j /\ handoffRows[i].task = handoffRows[j].task
     /\ handoffRows[i].state = "offered" /\ handoffRows[j].state = "offered"
     /\ handoffRows[i].hop >= handoffRows[j].hop)
      => \E k \in i..j : handoffRows[k].blind

(* A handoff that ended gets no further row, unless one of its rows was    *)
(* written blind.                                                          *)
EndsOnce ==
  \A i, j \in DOMAIN handoffRows :
    (i < j /\ handoffRows[i].of = handoffRows[j].of /\ handoffRows[i].state \in Terminal)
      => \E k \in DOMAIN handoffRows : handoffRows[k].of = handoffRows[i].of /\ handoffRows[k].blind

HandoffsOrderly == OffersClimb /\ EndsOnce
=============================================================================
