------------------------------ MODULE MCControl ------------------------------
(* The tables of memnos_control and what relies on them, one to a          *)
(* behaviour: leases, the namespace registry, grants and roles, bindings,  *)
(* deferred nudges, constraints.  They share no variable; part says which  *)
(* one a behaviour runs, the others stay as they began.                    *)
EXTENDS Leases, Registry, Access, Bindings, Constraints, TLC

CONSTANTS
  sa, sb, alpha, beta,               \* leases
  na, nb, host1, host2,              \* registry
  pa, ka, own, star, nsp, req, adm1, adm2,   \* access
  m1, nsA, nsB, c1, c2, n1, n2,      \* bindings
  o, oa, oab, a1, a2, sl, r1, r2, r3, subj   \* constraints

MCSessions    == {sa, sb}
MCHolders     == {alpha, beta}
MCHolderOf    == sa :> alpha @@ sb :> beta
MCNames       == {na, nb}
MCHosts       == {host1, host2}
MCPrincipals  == {pa}
MCTokens      == {ka}
MCBearer      == ka :> pa
MCEntries     == {own, star}
MCResources   == {nsp}
MCCovers      == own :> {nsp} @@ star :> {nsp}
MCApiRequests == {req}
MCAdmins      == {adm1, adm2}
MCMachines    == {m1}
MCSpaces      == {nsA, nsB}
MCClients     == {c1, c2}
MCPairs       == {n1, n2}
MCSpaces3     == {o, oa, oab}
MCAbove       == {<<o, oa>>, <<o, oab>>, <<oa, oab>>}
MCEdges       == {<<o, oab>>}
MCAuthors     == {a1, a2}
MCSleepers    == {sl}
MCRules       == {r1, r2, r3}
MCSubjects    == {subj}

VARIABLE part

ControlInit ==
  /\ part \in {"leases", "registry", "access", "bindings", "nudges", "constraints"}
  /\ LeaseInit /\ RegInit /\ AccessInit /\ BindingInit /\ ConstraintInit
  /\ part # "registry" => old = {}
  /\ part # "access" =>
       /\ valid = Tokens /\ direct = [p \in Principals |-> NoGrants]
       /\ entriesOf = [i \in RoleIds |-> NoGrants]
       /\ membersOf = [i \in RoleIds |-> {}]
       /\ \A q \in ApiRequests : asks[q].right = "read"

(* Both processes with two events, one process with three.                 *)
TwoHostBound ==
  boot'[host2] = "start" \/ written' + jobs' + mishaps' <= 2

ControlNext ==
  /\ UNCHANGED part
  /\ IF part = "leases"   THEN LeaseNext  ELSE UNCHANGED leaseVars
  /\ IF part = "registry" THEN RegNext /\ TwoHostBound ELSE UNCHANGED regVars
  /\ IF part = "access"   THEN AccessNext ELSE UNCHANGED accessVars
  /\ IF part = "bindings" THEN BindingStep
     ELSE IF part = "nudges" THEN NudgeStep ELSE UNCHANGED bindingVars
  /\ IF part = "constraints" THEN ConstraintNext ELSE UNCHANGED constraintVars

(* The variables of the part that runs: the rest of a state never changes. *)
ControlView ==
  CASE part = "leases"   -> <<part, leaseVars>>
    [] part = "registry" -> <<part, regVars>>
    [] part = "access"   -> <<part, accessVars>>
    [] part = "constraints" -> <<part, constraintVars>>
    [] OTHER             -> <<part, bindingVars>>

ControlSpec ==
  ControlInit /\ [][ControlNext]_<<part, leaseVars, regVars, accessVars,
                                   bindingVars, constraintVars>>

-----------------------------------------------------------------------------
(* The variables of the part that runs have their types.                   *)
ControlTypeOK ==
  CASE part = "leases"   -> LeaseTypeOK
    [] part = "registry" -> RegTypeOK
    [] part = "access"   -> AccessTypeOK
    [] part = "constraints" -> ConstraintTypeOK
    [] OTHER             -> BindingTypeOK

(* What clients coordinate by: one session works on a leased item, a       *)
(* repository's writes go where it was bound, a nudge is shown once.       *)
CoordinationSound == OneWorker /\ RoutedAsBound /\ NudgesShownOnce
=============================================================================
