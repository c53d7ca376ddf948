--------------------------- MODULE ControlProofs ---------------------------
(***************************************************************************)
(* Proofs about the tables of memnos_control: who is served and refused    *)
(* (Access), who holds a lease (Leases), what the namespace registry lists *)
(* (Registry), where a bound client writes and what it is told (Bindings), *)
(* which constraints stand (Constraints); last, that the clients of all    *)
(* the tables together are coordinated and every table keeps its types     *)
(* (MCControl).                                                            *)
(***************************************************************************)
EXTENDS MCControl, TLAPS

-----------------------------------------------------------------------------
(* Access.  A request carries what it has seen: past authentication its    *)
(* token was valid at some moment, past authorization it had access too;   *)
(* what it was refused for, it lacked.                                     *)
Facts  == {"token", "access"}
Stages == {"idle", "arrived", "known", "allowed"} \cup Finished
Doing  == {"idle", "grant", "revoke", "add", "remove", "delete", "members", "role"}

RequestInv ==
  /\ stage \in [ApiRequests -> Stages]
  /\ held \in [ApiRequests -> SUBSET Facts] /\ lacked \in [ApiRequests -> SUBSET Facts]
  /\ \A r \in ApiRequests :
       /\ stage[r] = "known" => "token" \in held[r]
       /\ stage[r] \in {"allowed", "served"} => held[r] = Facts
       /\ stage[r] = "401" => "token" \in lacked[r]
       /\ stage[r] = "403" => "access" \in lacked[r]

TableInv ==
  /\ roles \in 0..MaxRoles /\ role \in 0..roles
  /\ entriesOf \in [RoleIds -> [Entries -> SUBSET Rights]]
  /\ membersOf \in [RoleIds -> SUBSET Principals]
  /\ op \in [Admins -> [do : Doing, id : 0..MaxRoles]]
  /\ \A a \in Admins : op[a].do # "idle" => op[a].id \in RoleIds
  /\ DeletedRolesGrantNothing

AccessInv == RequestInv /\ TableInv

LEMMA InitAccess == AccessInit => AccessInv
  <1> SUFFICES ASSUME AccessInit PROVE AccessInv
    OBVIOUS
  <1>1. RequestInv
    BY DEF AccessInit, RequestInv, Stages, Finished, Facts
  <1>2. TableInv
    <2>1. PICK E \in [Entries -> {{}, {"read"}, Rights}], M \in SUBSET Principals :
            /\ entriesOf = [i \in RoleIds |-> IF i = 1 THEN E ELSE NoGrants]
            /\ membersOf = [i \in RoleIds |-> IF i = 1 THEN M ELSE {}]
      BY DEF AccessInit
    <2>2. roles \in 0..MaxRoles /\ role \in 0..roles /\ 1 \in RoleIds
      BY AccessBounds DEF AccessInit, RoleIds
    <2>3. E \in [Entries -> SUBSET Rights] /\ NoGrants \in [Entries -> SUBSET Rights]
      BY DEF Rights, NoGrants
    <2>4. /\ entriesOf \in [RoleIds -> [Entries -> SUBSET Rights]]
          /\ membersOf \in [RoleIds -> SUBSET Principals]
      BY <2>1, <2>3
    <2>5. op \in [Admins -> [do : Doing, id : 0..MaxRoles]]
          /\ \A a \in Admins : op[a].do = "idle"
      BY AccessBounds DEF AccessInit, Idle, Doing
    <2>6. DeletedRolesGrantNothing
      BY <2>1 DEF AccessInit, DeletedRolesGrantNothing
    <2> QED
      BY <2>2, <2>4, <2>5, <2>6 DEF TableInv
  <1> QED
    BY <1>1, <1>2 DEF AccessInv

(* What a request has depends on the tables and on what it asks.           *)
LEMMA SameHas ==
  ASSUME UNCHANGED <<tables, asks>>, NEW r \in ApiRequests
  PROVE  Has(r)' = Has(r)
  BY DEF tables, Has, May, MayAdmin, Granted

LEMMA HasFacts ==
  ASSUME NEW r \in ApiRequests
  PROVE  /\ Has(r) \subseteq Facts /\ Has(r)' \subseteq Facts
         /\ "token" \in Has(r) <=> asks[r].token \in valid
         /\ "access" \in Has(r) <=> May(Bearer[asks[r].token], asks[r])
  BY DEF Has, Facts

(* Watching only adds to what a request has seen, and misses nothing of    *)
(* the state a step leads to.                                              *)
LEMMA Watched ==
  ASSUME RequestInv, Watch
  PROVE  /\ held' \in [ApiRequests -> SUBSET Facts]
         /\ lacked' \in [ApiRequests -> SUBSET Facts]
         /\ \A r \in ApiRequests :
              /\ held[r] \subseteq held'[r] /\ lacked[r] \subseteq lacked'[r]
              /\ stage'[r] # "idle" /\ stage[r] \notin Finished =>
                   /\ Has(r)' \subseteq held'[r]
                   /\ Facts \ Has(r)' \subseteq lacked'[r]
  <1> DEFINE now(q) == Has(q)'
  <1>1. \A q \in ApiRequests : now(q) \subseteq Facts
    BY HasFacts
  <1>2. /\ held' = [q \in ApiRequests |->
             IF stage'[q] = "idle" \/ stage[q] \in Finished THEN held[q]
             ELSE held[q] \cup now(q)]
        /\ lacked' = [q \in ApiRequests |->
             IF stage'[q] = "idle" \/ stage[q] \in Finished THEN lacked[q]
             ELSE lacked[q] \cup (Facts \ now(q))]
    BY DEF Watch, Facts
  <1>3. held \in [ApiRequests -> SUBSET Facts] /\ lacked \in [ApiRequests -> SUBSET Facts]
    BY DEF RequestInv
  <1> HIDE DEF now
  <1>4. held' \in [ApiRequests -> SUBSET Facts] /\ lacked' \in [ApiRequests -> SUBSET Facts]
    BY <1>1, <1>2, <1>3
  <1>5. ASSUME NEW r \in ApiRequests
        PROVE  /\ held[r] \subseteq held'[r] /\ lacked[r] \subseteq lacked'[r]
               /\ stage'[r] # "idle" /\ stage[r] \notin Finished =>
                    now(r) \subseteq held'[r] /\ Facts \ now(r) \subseteq lacked'[r]
    BY <1>2, <1>3
  <1> QED
    BY <1>4, <1>5 DEF now

(* A step of an administrator leaves the requests where they are.          *)
LEMMA WaitingKeeps ==
  ASSUME RequestInv, UNCHANGED stage, Watch
  PROVE  RequestInv'
  BY Watched DEF RequestInv, Facts

LEMMA RequestSteps ==
  ASSUME RequestInv, NEW r \in ApiRequests, Request(r)
  PROVE  RequestInv'
  <1>0. UNCHANGED <<tables, asks>> /\ Watch
    BY DEF Request, Arrive, Authenticate, Authorize, ServeRequest
  <1>1. PICK s \in Stages :
          /\ Reach(r, s)
          /\ s = "arrived" \/ (s = "known" /\ "token" \in Has(r))
             \/ (s = "401" /\ "token" \notin Has(r))
             \/ (s = "allowed" /\ stage[r] = "known" /\ "access" \in Has(r))
             \/ (s = "403" /\ "access" \notin Has(r))
             \/ (s = "served" /\ stage[r] = "allowed")
          /\ s # "idle" /\ stage[r] \notin Finished
    BY HasFacts DEF Request, Arrive, Authenticate, Authorize, ServeRequest, Stages,
                    Finished
  <1>2. Has(r)' = Has(r)
    BY <1>0, SameHas
  <1>3. /\ stage' \in [ApiRequests -> Stages] /\ stage'[r] = s
        /\ \A q \in ApiRequests \ {r} : stage'[q] = stage[q]
    BY <1>1 DEF Reach, RequestInv
  <1>4. Has(r) \subseteq held'[r] /\ Facts \ Has(r) \subseteq lacked'[r]
    BY <1>0, <1>1, <1>2, <1>3, Watched
  <1>5. /\ s = "known" => "token" \in held'[r]
        /\ s \in {"allowed", "served"} => held'[r] = Facts
        /\ s = "401" => "token" \in lacked'[r]
        /\ s = "403" => "access" \in lacked'[r]
    BY <1>0, <1>1, <1>4, Watched DEF RequestInv, Facts
  <1> QED
    BY <1>0, <1>3, <1>5, Watched DEF RequestInv, Facts

-----------------------------------------------------------------------------
(* The tables: a deleted role's rows stay gone.                            *)
LEMMA Emptied ==
  ASSUME NEW e \in Entries PROVE [NoGrants EXCEPT ![e] = {}] = NoGrants
  BY DEF NoGrants

LEMMA TableSteps ==
  ASSUME TableInv, [AccessNext]_accessVars
  PROVE  TableInv'
  <1> USE DEF TableInv
  <1>0. \A i \in RoleIds \ {role} : entriesOf[i] = NoGrants /\ membersOf[i] = {}
    BY DEF DeletedRolesGrantNothing
  <1>1. CASE UNCHANGED <<role, roles, entriesOf, membersOf, op>>
    BY <1>1 DEF DeletedRolesGrantNothing
  <1>2. CASE CreateRole
    BY <1>0, <1>2, AccessBounds DEF CreateRole, DeletedRolesGrantNothing, RoleIds
  <1>3. ASSUME NEW a \in Admins, LookUpRole(a) PROVE TableInv'
    <2>1. PICK d \in {"grant", "revoke", "add", "remove", "delete"} :
            op' = [op EXCEPT ![a] = [do |-> d, id |-> role]]
      BY <1>3 DEF LookUpRole
    <2>2. UNCHANGED <<role, roles, entriesOf, membersOf>> /\ role \in RoleIds
      BY <1>3, AccessBounds DEF LookUpRole, tables, RoleIds
    <2>3. [do |-> d, id |-> role] \in [do : Doing, id : 0..MaxRoles]
      BY <2>2 DEF Doing, RoleIds
    <2> QED
      BY <2>1, <2>2, <2>3 DEF DeletedRolesGrantNothing
  <1>4. ASSUME NEW a \in Admins, NEW d \in Doing, Then(a, d), d # "idle" => op[a].do # "idle"
        PROVE  /\ op' \in [Admins -> [do : Doing, id : 0..MaxRoles]]
               /\ \A b \in Admins : op'[b].do # "idle" => op'[b].id \in RoleIds
    <2>1. Idle \in [do : Doing, id : 0..MaxRoles] /\ Idle.do = "idle"
      BY AccessBounds DEF Idle, Doing
    <2>2. op[a] \in [do : Doing, id : 0..MaxRoles]
      OBVIOUS
    <2>3. /\ [op[a] EXCEPT !.do = d] \in [do : Doing, id : 0..MaxRoles]
          /\ [op[a] EXCEPT !.do = d].id = op[a].id
      BY <2>2
    <2>4. CASE d = "idle"
      BY <1>4, <2>1, <2>4 DEF Then
    <2>5. CASE d # "idle"
      <3>1. op' = [op EXCEPT ![a] = [op[a] EXCEPT !.do = d]]
        BY <1>4, <2>5 DEF Then
      <3> QED
        BY <1>4, <2>3, <2>5, <3>1
    <2> QED
      BY <2>4, <2>5
  <1>5. {"idle", "members", "role"} \subseteq Doing
    BY DEF Doing
  <1>6. ASSUME NEW a \in Admins, RoleGrant(a) PROVE TableInv'
    <2>1. UNCHANGED <<role, roles, membersOf>> /\ Then(a, "idle") /\ op[a].id \in RoleIds
      BY <1>6 DEF RoleGrant
    <2>2. CASE UNCHANGED entriesOf
      BY <1>4, <1>5, <2>1, <2>2 DEF DeletedRolesGrantNothing
    <2>3. CASE \E e \in Entries, may \in {{"read"}, Rights} :
                 role = op[a].id /\ entriesOf' = [entriesOf EXCEPT ![op[a].id][e] = may]
      BY <1>0, <1>4, <1>5, <2>1, <2>3 DEF DeletedRolesGrantNothing, Rights
    <2> QED
      BY <1>6, <2>2, <2>3 DEF RoleGrant
  <1>7. ASSUME NEW a \in Admins, RoleRevoke(a) PROVE TableInv'
    BY <1>0, <1>4, <1>5, <1>7, Emptied DEF RoleRevoke, DeletedRolesGrantNothing
  <1>8. ASSUME NEW a \in Admins, RoleMember(a) PROVE TableInv'
    BY <1>0, <1>4, <1>5, <1>8 DEF RoleMember, DeletedRolesGrantNothing
  <1>9. ASSUME NEW a \in Admins, DeleteRoleGrants(a) PROVE TableInv'
    <2>1. NoGrants \in [Entries -> SUBSET Rights]
      BY DEF NoGrants
    <2> QED
      BY <1>0, <1>4, <1>5, <1>9, <2>1 DEF DeleteRoleGrants, DeletedRolesGrantNothing
  <1>10. ASSUME NEW a \in Admins, DeleteRoleMembers(a) PROVE TableInv'
    BY <1>0, <1>4, <1>5, <1>10 DEF DeleteRoleMembers, DeletedRolesGrantNothing
  <1>11. ASSUME NEW a \in Admins, DeleteRole(a) PROVE TableInv'
    BY <1>0, <1>4, <1>5, <1>11 DEF DeleteRole, DeletedRolesGrantNothing
  <1>12. ASSUME NEW a \in Admins, AdminDies(a) PROVE TableInv'
    BY <1>4, <1>5, <1>12 DEF AdminDies, tables, DeletedRolesGrantNothing
  <1> QED
    BY <1>1, <1>2, <1>3, <1>6, <1>7, <1>8, <1>9, <1>10, <1>11, <1>12
    DEF AccessNext, accessVars, tables, requests, Request, Arrive, Authenticate,
        Authorize, ServeRequest, SetToken, SetGrant, DropGrantsOn, RoleStatement

LEMMA NextRequest ==
  ASSUME RequestInv, [AccessNext]_accessVars
  PROVE  RequestInv'
  <1>1. CASE UNCHANGED accessVars
    BY <1>1 DEF accessVars, requests, RequestInv
  <1>2. ASSUME NEW r \in ApiRequests, Request(r) PROVE RequestInv'
    BY <1>2, RequestSteps
  <1>3. CASE UNCHANGED stage /\ Watch
    BY <1>3, WaitingKeeps
  <1> QED
    BY <1>1, <1>2, <1>3
    DEF AccessNext, requests, SetToken, SetGrant, DropGrantsOn, CreateRole,
        RoleStatement, LookUpRole, RoleGrant, RoleRevoke, RoleMember,
        DeleteRoleGrants, DeleteRoleMembers, DeleteRole, AdminDies

(* Who is served had a valid token and access while being handled, who is  *)
(* refused lacked what the refusal says, whatever administrators change in *)
(* between; a role that is gone grants nothing, however its deletion       *)
(* interleaves with grants, members and the creation of the next one.      *)
THEOREM ServedAndRefusedRightly == AccessSpec => []AccessSound
  <1>1. AccessInv => AccessSound
    BY DEF AccessInv, RequestInv, TableInv, AccessSound, ServedRightly,
       RefusedRightly,
           Facts
  <1>2. AccessInv /\ [AccessNext]_accessVars => AccessInv'
    BY TableSteps, NextRequest DEF AccessInv
  <1> QED
    BY <1>1, <1>2, InitAccess, PTL DEF AccessSpec
-----------------------------------------------------------------------------
(* Leases.  A session that works by its own leave works under a row that   *)
(* carries its name and does not expire before it was told; so does one    *)
(* whose grant is still on its way.                                        *)
CallFields == {"id", "by", "verb", "ttl", "phase", "at", "yes", "told"}

CallOK(c) ==
  /\ DOMAIN c = CallFields
  /\ c.id \in Nat /\ 0 < c.id /\ c.by \in Sessions /\ c.verb \in Verbs
  /\ c.ttl \in Nat /\ c.at \in Nat /\ c.told \in Nat

LeaseTypes ==
  /\ clock \in Nat /\ made \in Nat
  /\ lease \in [holder : Holders, expires : Nat] \cup {NoLease}
  /\ awaited \in [Sessions -> Nat] /\ until \in [Sessions -> Nat]
  /\ undercut \subseteq Sessions
  /\ \A c \in calls : CallOK(c)

IdsUnique ==
  /\ \A c, d \in calls : c.id = d.id => c = d
  /\ \A c \in calls : c.id <= made

CallsLag ==        \* statements read the clock before; answers are awaited
  \A c \in calls :
    /\ c.at <= clock
    /\ c.phase = "done" => awaited[c.by] = c.id
    /\ c.verb = "acquire" /\ awaited[c.by] = c.id => until[c.by] <= clock

Protects(s, e) ==
  lease # NoLease /\ lease.holder = HolderOf[s] /\ e <= lease.expires

Protected ==
  /\ \A s \in Sessions \ undercut : clock < until[s] => Protects(s, until[s])
  /\ \A c \in calls :
       c.phase = "done" /\ c.by \notin undercut /\ clock < c.told
         => Protects(c.by, c.told)

LeaseInv == LeaseTypes /\ IdsUnique /\ CallsLag /\ Protected

LEMMA InitLease == LeaseInit => LeaseInv
  BY DEF LeaseInit, LeaseInv, LeaseTypes, IdsUnique, CallsLag, Protected

(* The call that is finished is the only one that changes: it is answered  *)
(* to a session that waits, and forgotten otherwise.                       *)
LEMMA Finishing ==
  ASSUME LeaseTypes, NEW c \in calls, NEW yes \in BOOLEAN, Finish(c, yes)
  PROVE  \/ ~Awaited(c) /\ calls' = calls \ {c}
         \/ /\ Awaited(c)
            /\ \E d : /\ calls' = (calls \ {c}) \cup {d}
                      /\ CallOK(d) /\ d.id = c.id /\ d.by = c.by /\ d.verb = c.verb
                      /\ d.phase = "done" /\ d.at = c.at
                      /\ d.told = IF yes /\ c.verb # "release" THEN c.at + c.ttl ELSE 0
  <1> DEFINE told == IF yes /\ c.verb # "release" THEN c.at + c.ttl ELSE 0
             d == [c EXCEPT !.phase = "done", !.yes = yes, !.told = told]
  <1>1. CallOK(c)
    BY DEF LeaseTypes
  <1>2. told \in Nat
    BY <1>1 DEF CallOK
  <1>3. Awaited(c) => calls' = (calls \ {c}) \cup {d}
    BY DEF Finish, Becomes
  <1>4. ~Awaited(c) => calls' = calls \ {c}
    BY DEF Finish
  <1> HIDE DEF told
  <1>5. /\ CallOK(d) /\ d.id = c.id /\ d.by = c.by /\ d.verb = c.verb
        /\ d.phase = "done" /\ d.at = c.at /\ d.told = told
    BY <1>1, <1>2 DEF CallOK, CallFields
  <1> HIDE DEF d
  <1> QED
    BY <1>3, <1>4, <1>5 DEF told

(* The ids and the waiting sessions, over every step that serves a call.   *)
LEMMA ServedCalls ==
  ASSUME LeaseInv, NEW c \in calls, NEW d,
         CallOK(d), d.id = c.id, d.by = c.by, d.verb = c.verb, d.at <= clock,
         d.phase = "done" => awaited[c.by] = c.id,
         UNCHANGED <<clock, made, awaited, until>>,
         \/ calls' = calls \ {c}
         \/ calls' = (calls \ {c}) \cup {d}
  PROVE  (\A b \in calls' : CallOK(b)) /\ IdsUnique' /\ CallsLag'
  BY DEF LeaseInv, LeaseTypes, IdsUnique, CallsLag

LEMMA LeaseServes ==
  ASSUME LeaseInv, NEW c \in calls,
         LeaseStatement(c) \/ LeaseAcquire(c) \/ LeaseHeartbeat(c) \/ LeaseRelease(c)
  PROVE  LeaseInv'
  <1>0. /\ CallOK(c) /\ c.id <= made /\ c.at <= clock
        /\ c.phase = "done" => awaited[c.by] = c.id
        /\ clock \in Nat /\ made \in Nat
        /\ awaited \in [Sessions -> Nat] /\ until \in [Sessions -> Nat]
        /\ lease \in [holder : Holders, expires : Nat] \cup {NoLease}
        /\ undercut \subseteq Sessions
    BY DEF LeaseInv, LeaseTypes, IdsUnique, CallsLag
  <1>1. UNCHANGED <<clock, made, awaited, until>>
    BY DEF LeaseStatement, LeaseAcquire, LeaseHeartbeat, LeaseRelease
  <1>2. CASE LeaseStatement(c)
    <2> DEFINE d == [c EXCEPT !.phase = "begun", !.at = clock]
    <2>1. calls' = (calls \ {c}) \cup {d} /\ UNCHANGED <<lease, undercut>>
      BY <1>2 DEF LeaseStatement, Becomes
    <2>2. /\ CallOK(d) /\ d.id = c.id /\ d.by = c.by /\ d.verb = c.verb
          /\ d.phase = "begun" /\ d.at = clock
      BY <1>0 DEF CallOK, CallFields
    <2> HIDE DEF d
    <2>3. (\A b \in calls' : CallOK(b)) /\ IdsUnique' /\ CallsLag'
      BY <1>0, <1>1, <2>1, <2>2, ServedCalls
    <2>4. Protected'
      BY <1>1, <2>1, <2>2 DEF LeaseInv, Protected, Protects
    <2> QED
      BY <1>0, <1>1, <2>1, <2>3, <2>4 DEF LeaseInv, LeaseTypes
  <1>3. ASSUME NEW yes \in BOOLEAN, Finish(c, yes)
        PROVE  /\ (\A b \in calls' : CallOK(b)) /\ IdsUnique' /\ CallsLag'
               /\ \A b \in calls' :
                    \/ b \in calls
                    \/ /\ b.by = c.by /\ b.phase = "done" /\ Awaited(c)
                       /\ b.told = IF yes /\ c.verb # "release" THEN c.at + c.ttl ELSE 0
    <2>1. CASE ~Awaited(c) /\ calls' = calls \ {c}
      BY <1>0, <1>1, <2>1, ServedCalls
    <2>2. CASE Awaited(c) /\ ~(~Awaited(c) /\ calls' = calls \ {c})
      <3>1. PICK d : /\ calls' = (calls \ {c}) \cup {d}
                     /\ CallOK(d) /\ d.id = c.id /\ d.by = c.by /\ d.verb = c.verb
                     /\ d.phase = "done" /\ d.at = c.at
                     /\ d.told = IF yes /\ c.verb # "release" THEN c.at + c.ttl ELSE 0
        BY <1>3, <2>2, Finishing DEF LeaseInv
      <3>2. (\A b \in calls' : CallOK(b)) /\ IdsUnique' /\ CallsLag'
        BY <1>0, <1>1, <2>2, <3>1, ServedCalls DEF Awaited
      <3> QED
        BY <2>2, <3>1, <3>2
    <2> QED
      BY <1>3, <2>1, <2>2, Finishing DEF LeaseInv
  <1>4. ASSUME Finish(c, FALSE), UNCHANGED <<lease, undercut>> PROVE LeaseInv'
    <2>1. \A b \in calls' : b \in calls \/ b.told = 0
      BY <1>3, <1>4
    <2>2. Protected'
      BY <1>0, <1>1, <1>4, <2>1 DEF LeaseInv, Protected, Protects
    <2> QED
      BY <1>0, <1>1, <1>3, <1>4, <2>2 DEF LeaseInv, LeaseTypes
  <1>5. CASE LeaseAcquire(c)
    <2>1. CASE LeaseActive(c.at)
      BY <1>4, <1>5, <2>1 DEF LeaseAcquire
    <2>2. CASE ~LeaseActive(c.at)
      <3>1. /\ lease' = [holder |-> HolderOf[c.by], expires |-> c.at + c.ttl]
            /\ Finish(c, TRUE)
            /\ undercut' = IF Awaited(c) THEN undercut \ {c.by} ELSE undercut
        BY <1>5, <2>2 DEF LeaseAcquire
      <3>2. lease' \in [holder : Holders, expires : Nat] /\ c.by \in Sessions
            /\ c.at + c.ttl \in Nat
        BY <1>0, <3>1, HolderAssumption DEF CallOK
      <3>3. lease' # NoLease /\ lease'.holder = HolderOf[c.by]
            /\ lease'.expires = c.at + c.ttl
        BY <3>1, <3>2, NoLeaseAssumption
      <3>4. \A s, e : e \in Nat /\ Protects(s, e) => e <= clock
        BY <1>0, <2>2 DEF Protects, LeaseActive, CallOK
      <3>5. Awaited(c) => until[c.by] <= clock
        BY <1>5 DEF LeaseAcquire, Awaited, LeaseInv, CallsLag
      <3>6. \A s \in Sessions \ undercut' : ~(clock < until[s])
        BY <1>0, <3>1, <3>4, <3>5 DEF LeaseInv, Protected
      <3>7. \A b \in calls : b.phase = "done" /\ b.by \notin undercut => ~(clock < b.told)
        BY <1>0, <3>4 DEF LeaseInv, LeaseTypes, CallOK, Protected
      <3>8. \A b \in calls : b.phase = "done" /\ Awaited(c) /\ b.by = c.by => b = c
        BY DEF LeaseInv, CallsLag, IdsUnique, Awaited
      <3>9. c.phase # "done" /\ c.verb # "release"
        BY <1>5 DEF LeaseAcquire
      <3>10. ASSUME NEW b \in calls', b.phase = "done", b.by \notin undercut', clock < b.told
             PROVE  Protects(b.by, b.told)'
        <4>1. CASE b \in calls
          <5>1. b.by \in undercut
            BY <3>7, <3>10, <4>1
          <5> QED
            BY <3>1, <3>8, <3>9, <3>10, <4>1, <5>1
        <4>2. CASE b.by = c.by /\ b.told = c.at + c.ttl
          BY <1>0, <3>2, <3>3, <4>2 DEF Protects
        <4> QED
          BY <1>3, <3>1, <3>9, <3>10, <4>1, <4>2
      <3>11. Protected'
        BY <1>1, <3>6, <3>10 DEF Protected
      <3> QED
        BY <1>0, <1>1, <1>3, <3>1, <3>2, <3>11 DEF LeaseInv, LeaseTypes
    <2> QED
      BY <2>1, <2>2
  <1>6. CASE LeaseHeartbeat(c)
    <2>1. CASE ~(Mine(c) /\ LeaseActive(c.at))
      BY <1>4, <1>6, <2>1 DEF LeaseHeartbeat
    <2>2. CASE Mine(c) /\ LeaseActive(c.at)
      <3>1. /\ lease' = [lease EXCEPT !.expires = c.at + c.ttl]
            /\ Finish(c, TRUE) /\ c.verb # "release" /\ c.phase # "done"
            /\ undercut' = IF c.at + c.ttl < lease.expires
                             THEN undercut \cup Namesakes(c) ELSE undercut
        BY <1>6, <2>2 DEF LeaseHeartbeat
      <3>2. lease \in [holder : Holders, expires : Nat] /\ c.at + c.ttl \in Nat
        BY <1>0, <2>2 DEF Mine, CallOK
      <3>3. /\ lease' \in [holder : Holders, expires : Nat] /\ lease' # NoLease
            /\ lease'.holder = HolderOf[c.by] /\ lease.holder = HolderOf[c.by]
            /\ lease'.expires = c.at + c.ttl
        BY <2>2, <3>1, <3>2, NoLeaseAssumption DEF Mine
      <3>4. ASSUME NEW s \in Sessions, s \notin undercut', NEW e \in Nat, Protects(s, e)
            PROVE  Protects(s, e)'
        BY <3>1, <3>2, <3>3, <3>4 DEF Protects, Namesakes
      <3>5. undercut \subseteq undercut' /\ undercut' \subseteq Sessions
        BY <1>0, <3>1 DEF Namesakes
      <3>6. \A s \in Sessions \ undercut' : clock < until[s] => Protects(s, until[s])'
        BY <1>0, <1>1, <3>4, <3>5 DEF LeaseInv, Protected
      <3>7. ASSUME NEW b \in calls', b.phase = "done", b.by \notin undercut', clock < b.told
            PROVE  Protects(b.by, b.told)'
        <4>1. CASE b \in calls
          BY <3>4, <3>5, <3>7, <4>1 DEF LeaseInv, LeaseTypes, CallOK, Protected
        <4>2. CASE b.by = c.by /\ b.told = c.at + c.ttl
          BY <3>2, <3>3, <4>2 DEF Protects
        <4> QED
          BY <1>3, <3>1, <3>7, <4>1, <4>2
      <3>8. Protected'
        BY <1>1, <3>6, <3>7 DEF Protected
      <3> QED
        BY <1>0, <1>1, <1>3, <3>1, <3>3, <3>5, <3>8 DEF LeaseInv, LeaseTypes
    <2> QED
      BY <2>1, <2>2
  <1>7. CASE LeaseRelease(c)
    <2>1. CASE ~Mine(c)
      BY <1>4, <1>7, <2>1 DEF LeaseRelease
    <2>2. CASE Mine(c)
      <3>1. /\ lease' = NoLease /\ Finish(c, TRUE) /\ c.verb = "release"
            /\ undercut' = undercut \cup Namesakes(c)
        BY <1>7, <2>2 DEF LeaseRelease
      <3>2. \A s \in Sessions : \A e : Protects(s, e) => s \in undercut'
        BY <2>2, <3>1 DEF Protects, Mine, Namesakes
      <3>3. \A s \in Sessions \ undercut' : ~(clock < until[s])
        BY <3>1, <3>2 DEF LeaseInv, Protected
      <3>4. ASSUME NEW b \in calls', b.phase = "done", b.by \notin undercut'
            PROVE  ~(clock < b.told)
        <4>1. CASE b \in calls
          BY <3>1, <3>2, <3>4, <4>1 DEF LeaseInv, LeaseTypes, CallOK, Protected
        <4>2. CASE b.told = 0
          BY <1>0, <4>2
        <4> QED
          BY <1>3, <3>1, <4>1, <4>2
      <3>5. Protected'
        BY <1>1, <3>3, <3>4 DEF Protected
      <3> QED
        BY <1>0, <1>1, <1>3, <3>1, <3>5 DEF LeaseInv, LeaseTypes, Namesakes
    <2> QED
      BY <2>1, <2>2
  <1> QED
    BY <1>2, <1>5, <1>6, <1>7

LEMMA NextLease == LeaseInv /\ [LeaseNext]_leaseVars => LeaseInv'
  <1> SUFFICES ASSUME LeaseInv, [LeaseNext]_leaseVars PROVE LeaseInv'
    OBVIOUS
  <1> USE DEF LeaseInv, LeaseTypes
  <1>1. CASE LeaseTick
    BY <1>1 DEF LeaseTick, IdsUnique, CallsLag, Protected, Protects, CallOK
  <1>2. ASSUME NEW s \in Sessions, LeaseCall(s) PROVE LeaseInv'
    <2>1. PICK v \in Verbs, ttl \in TTLs :
            /\ IF v = "acquire" THEN ~Working(s) ELSE until[s] > 0
            /\ calls' = calls \cup
                 {[id |-> made + 1, by |-> s, verb |-> v, ttl |-> ttl,
                   phase |-> "sent", at |-> 0, yes |-> FALSE, told |-> 0]}
            /\ until' = IF v = "release" THEN [until EXCEPT ![s] = 0] ELSE until
      BY <1>2 DEF LeaseCall
    <2> DEFINE d == [id |-> made + 1, by |-> s, verb |-> v, ttl |-> ttl,
                     phase |-> "sent", at |-> 0, yes |-> FALSE, told |-> 0]
    <2>2. /\ CallOK(d) /\ d.id = made + 1 /\ d.by = s /\ d.verb = v /\ d.phase = "sent"
          /\ d.at = 0
      BY TTLAssumption DEF CallOK, CallFields
    <2>3. calls' = calls \cup {d}
      BY <2>1
    <2> HIDE DEF d
    <2>4. /\ awaited[s] = 0 /\ made' = made + 1 /\ awaited' = [awaited EXCEPT ![s] = made + 1]
          /\ UNCHANGED <<clock, lease, undercut>>
      BY <1>2 DEF LeaseCall
    <2>5. \A c \in calls : c.id <= made /\ c.id \in Nat /\ 0 < c.id /\ c.by \in Sessions
      BY DEF IdsUnique, CallOK
    <2>6. until' \in [Sessions -> Nat] /\ \A t \in Sessions : until'[t] <= until[t]
                                             /\ (until'[t] = until[t] \/ until'[t] = 0)
      BY <2>1
    <2>7. IdsUnique'
      BY <2>2, <2>3, <2>4, <2>5 DEF IdsUnique
    <2>8. v = "acquire" => until'[s] <= clock
      BY <2>1 DEF Working
    <2>9. CallsLag'
      BY <2>2, <2>3, <2>4, <2>5, <2>6, <2>8 DEF CallsLag
    <2>10. Protected'
      BY <2>2, <2>3, <2>4, <2>6 DEF Protected, Protects
    <2>11. awaited' \in [Sessions -> Nat] /\ made' \in Nat /\ \A c \in calls' : CallOK(c)
      BY <2>2, <2>3, <2>4
    <2> QED
      BY <2>4, <2>6, <2>7, <2>9, <2>10, <2>11
  <1>3. ASSUME NEW s \in Sessions, LeaseTimeout(s) PROVE LeaseInv'
    <2>1. /\ awaited[s] # 0 /\ awaited' = [awaited EXCEPT ![s] = 0]
          /\ calls' = {c \in calls : ~(c.id = awaited[s] /\ c.phase = "done")}
          /\ UNCHANGED <<clock, lease, made, until, undercut>>
      BY <1>3 DEF LeaseTimeout
    <2>2. \A c \in calls : 0 < c.id /\ c.by \in Sessions
      BY DEF CallOK
    <2> QED
      BY <2>1, <2>2 DEF IdsUnique, CallsLag, Protected, Protects
  <1>4. ASSUME NEW c \in calls, LeaseAnswer(c) PROVE LeaseInv'
    <2>1. /\ c.phase = "done" /\ calls' = calls \ {c}
          /\ awaited' = [awaited EXCEPT ![c.by] = 0]
          /\ UNCHANGED <<clock, lease, made, undercut>>
          /\ \/ until' = until
             \/ until' = [until EXCEPT ![c.by] = c.told]
      BY <1>4 DEF LeaseAnswer
    <2>2. \A b \in calls : CallOK(b) /\ b.id \in Nat /\ 0 < b.id /\ b.by \in Sessions
                           /\ b.told \in Nat
      BY DEF CallOK
    <2>3. \A b \in calls' : b.by = c.by => b.phase # "done"
      BY <2>1 DEF IdsUnique, CallsLag
    <2>4. until' \in [Sessions -> Nat] /\ awaited' \in [Sessions -> Nat]
      BY <2>1, <2>2
    <2>5. IdsUnique'
      BY <2>1 DEF IdsUnique
    <2>6. CallsLag'
      BY <2>1, <2>2, <2>3 DEF CallsLag
    <2>7. Protected'
      BY <2>1, <2>2 DEF Protected, Protects
    <2> QED
      BY <2>1, <2>2, <2>4, <2>5, <2>6, <2>7
  <1>5. CASE UNCHANGED leaseVars
    BY <1>5 DEF leaseVars, IdsUnique, CallsLag, Protected, Protects
  <1> QED
    BY <1>1, <1>2, <1>3, <1>4, <1>5, LeaseServes DEF LeaseNext, LeaseServe

(* Two sessions of different holders never work on one item at once, unless *)
(* a call under its own name cut one of them short: whatever is served     *)
(* late, lost or given up, and however statements wait for the row.        *)
THEOREM WorkIsExclusive == LeaseSpec => []OneWorker
  <1>1. LeaseInv => OneWorker
    BY DEF LeaseInv, LeaseTypes, Protected, Protects, OneWorker, Working
  <1> QED
    BY <1>1, InitLease, NextLease, PTL DEF LeaseSpec
-----------------------------------------------------------------------------
(* Registry.  A name is clean while nothing has happened to it that could  *)
(* have listed it or that excuses its absence: then its data is older than *)
(* the registry, and a running backfill has still to come past it.         *)
Clean(n) ==
  /\ n \notin registry \cup gap \cup dropped
  /\ \A w \in writes : ~(w.ns = n /\ w.at = "register")

RegTypes ==
  /\ registry \subseteq Names
  /\ turns \in [Names -> SUBSET Nat] /\ facts \in [Names -> SUBSET Nat]
  /\ boot \in [Hosts -> {"start", "turns", "facts", "up"}]
  /\ scan \in [Hosts -> SUBSET Nat] /\ known \in [Hosts -> SUBSET Names]
  /\ \A w \in writes : /\ DOMAIN w = {"turn", "ns", "by", "at"}
                       /\ w.turn \in Nat /\ w.ns \in Names /\ w.by \in Hosts
                       /\ w.at \in {"register", "extract"}
  /\ written \in Nat
  /\ \A c \in listed : c.ns \in Names /\ c.full \in BOOLEAN

JobTypes ==
  job # NoJob =>
    /\ DOMAIN job = {"do", "ns", "to", "purge", "wanted"}
    /\ job.ns \in Names /\ job.to \in Names
    /\ job.do \in {"row", "facts", "turns", "migrate", "migrate2"}
    /\ job.do = "row" => (job.purge => job.wanted)
    /\ job.do \in {"facts", "turns"} => job.wanted
    /\ job.do \in {"migrate", "migrate2"} => job.ns # job.to

KnownOnce == \A h \in Hosts : known[h] \subseteq registry \cup dropped

ExtractedListed == \A w \in writes : w.at = "extract" => ~Clean(w.ns)

CleanIsOld ==
  \A n \in Names : Clean(n) =>
    /\ turns[n] \cup facts[n] \subseteq {0}
    /\ HasData(n) => n \in old /\ ~backfilled

CleanIsAhead ==
  \A h \in Hosts, n \in Names : Clean(n) =>
    /\ boot[h] = "turns" => (0 \in turns[n] => 0 \in scan[h])
    /\ boot[h] = "facts" => 0 \notin turns[n] /\ (0 \in facts[n] => 0 \in scan[h])

RegInv ==
  /\ RegTypes /\ JobTypes /\ KnownOnce /\ ExtractedListed /\ CleanIsOld /\ CleanIsAhead
  /\ TurnsSurvive

LEMMA InitReg == RegInit => RegInv
  <1> SUFFICES ASSUME RegInit PROVE RegInv
    OBVIOUS
  <1>1. PICK T \in SUBSET Names, F \in SUBSET Names :
          /\ turns = [n \in Names |-> IF n \in T THEN {0} ELSE {}]
          /\ facts = [n \in Names |-> IF n \in F THEN {0} ELSE {}]
          /\ old = T \cup F
    BY DEF RegInit
  <1>2. RegTypes /\ JobTypes /\ KnownOnce /\ ExtractedListed
    BY <1>1 DEF RegInit, RegTypes, JobTypes, KnownOnce, ExtractedListed
  <1>3. CleanIsOld
    BY <1>1 DEF RegInit, CleanIsOld, HasData
  <1>4. CleanIsAhead /\ TurnsSurvive
    BY DEF RegInit, CleanIsAhead, TurnsSurvive
  <1> QED
    BY <1>2, <1>3, <1>4 DEF RegInv

(* What a step does to the records it replaces.                            *)
LEMMA RegTypesKept ==
  ASSUME RegTypes, JobTypes, [RegNext]_regVars
  PROVE  RegTypes'
  <1> USE DEF RegTypes
  <1>1. ASSUME NEW h \in Hosts, Boot(h) PROVE RegTypes'
    <2>1. Rows(turns) \subseteq Nat /\ Rows(facts) \subseteq Nat
      BY DEF Rows
    <2>2. CASE BootStart(h)
      BY <2>1, <2>2 DEF BootStart, StageTo, data, writing, admin
    <2>3. CASE BootNextTable(h) \/ BootMark(h)
      BY <2>1, <2>3 DEF BootNextTable, BootMark, StageTo, data, writing, admin
    <2>4. CASE BackfillFails(h)
      BY <2>4 DEF BackfillFails, StageTo, data, writing, admin
    <2>5. CASE BootChunk(h, "turns", turns) \/ BootChunk(h, "facts", facts)
      BY <2>5 DEF BootChunk, List, data, writing, admin
    <2> QED
      BY <1>1, <2>2, <2>3, <2>4, <2>5 DEF Boot
  <1>2. ASSUME NEW h \in Hosts, HostRestarts(h) PROVE RegTypes'
    BY <1>2 DEF HostRestarts, StageTo, data, admin
  <1>3. ASSUME NEW h \in Hosts, NEW n \in Names, WriteTurn(h, n) PROVE RegTypes'
    BY <1>3 DEF WriteTurn, booting, admin
  <1>4. ASSUME NEW w \in writes, Register(w) PROVE RegTypes'
    <2>1. LET x == [w EXCEPT !.at = "extract"] IN
            /\ DOMAIN x = {"turn", "ns", "by", "at"} /\ x.at = "extract"
            /\ x.turn \in Nat /\ x.ns \in Names /\ x.by \in Hosts
      OBVIOUS
    <2>2. \A x \in writes' : x \in writes \/ x = [w EXCEPT !.at = "extract"]
      BY <1>4 DEF Register, Extracting
    <2>3. known' \in [Hosts -> SUBSET Names]
      BY <1>4 DEF Register
    <2> QED
      BY <1>4, <2>1, <2>2, <2>3 DEF Register, List, data, booting, admin
  <1>5. ASSUME NEW w \in writes, Extract(w) PROVE RegTypes'
    BY <1>5 DEF Extract, booting, admin
  <1>6. ASSUME PurgeFacts \/ PurgeTurns \/ MigrateTurns \/ MigrateFacts PROVE RegTypes'
    <2>1. /\ turns' \in [Names -> SUBSET Nat] /\ facts' \in [Names -> SUBSET Nat]
      BY <1>6 DEF JobTypes, PurgeFacts, PurgeTurns, MigrateTurns, MigrateFacts,
         Relabel
    <2> QED
      BY <1>6, <2>1 DEF PurgeFacts, PurgeTurns, MigrateTurns, MigrateFacts,
         booting, writing
  <1>7. ASSUME PruneScan PROVE RegTypes'
    <2>1. PICK stale \in SUBSET {n \in Names : HasData(n)} :
            listed' = {[ns |-> n, full |-> n \in stale] :
                         n \in stale \cup {m \in registry : ~HasData(m)}}
      BY <1>7 DEF PruneScan
    <2>2. ASSUME NEW c \in listed' PROVE c.ns \in Names /\ c.full \in BOOLEAN
      <3>1. PICK n \in stale \cup {m \in registry : ~HasData(m)} :
              c = [ns |-> n, full |-> n \in stale]
        BY <2>1, <2>2, Zenon
      <3>2. c.ns = n /\ c.full = (n \in stale) /\ n \in Names
        BY <3>1
      <3> QED
        BY <3>2
    <2> QED
      BY <1>7, <2>2 DEF PruneScan, data, booting, writing
  <1>8. CASE \/ PruneNext \/ DropRow \/ JobFails \/ UNCHANGED regVars
             \/ \E n \in Names : CreateName(n) \/ DeleteName(n)
             \/ \E m, n \in Names : Migrate(m, n)
    BY <1>8 DEF PruneNext, DropRow, JobFails, CreateName, DeleteName, Migrate,
       List, regVars,
       data, booting, writing, admin
  <1> QED
    BY <1>1, <1>2, <1>3, <1>4, <1>5, <1>6, <1>7, <1>8 DEF RegNext, Administer

LEMMA JobTypesKept ==
  ASSUME RegTypes, JobTypes, [RegNext]_regVars
  PROVE  JobTypes'
  <1> USE DEF JobTypes
  <1>1. CASE UNCHANGED job
    BY <1>1
  <1>2. CASE job' = NoJob
    BY <1>2
  <1>3. ASSUME NEW n \in Names, NEW purge \in BOOLEAN, NEW wanted \in BOOLEAN,
               purge => wanted, job' = Deletion(n, purge, wanted)
        PROVE  JobTypes'
    BY <1>3 DEF Deletion
  <1>4. CASE PruneNext
    BY <1>3, <1>4 DEF PruneNext, RegTypes
  <1>5. ASSUME NEW n \in Names, DeleteName(n) PROVE JobTypes'
    BY <1>3, <1>5 DEF DeleteName
  <1>6. ASSUME NEW m \in Names, NEW n \in Names, Migrate(m, n) PROVE JobTypes'
    BY <1>6 DEF Migrate
  <1>7. CASE DropRow \/ PurgeFacts \/ MigrateTurns
    BY <1>2, <1>7 DEF DropRow, PurgeFacts, MigrateTurns
  <1>8. CASE PurgeTurns \/ MigrateFacts \/ JobFails
    BY <1>2, <1>8 DEF PurgeTurns, MigrateFacts, JobFails
  <1> QED
    BY <1>1, <1>4, <1>5, <1>6, <1>7, <1>8
    DEF RegNext, Administer, regVars, admin, Boot, BootStart, BootNextTable,
        BootMark,
        BackfillFails, BootChunk, HostRestarts, WriteTurn, Register, Extract, PruneScan,
        CreateName

(* No step makes a name clean, gives a clean name data, or takes away what *)
(* excuses a name.                                                         *)
CleanKept ==
  /\ registry \cup dropped \subseteq registry' \cup dropped'
  /\ old' = old
  /\ \A n \in Names : Clean(n)' =>
       Clean(n) /\ turns'[n] \subseteq turns[n] /\ facts'[n] \subseteq facts[n]

LEMMA CleanOnlyGoes ==
  ASSUME RegTypes, JobTypes, KnownOnce, ExtractedListed, [RegNext]_regVars
  PROVE  CleanKept
  <1> USE DEF CleanKept, Clean
  <1>1. CASE UNCHANGED <<data, writes, old>> /\ gap \subseteq gap'
             /\ registry \cup dropped \subseteq registry' \cup dropped'
    BY <1>1 DEF data
  <1>2. ASSUME NEW h \in Hosts, Boot(h) PROVE CleanKept
    BY <1>2 DEF Boot, BootStart, BootNextTable, BootMark, BackfillFails, BootChunk,
         List, data, writing, admin, seen
  <1>3. ASSUME NEW h \in Hosts, HostRestarts(h) PROVE CleanKept
    <2>1. /\ UNCHANGED <<registry, turns, facts, old, dropped>> /\ gap \subseteq gap'
          /\ \A w \in writes : w \in writes' \/ w.at # "register" \/ w.ns \in gap'
      BY <1>3 DEF HostRestarts, data, RegTypes
    <2> QED
      BY <2>1
  <1>4. ASSUME NEW h \in Hosts, NEW n \in Names, WriteTurn(h, n) PROVE CleanKept
    <2> DEFINE w == [turn |-> written + 1, ns |-> n, by |-> h, at |-> "register"]
    <2>1. writes' = writes \cup {w} /\ w.ns = n /\ w.at = "register"
      BY <1>4 DEF WriteTurn
    <2> HIDE DEF w
    <2> QED
      BY <1>4, <2>1 DEF WriteTurn, seen, RegTypes
  <1>5. ASSUME NEW w \in writes, Register(w) PROVE CleanKept
    <2>1. /\ UNCHANGED <<turns, facts, old>> /\ writes \ {w} \subseteq writes'
      BY <1>5 DEF Register, Extracting, data
    <2>2. /\ w.ns \in registry' \cup dropped' \cup gap'
          /\ gap \ {w.ns} \subseteq gap'
          /\ registry \cup dropped \subseteq registry' \cup dropped'
      BY <1>5 DEF Register, List, KnownOnce, RegTypes
    <2> QED
      BY <2>1, <2>2
  <1>6. ASSUME NEW w \in writes, Extract(w) PROVE CleanKept
    <2>1. /\ UNCHANGED <<registry, turns, old, gap, dropped>> /\ writes' = writes \ {w}
          /\ w.at = "extract" /\ w.ns \in Names
          /\ \A n \in Names \ {w.ns} : facts'[n] = facts[n]
      BY <1>6 DEF Extract, seen, RegTypes
    <2>2. ~Clean(w.ns)
      BY <2>1 DEF ExtractedListed
    <2>3. \A n \in Names : Clean(n)' => Clean(n)
      BY <2>1
    <2> HIDE DEF Clean
    <2> QED
      BY <2>1, <2>2, <2>3
  <1>7. CASE PurgeFacts \/ PurgeTurns
    BY <1>7 DEF PurgeFacts, PurgeTurns, JobTypes, RegTypes, writing, seen
  <1>8. CASE MigrateTurns \/ MigrateFacts
    <2>1. /\ UNCHANGED <<registry, writes, old>> /\ gap' = gap \cup {job.to}
          /\ dropped' = dropped \cup {job.to}
      BY <1>8 DEF MigrateTurns, MigrateFacts, Into, writing
    <2>2. \A n \in Names \ {job.to} : turns'[n] \subseteq turns[n] /\ facts'[n] \subseteq facts[n]
      BY <1>8 DEF MigrateTurns, MigrateFacts, Relabel, JobTypes, RegTypes
    <2> QED
      BY <2>1, <2>2
  <1>9. CASE DropRow
    BY <1>9 DEF DropRow, data, writing
  <1>10. CASE \/ PruneScan \/ PruneNext \/ JobFails \/ UNCHANGED regVars
              \/ \E n \in Names : CreateName(n) \/ DeleteName(n)
              \/ \E m, n \in Names : Migrate(m, n)
    BY <1>1, <1>10 DEF PruneScan, PruneNext, JobFails, regVars, CreateName,
       DeleteName,
       Migrate, List, writing, seen
  <1> QED
    BY <1>2, <1>3, <1>4, <1>5, <1>6, <1>7, <1>8, <1>9, <1>10 DEF RegNext, Administer

(* What a process knows is listed; what has been extracted is not clean.   *)
LEMMA ListedKept ==
  ASSUME RegTypes, JobTypes, KnownOnce, ExtractedListed, [RegNext]_regVars
  PROVE  KnownOnce' /\ ExtractedListed'
  <1>1. CleanKept
    BY CleanOnlyGoes
  <1>2. ASSUME \A h \in Hosts : known'[h] \subseteq known[h] PROVE KnownOnce'
    BY <1>1, <1>2 DEF CleanKept, KnownOnce
  <1>3. ASSUME \A w \in writes' : w.at = "extract" => w \in writes PROVE ExtractedListed'
    BY <1>1, <1>3 DEF CleanKept, ExtractedListed, RegTypes
  <1>4. ASSUME NEW w \in writes, Register(w) PROVE KnownOnce' /\ ExtractedListed'
    <2>1. KnownOnce'
      BY <1>1, <1>4 DEF CleanKept, KnownOnce, Register, List, RegTypes
    <2>2. w.ns \in registry' \cup dropped' \cup gap'
      BY <1>4 DEF Register, List, KnownOnce, RegTypes
    <2>3. \A x \in writes' : x \in writes \/ x.ns = w.ns
      BY <1>4 DEF Register, Extracting, RegTypes
    <2>4. \A x \in writes' : x.at = "extract" => ~Clean(x.ns)'
      BY <1>1, <2>2, <2>3 DEF Clean, CleanKept, ExtractedListed, RegTypes
    <2> QED
      BY <2>1, <2>4 DEF ExtractedListed
  <1>5. ASSUME NEW h \in Hosts, HostRestarts(h) PROVE KnownOnce' /\ ExtractedListed'
    BY <1>2, <1>3, <1>5 DEF HostRestarts, RegTypes
  <1>6. ASSUME NEW h \in Hosts, NEW n \in Names, WriteTurn(h, n)
        PROVE  KnownOnce' /\ ExtractedListed'
    BY <1>2, <1>3, <1>6 DEF WriteTurn
  <1>7. ASSUME NEW w \in writes, Extract(w) PROVE KnownOnce' /\ ExtractedListed'
    BY <1>2, <1>3, <1>7 DEF Extract
  <1>8. CASE UNCHANGED <<known, writes>>
    BY <1>2, <1>3, <1>8
  <1> QED
    BY <1>4, <1>5, <1>6, <1>7, <1>8
    DEF RegNext, Administer, regVars, writing, Boot, BootStart, BootNextTable,
        BootMark,
        BackfillFails, BootChunk, PruneScan, PruneNext, DropRow, PurgeFacts, PurgeTurns,
        MigrateTurns, MigrateFacts, JobFails, CreateName, DeleteName, Migrate

(* The backfill: what is clean lies ahead of it, so when it has come to    *)
(* the end nothing clean has data.                                         *)
LEMMA BackfillKept ==
  ASSUME RegInv, [RegNext]_regVars
  PROVE  CleanIsOld' /\ CleanIsAhead'
  <1>1. CleanKept
    BY CleanOnlyGoes DEF RegInv
  <1>2. ASSUME UNCHANGED backfilled PROVE CleanIsOld'
    BY <1>1, <1>2 DEF RegInv, CleanKept, CleanIsOld, HasData
  <1>3. ASSUME \A h \in Hosts : \/ boot'[h] \in {"start", "up"}
                                \/ boot'[h] = boot[h] /\ scan'[h] = scan[h]
        PROVE  CleanIsAhead'
    BY <1>1, <1>3 DEF RegInv, CleanKept, CleanIsAhead
  <1>4. ASSUME NEW h \in Hosts, BootStart(h) PROVE CleanIsOld' /\ CleanIsAhead'
    <2>1. \A n \in Names : turns[n] \subseteq Rows(turns)
      BY DEF Rows
    <2>2. CASE backfilled
      BY <1>2, <1>3, <1>4, <2>2 DEF BootStart, StageTo, RegInv, RegTypes, data
    <2>3. CASE ~backfilled
      <3>1. /\ boot' = [boot EXCEPT ![h] = "turns"]
            /\ scan' = [scan EXCEPT ![h] = Rows(turns)]
            /\ UNCHANGED <<turns, facts, backfilled>>
        BY <1>4, <2>3 DEF BootStart, StageTo, data
      <3>2. CleanIsAhead'
        BY <1>1, <2>1, <3>1 DEF CleanKept, CleanIsAhead, RegInv, RegTypes
      <3> QED
        BY <1>2, <3>1, <3>2
    <2> QED
      BY <2>2, <2>3
  <1>5. ASSUME NEW h \in Hosts, NEW at \in {"turns", "facts"}, NEW table,
               \/ at = "turns" /\ table = turns
               \/ at = "facts" /\ table = facts,
               BootChunk(h, at, table)
        PROVE  CleanIsOld' /\ CleanIsAhead'
    <2>1. PICK i \in scan[h] : /\ List({n \in Names : i \in table[n]})
                               /\ scan' = [scan EXCEPT ![h] = @ \ {i}]
      BY <1>5 DEF BootChunk
    <2>2. boot[h] = at /\ UNCHANGED <<turns, facts, boot, backfilled>>
      BY <1>5 DEF BootChunk, data
    <2>3. \A n \in Names : Clean(n)' => i \notin table[n]
      BY <2>1 DEF List, Clean
    <2>4. CleanIsAhead'
      BY <1>1, <1>5, <2>1, <2>2, <2>3 DEF CleanKept, CleanIsAhead, RegInv, RegTypes
    <2> QED
      BY <1>2, <2>2, <2>4
  <1>6. ASSUME NEW h \in Hosts, BootNextTable(h) PROVE CleanIsOld' /\ CleanIsAhead'
    <2>1. \A n \in Names : facts[n] \subseteq Rows(facts)
      BY DEF Rows
    <2>2. /\ boot[h] = "turns" /\ scan[h] = {}
          /\ boot' = [boot EXCEPT ![h] = "facts"]
          /\ scan' = [scan EXCEPT ![h] = Rows(facts)]
          /\ UNCHANGED <<turns, facts, backfilled>>
      BY <1>6 DEF BootNextTable, StageTo, data
    <2>3. CleanIsAhead'
      BY <1>1, <2>1, <2>2 DEF CleanKept, CleanIsAhead, RegInv, RegTypes
    <2> QED
      BY <1>2, <2>2, <2>3
  <1>7. ASSUME NEW h \in Hosts, BootMark(h) PROVE CleanIsOld' /\ CleanIsAhead'
    <2>1. /\ boot[h] = "facts" /\ scan[h] = {} /\ boot' = [boot EXCEPT ![h] = "up"]
          /\ UNCHANGED <<turns, facts, scan>>
      BY <1>7 DEF BootMark, StageTo, data
    <2>2. \A n \in Names : Clean(n) => turns[n] \cup facts[n] = {}
      BY <2>1 DEF RegInv, CleanIsOld, CleanIsAhead
    <2>3. CleanIsOld'
      BY <1>1, <2>1, <2>2 DEF CleanKept, CleanIsOld, HasData
    <2> QED
      BY <1>3, <2>1, <2>3 DEF RegInv, RegTypes
  <1>8. ASSUME NEW h \in Hosts, BackfillFails(h) \/ HostRestarts(h)
        PROVE  CleanIsOld' /\ CleanIsAhead'
    BY <1>2, <1>3, <1>8 DEF BackfillFails, HostRestarts, StageTo, RegInv, RegTypes
  <1>9. CASE UNCHANGED <<boot, scan, backfilled>>
    BY <1>2, <1>3, <1>9
  <1>10. ASSUME NEW h \in Hosts, Boot(h) PROVE CleanIsOld' /\ CleanIsAhead'
    BY <1>4, <1>5, <1>6, <1>7, <1>8, <1>10 DEF Boot
  <1> QED
    BY <1>8, <1>9, <1>10
    DEF RegNext, Administer, regVars, booting, WriteTurn, Register, Extract,
        PruneScan, PruneNext, DropRow, PurgeFacts, PurgeTurns, MigrateTurns,
        MigrateFacts, JobFails, CreateName, DeleteName, Migrate

(* Turns leave a name by a wanted purge, or for the name they move to.     *)
LEMMA TurnsKept ==
  ASSUME RegTypes, JobTypes, TurnsSurvive, [RegNext]_regVars
  PROVE  TurnsSurvive'
  <1> USE DEF RegTypes, TurnsSurvive
  <1>1. CASE UNCHANGED <<turns, purged, written>>
    BY <1>1
  <1>2. ASSUME NEW h \in Hosts, NEW n \in Names, WriteTurn(h, n) PROVE TurnsSurvive'
    BY <1>2 DEF WriteTurn, seen
  <1>3. CASE PurgeTurns
    <2>1. /\ turns' = [turns EXCEPT ![job.ns] = {}] /\ UNCHANGED written
          /\ purged' = purged \cup turns[job.ns] /\ job.ns \in Names
      BY <1>3 DEF PurgeTurns, JobTypes, writing
    <2> QED
      BY <2>1
  <1>4. CASE MigrateTurns
    <2>1. /\ job.ns \in Names /\ job.to \in Names /\ job.ns # job.to
          /\ UNCHANGED <<written, purged>>
          /\ turns' = Relabel(turns)
      BY <1>4 DEF MigrateTurns, JobTypes, writing
    <2>2. /\ turns'[job.to] = turns[job.to] \cup turns[job.ns]
          /\ \A n \in Names \ {job.to, job.ns} : turns'[n] = turns[n]
      BY <2>1 DEF Relabel
    <2>3. \A n \in Names : \A i \in turns[n] : \E m \in Names : i \in turns'[m]
      BY <2>1, <2>2
    <2> QED
      BY <2>1, <2>3
  <1> QED
    BY <1>1, <1>2, <1>3, <1>4
    DEF RegNext, Administer, regVars, data, seen, writing, Boot, BootStart,
        BootNextTable,
        BootMark, BackfillFails, BootChunk, HostRestarts, Register, Extract, PruneScan,
        PruneNext, DropRow, PurgeFacts, MigrateFacts, JobFails, CreateName, DeleteName,
        Migrate

(* The registry lists every name with data, but for the names the run      *)
(* accounts for, through backfills that fail and start over, two processes *)
(* with caches of their own and jobs that stop half way; and no turn is    *)
(* lost but by a purge that was asked for.                                 *)
THEOREM RegistryIsSound == RegSpec => []RegistrySound
  <1>1. RegInv => RegistrySound
    BY DEF RegInv, RegTypes, CleanIsOld, Clean, RegistrySound, RegistryComplete,
       Unlisted,
           Accounted
  <1>2. RegInv /\ [RegNext]_regVars => RegInv'
    BY RegTypesKept, JobTypesKept, ListedKept, BackfillKept, TurnsKept DEF RegInv
  <1> QED
    BY <1>1, <1>2, InitReg, PTL DEF RegSpec
-----------------------------------------------------------------------------
(* Bindings.  Nudges first: one that two sessions have never taken at once *)
(* is open while a session is taking it, and is shown at most once more.   *)
NudgeInv ==
  /\ open \subseteq Pairs
  /\ opens \in [Pairs -> Nat] /\ shown \in [Pairs -> Nat]
  /\ picked \in [Clients -> SUBSET Pairs]
  /\ \A n \in Pairs \ doubled :
       /\ shown[n] <= opens[n]
       /\ n \in open => shown[n] < opens[n]
       /\ \A c \in Clients : n \in picked[c] => n \in open
       /\ \A c, d \in Clients : n \in picked[c] /\ n \in picked[d] => c = d

LEMMA NextNudge == NudgeInv /\ [BindingNext]_bindingVars => NudgeInv'
  <1> SUFFICES ASSUME NudgeInv, [BindingNext]_bindingVars PROVE NudgeInv'
    OBVIOUS
  <1> USE DEF NudgeInv
  <1>1. CASE UNCHANGED nudgev
    BY <1>1 DEF nudgev
  <1>2. ASSUME NEW n \in Pairs, RecordNudge(n) PROVE NudgeInv'
    BY <1>2 DEF RecordNudge
  <1>3. ASSUME NEW c \in Clients, TakeSelect(c) PROVE NudgeInv'
    <2>1. /\ picked' = [picked EXCEPT ![c] = open] /\ UNCHANGED <<open, opens, shown>>
          /\ \A n : n \in doubled' <=>
               n \in doubled \/ (n \in open /\ \E d \in Clients : n \in picked[d])
      BY <1>3 DEF TakeSelect
    <2> QED
      BY <2>1
  <1>4. ASSUME NEW c \in Clients, TakeUpdate(c) PROVE NudgeInv'
    BY <1>4 DEF TakeUpdate
  <1> QED
    BY <1>1, <1>2, <1>3, <1>4
    DEF BindingNext, NudgeStep, BindingStep, bindingVars, BindSelect, BindWrite,
        UnbindFind, UnbindDelete, RefreshOpen, RefreshDump, RefreshEnds, BindHost,
        RefreshGet

(* A nudge is shown no more often than it was recorded, unless two         *)
(* sessions were taking it at the same moment.                             *)
THEOREM NudgesAreShownOnce == BindingSpec => []NudgesShownOnce
  <1>1. BindingInit => NudgeInv
    BY DEF BindingInit, NudgeInv
  <1>2. NudgeInv => NudgesShownOnce
    BY DEF NudgeInv, NudgesShownOnce
  <1> QED
    BY <1>1, <1>2, NextNudge, PTL DEF BindingSpec

(* A host nobody has raced for has one row at most, the one last bound,    *)
(* and at most one client between its two statements, which finds what its *)
(* first statement found.                                                  *)
BindRow == [id : Nat, host : HostIds, ns : Spaces]

Busy(c, h) == intent[c].do # "none" /\ intent[c].host = h

BindTypes ==
  /\ bindRows \subseteq BindRow /\ ids \in Nat
  /\ bound \in [HostIds -> Spaces \cup {NoRow}]
  /\ \A r \in bindRows : 0 < r.id /\ r.id <= ids
  /\ \A r, q \in bindRows : r.id = q.id => r = q
  /\ intent \in [Clients -> [do : {"none", "bind", "unbind"}, host : HostIds,
                             ns : Spaces \cup {NoRow}, id : Nat]]
  /\ \A c \in Clients :
       /\ intent[c].do = "none" => intent[c] = Quiet
       /\ intent[c].do = "bind" => intent[c].host = AnyHost /\ intent[c].ns \in Spaces
       /\ intent[c].id <= ids
       /\ \A r \in bindRows : r.id = intent[c].id => r.host = intent[c].host

OneRow(h) ==
  /\ \A r, q \in bindRows : r.host = h /\ q.host = h => r = q
  /\ \A r \in bindRows : r.host = h => bound[h] = r.ns
  /\ bound[h] # NoRow => \E r \in bindRows : r.host = h

OneClient(h) ==
  /\ \A c, d \in Clients : Busy(c, h) /\ Busy(d, h) => c = d
  /\ \A c \in Clients : Busy(c, h) =>
       IF intent[c].id = 0
         THEN intent[c].do = "bind" /\ \A r \in bindRows : r.host # h
         ELSE \E r \in bindRows : r.id = intent[c].id

BindInv ==
  BindTypes /\ \A h \in HostIds \ raced : OneRow(h) /\ OneClient(h)

LEMMA InitBind == BindingInit => BindInv
  BY DEF BindingInit, BindInv, BindTypes, OneRow, OneClient, Quiet, Busy, HostIds

(* Rows given a namespace in place keep their ids and hosts.               *)
Given(r, ns) == [r EXCEPT !.ns = ns]

Retag(S, hit, ns) == {IF r \in hit THEN [r EXCEPT !.ns = ns] ELSE r : r \in S}

LEMMA Renamed ==
  ASSUME NEW S, S \subseteq BindRow, NEW hit, NEW ns \in Spaces
  PROVE  /\ Retag(S, hit, ns) \subseteq BindRow
         /\ \A q \in Retag(S, hit, ns) : \E r \in S :
              /\ q.id = r.id /\ q.host = r.host
              /\ r \in hit => q.ns = ns
              /\ r \notin hit => q = r
         /\ \A r \in S : \E q \in Retag(S, hit, ns) : q.id = r.id /\ q.host = r.host
  <1> DEFINE T == Retag(S, hit, ns)
  <1>1. ASSUME NEW r \in BindRow
        PROVE  /\ Given(r, ns) \in BindRow /\ Given(r, ns).id = r.id
               /\ Given(r, ns).host = r.host /\ Given(r, ns).ns = ns
    BY DEF BindRow, Given
  <1>2. T = {IF r \in hit THEN Given(r, ns) ELSE r : r \in S}
    BY DEF Given, Retag
  <1> HIDE DEF Given, T
  <1>3. ASSUME NEW q \in T
        PROVE \E r \in S : q = IF r \in hit THEN Given(r, ns) ELSE r
    BY <1>2
  <1>4. ASSUME NEW r \in S
        PROVE (IF r \in hit THEN Given(r, ns) ELSE r) \in T
    BY <1>2
  <1>5. ASSUME NEW q \in T
        PROVE  /\ q \in BindRow
               /\ \E r \in S :
                    /\ q.id = r.id /\ q.host = r.host
                    /\ r \in hit => q.ns = ns
                    /\ r \notin hit => q = r
    <2>1. PICK r \in S : q = IF r \in hit THEN Given(r, ns) ELSE r
      BY <1>3
    <2> QED
      BY <2>1, <1>1
  <1>6. ASSUME NEW r \in S PROVE \E q \in T : q.id = r.id /\ q.host = r.host
    BY <1>4, <1>1
  <1> QED
    BY <1>5, <1>6 DEF T

LEMMA BindNext == BindInv /\ [BindingNext]_bindingVars => BindInv'
  <1> SUFFICES ASSUME BindInv, [BindingNext]_bindingVars PROVE BindInv'
    OBVIOUS
  <1> USE DEF BindInv
  <1>1. CASE UNCHANGED bindv
    BY <1>1 DEF bindv, BindTypes, OneRow, OneClient, Busy
  <1>2. ASSUME NEW c \in Clients, BindSelect(c) PROVE BindInv'
    <2> DEFINE mine == {r.id : r \in {q \in bindRows : q.host = AnyHost}}
    <2>0. PICK ns \in Spaces, i \in IF mine = {} THEN {0} ELSE mine :
            intent' = [intent EXCEPT ![c] =
                         [do |-> "bind", host |-> AnyHost, ns |-> ns, id |-> i]]
      BY <1>2 DEF BindSelect
    <2>1. /\ i \in Nat
          /\ IF i = 0 THEN \A r \in bindRows : r.host # AnyHost
                      ELSE \E r \in bindRows : r.id = i /\ r.host = AnyHost
      <3>1. \A r \in bindRows : r.id \in Nat /\ r.id # 0
        BY DEF BindTypes, BindRow
      <3> QED
        BY <3>1
    <2> HIDE DEF mine
    <2>2. UNCHANGED <<bindRows, ids, bound>> /\ intent[c] = Quiet /\ Meet(c, AnyHost)
      BY <1>2 DEF BindSelect
    <2>3. BindTypes'
      BY <2>0, <2>1, <2>2 DEF BindTypes, HostIds, BindRow, Quiet
    <2>4. ASSUME NEW h \in HostIds \ raced' PROVE OneRow(h)' /\ OneClient(h)'
      <3>1. h \in HostIds \ raced /\ (h = AnyHost => ~Overlap(c, AnyHost))
        BY <2>4, <2>2 DEF Meet, HostIds
      <3>2. OneRow(h)'
        BY <3>1, <2>2 DEF OneRow
      <3>3. OneClient(h)'
        <4>1. CASE h # AnyHost
          BY <4>1, <3>1, <2>0, <2>1, <2>2 DEF OneClient, Busy, BindTypes
        <4>2. CASE h = AnyHost
          <5>1. ASSUME NEW d \in Clients, d # c PROVE ~(intent'[d].do # "none" /\ intent'[d].host = h)
            BY <5>1, <4>2, <3>1, <2>0, <2>1, <2>2 DEF BindTypes, Overlap, Quiet
          <5>2. /\ intent'[c].id = i /\ intent'[c].do = "bind" /\ intent'[c].host = h
            BY <4>2, <2>0, <2>1, <2>2 DEF BindTypes
          <5>3. IF i = 0 THEN \A r \in bindRows' : r.host # h ELSE \E r \in bindRows' : r.id = i
            BY <4>2, <2>0, <2>1, <2>2
          <5> QED
            BY <5>1, <5>2, <5>3 DEF OneClient, Busy
        <4> QED
          BY <4>1, <4>2
      <3> QED
        BY <3>2, <3>3
    <2> QED
      BY <2>3, <2>4
  <1>3. ASSUME NEW c \in Clients, BindWrite(c) PROVE BindInv'
    <2> DEFINE b == intent[c]
    <2>1. /\ b.do = "bind" /\ b.host = AnyHost /\ b.ns \in Spaces /\ b.id \in Nat
          /\ bound' = [bound EXCEPT ![AnyHost] = b.ns]
          /\ intent' = [intent EXCEPT ![c] = Quiet]
          /\ raced' = raced
      BY <1>3 DEF BindWrite, BindTypes
    <2>2. CASE b.id = 0
      <3>1. ids' = ids + 1 /\ bindRows' = bindRows \cup {[id |-> ids + 1, host |-> AnyHost, ns |-> b.ns]}
        BY <1>3, <2>2 DEF BindWrite
      <3>2. BindTypes'
        BY <2>1, <3>1 DEF BindTypes, HostIds, BindRow, Quiet
      <3>3. ASSUME NEW h \in HostIds \ raced PROVE OneRow(h)' /\ OneClient(h)'
        <4>1. OneRow(h) /\ OneClient(h)
          BY <3>3
        <4>2. h = AnyHost => \A r \in bindRows : r.host # h
          BY <4>1, <2>1, <2>2 DEF OneClient, Busy
        <4>3. OneRow(h)'
          <5> DEFINE new == [id |-> ids + 1, host |-> AnyHost, ns |-> b.ns]
          <5>1. bindRows' = bindRows \cup {new} /\ new.host = AnyHost /\ new.ns = b.ns
            BY <3>1
          <5>2. bound'[h] = IF h = AnyHost THEN b.ns ELSE bound[h]
            BY <2>1, <3>3 DEF BindTypes
          <5> HIDE DEF new, b
          <5> QED
            BY <5>1, <5>2, <4>1, <4>2 DEF OneRow
        <4>4. OneClient(h)'
          BY <4>1, <2>1, <2>2, <3>1 DEF OneClient, Busy, BindTypes, Quiet
        <4> QED
          BY <4>3, <4>4
      <3> QED
        BY <3>2, <3>3, <2>1
    <2>3. CASE b.id # 0
      <3> DEFINE hit == {r \in bindRows : r.id = b.id}
      <3>1. ids' = ids /\ bindRows' = Retag(bindRows, hit, b.ns)
        BY <1>3, <2>3 DEF BindWrite, Retag
      <3>2. \A r \in hit : r \in bindRows /\ r.id = b.id /\ r.host = AnyHost
        BY <2>1 DEF BindTypes
      <3>3. /\ bindRows' \subseteq BindRow
            /\ \A q \in bindRows' : \E r \in bindRows :
                 /\ q.id = r.id /\ q.host = r.host
                 /\ r \in hit => q.ns = b.ns
                 /\ r \notin hit => q = r
            /\ \A r \in bindRows : \E q \in bindRows' : q.id = r.id /\ q.host = r.host
        <4>1. bindRows \subseteq BindRow
          BY DEF BindTypes
        <4> HIDE DEF hit, b
        <4> QED
          BY <4>1, <3>1, <2>1, Renamed
      <3>4. \A r \in bindRows : r \in hit <=> r.id = b.id
        OBVIOUS
      <3> HIDE DEF hit, b
      <3>5. ASSUME NEW q \in bindRows', NEW r \in bindRows', q.id = r.id PROVE q = r
        <4>1. PICK q0 \in bindRows : q.id = q0.id /\ q.host = q0.host /\ (q0 \in hit => q.ns = b.ns) /\ (q0 \notin hit => q = q0)
          BY <3>3
        <4>2. PICK r0 \in bindRows : r.id = r0.id /\ r.host = r0.host /\ (r0 \in hit => r.ns = b.ns) /\ (r0 \notin hit => r = r0)
          BY <3>3
        <4>3. q0 = r0
          BY <4>1, <4>2, <3>5 DEF BindTypes
        <4>4. q \in BindRow /\ r \in BindRow
          BY <3>3
        <4> QED
          BY <4>1, <4>2, <4>3, <4>4 DEF BindRow
      <3>6. BindTypes'
        <4>1. bindRows' \subseteq BindRow /\ ids' \in Nat
          BY <3>1, <3>3 DEF BindTypes
        <4>2. bound' \in [HostIds -> Spaces \cup {NoRow}]
          BY <2>1 DEF BindTypes
        <4>3. \A q \in bindRows' : 0 < q.id /\ q.id <= ids'
          BY <3>1, <3>3 DEF BindTypes
        <4>4. /\ intent' \in [Clients -> [do : {"none", "bind", "unbind"}, host : HostIds,
                                         ns : Spaces \cup {NoRow}, id : Nat]]
              /\ \A d \in Clients : intent'[d] = IF d = c THEN Quiet ELSE intent[d]
          BY <2>1 DEF BindTypes, HostIds, Quiet
        <4>5. \A d \in Clients, q \in bindRows' : q.id = intent'[d].id => q.host = intent'[d].host
          <5> SUFFICES ASSUME NEW d \in Clients, NEW q \in bindRows', q.id = intent'[d].id
                       PROVE  q.host = intent'[d].host
            OBVIOUS
          <5>1. PICK r \in bindRows : q.id = r.id /\ q.host = r.host
            BY <3>3
          <5>2. CASE d = c
            <6>1. q.id = 0
              BY <4>4, <5>2 DEF Quiet
            <6>2. 0 < q.id /\ q \in BindRow
              BY <4>1, <4>3
            <6> QED
              BY <6>1, <6>2 DEF BindRow
          <5>3. CASE d # c
            BY <5>1, <5>3, <4>4 DEF BindTypes
          <5> QED
            BY <5>2, <5>3
        <4>6. \A d \in Clients :
               /\ intent'[d].do = "none" => intent'[d] = Quiet
               /\ intent'[d].do = "bind" => intent'[d].host = AnyHost /\ intent'[d].ns \in Spaces
               /\ intent'[d].id <= ids'
          BY <4>4, <3>1 DEF BindTypes, Quiet
        <4> QED
          BY <4>1, <4>2, <4>3, <4>4, <4>5, <4>6, <3>5 DEF BindTypes
      <3>7. ASSUME NEW h \in HostIds \ raced PROVE OneRow(h)' /\ OneClient(h)'
        <4>1. OneRow(h) /\ OneClient(h)
          BY <3>7
        <4>2. \A q, r \in bindRows' : q.host = h /\ r.host = h => q = r
          BY <4>1, <3>3, <3>5 DEF OneRow
        <4>3. OneClient(h)'
          BY <4>1, <2>1, <3>3 DEF OneClient, Busy, BindTypes, Quiet
        <4>4. CASE h = AnyHost
          <5>1. \E r \in bindRows : r.id = b.id /\ r.host = h
            BY <4>1, <4>4, <2>1, <2>3, <3>2, <3>4 DEF OneClient, Busy, b
          <5>2. \A r \in bindRows : r.host = h => r \in hit
            BY <5>1, <4>1, <3>4 DEF OneRow
          <5>3. \A q \in bindRows' : q.host = h => q.ns = b.ns
            BY <5>2, <3>3
          <5>4. \E q \in bindRows' : q.host = h
            BY <5>1, <3>3
          <5>5. bound'[h] = b.ns
            BY <4>4, <2>1 DEF BindTypes, HostIds
          <5> QED
            BY <4>2, <4>3, <5>3, <5>4, <5>5 DEF OneRow
        <4>5. CASE h # AnyHost
          <5>1. bound'[h] = bound[h]
            BY <4>5, <2>1 DEF BindTypes
          <5>2. \A q \in bindRows' : q.host = h => q \in bindRows
            BY <4>5, <3>2, <3>3
          <5>3. \A r \in bindRows : \E q \in bindRows' : q.host = r.host
            BY <3>3
          <5> QED
            BY <4>1, <4>2, <4>3, <5>1, <5>2, <5>3 DEF OneRow
        <4> QED
          BY <4>4, <4>5
      <3> QED
        BY <3>6, <3>7, <2>1
    <2> QED
      BY <2>2, <2>3
  <1>4. ASSUME NEW c \in Clients, NEW m \in Machines, BindHost(c, m) PROVE BindInv'
    <2>1. PICK ns \in Spaces :
            /\ bound' = [bound EXCEPT ![m] = ns]
            /\ IF \E r \in bindRows : r.host = m
                 THEN /\ bindRows' = {IF r.host = m THEN [r EXCEPT !.ns = ns] ELSE r : r \in bindRows}
                      /\ UNCHANGED ids
                 ELSE /\ ids' = ids + 1
                      /\ bindRows' = bindRows \cup {[id |-> ids + 1, host |-> m, ns |-> ns]}
      BY <1>4 DEF BindHost
    <2>2. intent' = intent /\ intent[c] = Quiet /\ Meet(c, m) /\ m # AnyHost /\ m \in HostIds
      BY <1>4, AnyHostAssumption DEF BindHost, HostIds
    <2>3. ASSUME m \notin raced' PROVE \A d \in Clients : ~Busy(d, m)
      BY <2>3, <2>2 DEF Meet, Overlap, Busy, Quiet
    <2>4. raced \subseteq raced' /\ (\A h : h \in raced' /\ h # m => h \in raced)
      BY <2>2 DEF Meet
    <2>5. CASE \E r \in bindRows : r.host = m
      <3> DEFINE hit == {r \in bindRows : r.host = m}
      <3>1. ids' = ids /\ bindRows' = Retag(bindRows, hit, ns)
        BY <2>1, <2>5 DEF Retag
      <3>2. /\ bindRows' \subseteq BindRow
            /\ \A q \in bindRows' : \E r \in bindRows :
                 /\ q.id = r.id /\ q.host = r.host
                 /\ r \in hit => q.ns = ns
                 /\ r \notin hit => q = r
            /\ \A r \in bindRows : \E q \in bindRows' : q.id = r.id /\ q.host = r.host
        <4>1. bindRows \subseteq BindRow
          BY DEF BindTypes
        <4> HIDE DEF hit
        <4> QED
          BY <4>1, <3>1, Renamed
      <3>3. \A r \in bindRows : r \in hit <=> r.host = m
        OBVIOUS
      <3> HIDE DEF hit
      <3>4. ASSUME NEW q \in bindRows', NEW r \in bindRows', q.id = r.id PROVE q = r
        <4>1. PICK q0 \in bindRows : q.id = q0.id /\ q.host = q0.host /\ (q0 \in hit => q.ns = ns) /\ (q0 \notin hit => q = q0)
          BY <3>2
        <4>2. PICK r0 \in bindRows : r.id = r0.id /\ r.host = r0.host /\ (r0 \in hit => r.ns = ns) /\ (r0 \notin hit => r = r0)
          BY <3>2
        <4>3. q0 = r0
          BY <4>1, <4>2, <3>4 DEF BindTypes
        <4>4. q \in BindRow /\ r \in BindRow
          BY <3>2
        <4> QED
          BY <4>1, <4>2, <4>3, <4>4 DEF BindRow
      <3>5. BindTypes'
        <4>1. bindRows' \subseteq BindRow /\ ids' \in Nat
          BY <3>1, <3>2 DEF BindTypes
        <4>2. bound' \in [HostIds -> Spaces \cup {NoRow}]
          BY <2>1 DEF BindTypes
        <4>3. \A q \in bindRows' : 0 < q.id /\ q.id <= ids'
          BY <3>1, <3>2 DEF BindTypes
        <4>4. \A d \in Clients, q \in bindRows' : q.id = intent'[d].id => q.host = intent'[d].host
          BY <3>2, <2>2 DEF BindTypes
        <4> QED
          BY <4>1, <4>2, <4>3, <4>4, <3>4, <3>1, <2>2 DEF BindTypes
      <3>6. ASSUME NEW h \in HostIds \ raced' PROVE OneRow(h)' /\ OneClient(h)'
        <4>1. OneRow(h) /\ OneClient(h)
          BY <3>6, <2>4
        <4>2. \A q, r \in bindRows' : q.host = h /\ r.host = h => q = r
          BY <4>1, <3>2, <3>4 DEF OneRow
        <4>3. OneClient(h)'
          BY <4>1, <2>2, <3>2 DEF OneClient, Busy, BindTypes
        <4>4. CASE h = m
          <5>1. \A q \in bindRows' : q.host = h => q.ns = ns
            BY <4>4, <3>2, <3>3
          <5>2. \E q \in bindRows' : q.host = h
            BY <4>4, <2>5, <3>2
          <5>3. bound'[h] = ns
            BY <4>4, <2>1, <2>2 DEF BindTypes
          <5> QED
            BY <4>2, <4>3, <5>1, <5>2, <5>3 DEF OneRow
        <4>5. CASE h # m
          <5>1. bound'[h] = bound[h]
            BY <4>5, <2>1 DEF BindTypes
          <5>2. \A q \in bindRows' : q.host = h => q \in bindRows
            BY <4>5, <3>2, <3>3
          <5>3. \A r \in bindRows : \E q \in bindRows' : q.host = r.host
            BY <3>2
          <5> QED
            BY <4>1, <4>2, <4>3, <5>1, <5>2, <5>3 DEF OneRow
        <4> QED
          BY <4>4, <4>5
      <3> QED
        BY <3>5, <3>6
    <2>6. CASE \A r \in bindRows : r.host # m
      <3>1. ids' = ids + 1 /\ bindRows' = bindRows \cup {[id |-> ids + 1, host |-> m, ns |-> ns]}
        BY <2>1, <2>6
      <3>2. BindTypes'
        BY <2>1, <2>2, <3>1 DEF BindTypes, HostIds, BindRow, Quiet
      <3>3. ASSUME NEW h \in HostIds \ raced' PROVE OneRow(h)' /\ OneClient(h)'
        <4>1. OneRow(h) /\ OneClient(h)
          BY <3>3, <2>4
        <4>2. OneRow(h)'
          <5> DEFINE new == [id |-> ids + 1, host |-> m, ns |-> ns]
          <5>1. bindRows' = bindRows \cup {new} /\ new.host = m /\ new.ns = ns
            BY <3>1
          <5>2. bound'[h] = IF h = m THEN ns ELSE bound[h]
            BY <2>1, <3>3 DEF BindTypes
          <5> HIDE DEF new
          <5> QED
            BY <5>1, <5>2, <4>1, <2>6 DEF OneRow
        <4>3. OneClient(h)'
          BY <4>1, <2>2, <2>3, <3>1, <3>3 DEF OneClient, Busy, BindTypes
        <4> QED
          BY <4>2, <4>3
      <3> QED
        BY <3>2, <3>3
    <2> QED
      BY <2>5, <2>6
  <1>5. ASSUME NEW c \in Clients, UnbindFind(c) PROVE BindInv'
    <2>1. PICK r \in bindRows :
            /\ Meet(c, r.host)
            /\ intent' = [intent EXCEPT ![c] =
                            [do |-> "unbind", host |-> r.host, ns |-> NoRow, id |-> r.id]]
      BY <1>5 DEF UnbindFind
    <2>2. UNCHANGED <<bindRows, ids, bound>> /\ intent[c] = Quiet
      BY <1>5 DEF UnbindFind
    <2>3. BindTypes'
      BY <2>1, <2>2 DEF BindTypes, HostIds, BindRow, Quiet
    <2>4. ASSUME NEW h \in HostIds \ raced' PROVE OneRow(h)' /\ OneClient(h)'
      <3>1. h \in HostIds \ raced /\ (h = r.host => ~Overlap(c, h))
        BY <2>4, <2>1 DEF Meet, HostIds
      <3>2. OneRow(h)'
        BY <3>1, <2>2 DEF OneRow
      <3>3. OneClient(h)'
        <4>1. CASE h # r.host
          BY <4>1, <3>1, <2>1, <2>2 DEF OneClient, Busy, BindTypes
        <4>2. CASE h = r.host
          <5>1. ASSUME NEW d \in Clients, d # c PROVE ~(intent'[d].do # "none" /\ intent'[d].host = h)
            BY <5>1, <4>2, <3>1, <2>1, <2>2 DEF BindTypes, Overlap, Quiet
          <5>2. intent'[c].id = r.id /\ r.id # 0
            BY <2>1, <2>2 DEF BindTypes, BindRow
          <5> QED
            BY <5>1, <5>2, <2>1, <2>2 DEF OneClient, Busy, BindTypes
        <4> QED
          BY <4>1, <4>2
      <3> QED
        BY <3>2, <3>3
    <2> QED
      BY <2>3, <2>4
  <1>6. ASSUME NEW c \in Clients, UnbindDelete(c) PROVE BindInv'
    <2>1. /\ \A r : r \in bindRows' <=> r \in bindRows /\ r.id # intent[c].id
          /\ bound' = [bound EXCEPT ![intent[c].host] = NoRow]
          /\ intent' = [intent EXCEPT ![c] = Quiet]
          /\ UNCHANGED <<ids, raced>> /\ intent[c].do = "unbind"
      BY <1>6 DEF UnbindDelete
    <2>2. BindTypes'
      BY <2>1 DEF BindTypes, HostIds, Quiet
    <2>3. ASSUME NEW h \in HostIds \ raced PROVE OneRow(h)' /\ OneClient(h)'
      <3>1. OneRow(h) /\ OneClient(h)
        BY <2>3
      <3>2. OneRow(h)'
        BY <3>1, <2>1 DEF BindTypes, BindRow, OneRow, OneClient, Busy
      <3>3. ASSUME NEW d \in Clients, NEW e \in Clients, Busy(d, h)', Busy(e, h)' PROVE d = e
        BY <3>3, <3>1, <2>1 DEF BindTypes, OneClient, Busy, Quiet
      <3>4. ASSUME NEW d \in Clients, Busy(d, h)'
            PROVE IF intent'[d].id = 0
                    THEN intent'[d].do = "bind" /\ \A r \in bindRows' : r.host # h
                    ELSE \E r \in bindRows' : r.id = intent'[d].id
        <4>1. d # c /\ intent'[d] = intent[d] /\ Busy(d, h)
          BY <3>4, <2>1 DEF BindTypes, Busy, Quiet
        <4> QED
          BY <4>1, <3>1, <2>1 DEF BindTypes, BindRow, OneClient, Busy
      <3> QED
        BY <3>2, <3>3, <3>4 DEF OneClient
    <2> QED
      BY <2>2, <2>3, <2>1
  <1> QED
    BY <1>1, <1>2, <1>3, <1>4, <1>5, <1>6
    DEF BindingNext, NudgeStep, BindingStep, bindingVars, RefreshOpen, RefreshDump,
        RefreshEnds, RefreshGet, TakeSelect, TakeUpdate, RecordNudge

LEMMA BoundRouting == BindInv => RoutedAsBound
  <1> SUFFICES ASSUME BindInv, NEW m \in Machines, cache[m] = bindRows,
                      AnyHost \notin raced, m \notin raced
               PROVE  Resolve(m) = {AsBound(m)}
    BY DEF RoutedAsBound
  <1> DEFINE of(h) == {r.ns : r \in {q \in bindRows : q.host = h}}
  <1>1. OneRow(AnyHost) /\ OneRow(m) /\ bound \in [HostIds -> Spaces \cup {NoRow}]
        /\ \A r \in bindRows : r.ns \in Spaces
    BY DEF BindInv, BindTypes, BindRow, HostIds
  <1>2. ASSUME NEW h, OneRow(h) PROVE of(h) = IF bound[h] = NoRow THEN {} ELSE {bound[h]}
    <2>1. CASE bound[h] = NoRow
      BY <2>1, <1>1, <1>2, NoRowAssumption DEF OneRow
    <2>2. CASE bound[h] # NoRow
      BY <2>2, <1>2 DEF OneRow
    <2> QED
      BY <2>1, <2>2
  <1>3. Resolve(m) = IF of(AnyHost) # {} THEN of(AnyHost)
                     ELSE IF of(m) # {} THEN of(m) ELSE {Fallback}
    BY DEF Resolve
  <1> HIDE DEF of
  <1>4. of(AnyHost) = IF bound[AnyHost] = NoRow THEN {} ELSE {bound[AnyHost]}
    BY <1>1, <1>2
  <1>5. of(m) = IF bound[m] = NoRow THEN {} ELSE {bound[m]}
    BY <1>1, <1>2
  <1> QED
    BY <1>3, <1>4, <1>5 DEF AsBound

(* A machine whose cache is up to date writes where the last bind said,    *)
(* unless two operations on the binding that routes it overlapped.         *)
THEOREM RoutedRightly == BindingSpec => []RoutedAsBound
  <1> QED
    BY BoundRouting, InitBind, BindNext, PTL DEF BindingSpec

-----------------------------------------------------------------------------
(* Constraints.  A write that has still to retire the other rows of its    *)
(* subject has its own row live, or crossed the write that retired it; and *)
(* two such writes of one subject have crossed each other.                 *)
PinTags == Subjects \cup {NoTag}
           \cup {Derived(kind, says) : kind \in {"turn", "episode"}, says \in SUBSET Rules}
PinRows == [kind : {"turn", "episode"}, ns : Spaces3, says : SUBSET Rules, tag : PinTags,
            of : SUBSET Nat, retired : Nat]
Writes  == [stage : {"retire", "episodes"}, ns : Spaces3, tag : PinTags, id : Nat \ {0}]

PinTypes ==
  /\ pinboard \in Seq(PinRows)
  /\ author \in [Authors -> {Unwritten} \cup Writes]
  /\ sleeper \in [Sleepers -> SUBSET (SUBSET Nat)]
  /\ \A p \in Sleepers : \A g \in sleeper[p] : g # {} /\ g \subseteq Ids

TurnsTagged == \A i \in Ids : pinboard[i].kind = "turn" => pinboard[i].tag # NoTag

WritesStand ==
  \A a \in Authors : author[a].stage = "retire" =>
    /\ author[a].id \in Ids /\ pinboard[author[a].id].kind = "turn"
    /\ pinboard[author[a].id].ns = author[a].ns /\ pinboard[author[a].id].tag = author[a].tag
    /\ pinboard[author[a].id].retired = 0 \/ author[a].id \in crossed

OverlapsCrossed ==
  \A a, b \in Authors :
    /\ a # b /\ author[a].stage = "retire" /\ author[b].stage = "retire"
    /\ author[a].ns = author[b].ns /\ author[a].tag = author[b].tag
    => author[a].id \in crossed

(* The successor is a turn itself: no later backfill changes its subject.  *)
SuccessorStands ==
  \A i \in Ids :
    pinboard[i].kind = "turn" /\ pinboard[i].retired # 0 =>
      \E j \in Ids : /\ pinboard[j].kind = "turn" /\ pinboard[j].ns = pinboard[i].ns
                     /\ pinboard[j].tag = pinboard[i].tag
                     /\ pinboard[j].retired = 0 \/ j \in crossed

ConstraintInv ==
  /\ PinTypes /\ TurnsTagged /\ WritesStand /\ OverlapsCrossed
  /\ OneRulePerSubject /\ SuccessorStands

LEMMA InitConstraint == ConstraintInit => ConstraintInv
  <1> SUFFICES ASSUME ConstraintInit PROVE ConstraintInv
    OBVIOUS
  <1>1. Ids = {} /\ pinboard \in Seq(PinRows)
    BY DEF ConstraintInit, Ids
  <1>2. \A a \in Authors : author[a] = Unwritten /\ author[a].stage = "idle"
    BY DEF ConstraintInit, Unwritten
  <1>3. PinTypes
    BY <1>1, <1>2 DEF ConstraintInit, PinTypes
  <1> QED
    BY <1>1, <1>2, <1>3 DEF ConstraintInv, TurnsTagged, WritesStand, OverlapsCrossed,
       OneRulePerSubject, SuccessorStands

(* What a backfill and a retirement leave of the rows.                     *)
LEMMA BackfillRows ==
  ASSUME PinTypes, NEW ns
  PROVE  /\ Backfill(ns) \in Seq(PinRows) /\ Len(Backfill(ns)) = Len(pinboard)
         /\ \A i \in Ids :
              /\ Backfill(ns)[i].kind = pinboard[i].kind
              /\ Backfill(ns)[i].ns = pinboard[i].ns
              /\ Backfill(ns)[i].retired = pinboard[i].retired
              /\ pinboard[i].tag # NoTag => Backfill(ns)[i].tag = pinboard[i].tag
  <1>1. PICK n \in Nat : n = Len(pinboard) /\ Ids = 1..n
    BY DEF PinTypes, Ids
  <1>2. ASSUME NEW i \in Ids
        PROVE  /\ Backfill(ns)[i] \in PinRows
               /\ Backfill(ns)[i].kind = pinboard[i].kind
               /\ Backfill(ns)[i].ns = pinboard[i].ns
               /\ Backfill(ns)[i].retired = pinboard[i].retired
               /\ pinboard[i].tag # NoTag => Backfill(ns)[i].tag = pinboard[i].tag
    <2>1. pinboard[i] \in PinRows
      BY <1>1, <1>2 DEF PinTypes
    <2>2. PICK tag : tag = Derived(pinboard[i].kind, pinboard[i].says) /\ tag \in PinTags
      BY <2>1 DEF PinRows, PinTags
    <2>3. CASE pinboard[i].ns = ns /\ Live(i) /\ pinboard[i].tag = NoTag
      <3>1. Backfill(ns)[i] = [pinboard[i] EXCEPT !.tag = tag]
        BY <2>2, <2>3 DEF Backfill
      <3> QED
        BY <2>1, <2>2, <2>3, <3>1 DEF PinRows
    <2>4. CASE ~(pinboard[i].ns = ns /\ Live(i) /\ pinboard[i].tag = NoTag)
      BY <2>1, <2>4 DEF Backfill
    <2> QED
      BY <2>3, <2>4
  <1>3. Backfill(ns) \in [1..n -> PinRows]
    BY <1>1, <1>2 DEF Backfill
  <1> QED
    BY <1>1, <1>2, <1>3

LEMMA RetiredRows ==
  ASSUME PinTypes, NEW w \in Writes, NEW kind
  PROVE  /\ Retired(w, kind) \in Seq(PinRows) /\ Len(Retired(w, kind)) = Len(pinboard)
         /\ \A i \in Ids :
              /\ Retired(w, kind)[i].kind = pinboard[i].kind
              /\ Retired(w, kind)[i].ns = pinboard[i].ns
              /\ Retired(w, kind)[i].tag = pinboard[i].tag
              /\ Retired(w, kind)[i].retired =
                   IF /\ pinboard[i].kind = kind /\ pinboard[i].ns = w.ns
                      /\ pinboard[i].tag = w.tag /\ pinboard[i].retired = 0 /\ i # w.id
                   THEN w.id ELSE pinboard[i].retired
  <1>1. PICK n \in Nat : n = Len(pinboard) /\ Ids = 1..n
    BY DEF PinTypes, Ids
  <1>2. ASSUME NEW i \in Ids
        PROVE  /\ Retired(w, kind)[i] \in PinRows
               /\ Retired(w, kind)[i].kind = pinboard[i].kind
               /\ Retired(w, kind)[i].ns = pinboard[i].ns
               /\ Retired(w, kind)[i].tag = pinboard[i].tag
               /\ Retired(w, kind)[i].retired =
                    IF /\ pinboard[i].kind = kind /\ pinboard[i].ns = w.ns
                       /\ pinboard[i].tag = w.tag /\ pinboard[i].retired = 0 /\ i # w.id
                    THEN w.id ELSE pinboard[i].retired
    <2>1. pinboard[i] \in PinRows /\ w.id \in Nat
      BY <1>1, <1>2 DEF PinTypes, Writes
    <2>2. CASE /\ pinboard[i].kind = kind /\ pinboard[i].ns = w.ns
               /\ pinboard[i].tag = w.tag /\ Live(i) /\ i # w.id
      <3>1. Retired(w, kind)[i] = [pinboard[i] EXCEPT !.retired = w.id]
        BY <2>2 DEF Retired
      <3> QED
        BY <2>1, <2>2, <3>1 DEF PinRows, Live
    <2>3. CASE ~(/\ pinboard[i].kind = kind /\ pinboard[i].ns = w.ns
                 /\ pinboard[i].tag = w.tag /\ Live(i) /\ i # w.id)
      <3>1. Retired(w, kind)[i] = pinboard[i]
        BY <2>3 DEF Retired
      <3> QED
        BY <2>1, <2>3, <3>1 DEF Live
    <2> QED
      BY <2>2, <2>3
  <1>3. Retired(w, kind) \in [1..n -> PinRows]
    BY <1>1, <1>2 DEF Retired
  <1> QED
    BY <1>1, <1>2, <1>3

(* A step that retires no turn and starts no write: rows may be added that *)
(* are no turns, and writes may end.                                       *)
LEMMA RowsKept ==
  ASSUME ConstraintInv, PinTypes', TurnsTagged', cut \subseteq cut', crossed' = crossed,
         Ids \subseteq Ids',
         \A i \in Ids' : pinboard'[i].kind = "turn" =>
           /\ i \in Ids /\ pinboard[i].kind = "turn" /\ pinboard'[i].ns = pinboard[i].ns
           /\ pinboard'[i].tag = pinboard[i].tag /\ pinboard'[i].retired = pinboard[i].retired,
         \A i \in Ids : pinboard[i].kind = "turn" =>
           /\ pinboard'[i].kind = "turn" /\ pinboard'[i].ns = pinboard[i].ns
           /\ pinboard'[i].tag = pinboard[i].tag /\ pinboard'[i].retired = pinboard[i].retired,
         \A a \in Authors : author[a].stage # "retire" => author'[a].stage # "retire",
         \A a \in Authors : author'[a].stage = "retire" => author'[a] = author[a],
         \A a \in Authors : author[a].stage = "retire" /\ author'[a] # author[a]
           => author[a].id \in cut'
  PROVE  ConstraintInv'
  <1>1. WritesStand'
    BY DEF ConstraintInv, WritesStand
  <1>2. OverlapsCrossed'
    BY DEF ConstraintInv, OverlapsCrossed
  <1>3. OneRulePerSubject'
    BY DEF ConstraintInv, OneRulePerSubject, Live
  <1>4. SuccessorStands'
    BY DEF ConstraintInv, SuccessorStands
  <1> QED
    BY <1>1, <1>2, <1>3, <1>4 DEF ConstraintInv

(* The actions on the rows.                                                *)
LEMMA InsertKeeps ==
  ASSUME ConstraintInv, NEW a \in Authors, InsertRule(a) PROVE ConstraintInv'
  <1>1. PinTypes
    BY DEF ConstraintInv
  <1>2. PICK ns \in Spaces3, rule \in Sayable, given \in Subjects \cup {NoTag} :
          LET tag == EffectiveSubject(given, rule)
              id == Len(pinboard) + 1
          IN /\ pinboard' = Append(Backfill(ns), PinRow("turn", ns, {rule}, tag, {}))
             /\ author' = [author EXCEPT ![a] =
                  [stage |-> "retire", ns |-> ns, tag |-> tag, id |-> id]]
             /\ crossed' = crossed \cup
                  (IF Overlapping(ns, tag) = {} THEN {}
                   ELSE {id} \cup {author[b].id : b \in Overlapping(ns, tag)})
    BY DEF InsertRule
  <1>3. PICK tag, id : tag = EffectiveSubject(given, rule) /\ id = Len(pinboard) + 1
    OBVIOUS
  <1>4. PICK n \in Nat : n = Len(pinboard) /\ Ids = 1..n
    BY <1>1 DEF PinTypes, Ids
  <1>5. id = n + 1 /\ id \notin Ids /\ id \in Nat \ {0}
    BY <1>3, <1>4
  <1>6. tag \in PinTags /\ tag # NoTag /\ {rule} \in SUBSET Rules
    <2>1. \A i \in Ids : pinboard[i].says \subseteq Rules
      <3>1. \A i \in Ids : pinboard[i] \in PinRows
        BY <1>1, <1>4 DEF PinTypes
      <3> QED
        BY <3>1 DEF PinRows
    <2>2. rule \in Rules
      BY <2>1 DEF Sayable, Written
    <2>3. {rule} \in SUBSET Rules
      BY <2>2
    <2>4. Derived("turn", {rule}) \in PinTags /\ Derived("turn", {rule}) # NoTag
      BY <2>3, TagsAreSubjects DEF PinTags, Derived
    <2> QED
      BY <1>3, <2>3, <2>4, TagsAreSubjects DEF EffectiveSubject, PinTags
  <1> DEFINE row == PinRow("turn", ns, {rule}, tag, {})
             w == [stage |-> "retire", ns |-> ns, tag |-> tag, id |-> id]
  <1>7. row \in PinRows /\ row.kind = "turn" /\ row.ns = ns /\ row.tag = tag /\ row.retired = 0
    BY <1>6 DEF PinRow, PinRows
  <1>8. /\ pinboard' = Append(Backfill(ns), row)
        /\ author' = [author EXCEPT ![a] = w]
        /\ crossed' = crossed \cup (IF Overlapping(ns, tag) = {} THEN {}
                                    ELSE {id} \cup {author[b].id : b \in Overlapping(ns, tag)})
    BY <1>2, <1>3
  <1>9. /\ Backfill(ns) \in Seq(PinRows) /\ Len(Backfill(ns)) = n
        /\ \A i \in Ids :
              /\ Backfill(ns)[i].kind = pinboard[i].kind
              /\ Backfill(ns)[i].ns = pinboard[i].ns
              /\ Backfill(ns)[i].retired = pinboard[i].retired
              /\ pinboard[i].tag # NoTag => Backfill(ns)[i].tag = pinboard[i].tag
    BY <1>1, <1>4, BackfillRows
  <1>10. w \in Writes /\ w.stage = "retire" /\ w.ns = ns /\ w.tag = tag /\ w.id = id
    BY <1>5, <1>6 DEF Writes
  <1> HIDE DEF row, w
  <1>11. /\ pinboard' \in Seq(PinRows) /\ Len(pinboard') = n + 1 /\ Ids' = 1..(n + 1)
         /\ pinboard'[id] = row /\ \A i \in Ids : pinboard'[i] = Backfill(ns)[i]
    <2>1. pinboard' \in Seq(PinRows) /\ Len(pinboard') = n + 1
      BY <1>7, <1>8, <1>9
    <2>2. pinboard'[id] = row /\ \A i \in 1..n : pinboard'[i] = Backfill(ns)[i]
      BY <1>5, <1>7, <1>8, <1>9
    <2> QED
      BY <1>4, <2>1, <2>2 DEF Ids
  <1>12. Ids \subseteq Ids' /\ Ids' = Ids \cup {id}
    BY <1>4, <1>5, <1>11
  <1>13. /\ pinboard'[id].kind = "turn" /\ pinboard'[id].ns = ns
         /\ pinboard'[id].tag = tag /\ pinboard'[id].retired = 0
    BY <1>7, <1>11
  <1>14. \A i \in Ids : /\ pinboard'[i].kind = pinboard[i].kind
                        /\ pinboard'[i].ns = pinboard[i].ns
                        /\ pinboard'[i].retired = pinboard[i].retired
                        /\ pinboard[i].kind = "turn" => pinboard'[i].tag = pinboard[i].tag
    BY <1>9, <1>11 DEF ConstraintInv, TurnsTagged
  <1>15. author'[a] = w /\ \A b \in Authors : b # a => author'[b] = author[b]
    BY <1>1, <1>8 DEF PinTypes
  <1>16. crossed \subseteq crossed'
    BY <1>8
  <1>17. PinTypes'
    <2>1. author' \in [Authors -> {Unwritten} \cup Writes]
      BY <1>1, <1>8, <1>10 DEF PinTypes
    <2>2. sleeper' = sleeper
      BY DEF InsertRule
    <2> QED
      BY <1>1, <1>11, <1>12, <2>1, <2>2 DEF PinTypes
  <1>18. TurnsTagged'
    BY <1>6, <1>12, <1>13, <1>14 DEF ConstraintInv, TurnsTagged
  <1>19. WritesStand'
    <2> SUFFICES ASSUME NEW b \in Authors, author'[b].stage = "retire"
                 PROVE  /\ author'[b].id \in Ids' /\ pinboard'[author'[b].id].kind = "turn"
                        /\ pinboard'[author'[b].id].ns = author'[b].ns
                        /\ pinboard'[author'[b].id].tag = author'[b].tag
                        /\ pinboard'[author'[b].id].retired = 0 \/ author'[b].id \in crossed'
      BY DEF WritesStand
    <2>1. CASE b = a
      BY <1>10, <1>12, <1>13, <1>15, <2>1
    <2>2. CASE b # a
      BY <1>12, <1>14, <1>15, <1>16, <2>2 DEF ConstraintInv, WritesStand
    <2> QED
      BY <2>1, <2>2
  <1>20. OverlapsCrossed'
    <2> SUFFICES ASSUME NEW b \in Authors, NEW c \in Authors, b # c,
                        author'[b].stage = "retire", author'[c].stage = "retire",
                        author'[b].ns = author'[c].ns, author'[b].tag = author'[c].tag
                 PROVE  author'[b].id \in crossed'
      BY DEF OverlapsCrossed
    <2>1. CASE b = a
      <3>1. c \in Overlapping(ns, tag)
        BY <1>10, <1>15, <2>1 DEF Overlapping
      <3> QED
        BY <1>8, <1>10, <1>15, <2>1, <3>1
    <2>2. CASE c = a
      <3>1. b \in Overlapping(ns, tag)
        BY <1>10, <1>15, <2>2 DEF Overlapping
      <3> QED
        BY <1>8, <1>15, <2>2, <3>1
    <2>3. CASE b # a /\ c # a
      BY <1>15, <1>16, <2>3 DEF ConstraintInv, OverlapsCrossed
    <2> QED
      BY <2>1, <2>2, <2>3
  <1>21. OneRulePerSubject'
    <2> SUFFICES ASSUME NEW i \in Ids', NEW j \in Ids', i # j,
                        pinboard'[i].retired = 0, pinboard'[j].retired = 0,
                        pinboard'[i].kind = "turn", pinboard'[j].kind = "turn",
                        pinboard'[i].ns = pinboard'[j].ns, pinboard'[i].tag = pinboard'[j].tag
                 PROVE  \/ {i, j} \cap cut' # {}
                        \/ \E b \in Authors : author'[b].stage = "retire"
                                             /\ author'[b].id \in {i, j}
      BY DEF OneRulePerSubject, Live
    <2>1. CASE id \in {i, j}
      BY <1>10, <1>15, <2>1
    <2>2. CASE id \notin {i, j}
      <3>1. i \in Ids /\ j \in Ids
        BY <1>12, <2>2
      <3>2. \/ {i, j} \cap cut # {}
            \/ \E b \in Authors : author[b].stage = "retire" /\ author[b].id \in {i, j}
        BY <1>14, <3>1 DEF ConstraintInv, OneRulePerSubject, Live
      <3>3. author[a].stage = "idle" /\ cut' = cut
        BY DEF InsertRule
      <3> QED
        BY <1>15, <3>2, <3>3
    <2> QED
      BY <2>1, <2>2
  <1>22. SuccessorStands'
    <2> SUFFICES ASSUME NEW i \in Ids', pinboard'[i].kind = "turn", pinboard'[i].retired # 0
                 PROVE  \E j \in Ids' : /\ pinboard'[j].kind = "turn"
                                        /\ pinboard'[j].ns = pinboard'[i].ns
                                        /\ pinboard'[j].tag = pinboard'[i].tag
                                        /\ pinboard'[j].retired = 0 \/ j \in crossed'
      BY DEF SuccessorStands
    <2>1. i \in Ids
      BY <1>12, <1>13
    <2>2. PICK j \in Ids : /\ pinboard[j].kind = "turn" /\ pinboard[j].ns = pinboard[i].ns
                           /\ pinboard[j].tag = pinboard[i].tag
                           /\ pinboard[j].retired = 0 \/ j \in crossed
      BY <1>14, <2>1 DEF ConstraintInv, SuccessorStands
    <2> QED
      BY <1>12, <1>14, <1>16, <2>1, <2>2
  <1> QED
    BY <1>17, <1>18, <1>19, <1>20, <1>21, <1>22 DEF ConstraintInv

LEMMA RetireTurnsKeeps ==
  ASSUME ConstraintInv, NEW a \in Authors, RetireTurns(a) PROVE ConstraintInv'
  <1> DEFINE w == author[a]
  <1>1. PinTypes
    BY DEF ConstraintInv
  <1>2. w \in Writes /\ w.stage = "retire" /\ w.id \in Nat \ {0}
    BY <1>1 DEF PinTypes, RetireTurns, Unwritten, Writes
  <1>3. /\ w.id \in Ids /\ pinboard[w.id].kind = "turn"
        /\ pinboard[w.id].ns = w.ns /\ pinboard[w.id].tag = w.tag
        /\ pinboard[w.id].retired = 0 \/ w.id \in crossed
    BY <1>2 DEF ConstraintInv, WritesStand
  <1>4. pinboard' = Retired(w, "turn") /\ crossed' = crossed /\ cut' = cut /\ sleeper' = sleeper
    BY DEF RetireTurns
  <1> DEFINE hit(i) == /\ pinboard[i].kind = "turn" /\ pinboard[i].ns = w.ns
                       /\ pinboard[i].tag = w.tag /\ pinboard[i].retired = 0 /\ i # w.id
  <1>5. /\ pinboard' \in Seq(PinRows) /\ Len(pinboard') = Len(pinboard)
        /\ \A i \in Ids : /\ pinboard'[i].kind = pinboard[i].kind
                          /\ pinboard'[i].ns = pinboard[i].ns
                          /\ pinboard'[i].tag = pinboard[i].tag
                          /\ hit(i) => pinboard'[i].retired = w.id
                          /\ ~hit(i) => pinboard'[i].retired = pinboard[i].retired
    BY <1>1, <1>2, <1>4, RetiredRows
  <1>6. Ids' = Ids
    BY <1>1, <1>5 DEF Ids, PinTypes
  <1>7. /\ author' = [author EXCEPT ![a] = [w EXCEPT !.stage = "episodes"]]
        /\ author'[a].stage = "episodes" /\ \A b \in Authors : b # a => author'[b] = author[b]
    BY <1>1, <1>2 DEF RetireTurns, PinTypes, Writes
  <1> HIDE DEF w, hit
  <1>8. PinTypes'
    <2>1. [w EXCEPT !.stage = "episodes"] \in Writes
      BY <1>2 DEF Writes
    <2>2. author' \in [Authors -> {Unwritten} \cup Writes]
      BY <1>1, <1>7, <2>1 DEF PinTypes
    <2> QED
      BY <1>1, <1>4, <1>5, <1>6, <2>2 DEF PinTypes
  <1>9. TurnsTagged'
    BY <1>5, <1>6 DEF ConstraintInv, TurnsTagged
  <1>10. \A b \in Authors : author'[b].stage = "retire" => b # a /\ author'[b] = author[b]
    BY <1>7
  <1>11. WritesStand'
    <2> SUFFICES ASSUME NEW b \in Authors, b # a, author[b].stage = "retire"
                 PROVE  /\ author[b].id \in Ids' /\ pinboard'[author[b].id].kind = "turn"
                        /\ pinboard'[author[b].id].ns = author[b].ns
                        /\ pinboard'[author[b].id].tag = author[b].tag
                        /\ pinboard'[author[b].id].retired = 0 \/ author[b].id \in crossed'
      BY <1>10 DEF WritesStand
    <2>1. /\ author[b].id \in Ids /\ pinboard[author[b].id].kind = "turn"
          /\ pinboard[author[b].id].ns = author[b].ns
          /\ pinboard[author[b].id].tag = author[b].tag
          /\ pinboard[author[b].id].retired = 0 \/ author[b].id \in crossed
      BY DEF ConstraintInv, WritesStand
    <2>2. CASE hit(author[b].id)
      <3>1. author[b].ns = w.ns /\ author[b].tag = w.tag
        BY <2>1, <2>2 DEF hit
      <3>2. author[b].id \in crossed
        BY <1>2, <3>1 DEF ConstraintInv, OverlapsCrossed, w
      <3> QED
        BY <1>4, <1>5, <1>6, <2>1, <3>2
    <2>3. CASE ~hit(author[b].id)
      BY <1>4, <1>5, <1>6, <2>1, <2>3
    <2> QED
      BY <2>2, <2>3
  <1>12. OverlapsCrossed'
    BY <1>4, <1>10 DEF ConstraintInv, OverlapsCrossed
  <1>13. OneRulePerSubject'
    <2> SUFFICES ASSUME NEW i \in Ids, NEW j \in Ids, i # j,
                        pinboard'[i].retired = 0, pinboard'[j].retired = 0,
                        pinboard'[i].kind = "turn", pinboard'[j].kind = "turn",
                        pinboard'[i].ns = pinboard'[j].ns, pinboard'[i].tag = pinboard'[j].tag
                 PROVE  \/ {i, j} \cap cut # {}
                        \/ \E b \in Authors : author'[b].stage = "retire"
                                             /\ author'[b].id \in {i, j}
      BY <1>4, <1>6 DEF OneRulePerSubject, Live
    <2>1. /\ ~hit(i) /\ ~hit(j)
          /\ pinboard[i].retired = 0 /\ pinboard[j].retired = 0
          /\ pinboard[i].kind = "turn" /\ pinboard[j].kind = "turn"
          /\ pinboard[i].ns = pinboard[j].ns /\ pinboard[i].tag = pinboard[j].tag
      BY <1>2, <1>5
    <2>2. \/ {i, j} \cap cut # {}
          \/ \E b \in Authors : author[b].stage = "retire" /\ author[b].id \in {i, j}
      BY <2>1 DEF ConstraintInv, OneRulePerSubject, Live
    <2>3. w.id \notin {i, j}
      BY <1>3, <2>1 DEF hit
    <2> QED
      BY <1>7, <2>2, <2>3 DEF w
  <1>14. SuccessorStands'
    <2> SUFFICES ASSUME NEW i \in Ids, pinboard'[i].kind = "turn", pinboard'[i].retired # 0
                 PROVE  \E j \in Ids : /\ pinboard'[j].kind = "turn"
                                       /\ pinboard'[j].ns = pinboard'[i].ns
                                       /\ pinboard'[j].tag = pinboard'[i].tag
                                       /\ pinboard'[j].retired = 0 \/ j \in crossed
      BY <1>4, <1>6 DEF SuccessorStands
    <2>1. ~hit(w.id) /\ pinboard'[w.id].retired = pinboard[w.id].retired
      BY <1>3, <1>5 DEF hit
    <2>2. CASE pinboard[i].ns = w.ns /\ pinboard[i].tag = w.tag
      BY <1>3, <1>5, <2>1, <2>2
    <2>3. CASE ~(pinboard[i].ns = w.ns /\ pinboard[i].tag = w.tag)
      <3>1. ~hit(i) /\ pinboard[i].kind = "turn" /\ pinboard[i].retired # 0
        BY <1>5, <2>3 DEF hit
      <3>2. PICK j \in Ids : /\ pinboard[j].kind = "turn" /\ pinboard[j].ns = pinboard[i].ns
                             /\ pinboard[j].tag = pinboard[i].tag
                             /\ pinboard[j].retired = 0 \/ j \in crossed
        BY <3>1 DEF ConstraintInv, SuccessorStands
      <3>3. ~hit(j)
        BY <2>3, <3>2 DEF hit
      <3> QED
        BY <1>5, <3>2, <3>3
    <2> QED
      BY <2>2, <2>3
  <1> QED
    BY <1>8, <1>9, <1>11, <1>12, <1>13, <1>14 DEF ConstraintInv

LEMMA RetireEpisodesKeeps ==
  ASSUME ConstraintInv, NEW a \in Authors, RetireEpisodes(a) PROVE ConstraintInv'
  <1> DEFINE w == author[a]
  <1>1. PinTypes
    BY DEF ConstraintInv
  <1>2. w \in Writes /\ w.stage = "episodes"
    BY <1>1 DEF PinTypes, RetireEpisodes, Unwritten, Writes
  <1>3. /\ pinboard' = Retired(w, "episode") /\ crossed' = crossed /\ cut' = cut
        /\ sleeper' = sleeper /\ author' = [author EXCEPT ![a] = Unwritten]
    BY DEF RetireEpisodes
  <1>4. /\ pinboard' \in Seq(PinRows) /\ Len(pinboard') = Len(pinboard)
        /\ \A i \in Ids : /\ pinboard'[i].kind = pinboard[i].kind
                          /\ pinboard'[i].ns = pinboard[i].ns
                          /\ pinboard'[i].tag = pinboard[i].tag
                          /\ pinboard[i].kind = "turn" =>
                               pinboard'[i].retired = pinboard[i].retired
    BY <1>1, <1>2, <1>3, RetiredRows
  <1>5. Ids' = Ids
    BY <1>1, <1>4 DEF Ids, PinTypes
  <1>6. author'[a] = Unwritten /\ author'[a].stage = "idle"
        /\ \A b \in Authors : b # a => author'[b] = author[b]
    BY <1>1, <1>3 DEF PinTypes, Unwritten
  <1>7. PinTypes'
    BY <1>1, <1>3, <1>4, <1>5 DEF PinTypes
  <1>8. TurnsTagged'
    BY <1>4, <1>5 DEF ConstraintInv, TurnsTagged
  <1> QED
    BY <1>2, <1>3, <1>4, <1>5, <1>6, <1>7, <1>8, RowsKept

LEMMA RuleFailsKeeps ==
  ASSUME ConstraintInv, NEW a \in Authors, RuleFails(a) PROVE ConstraintInv'
  <1>1. PinTypes
    BY DEF ConstraintInv
  <1>2. /\ pinboard' = pinboard /\ crossed' = crossed /\ sleeper' = sleeper
        /\ author' = [author EXCEPT ![a] = Unwritten] /\ Ids' = Ids
        /\ cut' = IF author[a].stage = "retire" THEN cut \cup {author[a].id} ELSE cut
    BY DEF RuleFails, Ids
  <1>3. author'[a] = Unwritten /\ author'[a].stage = "idle"
        /\ \A b \in Authors : b # a => author'[b] = author[b]
    BY <1>1, <1>2 DEF PinTypes, Unwritten
  <1>4. PinTypes' /\ TurnsTagged'
    BY <1>1, <1>2 DEF PinTypes, ConstraintInv, TurnsTagged
  <1> QED
    BY <1>2, <1>3, <1>4, RowsKept

LEMMA SegmentWriteKeeps ==
  ASSUME ConstraintInv, NEW p \in Sleepers, SegmentWrite(p) PROVE ConstraintInv'
  <1>1. PinTypes
    BY DEF ConstraintInv
  <1>2. PICK g \in sleeper[p] :
          /\ pinboard' = Append(pinboard,
               PinRow("episode", pinboard[CHOOSE i \in g : TRUE].ns,
                      UNION {pinboard[i].says : i \in g}, NoTag, g))
          /\ sleeper' = [sleeper EXCEPT ![p] = @ \ {g}]
    BY DEF SegmentWrite
  <1>3. PICK n \in Nat : n = Len(pinboard) /\ Ids = 1..n
    BY <1>1 DEF PinTypes, Ids
  <1>4. \A i \in Ids : pinboard[i] \in PinRows
    BY <1>1, <1>3 DEF PinTypes
  <1>5. g # {} /\ g \subseteq Ids
    BY <1>1 DEF PinTypes
  <1>6. PICK ns, says : ns = pinboard[CHOOSE i \in g : TRUE].ns
                        /\ says = UNION {pinboard[i].says : i \in g}
    OBVIOUS
  <1>7. ns \in Spaces3 /\ says \in SUBSET Rules
    <2>1. (CHOOSE i \in g : TRUE) \in Ids
      BY <1>5
    <2> QED
      BY <1>4, <1>5, <1>6, <2>1 DEF PinRows
  <1> DEFINE row == PinRow("episode", ns, says, NoTag, g)
  <1>8. row \in PinRows /\ row.kind = "episode"
    BY <1>3, <1>5, <1>7 DEF PinRow, PinRows, PinTags
  <1>9. pinboard' = Append(pinboard, row)
    BY <1>2, <1>6
  <1> HIDE DEF row
  <1>10. /\ pinboard' \in Seq(PinRows) /\ Len(pinboard') = n + 1
         /\ pinboard'[n + 1] = row /\ \A i \in 1..n : pinboard'[i] = pinboard[i]
    BY <1>1, <1>3, <1>8, <1>9 DEF PinTypes
  <1>11. Ids' = 1..(n + 1) /\ Ids \subseteq Ids'
    BY <1>3, <1>10 DEF Ids
  <1>12. \A i \in Ids' : pinboard'[i].kind = "turn" => i \in Ids /\ pinboard'[i] = pinboard[i]
    BY <1>3, <1>8, <1>10, <1>11
  <1>13. \A i \in Ids : pinboard'[i] = pinboard[i]
    BY <1>3, <1>10
  <1>14. author' = author /\ cut' = cut /\ crossed' = crossed
    BY DEF SegmentWrite
  <1>15. PinTypes'
    <2>1. sleeper' \in [Sleepers -> SUBSET (SUBSET Nat)]
      BY <1>1, <1>2 DEF PinTypes
    <2>2. \A q \in Sleepers : sleeper'[q] \subseteq sleeper[q]
      BY <1>1, <1>2 DEF PinTypes
    <2> QED
      BY <1>1, <1>10, <1>11, <1>14, <2>1, <2>2 DEF PinTypes
  <1>16. TurnsTagged'
    BY <1>12 DEF ConstraintInv, TurnsTagged
  <1> QED
    BY <1>11, <1>12, <1>13, <1>14, <1>15, <1>16, RowsKept

LEMMA ConstraintStutters ==
  ASSUME ConstraintInv, PinTypes', UNCHANGED <<pinboard, author, cut, crossed>>
  PROVE  ConstraintInv'
  BY DEF ConstraintInv, TurnsTagged, WritesStand, OverlapsCrossed, OneRulePerSubject, Live,
         SuccessorStands, Ids

LEMMA NextConstraint == ConstraintInv /\ [ConstraintNext]_constraintVars => ConstraintInv'
  <1> SUFFICES ASSUME ConstraintInv, [ConstraintNext]_constraintVars PROVE ConstraintInv'
    OBVIOUS
  <1>1. PinTypes
    BY DEF ConstraintInv
  <1>2. ASSUME NEW a \in Authors,
               InsertRule(a) \/ RetireTurns(a) \/ RetireEpisodes(a) \/ RuleFails(a)
        PROVE  ConstraintInv'
    BY <1>2, InsertKeeps, RetireTurnsKeeps, RetireEpisodesKeeps, RuleFailsKeeps
  <1>3. ASSUME NEW p \in Sleepers, SegmentWrite(p) PROVE ConstraintInv'
    BY <1>3, SegmentWriteKeeps
  <1>4. ASSUME NEW p \in Sleepers, SegmentRead(p) PROVE ConstraintInv'
    <2>1. PICK ns \in Spaces3 : \E apart \in SUBSET Uncovered(ns) :
            sleeper' = [sleeper EXCEPT ![p] =
              ({{i} : i \in apart} \cup {Uncovered(ns) \ apart}) \ {{}}]
      BY <1>4 DEF SegmentRead
    <2>2. PICK apart \in SUBSET Uncovered(ns) :
            sleeper' = [sleeper EXCEPT ![p] =
              ({{i} : i \in apart} \cup {Uncovered(ns) \ apart}) \ {{}}]
      BY <2>1
    <2> DEFINE gs == ({{i} : i \in apart} \cup {Uncovered(ns) \ apart}) \ {{}}
    <2>3. Uncovered(ns) \subseteq Ids /\ Ids \subseteq Nat
      BY <1>1 DEF Uncovered, Ids, PinTypes
    <2>4. \A g \in gs : g # {} /\ g \subseteq Ids
      BY <2>3
    <2>5. gs \in SUBSET (SUBSET Nat)
      BY <2>3, <2>4
    <2>6. sleeper' = [sleeper EXCEPT ![p] = gs]
      BY <2>2
    <2> HIDE DEF gs
    <2>7. UNCHANGED <<pinboard, author, cut, crossed>> /\ Ids' = Ids
      BY <1>4 DEF SegmentRead, Ids
    <2>8. PinTypes'
      BY <1>1, <2>4, <2>5, <2>6, <2>7 DEF PinTypes
    <2> QED
      BY <2>7, <2>8, ConstraintStutters
  <1>5. ASSUME NEW p \in Sleepers, SegmentFails(p) PROVE ConstraintInv'
    <2>1. UNCHANGED <<pinboard, author, cut, crossed>> /\ Ids' = Ids
      BY <1>5 DEF SegmentFails, Ids
    <2>2. sleeper' = [sleeper EXCEPT ![p] = {}]
      BY <1>5 DEF SegmentFails
    <2>3. PinTypes'
      BY <1>1, <2>1, <2>2 DEF PinTypes
    <2> QED
      BY <2>1, <2>3, ConstraintStutters
  <1>6. ASSUME AddOverride \/ RemoveOverride \/ UNCHANGED constraintVars PROVE ConstraintInv'
    <2>1. UNCHANGED <<pinboard, author, sleeper, cut, crossed>> /\ Ids' = Ids
      BY <1>6 DEF AddOverride, RemoveOverride, constraintVars, Ids
    <2>2. PinTypes'
      BY <1>1, <2>1 DEF PinTypes
    <2> QED
      BY <2>1, <2>2, ConstraintStutters
  <1> QED
    BY <1>2, <1>3, <1>4, <1>5, <1>6 DEF ConstraintNext

(* Precedence leaves a subject a pin whatever the edges: if every space of *)
(* it is beaten none of its rows is dropped, and otherwise the rows of a   *)
(* space that is not are kept.                                             *)
LEMMA SubjectKeepsAPin == NoSubjectSilenced
  <1> SUFFICES ASSUME NEW nss, NEW i \in Candidates(nss)
               PROVE  \E j \in Pins(nss) : pinboard[j].tag = pinboard[i].tag
    BY DEF NoSubjectSilenced
  <1> DEFINE tag == pinboard[i].tag
             group == SameTag(Candidates(nss), tag)
             spaces == {pinboard[j].ns : j \in group}
             beaten == {n \in spaces : \E m \in spaces : Beats(m, n)}
  <1>1. i \in group
    BY DEF SameTag
  <1>2. \A j \in group : j \in Candidates(nss) /\ pinboard[j].tag = tag
    BY DEF SameTag
  <1>3. Losers(group) = IF beaten = spaces THEN {}
                        ELSE {j \in group : pinboard[j].ns \in beaten}
    BY DEF Losers
  <1>4. \E j \in group : j \notin Losers(group)
    <2>1. CASE beaten = spaces
      BY <1>1, <1>3, <2>1
    <2>2. CASE beaten # spaces
      <3>1. PICK n \in spaces : n \notin beaten
        BY <2>2
      <3>2. PICK j \in group : pinboard[j].ns = n
        BY <3>1
      <3> QED
        BY <1>3, <2>2, <3>1, <3>2
    <2> QED
      BY <2>1, <2>2
  <1>5. PICK j \in group : j \notin Losers(group)
    BY <1>4
  <1>6. j \in Pins(nss)
    BY <1>2, <1>5 DEF Pins
  <1> QED
    BY <1>2, <1>6

(* A subject has one live constraint but for a write that failed or is     *)
(* under way, loses it only when writes overlap, and always keeps a pin,   *)
(* for any authors, segmentations, namespaces and override edges.          *)
THEOREM OneConstraintPerSubject == ConstraintSpec => []ConstraintsSound
  <1>1. ConstraintInv => ConstraintsSound
    BY SubjectKeepsAPin
    DEF ConstraintInv, SuccessorStands, SubjectLostOnlyInARace, Live, ConstraintsSound
  <1> QED
    BY <1>1, InitConstraint, NextConstraint, PTL DEF ConstraintSpec

-----------------------------------------------------------------------------
(* The types the other proofs had no use for, part by part.                *)
AccessTallies == /\ valid \subseteq Tokens /\ changes \in 0..MaxChanges
                 /\ direct \in [Principals -> [Entries -> SUBSET Rights]]

LEMMA AccessTalliesInit == AccessInit => AccessTallies
  BY AccessBounds DEF AccessInit, Rights, AccessTallies

LEMMA AccessTalliesKept == AccessTallies /\ [AccessNext]_accessVars => AccessTallies'
  <1> SUFFICES ASSUME AccessTallies, [AccessNext]_accessVars PROVE AccessTallies'
    OBVIOUS
  <1> USE DEF AccessTallies
  <1>1. Change => changes' \in 0..MaxChanges
    BY AccessBounds DEF Change
  <1>2. CASE UNCHANGED <<valid, direct, changes>>
    BY <1>2
  <1>3. ASSUME NEW k \in Tokens, SetToken(k) PROVE AccessTallies'
    BY <1>1, <1>3 DEF SetToken
  <1>4. ASSUME NEW p \in Principals, NEW e \in Entries, SetGrant(p, e) PROVE AccessTallies'
    BY <1>1, <1>4 DEF SetGrant, Rights
  <1>5. ASSUME NEW e \in Entries, DropGrantsOn(e) PROVE AccessTallies'
    <2>1. \A p \in Principals : [direct[p] EXCEPT ![e] = {}] \in [Entries -> SUBSET Rights]
      OBVIOUS
    <2> QED
      BY <1>1, <1>5, <2>1 DEF DropGrantsOn
  <1>6. CASE CreateRole
    BY <1>1, <1>6 DEF CreateRole
  <1>7. ASSUME NEW a \in Admins, LookUpRole(a) PROVE AccessTallies'
    BY <1>1, <1>7 DEF LookUpRole, tables
  <1> QED
    BY <1>2, <1>3, <1>4, <1>5, <1>6, <1>7
    DEF AccessNext, accessVars, tables, requests, Request, Arrive, Authenticate, Authorize,
        ServeRequest, RoleStatement, RoleGrant, RoleRevoke, RoleMember, DeleteRoleGrants,
        DeleteRoleMembers, DeleteRole, AdminDies

LEMMA AccessTyped == AccessInv /\ AccessTallies => AccessTypeOK
  BY DEF AccessInv, RequestInv, TableInv, AccessTallies, AccessTypeOK, Stages

(* Leases: a call keeps its shape until it is answered.                    *)
CallRecord == [id : Nat, by : Sessions, verb : Verbs, ttl : TTLs,
               phase : {"sent", "begun", "done"}, at : Nat, yes : BOOLEAN, told : Nat]

LeaseTallies == /\ calls \subseteq CallRecord /\ made <= MaxCalls
                /\ \A s \in Sessions : awaited[s] <= made

LEMMA LeaseTalliesInit == LeaseInit => LeaseTallies
  BY LeaseBounds DEF LeaseInit, LeaseTallies

LEMMA LeaseFinishes ==
  ASSUME LeaseTallies, NEW c \in calls, NEW yes \in BOOLEAN, Finish(c, yes)
  PROVE  calls' \subseteq CallRecord
  <1>0. c \in CallRecord
    BY DEF LeaseTallies
  <1>5. c.at \in Nat /\ c.ttl \in TTLs
    BY <1>0 DEF CallRecord
  <1>6. c.ttl \in Nat
    BY <1>5, TTLAssumption
  <1>1. c \in CallRecord /\ c.at + c.ttl \in Nat
    BY <1>0, <1>5, <1>6
  <1>2. PICK told \in Nat : told = IF yes /\ c.verb # "release" THEN c.at + c.ttl ELSE 0
    BY <1>1
  <1>3. [c EXCEPT !.phase = "done", !.yes = yes, !.told = told] \in CallRecord
    BY <1>1 DEF CallRecord
  <1> QED
    BY <1>2, <1>3 DEF Finish, Becomes, LeaseTallies

LEMMA LeaseTalliesKept == LeaseInv /\ LeaseTallies /\ [LeaseNext]_leaseVars => LeaseTallies'
  <1> SUFFICES ASSUME LeaseInv, LeaseTallies, [LeaseNext]_leaseVars PROVE LeaseTallies'
    OBVIOUS
  <1>0. made \in Nat /\ clock \in Nat /\ awaited \in [Sessions -> Nat] /\ calls \subseteq CallRecord
        /\ made <= MaxCalls /\ \A s \in Sessions : awaited[s] <= made
    BY DEF LeaseInv, LeaseTypes, LeaseTallies
  <1>1. ASSUME NEW s \in Sessions, LeaseCall(s) PROVE LeaseTallies'
    <2>1. PICK v \in Verbs, ttl \in TTLs :
            calls' = calls \cup
              {[id |-> made + 1, by |-> s, verb |-> v, ttl |-> ttl,
                phase |-> "sent", at |-> 0, yes |-> FALSE, told |-> 0]}
      BY <1>1 DEF LeaseCall
    <2> DEFINE d == [id |-> made + 1, by |-> s, verb |-> v, ttl |-> ttl,
                     phase |-> "sent", at |-> 0, yes |-> FALSE, told |-> 0]
    <2>5. made + 1 \in Nat
      BY <1>0
    <2>6. d \in CallRecord
      BY <2>5 DEF CallRecord
    <2>2. calls' \subseteq CallRecord
      BY <1>0, <2>1, <2>6
    <2> HIDE DEF d
    <2>3. made < MaxCalls /\ made' = made + 1 /\ awaited' = [awaited EXCEPT ![s] = made + 1]
      BY <1>1 DEF LeaseCall
    <2>4. made' <= MaxCalls /\ \A t \in Sessions : awaited'[t] <= made'
      BY <1>0, <2>3, LeaseBounds
    <2> QED
      BY <2>2, <2>4 DEF LeaseTallies
  <1>2. ASSUME NEW s \in Sessions, LeaseTimeout(s) PROVE LeaseTallies'
    BY <1>0, <1>2 DEF LeaseTimeout, LeaseTallies
  <1>3. ASSUME NEW c \in calls, LeaseAnswer(c) PROVE LeaseTallies'
    <2>1. c.by \in Sessions
      BY <1>0 DEF CallRecord
    <2> QED
      BY <1>0, <1>3, <2>1 DEF LeaseAnswer, LeaseTallies
  <1>4. ASSUME NEW c \in calls,
               LeaseAcquire(c) \/ LeaseHeartbeat(c) \/ LeaseRelease(c)
        PROVE  LeaseTallies'
    <2>1. PICK yes \in BOOLEAN : Finish(c, yes)
      BY <1>4 DEF LeaseAcquire, LeaseHeartbeat, LeaseRelease
    <2>2. calls' \subseteq CallRecord
      BY <2>1, LeaseFinishes
    <2>3. UNCHANGED <<made, awaited>>
      BY <1>4 DEF LeaseAcquire, LeaseHeartbeat, LeaseRelease
    <2> QED
      BY <1>0, <2>2, <2>3 DEF LeaseTallies
  <1>5. ASSUME NEW c \in calls, LeaseStatement(c) PROVE LeaseTallies'
    <2>1. [c EXCEPT !.phase = "begun", !.at = clock] \in CallRecord
      BY <1>0 DEF CallRecord
    <2> QED
      BY <1>0, <1>5, <2>1 DEF LeaseStatement, Becomes, LeaseTallies
  <1>6. CASE LeaseTick \/ UNCHANGED leaseVars
    BY <1>0, <1>6 DEF LeaseTick, leaseVars, LeaseTallies
  <1> QED
    BY <1>1, <1>2, <1>3, <1>4, <1>5, <1>6 DEF LeaseNext, LeaseServe

LEMMA LeaseTyped == LeaseInv /\ LeaseTallies => LeaseTypeOK
  <1> SUFFICES ASSUME LeaseInv, LeaseTallies PROVE LeaseTypeOK
    OBVIOUS
  <1>1. clock \in Nat /\ made \in Nat /\ made <= MaxCalls
    BY DEF LeaseInv, LeaseTypes, LeaseTallies
  <1>2. ASSUME NEW c \in calls
        PROVE  c \in [id : 1..made, by : Sessions, verb : Verbs, ttl : TTLs,
                      phase : {"sent", "begun", "done"}, at : 0..clock,
                      yes : BOOLEAN, told : Nat]
    <2>1. c \in CallRecord /\ 0 < c.id /\ c.id <= made /\ c.at <= clock
      BY DEF LeaseInv, LeaseTypes, CallOK, IdsUnique, CallsLag, LeaseTallies
    <2>2. c.id \in 1..made /\ c.at \in 0..clock
      BY <1>1, <2>1 DEF CallRecord
    <2> QED
      BY <2>1, <2>2 DEF CallRecord
  <1>3. awaited \in [Sessions -> 0..made]
    BY <1>1 DEF LeaseInv, LeaseTypes, LeaseTallies
  <1> QED
    BY <1>1, <1>2, <1>3, LeaseBounds DEF LeaseInv, LeaseTypes, LeaseTypeOK

(* Bindings: what a cache file and a fetched answer hold are rows there    *)
(* were.                                                                   *)
FetchedRows == \A c \in Clients : /\ fetched[c].rows \subseteq Row
                                  /\ fetched[c].at # "none" => fetched[c].on \in Machines

BindTallies ==
  /\ bindOps \in 0..MaxBindOps /\ raced \subseteq HostIds
  /\ cache \in [Machines -> SUBSET Row] /\ DOMAIN fetched = Clients /\ FetchedRows
  /\ doubled \subseteq Pairs /\ opens \in [Pairs -> 0..MaxOpens]

LEMMA BindTalliesInit == BindingInit => BindTallies
  BY BindingBounds DEF BindingInit, BindTallies, FetchedRows, HostIds

LEMMA RowsAreRows == BindTypes => bindRows \subseteq Row
  BY DEF BindTypes, BindRow, Row

LEMMA BindTalliesKept ==
  BindInv /\ BindInv' /\ NudgeInv /\ BindTallies /\ [BindingNext]_bindingVars => BindTallies'
  <1> SUFFICES ASSUME BindInv, BindInv', NudgeInv, BindTallies, [BindingNext]_bindingVars
               PROVE  BindTallies'
    OBVIOUS
  <1>0. ids \in Nat /\ ids' \in Nat /\ bindRows \subseteq Row
        /\ \A c \in Clients : intent[c].host \in HostIds
    BY RowsAreRows DEF BindInv, BindTypes
  <1>1. ids <= ids'
    <2>1. ids' \in {ids, ids + 1}
      BY DEF BindingNext, BindingStep, NudgeStep, bindingVars, bindv, BindSelect, BindWrite,
             UnbindFind, UnbindDelete, RefreshOpen, RefreshDump, RefreshEnds, BindHost, RefreshGet,
             TakeSelect, TakeUpdate, RecordNudge
    <2> QED
      BY <1>0, <2>1
  <1>2. Row \subseteq Row'
    BY <1>0, <1>1 DEF Row
  <1>3. /\ cache \in [Machines -> SUBSET Row'] /\ DOMAIN fetched = Clients
        /\ \A c \in Clients : /\ fetched[c].rows \subseteq Row'
                              /\ fetched[c].at # "none" => fetched[c].on \in Machines
    BY <1>2 DEF BindTallies, FetchedRows
  <1>4. UNCHANGED cachev => cache' \in [Machines -> SUBSET Row'] /\ DOMAIN fetched' = Clients /\ FetchedRows'
    BY <1>3 DEF cachev, FetchedRows
  <1>5. UNCHANGED nudgev => doubled' \subseteq Pairs /\ opens' \in [Pairs -> 0..MaxOpens]
    BY DEF nudgev, BindTallies
  <1>6. bindOps \in 0..MaxBindOps /\ raced \subseteq HostIds
    BY DEF BindTallies
  <1>7. BindOp => bindOps' \in 0..MaxBindOps
    BY <1>6, BindingBounds DEF BindOp
  <1>8. ASSUME NEW c \in Clients, NEW h \in HostIds, Meet(c, h) PROVE raced' \subseteq HostIds
    BY <1>6, <1>8 DEF Meet
  <1>9. ASSUME NEW c \in Clients,
               BindSelect(c) \/ BindWrite(c) \/ UnbindFind(c) \/ UnbindDelete(c)
               \/ \E m \in Machines : BindHost(c, m)
        PROVE  BindTallies'
    <2>1. UNCHANGED cachev /\ UNCHANGED nudgev
      BY <1>9 DEF BindSelect, BindWrite, UnbindFind, UnbindDelete, BindHost
    <2>2. bindOps' \in 0..MaxBindOps
      BY <1>6, <1>7, <1>9 DEF BindSelect, BindWrite, UnbindFind, UnbindDelete, BindHost
    <2>3. raced' \subseteq HostIds
      <3>1. CASE BindSelect(c)
        BY <1>8, <3>1 DEF BindSelect, HostIds
      <3>2. CASE UnbindFind(c)
        BY <1>0, <1>8, <3>2 DEF UnbindFind, Row
      <3>3. ASSUME NEW m \in Machines, BindHost(c, m) PROVE raced' \subseteq HostIds
        BY <1>8, <3>3 DEF BindHost, HostIds
      <3>4. CASE BindWrite(c) \/ UnbindDelete(c)
        BY <1>6, <3>4 DEF BindWrite, UnbindDelete
      <3> QED
        BY <1>9, <3>1, <3>2, <3>3, <3>4
    <2> QED
      BY <1>4, <1>5, <2>1, <2>2, <2>3 DEF BindTallies
  <1>10. ASSUME NEW c \in Clients,
                RefreshOpen(c) \/ RefreshDump(c) \/ RefreshEnds(c)
                \/ \E m \in Machines : RefreshGet(c, m)
         PROVE  BindTallies'
    <2>1. UNCHANGED bindv /\ UNCHANGED nudgev
      BY <1>10 DEF RefreshOpen, RefreshDump, RefreshEnds, RefreshGet
    <2>2. Row' = Row
      BY <2>1 DEF bindv, Row
    <2>3. cache' \in [Machines -> SUBSET Row]
      <3>1. fetched[c].rows \subseteq Row /\ cache \in [Machines -> SUBSET Row]
        BY DEF BindTallies, FetchedRows
      <3> QED
        BY <1>10, <3>1 DEF RefreshOpen, RefreshDump, RefreshEnds, RefreshGet
    <2>4. DOMAIN fetched' = Clients /\ FetchedRows'
      <3>1. PICK f : /\ fetched' = [fetched EXCEPT ![c] = f] /\ f.rows \subseteq Row
                     /\ f.at # "none" => f.on \in Machines
        <4>1. CASE RefreshOpen(c)
          <5>1. PICK f : f = [fetched[c] EXCEPT !.at = "opened"]
            OBVIOUS
          <5>2. fetched[c].at # "none" /\ fetched' = [fetched EXCEPT ![c] = f]
            BY <4>1, <5>1 DEF RefreshOpen
          <5>3. f.rows = fetched[c].rows /\ f.on = fetched[c].on
            BY <5>1
          <5> QED
            BY <5>2, <5>3 DEF BindTallies, FetchedRows
        <4>2. CASE RefreshDump(c) \/ RefreshEnds(c)
          <5>1. PICK f : f = [on |-> NoRow, rows |-> {}, at |-> "none"]
            OBVIOUS
          <5>2. fetched' = [fetched EXCEPT ![c] = f]
            BY <4>2, <5>1 DEF RefreshDump, RefreshEnds
          <5>3. f.rows = {} /\ f.at = "none"
            BY <5>1
          <5> QED
            BY <5>2, <5>3
        <4>3. ASSUME NEW m \in Machines, RefreshGet(c, m)
              PROVE  \E f : /\ fetched' = [fetched EXCEPT ![c] = f] /\ f.rows \subseteq Row
                            /\ f.at # "none" => f.on \in Machines
          <5>1. PICK f : f = [on |-> m, rows |-> bindRows, at |-> "got"]
            OBVIOUS
          <5>2. fetched' = [fetched EXCEPT ![c] = f]
            BY <4>3, <5>1 DEF RefreshGet
          <5>3. f.rows = bindRows /\ f.on = m
            BY <5>1
          <5> QED
            BY <1>0, <5>2, <5>3
        <4> QED
          BY <1>10, <4>1, <4>2, <4>3
      <3> QED
        BY <2>2, <3>1 DEF BindTallies, FetchedRows
    <2> QED
      BY <1>5, <1>6, <2>1, <2>2, <2>3, <2>4 DEF BindTallies, bindv
  <1>11. CASE NudgeStep
    <2>1. UNCHANGED bindv /\ UNCHANGED cachev
      BY <1>11 DEF NudgeStep, TakeSelect, TakeUpdate, RecordNudge
    <2>2. doubled' \subseteq Pairs
      BY <1>11 DEF NudgeStep, TakeSelect, TakeUpdate, RecordNudge, NudgeInv, BindTallies
    <2>3. opens' \in [Pairs -> 0..MaxOpens]
      BY <1>11, BindingBounds DEF NudgeStep, TakeSelect, TakeUpdate, RecordNudge, BindTallies
    <2> QED
      BY <1>4, <1>6, <2>1, <2>2, <2>3 DEF BindTallies, bindv
  <1>12. CASE UNCHANGED bindingVars
    BY <1>4, <1>5, <1>6, <1>12 DEF BindTallies, bindingVars, bindv
  <1> QED
    BY <1>9, <1>10, <1>11, <1>12 DEF BindingNext, BindingStep

LEMMA BindTyped == BindInv /\ NudgeInv /\ BindTallies => BindingTypeOK
  BY RowsAreRows DEF BindInv, BindTypes, NudgeInv, BindTallies, BindingTypeOK

(* Registry: the ids of turns are ids that were drawn, wherever they are   *)
(* carried to.                                                             *)
Drawn == 0..written
RegTallies ==
  /\ written \in 0..MaxWrites
  /\ turns \in [Names -> SUBSET Drawn] /\ facts \in [Names -> SUBSET Drawn]
  /\ scan \in [Hosts -> SUBSET Drawn]
  /\ writes \subseteq [turn : Nat, ns : Names, by : Hosts, at : {"register", "extract"}]
  /\ \A w \in writes : 0 < w.turn /\ w.turn <= written
  /\ listed \subseteq [ns : Names, full : BOOLEAN]
  /\ old \cup gap \cup dropped \subseteq Names /\ purged \subseteq Drawn
  /\ backfilled \in BOOLEAN

LEMMA RegTalliesInit == RegInit => RegTallies
  <1> SUFFICES ASSUME RegInit PROVE RegTallies
    OBVIOUS
  <1>1. PICK T \in SUBSET Names, F \in SUBSET Names :
          /\ turns = [n \in Names |-> IF n \in T THEN {0} ELSE {}]
          /\ facts = [n \in Names |-> IF n \in F THEN {0} ELSE {}]
          /\ old = T \cup F
    BY DEF RegInit
  <1>2. written \in 0..MaxWrites /\ 0 \in Drawn
    BY RegistryBounds DEF RegInit, Drawn
  <1> QED
    BY <1>1, <1>2 DEF RegInit, RegTallies

LEMMA RegTalliesKept == RegInv /\ RegTallies /\ [RegNext]_regVars => RegTallies'
  <1> SUFFICES ASSUME RegInv, RegTallies, [RegNext]_regVars PROVE RegTallies'
    OBVIOUS
  <1> USE DEF RegTallies
  <1>1. registry \subseteq Names /\ JobTypes
    BY DEF RegInv, RegTypes
  <1>2. Rows(turns) \subseteq Drawn /\ Rows(facts) \subseteq Drawn
    BY DEF Rows
  <1>3. ASSUME NEW h \in Hosts, Boot(h) PROVE RegTallies'
    <2>1. UNCHANGED <<data, writing, admin, gap, old, purged>>
      BY <1>3 DEF Boot, BootStart, BootNextTable, BootMark, BackfillFails, BootChunk, seen
    <2>2. Drawn' = Drawn
      BY <2>1 DEF writing, Drawn
    <2>3. scan' \in [Hosts -> SUBSET Drawn]
      BY <1>2, <1>3 DEF Boot, BootStart, BootNextTable, BootMark, BackfillFails, BootChunk
    <2>4. dropped' \subseteq Names
      BY <1>3 DEF Boot, BootStart, BootNextTable, BootMark, BackfillFails, BootChunk, List, seen
    <2>5. backfilled' \in BOOLEAN
      BY <1>3 DEF Boot, BootStart, BootNextTable, BootMark, BackfillFails, BootChunk
    <2> QED
      BY <2>1, <2>2, <2>3, <2>4, <2>5 DEF data, writing, admin
  <1>4. ASSUME NEW h \in Hosts, HostRestarts(h) PROVE RegTallies'
    <2>1. /\ UNCHANGED <<data, backfilled, written, admin, old, dropped, purged>>
          /\ writes' \subseteq writes /\ scan' = [scan EXCEPT ![h] = {}]
      BY <1>4 DEF HostRestarts
    <2>2. gap' \subseteq Names
      BY <1>4 DEF HostRestarts
    <2>3. Drawn' = Drawn
      BY <2>1 DEF Drawn
    <2> QED
      BY <2>1, <2>2, <2>3 DEF data, admin
  <1>5. ASSUME NEW h \in Hosts, NEW n \in Names, WriteTurn(h, n) PROVE RegTallies'
    <2>1. PICK w : w = [turn |-> written + 1, ns |-> n, by |-> h, at |-> "register"]
      OBVIOUS
    <2>2. /\ written' = written + 1 /\ written < MaxWrites
          /\ turns' = [turns EXCEPT ![n] = @ \cup {written + 1}]
          /\ writes' = writes \cup {w}
          /\ UNCHANGED <<facts, scan, backfilled, listed, old, gap, dropped, purged>>
      BY <1>5, <2>1 DEF WriteTurn, booting, admin, seen
    <2>3. PICK m \in Nat : m = written
      OBVIOUS
    <2>4. written' \in 0..MaxWrites /\ m + 1 \in Drawn' /\ Drawn \subseteq Drawn'
      BY <2>2, <2>3, RegistryBounds DEF Drawn
    <2>5. w \in [turn : Nat, ns : Names, by : Hosts, at : {"register", "extract"}] /\ w.turn = m + 1
      BY <2>1, <2>3
    <2>6. writes' \subseteq [turn : Nat, ns : Names, by : Hosts, at : {"register", "extract"}]
      BY <2>2, <2>5
    <2>7. \A x \in writes' : 0 < x.turn /\ x.turn <= written'
      BY <2>2, <2>3, <2>5
    <2>8. /\ turns' \in [Names -> SUBSET Drawn'] /\ facts' \in [Names -> SUBSET Drawn']
          /\ scan' \in [Hosts -> SUBSET Drawn'] /\ purged' \subseteq Drawn'
      <3> HIDE DEF Drawn
      <3>1. \A k \in Names : turns[k] \subseteq Drawn' /\ facts[k] \subseteq Drawn'
        BY <2>4
      <3>2. \A k \in Hosts : scan[k] \subseteq Drawn'
        BY <2>4
      <3>3. turns' = [turns EXCEPT ![n] = @ \cup {m + 1}]
        BY <2>2, <2>3
      <3> QED
        BY <2>2, <2>4, <3>1, <3>2, <3>3
    <2> QED
      BY <2>2, <2>4, <2>6, <2>7, <2>8
  <1>6. ASSUME NEW w \in writes, Register(w) PROVE RegTallies'
    <2>1. UNCHANGED <<data, booting, written, admin, old, purged>>
      BY <1>6 DEF Register
    <2>2. PICK x : x = [w EXCEPT !.at = "extract"] /\ writes' = (writes \ {w}) \cup {x}
      BY <1>6 DEF Register, Extracting
    <2>3. x \in [turn : Nat, ns : Names, by : Hosts, at : {"register", "extract"}]
          /\ x.turn = w.turn
      BY <2>2
    <2>4. gap' \subseteq Names /\ dropped' \subseteq Names
      BY <1>6 DEF Register, List
    <2>5. Drawn' = Drawn
      BY <2>1 DEF Drawn
    <2> QED
      BY <2>1, <2>2, <2>3, <2>4, <2>5 DEF data, booting, admin
  <1>7. ASSUME NEW w \in writes, Extract(w) PROVE RegTallies'
    <2>1. w.turn \in Drawn
      BY DEF Drawn
    <2>2. UNCHANGED <<turns, booting, written, admin, seen>> /\ writes' \subseteq writes
      BY <1>7 DEF Extract
    <2>3. Drawn' = Drawn
      BY <2>2 DEF Drawn
    <2>4. facts' \in [Names -> SUBSET Drawn]
      BY <1>7, <2>1 DEF Extract
    <2> QED
      BY <2>2, <2>3, <2>4 DEF booting, admin, seen
  <1>8. ASSUME DropRow \/ PurgeFacts \/ PurgeTurns \/ MigrateTurns \/ MigrateFacts PROVE RegTallies'
    <2>1. UNCHANGED <<booting, writing, listed, jobs, old>>
      BY <1>8 DEF DropRow, PurgeFacts, PurgeTurns, MigrateTurns, MigrateFacts, seen
    <2>2. Drawn' = Drawn
      BY <2>1 DEF writing, Drawn
    <2>3. job.ns \in Names /\ job.to \in Names
      BY <1>1, <1>8 DEF DropRow, PurgeFacts, PurgeTurns, MigrateTurns, MigrateFacts, JobTypes
    <2>4. gap' \subseteq Names /\ dropped' \subseteq Names
      BY <1>8, <2>3 DEF DropRow, PurgeFacts, PurgeTurns, MigrateTurns, MigrateFacts, seen, Into
    <2>5. purged' \subseteq Drawn
      BY <1>8, <2>3 DEF DropRow, PurgeFacts, PurgeTurns, MigrateTurns, MigrateFacts, seen
    <2>6. turns' \in [Names -> SUBSET Drawn] /\ facts' \in [Names -> SUBSET Drawn]
      BY <1>8, <2>3 DEF DropRow, PurgeFacts, PurgeTurns, MigrateTurns, MigrateFacts, Relabel, data
    <2> QED
      BY <2>1, <2>2, <2>4, <2>5, <2>6 DEF booting, writing
  <1>9. CASE PruneScan
    <2>1. PICK stale \in SUBSET {n \in Names : HasData(n)} :
            listed' = {[ns |-> n, full |-> n \in stale] :
                         n \in stale \cup {m \in registry : ~HasData(m)}}
      BY <1>9 DEF PruneScan
    <2>2. listed' \subseteq [ns : Names, full : BOOLEAN]
      <3>1. ASSUME NEW c \in listed' PROVE c \in [ns : Names, full : BOOLEAN]
        <4>1. PICK n \in stale \cup {m \in registry : ~HasData(m)} :
                c = [ns |-> n, full |-> n \in stale]
          BY <2>1, <3>1, Zenon
        <4>2. n \in Names
          BY <1>1
        <4>3. c.ns = n /\ c.full = (n \in stale)
          BY <4>1
        <4>4. c.full \in BOOLEAN
          BY <4>3
        <4>5. c = [ns |-> c.ns, full |-> c.full]
          BY <4>1
        <4> QED
          BY <4>2, <4>3, <4>4, <4>5
      <3> QED
        BY <3>1
    <2>3. UNCHANGED <<data, booting, writing, seen>>
      BY <1>9 DEF PruneScan
    <2>4. Drawn' = Drawn
      BY <2>3 DEF writing, Drawn
    <2> QED
      BY <2>2, <2>3, <2>4 DEF data, booting, writing, seen
  <1>10. CASE \/ PruneNext \/ JobFails \/ UNCHANGED regVars
              \/ \E n \in Names : DeleteName(n) \/ CreateName(n)
              \/ \E m, n \in Names : Migrate(m, n)
    <2>1. UNCHANGED <<data, booting, writing, old, gap, purged>> /\ listed' \subseteq listed
      BY <1>10 DEF PruneNext, JobFails, DeleteName, CreateName, Migrate, regVars, admin, seen
    <2>2. Drawn' = Drawn
      BY <2>1 DEF writing, Drawn
    <2>3. dropped' \subseteq Names
      BY <1>10 DEF PruneNext, JobFails, DeleteName, CreateName, Migrate, regVars, seen, List
    <2> QED
      BY <2>1, <2>2, <2>3 DEF data, booting, writing
  <1> QED
    BY <1>3, <1>4, <1>5, <1>6, <1>7, <1>8, <1>9, <1>10 DEF RegNext, Administer

LEMMA RegTyped == RegInv /\ RegTallies => RegTypeOK
  <1> SUFFICES ASSUME RegInv, RegTallies PROVE RegTypeOK
    OBVIOUS
  <1>1. written \in 0..MaxWrites /\ Drawn \subseteq TurnIds
    BY RegistryBounds DEF RegTallies, Drawn, TurnIds
  <1>2. ASSUME NEW w \in writes
        PROVE  w \in [turn : 1..written, ns : Names, by : Hosts, at : {"register", "extract"}]
    <2>1. w \in [turn : Nat, ns : Names, by : Hosts, at : {"register", "extract"}]
          /\ 0 < w.turn /\ w.turn <= written
      BY DEF RegTallies
    <2>2. w.turn \in 1..written
      BY <1>1, <2>1
    <2> QED
      BY <2>1, <2>2
  <1>3. /\ turns \in [Names -> SUBSET TurnIds] /\ facts \in [Names -> SUBSET TurnIds]
        /\ scan \in [Hosts -> SUBSET TurnIds] /\ purged \subseteq TurnIds
    <2> HIDE DEF TurnIds
    <2> QED
      BY <1>1 DEF RegTallies
  <1> QED
    BY <1>1, <1>2, <1>3 DEF RegInv, RegTypes, RegTallies, RegTypeOK

(* Constraints: ids in the rows and in what requests remember are ids of   *)
(* rows there are.                                                         *)
RowsPoint == \A i \in Ids : pinboard[i].of \subseteq Ids /\ pinboard[i].retired \in Ids \cup {0}

PinTallies ==
  /\ Len(pinboard) <= MaxRows /\ RowsPoint
  /\ \A a \in Authors : author[a].stage # "idle" => author[a].id \in Ids
  /\ \A e \in overrides : <<e[2], e[1]>> \in Above
  /\ cut \cup crossed \subseteq Ids /\ failures \in 0..MaxFailures

LEMMA PinTalliesInit == ConstraintInit => PinTallies
  BY ConstraintBounds DEF ConstraintInit, PinTallies, RowsPoint, Ids, Unwritten

LEMMA BackfillPoints ==
  ASSUME PinTypes, NEW ns, NEW i \in Ids
  PROVE  Backfill(ns)[i].of = pinboard[i].of /\ Backfill(ns)[i].retired = pinboard[i].retired
  <1>1. pinboard[i] \in PinRows
    BY DEF PinTypes, Ids
  <1>2. PICK tag : tag = Derived(pinboard[i].kind, pinboard[i].says)
    OBVIOUS
  <1>3. Backfill(ns)[i] = [pinboard[i] EXCEPT !.tag = tag] \/ Backfill(ns)[i] = pinboard[i]
    BY <1>2 DEF Backfill
  <1> QED
    BY <1>1, <1>3 DEF PinRows

LEMMA RetiredPoints ==
  ASSUME PinTypes, NEW w, NEW kind, NEW i \in Ids
  PROVE  /\ Retired(w, kind)[i].of = pinboard[i].of
         /\ Retired(w, kind)[i].retired \in {w.id, pinboard[i].retired}
  <1>1. pinboard[i] \in PinRows
    BY DEF PinTypes, Ids
  <1>2. PICK id : id = w.id
    OBVIOUS
  <1>3. Retired(w, kind)[i] = [pinboard[i] EXCEPT !.retired = id] \/ Retired(w, kind)[i] = pinboard[i]
    BY <1>2 DEF Retired
  <1> QED
    BY <1>1, <1>2, <1>3 DEF PinRows

LEMMA PinTalliesKept ==
  ConstraintInv /\ PinTallies /\ [ConstraintNext]_constraintVars => PinTallies'
  <1> SUFFICES ASSUME ConstraintInv, PinTallies, [ConstraintNext]_constraintVars
               PROVE  PinTallies'
    OBVIOUS
  <1>1. PinTypes
    BY DEF ConstraintInv
  <1>2. PICK n \in Nat : n = Len(pinboard) /\ Ids = 1..n
    BY <1>1 DEF PinTypes, Ids
  <1>3. failures < MaxFailures /\ failures' = failures + 1 => failures' \in 0..MaxFailures
    BY ConstraintBounds DEF PinTallies
  <1>4. ASSUME NEW a \in Authors, InsertRule(a) PROVE PinTallies'
    <2>1. PICK ns, rule, tag, id :
            /\ id = n + 1
            /\ pinboard' = Append(Backfill(ns), PinRow("turn", ns, {rule}, tag, {}))
            /\ author' = [author EXCEPT ![a] =
                 [stage |-> "retire", ns |-> ns, tag |-> tag, id |-> id]]
            /\ crossed' = crossed \cup
                 (IF Overlapping(ns, tag) = {} THEN {}
                  ELSE {id} \cup {author[b].id : b \in Overlapping(ns, tag)})
      BY <1>2, <1>4 DEF InsertRule
    <2> DEFINE row == PinRow("turn", ns, {rule}, tag, {})
               w == [stage |-> "retire", ns |-> ns, tag |-> tag, id |-> id]
    <2>2. row.of = {} /\ row.retired = 0
      BY DEF PinRow
    <2>3. w.stage = "retire" /\ w.id = id /\ author' = [author EXCEPT ![a] = w]
      BY <2>1
    <2> HIDE DEF row, w
    <2>4. PICK B : B = Backfill(ns) /\ B \in Seq(PinRows) /\ Len(B) = n
                   /\ \A i \in Ids : B[i].of = pinboard[i].of /\ B[i].retired = pinboard[i].retired
      BY <1>1, <1>2, BackfillRows, BackfillPoints
    <2>5. pinboard' = Append(B, row)
      BY <2>1, <2>4 DEF row
    <2>6. Len(pinboard') = n + 1 /\ pinboard'[n + 1] = row /\ \A i \in 1..n : pinboard'[i] = B[i]
      BY <2>4, <2>5
    <2>7. Ids' = 1..(n + 1)
      BY <2>4, <2>5 DEF Ids
    <2>8. Ids' = Ids \cup {id} /\ Ids \subseteq Ids'
      BY <1>2, <2>1, <2>7
    <2>9. RowsPoint'
      <3>1. ASSUME NEW i \in Ids' PROVE pinboard'[i].of \subseteq Ids' /\ pinboard'[i].retired \in Ids' \cup {0}
        <4>1. CASE i = n + 1
          BY <2>2, <2>6, <4>1
        <4>2. CASE i # n + 1
          <5>1. i \in Ids /\ i \in 1..n
            BY <1>2, <2>1, <2>8, <4>2
          <5>2. pinboard'[i].of = pinboard[i].of /\ pinboard'[i].retired = pinboard[i].retired
            BY <2>4, <2>6, <5>1
          <5> QED
            BY <2>8, <5>1, <5>2 DEF PinTallies, RowsPoint
        <4> QED
          BY <4>1, <4>2
      <3> QED
        BY <3>1 DEF RowsPoint
    <2>10. Len(pinboard') <= MaxRows
      BY <1>2, <1>4, <2>6, ConstraintBounds DEF InsertRule
    <2>11. \A b \in Authors : author'[b].stage # "idle" => author'[b].id \in Ids'
      BY <1>1, <2>1, <2>3, <2>8 DEF PinTallies, PinTypes
    <2>12. \A b \in Overlapping(ns, tag) : author[b].id \in Ids
      BY DEF Overlapping, PinTallies
    <2>13. cut' \cup crossed' \subseteq Ids'
      BY <1>4, <2>1, <2>8, <2>12 DEF PinTallies, InsertRule
    <2> QED
      BY <1>4, <2>9, <2>10, <2>11, <2>13 DEF InsertRule, PinTallies
  <1>5. ASSUME NEW a \in Authors, RetireTurns(a) \/ RetireEpisodes(a) PROVE PinTallies'
    <2>1. PICK w, kind : /\ w = author[a] /\ pinboard' = Retired(w, kind)
                         /\ author[a].stage # "idle"
      BY <1>5 DEF RetireTurns, RetireEpisodes
    <2>2. w \in Writes /\ w.id \in Ids
      BY <1>1, <2>1 DEF PinTypes, Unwritten, PinTallies
    <2>3. Retired(w, kind) \in Seq(PinRows) /\ Len(Retired(w, kind)) = n
      BY <1>1, <1>2, <2>2, RetiredRows
    <2>4. Len(pinboard') = n /\ Ids' = Ids
      BY <1>2, <2>1, <2>3 DEF Ids
    <2>5. \A i \in Ids : pinboard'[i].of = pinboard[i].of
                         /\ pinboard'[i].retired \in {w.id, pinboard[i].retired}
      BY <1>1, <2>1, RetiredPoints
    <2>6. RowsPoint'
      BY <2>2, <2>4, <2>5 DEF PinTallies, RowsPoint
    <2>7. PICK x : author' = [author EXCEPT ![a] = x] /\ (x.stage # "idle" => x.id = author[a].id)
      <3>1. CASE RetireTurns(a)
        <4>1. author' = [author EXCEPT ![a] = [author[a] EXCEPT !.stage = "episodes"]]
          BY <3>1 DEF RetireTurns
        <4>2. [author[a] EXCEPT !.stage = "episodes"].id = author[a].id
          BY <2>1, <2>2 DEF Writes
        <4> QED
          BY <4>1, <4>2
      <3>2. CASE RetireEpisodes(a)
        <4>1. author' = [author EXCEPT ![a] = Unwritten] /\ Unwritten.stage = "idle"
          BY <3>2 DEF RetireEpisodes, Unwritten
        <4> QED
          BY <4>1
      <3> QED
        BY <1>5, <3>1, <3>2
    <2>8. \A b \in Authors : author'[b].stage # "idle" => author'[b].id \in Ids
      BY <1>1, <2>1, <2>2, <2>7 DEF PinTallies, PinTypes
    <2>9. UNCHANGED <<overrides, cut, crossed, failures>>
      BY <1>5 DEF RetireTurns, RetireEpisodes
    <2> QED
      BY <1>2, <2>4, <2>6, <2>8, <2>9 DEF PinTallies
  <1>6. ASSUME NEW a \in Authors, RuleFails(a) PROVE PinTallies'
    <2>1. /\ UNCHANGED <<pinboard, overrides, crossed>> /\ author[a].stage # "idle"
          /\ author' = [author EXCEPT ![a] = Unwritten]
          /\ cut' = IF author[a].stage = "retire" THEN cut \cup {author[a].id} ELSE cut
          /\ failures' \in 0..MaxFailures
      BY <1>3, <1>6 DEF RuleFails
    <2>2. Ids' = Ids /\ Unwritten.stage = "idle"
      BY <2>1 DEF Ids, Unwritten
    <2> QED
      BY <1>1, <2>1, <2>2 DEF PinTallies, RowsPoint, PinTypes
  <1>7. ASSUME NEW p \in Sleepers, SegmentWrite(p) PROVE PinTallies'
    <2>0. PICK g \in sleeper[p] : \E ns, says :
            pinboard' = Append(pinboard, PinRow("episode", ns, says, NoTag, g))
      BY <1>7 DEF SegmentWrite
    <2>1. PICK ns, says :
            pinboard' = Append(pinboard, PinRow("episode", ns, says, NoTag, g))
      BY <2>0
    <2>2. g \subseteq Ids
      BY <1>1 DEF PinTypes
    <2> DEFINE row == PinRow("episode", ns, says, NoTag, g)
    <2>3. row.of = g /\ row.retired = 0
      BY DEF PinRow
    <2>4. pinboard' = Append(pinboard, row) /\ pinboard \in Seq(PinRows)
      BY <1>1, <2>1 DEF PinTypes
    <2> HIDE DEF row
    <2>5. Len(pinboard') = n + 1 /\ pinboard'[n + 1] = row
          /\ \A i \in 1..n : pinboard'[i] = pinboard[i]
      BY <1>2, <2>4
    <2>6. Ids' = 1..(n + 1)
      BY <1>2, <2>4 DEF Ids
    <2>7. Ids \subseteq Ids' /\ \A i \in Ids' : i \in 1..n \/ i = n + 1
      BY <1>2, <2>6
    <2>8. RowsPoint'
      <3>1. ASSUME NEW i \in Ids'
            PROVE  pinboard'[i].of \subseteq Ids' /\ pinboard'[i].retired \in Ids' \cup {0}
        <4>1. CASE i = n + 1
          BY <2>2, <2>3, <2>5, <2>7, <4>1
        <4>2. CASE i \in 1..n
          BY <1>2, <2>5, <2>7, <4>2 DEF PinTallies, RowsPoint
        <4> QED
          BY <2>7, <4>1, <4>2
      <3> QED
        BY <3>1 DEF RowsPoint
    <2>9. Len(pinboard') <= MaxRows
      BY <1>2, <1>7, <2>5, ConstraintBounds DEF SegmentWrite
    <2>10. UNCHANGED <<author, overrides, cut, crossed, failures>>
      BY <1>7 DEF SegmentWrite
    <2> QED
      BY <2>7, <2>8, <2>9, <2>10 DEF PinTallies
  <1>8. ASSUME NEW p \in Sleepers, SegmentRead(p) \/ SegmentFails(p) PROVE PinTallies'
    <2>1. UNCHANGED <<pinboard, author, overrides, cut, crossed>> /\ Ids' = Ids
      BY <1>8 DEF SegmentRead, SegmentFails, Ids
    <2>2. failures' \in 0..MaxFailures
      BY <1>3, <1>8 DEF SegmentRead, SegmentFails, PinTallies
    <2> QED
      BY <2>1, <2>2 DEF PinTallies, RowsPoint
  <1>9. CASE AddOverride \/ RemoveOverride \/ UNCHANGED constraintVars
    <2>1. UNCHANGED <<pinboard, author, cut, crossed, failures>> /\ Ids' = Ids
      BY <1>9 DEF AddOverride, RemoveOverride, constraintVars, Ids
    <2>2. \A e \in overrides' : <<e[2], e[1]>> \in Above
      <3>1. CASE AddOverride
        <4>1. PICK e \in Edges : overrides' = overrides \cup {<<e[2], e[1]>>}
          BY <3>1 DEF AddOverride
        <4>2. e \in Spaces3 \X Spaces3 /\ e \in Above
          BY ConstraintBounds, AboveIsOrder
        <4>3. <<e[1], e[2]>> = e
          BY <4>2
        <4>4. PICK d : d = <<e[2], e[1]>>
          OBVIOUS
        <4>5. <<d[2], d[1]>> \in Above
          BY <4>2, <4>3, <4>4
        <4>6. overrides' = overrides \cup {d} /\ \A x \in overrides : <<x[2], x[1]>> \in Above
          BY <4>1, <4>4 DEF PinTallies
        <4> QED
          BY <4>5, <4>6
      <3>2. CASE RemoveOverride \/ UNCHANGED constraintVars
        BY <3>2 DEF RemoveOverride, constraintVars, PinTallies
      <3> QED
        BY <1>9, <3>1, <3>2
    <2> QED
      BY <2>1, <2>2 DEF PinTallies, RowsPoint
  <1> QED
    BY <1>4, <1>5, <1>6, <1>7, <1>8, <1>9 DEF ConstraintNext

LEMMA ConstraintTyped == ConstraintInv /\ PinTallies => ConstraintTypeOK
  <1> SUFFICES ASSUME ConstraintInv, PinTallies PROVE ConstraintTypeOK
    OBVIOUS
  <1>1. PinTypes
    BY DEF ConstraintInv
  <1>2. ASSUME NEW i \in Ids
        PROVE  pinboard[i].kind \in {"turn", "episode"} /\ pinboard[i].ns \in Spaces3
               /\ pinboard[i].says \subseteq Rules
    <2>1. pinboard[i] \in PinRows
      BY <1>1 DEF PinTypes, Ids
    <2> QED
      BY <2>1 DEF PinRows
  <1>3. ASSUME NEW a \in Authors PROVE author[a].stage \in {"idle", "retire", "episodes"}
    BY <1>1 DEF PinTypes, Unwritten, Writes
  <1> QED
    BY <1>1, <1>2, <1>3 DEF PinTypes, PinTallies, RowsPoint, ConstraintTypeOK

-----------------------------------------------------------------------------
(* The tables together: a part that does not run stays as it began.        *)
Coordinated == LeaseInv /\ BindInv /\ NudgeInv

(* What clients coordinate by holds whichever of the tables is at work: a  *)
(* leased item has one worker, a bound repository's writes go where they   *)
(* were bound, and a nudge is shown once.                                  *)
THEOREM ClientsAreCoordinated == ControlSpec => []CoordinationSound
  <1>1. ControlInit => Coordinated
    BY InitLease, InitBind DEF ControlInit, Coordinated, BindingInit, NudgeInv
  <1>2. Coordinated /\ [ControlNext]_<<part, leaseVars, regVars, accessVars,
                                       bindingVars, constraintVars>> => Coordinated'
    <2> SUFFICES ASSUME Coordinated,
                        [ControlNext]_<<part, leaseVars, regVars, accessVars,
                                        bindingVars, constraintVars>>
                 PROVE  Coordinated'
      OBVIOUS
    <2>1. [LeaseNext]_leaseVars
      BY DEF ControlNext
    <2>2. [BindingNext]_bindingVars
      BY DEF ControlNext, BindingNext
    <2> QED
      BY <2>1, <2>2, NextLease, BindNext, NextNudge DEF Coordinated
  <1>3. LeaseInv => OneWorker
    BY DEF LeaseInv, LeaseTypes, Protected, Protects, OneWorker, Working
  <1>4. BindInv => RoutedAsBound
    BY BoundRouting
  <1>5. NudgeInv => NudgesShownOnce
    BY DEF NudgeInv, NudgesShownOnce
  <1> QED
    BY <1>1, <1>2, <1>3, <1>4, <1>5, PTL DEF ControlSpec, Coordinated, CoordinationSound

(* Whichever of the tables is at work, its variables have their types: ids *)
(* are ids that were drawn, rows name what exists, no bound is passed.     *)
THEOREM TablesKeepTheirTypes == ControlSpec => []ControlTypeOK
  <1> DEFINE Inv == /\ LeaseInv /\ LeaseTallies /\ RegInv /\ RegTallies /\ AccessInv /\ AccessTallies
                    /\ BindInv /\ NudgeInv /\ BindTallies /\ ConstraintInv /\ PinTallies
  <1>1. ControlInit => Inv
    <2>1. BindingInit => NudgeInv
      BY DEF BindingInit, NudgeInv
    <2> QED
      BY <2>1, InitLease, LeaseTalliesInit, InitReg, RegTalliesInit, InitAccess, InitBind,
         AccessTalliesInit, BindTalliesInit, InitConstraint, PinTalliesInit DEF ControlInit
  <1> DEFINE control == <<part, leaseVars, regVars, accessVars, bindingVars, constraintVars>>
  <1>2. Inv /\ [ControlNext]_control => Inv'
    <2>1. [ControlNext]_control =>
            /\ [LeaseNext]_leaseVars /\ [RegNext]_regVars /\ [AccessNext]_accessVars
            /\ [BindingNext]_bindingVars /\ [ConstraintNext]_constraintVars
      BY DEF ControlNext, BindingNext
    <2>2. RegInv /\ [RegNext]_regVars => RegInv'
      BY RegTypesKept, JobTypesKept, ListedKept, BackfillKept, TurnsKept DEF RegInv
    <2>3. AccessInv /\ [AccessNext]_accessVars => AccessInv'
      BY TableSteps, NextRequest DEF AccessInv
    <2> QED
      BY <2>1, <2>2, <2>3, NextLease, LeaseTalliesKept, RegTalliesKept, AccessTalliesKept, BindNext,
         NextNudge, BindTalliesKept, NextConstraint, PinTalliesKept
  <1>3. Inv => ControlTypeOK
    <2>1. Inv => /\ LeaseTypeOK /\ RegTypeOK /\ AccessTypeOK /\ BindingTypeOK /\ ConstraintTypeOK
      BY LeaseTyped, RegTyped, AccessTyped, BindTyped, ConstraintTyped
    <2> QED
      BY <2>1 DEF ControlTypeOK
  <1> QED
    BY <1>1, <1>2, <1>3, PTL DEF ControlSpec
=============================================================================
