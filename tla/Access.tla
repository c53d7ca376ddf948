------------------------------ MODULE Access ------------------------------
(***************************************************************************)
(* Who may do what: tokens, direct grants and roles in core/control.py,    *)
(* the two statements every request starts with (authenticate, authorize)  *)
(* and the administrators' statements they race with.  Each statement is   *)
(* one snapshot; between two of them, and between the check and the work   *)
(* it allows, anything may change.                                         *)
(***************************************************************************)
EXTENDS Naturals, FiniteSets

CONSTANTS
  Principals,  \* principals
  Tokens,      \* API tokens
  Bearer,      \* Bearer[k]: the principal token k was minted for
  Entries,     \* grant strings: "team:a", "team:*", "*", "secret:x"
  Resources,   \* namespaces and secret:NAME pseudo-namespaces
  Covers,      \* Covers[e]: the resources entry e matches
  Star,        \* the entry "*"
  ApiRequests, \* client requests
  Admins,      \* administrators: console and CLI sessions
  MaxRoles,    \* bound: incarnations of the one role name used
  MaxChanges   \* bound: administrators' operations

ASSUME BearerAssumption == Bearer \in [Tokens -> Principals]
ASSUME CoversAssumption == Covers \in [Entries -> SUBSET Resources]
ASSUME StarAssumption   == Star \in Entries /\ Covers[Star] = Resources
ASSUME AccessBounds     == MaxRoles \in Nat \ {0} /\ MaxChanges \in Nat

VARIABLES
  valid,      \* tokens neither revoked nor expired
  direct,     \* direct[p][e]: can_read / can_write of p's own grant
  role,       \* id of the role called by the name, 0 when there is none
  roles,      \* ids drawn so far
  entriesOf,  \* entriesOf[i][e]: role_grants of id i
  membersOf,  \* membersOf[i]: role_members of id i
  asks,       \* asks[r]: token, resource and right of request r
  stage,      \* stage[r]: how far request r has come
  held,       \* what r had at some moment since it arrived
  lacked,     \* what r was without at some moment since it arrived
  op,         \* op[a]: the role statement a is at, with the id it looked up
  changes     \* operations so far

tables     == <<valid, direct, role, roles, entriesOf, membersOf>>
requests   == <<asks, stage>>
accessVars == <<tables, requests, held, lacked, op, changes>>

Rights   == {"read", "write"}
RoleIds  == 1..MaxRoles
NoGrants == [e \in Entries |-> {}]
Idle     == [do |-> "idle", id |-> 0]
Finished == {"served", "401", "403"}

-----------------------------------------------------------------------------
(* effective_namespaces: direct and role grants in one UNION ALL; the      *)
(* roles table itself is not consulted.                                    *)
Granted(p, e) ==
  direct[p][e] \cup UNION {entriesOf[i][e] : i \in {j \in RoleIds : p \in membersOf[j]}}

(* is_admin, for the console; authorize, on a namespace or a secret.       *)
MayAdmin(p) == "read" \in Granted(p, Star)

May(p, ask) ==
  IF ask.right = "admin" THEN MayAdmin(p)
  ELSE \E e \in Entries : ask.on \in Covers[e] /\ ask.right \in Granted(p, e)

Has(r) ==
  {x \in {"token", "access"} :
     IF x = "token" THEN asks[r].token \in valid
                    ELSE May(Bearer[asks[r].token], asks[r])}

(* What is true of a request from the state it arrives in to the one it is *)
(* answered in.                                                            *)
Watch ==
  /\ held' = [r \in ApiRequests |->
       IF stage'[r] = "idle" \/ stage[r] \in Finished THEN held[r]
       ELSE held[r] \cup Has(r)']
  /\ lacked' = [r \in ApiRequests |->
       IF stage'[r] = "idle" \/ stage[r] \in Finished THEN lacked[r]
       ELSE lacked[r] \cup ({"token", "access"} \ Has(r)')]

-----------------------------------------------------------------------------
AccessInit ==
  /\ valid \in SUBSET Tokens
  /\ direct \in [Principals -> [Entries -> {{}, Rights}]]
  /\ \E E \in [Entries -> {{}, {"read"}, Rights}], M \in SUBSET Principals :
       /\ entriesOf = [i \in RoleIds |-> IF i = 1 THEN E ELSE NoGrants]
       /\ membersOf = [i \in RoleIds |-> IF i = 1 THEN M ELSE {}]
  /\ role = 1 /\ roles = 1
  /\ asks \in [ApiRequests -> [token : Tokens, on : Resources,
                            right : Rights \cup {"admin"}]]
  /\ stage = [r \in ApiRequests |-> "idle"]
  /\ held = [r \in ApiRequests |-> {}] /\ lacked = [r \in ApiRequests |-> {}]
  /\ op = [a \in Admins |-> Idle] /\ changes = 0

-----------------------------------------------------------------------------
(* A request: _auth_short, the generic POST, /secret/resolve, _admin.      *)

Reach(r, s) == stage' = [stage EXCEPT ![r] = s]

Arrive(r) ==
  /\ stage[r] = "idle" /\ Reach(r, "arrived")
  /\ UNCHANGED <<tables, asks, op, changes>> /\ Watch

Authenticate(r) ==
  /\ stage[r] = "arrived"
  /\ Reach(r, IF asks[r].token \in valid THEN "known" ELSE "401")
  /\ UNCHANGED <<tables, asks, op, changes>> /\ Watch

Authorize(r) ==
  /\ stage[r] = "known"
  /\ Reach(r, IF May(Bearer[asks[r].token], asks[r]) THEN "allowed" ELSE "403")
  /\ UNCHANGED <<tables, asks, op, changes>> /\ Watch

(* The work: nothing is checked again, seconds of model calls later.       *)
ServeRequest(r) ==
  /\ stage[r] = "allowed" /\ Reach(r, "served")
  /\ UNCHANGED <<tables, asks, op, changes>> /\ Watch

-----------------------------------------------------------------------------
(* Administrators: one statement.                                          *)

Change == changes < MaxChanges /\ changes' = changes + 1

SetToken(k) ==                                \* mint_token; revoke, expiry
  /\ Change
  /\ valid' \in {valid \cup {k}, valid \ {k}}
  /\ UNCHANGED <<direct, role, roles, entriesOf, membersOf, requests, op>> /\ Watch

(* grant overwrites both flags; revoke_grant deletes the row.              *)
SetGrant(p, e) ==
  /\ Change
  /\ \E may \in {{}, {"read"}, Rights} : direct' = [direct EXCEPT ![p][e] = may]
  /\ UNCHANGED <<valid, role, roles, entriesOf, membersOf, requests, op>> /\ Watch

(* delete_namespace takes every principal's own grant on the name with it, *)
(* and leaves the roles' grants.                                           *)
DropGrantsOn(e) ==
  /\ Change
  /\ direct' = [p \in Principals |-> [direct[p] EXCEPT ![e] = {}]]
  /\ UNCHANGED <<valid, role, roles, entriesOf, membersOf, requests, op>> /\ Watch

CreateRole ==
  /\ role = 0 /\ roles < MaxRoles /\ Change
  /\ role' = roles + 1 /\ roles' = roles + 1
  /\ UNCHANGED <<valid, direct, entriesOf, membersOf, requests, op>> /\ Watch

(* Several: each looks the id up by name first.                            *)
LookUpRole(a) ==
  /\ op[a] = Idle /\ role # 0 /\ Change
  /\ \E d \in {"grant", "revoke", "add", "remove", "delete"} :
       op' = [op EXCEPT ![a] = [do |-> d, id |-> role]]
  /\ UNCHANGED <<tables, requests>> /\ Watch

Then(a, d) == op' = [op EXCEPT ![a] = IF d = "idle" THEN Idle ELSE [@ EXCEPT !.do = d]]

(* role_grants and role_members reference roles(id): an insert for a role  *)
(* deleted since is an error.                                              *)
RoleGrant(a) ==
  /\ op[a].do = "grant"
  /\ \/ role # op[a].id /\ UNCHANGED entriesOf
     \/ /\ role = op[a].id
        /\ \E e \in Entries, may \in {{"read"}, Rights} :
             entriesOf' = [entriesOf EXCEPT ![op[a].id][e] = may]
  /\ Then(a, "idle")
  /\ UNCHANGED <<valid, direct, role, roles, membersOf, requests, changes>> /\ Watch

RoleRevoke(a) ==
  /\ op[a].do = "revoke"
  /\ \E e \in Entries : entriesOf' = [entriesOf EXCEPT ![op[a].id][e] = {}]
  /\ Then(a, "idle")
  /\ UNCHANGED <<valid, direct, role, roles, membersOf, requests, changes>> /\ Watch

RoleMember(a) ==
  /\ op[a].do \in {"add", "remove"}
  /\ \E p \in Principals :
       membersOf' = [membersOf EXCEPT ![op[a].id] =
         IF op[a].do = "remove" THEN @ \ {p}
         ELSE IF role = op[a].id THEN @ \cup {p} ELSE @]
  /\ Then(a, "idle")
  /\ UNCHANGED <<valid, direct, role, roles, entriesOf, requests, changes>> /\ Watch

(* delete_role: its grants, its members, then the role, which the database *)
(* refuses while a grant or member added meanwhile refers to it.           *)
DeleteRoleGrants(a) ==
  /\ op[a].do = "delete"
  /\ entriesOf' = [entriesOf EXCEPT ![op[a].id] = NoGrants]
  /\ Then(a, "members")
  /\ UNCHANGED <<valid, direct, role, roles, membersOf, requests, changes>> /\ Watch

DeleteRoleMembers(a) ==
  /\ op[a].do = "members"
  /\ membersOf' = [membersOf EXCEPT ![op[a].id] = {}]
  /\ Then(a, "role")
  /\ UNCHANGED <<valid, direct, role, roles, entriesOf, requests, changes>> /\ Watch

DeleteRoleUnchecked(a) ==                     \* mutant: referring rows ignored
  /\ op[a].do = "role"
  /\ role' = IF role = op[a].id THEN 0 ELSE role
  /\ Then(a, "idle")
  /\ UNCHANGED <<valid, direct, roles, entriesOf, membersOf, requests, changes>> /\ Watch

DeleteRole(a) ==
  /\ op[a].do = "role"
  /\ role' = IF /\ role = op[a].id /\ membersOf[role] = {}
                /\ entriesOf[role] = NoGrants THEN 0 ELSE role
  /\ Then(a, "idle")
  /\ UNCHANGED <<valid, direct, roles, entriesOf, membersOf, requests, changes>> /\ Watch

(* The session dies between two statements.                                *)
AdminDies(a) ==
  /\ op[a] # Idle /\ Then(a, "idle")
  /\ UNCHANGED <<tables, requests, changes>> /\ Watch

Request(r) == Arrive(r) \/ Authenticate(r) \/ Authorize(r) \/ ServeRequest(r)

RoleStatement(a) ==
  \/ LookUpRole(a) \/ RoleGrant(a) \/ RoleRevoke(a) \/ RoleMember(a)
  \/ DeleteRoleGrants(a) \/ DeleteRoleMembers(a) \/ DeleteRole(a) \/ AdminDies(a)

AccessNext ==
  \/ \E r \in ApiRequests : Request(r)
  \/ \E k \in Tokens : SetToken(k)
  \/ \E p \in Principals, e \in Entries : SetGrant(p, e)
  \/ \E e \in Entries : DropGrantsOn(e)
  \/ CreateRole
  \/ \E a \in Admins : RoleStatement(a)

AccessSpec == AccessInit /\ [][AccessNext]_accessVars

-----------------------------------------------------------------------------
AccessTypeOK ==
  /\ valid \subseteq Tokens
  /\ direct \in [Principals -> [Entries -> SUBSET Rights]]
  /\ roles \in 0..MaxRoles /\ role \in 0..roles
  /\ entriesOf \in [RoleIds -> [Entries -> SUBSET Rights]]
  /\ membersOf \in [RoleIds -> SUBSET Principals]
  /\ stage \in [ApiRequests -> {"idle", "arrived", "known", "allowed"} \cup Finished]
  /\ changes \in 0..MaxChanges

(* What is served had its token valid and its access granted while it was  *)
(* being handled: a request that arrives after a revocation is not served, *)
(* one that is being handled may be.                                       *)
ServedRightly ==
  \A r \in ApiRequests : stage[r] = "served" => held[r] = {"token", "access"}

(* "a direct grant and a role grant on the same namespace compose          *)
(* additively" (effective_namespaces): nobody is refused who had access    *)
(* all along, not even while a grant is being moved from the principal to  *)
(* a role or back.                                                         *)
RefusedRightly ==
  \A r \in ApiRequests : /\ stage[r] = "403" => "access" \in lacked[r]
                      /\ stage[r] = "401" => "token" \in lacked[r]

(* A role that is gone gives nobody anything: a grant or a membership      *)
(* added while it was being deleted is refused or keeps the role in place, *)
(* and the next role of that name starts empty.  effective_namespaces      *)
(* joins the two tables without looking at roles.                          *)
DeletedRolesGrantNothing ==
  \A i \in RoleIds \ {role} : entriesOf[i] = NoGrants /\ membersOf[i] = {}

(* Requests are served and refused by the grants of their own duration,    *)
(* and a deleted role grants nothing.                                      *)
AccessSound == ServedRightly /\ RefusedRightly /\ DeletedRolesGrantNothing
=============================================================================
