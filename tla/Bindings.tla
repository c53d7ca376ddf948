----------------------------- MODULE Bindings -----------------------------
(***************************************************************************)
(* Where a client's writes go: one principal's binding rows for one        *)
(* repository (Control.upsert_binding and its kin, behind /bindings), the  *)
(* cache file each machine refreshes from them, nsresolve.resolve on that  *)
(* file, and the deferred nudges that suggest another namespace.           *)
(***************************************************************************)
EXTENDS Naturals, FiniteSets

CONSTANTS
  Machines,    \* the principal's machines
  Spaces,      \* namespaces to bind to
  Fallback,    \* what resolves without a binding: override, env or proj:
  AnyHost,     \* host_id NULL: the host-agnostic repo binding
  Clients,     \* sessions that bind, unbind and refresh
  Pairs,       \* (write_ns, suggested_ns) pairs nudged about
  NoRow,       \* nothing bound
  MaxBindOps,  \* bound: bind and unbind operations
  MaxOpens     \* bound: times a nudge is recorded

ASSUME FallbackAssumption == Fallback \notin Spaces
ASSUME AnyHostAssumption  == AnyHost \notin Machines
ASSUME NoRowAssumption    == NoRow \notin Spaces
ASSUME BindingBounds      == MaxBindOps \in Nat /\ MaxOpens \in Nat

VARIABLES
  bindRows,   \* rows of memnos_control.bindings: [id, host, ns]
  ids,        \* ids drawn
  intent,     \* intent[c]: the operation client c is in
  bound,      \* bound[h]: the namespace last bound for host h
  raced,      \* hosts for which two operations overlapped
  cache,      \* cache[m]: the rows read from machine m's file
  fetched,    \* fetched[c]: what client c's refresh was answered
  bindOps,    \* operations so far
  open,       \* nudges with delivered_at NULL
  opens,      \* opens[n]: times nudge n was recorded
  shown,      \* shown[n]: times it was handed to a session
  picked,     \* picked[c]: ids client c's inner SELECT found
  doubled     \* nudges that two sessions were taking at once

bindv       == <<bindRows, ids, intent, bound, raced, bindOps>>
cachev      == <<cache, fetched>>
nudgev      == <<open, opens, shown, picked, doubled>>
bindingVars == <<bindv, cachev, nudgev>>

HostIds  == Machines \cup {AnyHost}
Quiet    == [do |-> "none", host |-> AnyHost, ns |-> NoRow, id |-> 0]

-----------------------------------------------------------------------------
BindingInit ==
  /\ bindRows = {} /\ ids = 0 /\ bindOps = 0 /\ raced = {}
  /\ intent = [c \in Clients |-> Quiet]
  /\ bound = [h \in HostIds |-> NoRow]
  /\ cache = [m \in Machines |-> {}]
  /\ fetched = [c \in Clients |-> [on |-> NoRow, rows |-> {}, at |-> "none"]]
  /\ open = {} /\ doubled = {}
  /\ opens = [n \in Pairs |-> 0] /\ shown = [n \in Pairs |-> 0]
  /\ picked = [c \in Clients |-> {}]

BindOp == bindOps < MaxBindOps /\ bindOps' = bindOps + 1

Overlap(c, h) == \E d \in Clients \ {c} : intent[d] # Quiet /\ intent[d].host = h

Meet(c, h) == raced' = IF Overlap(c, h) THEN raced \cup {h} ELSE raced

-----------------------------------------------------------------------------
(* POST /bindings                                                          *)

(* A repo binding has host_id NULL, which UNIQUE does not compare: it is   *)
(* looked for first (any one of several) ...                               *)
BindSelect(c) ==
  /\ intent[c] = Quiet /\ BindOp /\ Meet(c, AnyHost)
  /\ LET mine == {r.id : r \in {q \in bindRows : q.host = AnyHost}} IN
     \E ns \in Spaces, i \in IF mine = {} THEN {0} ELSE mine :
       intent' = [intent EXCEPT ![c] =
                    [do |-> "bind", host |-> AnyHost, ns |-> ns, id |-> i]]
  /\ UNCHANGED <<bindRows, ids, bound, cachev, nudgev>>

(* ... then updated, if it is still there, or inserted.                    *)
BindWrite(c) ==
  /\ intent[c].do = "bind"
  /\ LET b == intent[c] IN
     IF b.id = 0
       THEN /\ ids' = ids + 1
            /\ bindRows' = bindRows \cup {[id |-> ids + 1, host |-> AnyHost, ns |-> b.ns]}
       ELSE /\ bindRows' = {IF r.id = b.id THEN [r EXCEPT !.ns = b.ns] ELSE r : r \in bindRows}
            /\ UNCHANGED ids
  /\ bound' = [bound EXCEPT ![AnyHost] = intent[c].ns]
  /\ intent' = [intent EXCEPT ![c] = Quiet]
  /\ UNCHANGED <<raced, bindOps, cachev, nudgev>>

(* A host-scoped binding is one upsert.                                    *)
BindHost(c, m) ==
  /\ intent[c] = Quiet /\ BindOp /\ Meet(c, m)
  /\ \E ns \in Spaces :
       /\ bound' = [bound EXCEPT ![m] = ns]
       /\ IF \E r \in bindRows : r.host = m
            THEN /\ bindRows' = {IF r.host = m THEN [r EXCEPT !.ns = ns] ELSE r : r \in bindRows}
                 /\ UNCHANGED ids
            ELSE /\ ids' = ids + 1
                 /\ bindRows' = bindRows \cup {[id |-> ids + 1, host |-> m, ns |-> ns]}
  /\ UNCHANGED <<intent, cachev, nudgev>>

(* `memnos unbind <key>`: list, take the first match, delete it by id.     *)
UnbindFind(c) ==
  /\ intent[c] = Quiet /\ BindOp
  /\ \E r \in bindRows :
       /\ Meet(c, r.host)
       /\ intent' = [intent EXCEPT ![c] =
                       [do |-> "unbind", host |-> r.host, ns |-> NoRow, id |-> r.id]]
  /\ UNCHANGED <<bindRows, ids, bound, cachev, nudgev>>

UnbindDelete(c) ==
  /\ intent[c].do = "unbind"
  /\ bindRows' = {r \in bindRows : r.id # intent[c].id}
  /\ bound' = [bound EXCEPT ![intent[c].host] = NoRow]
  /\ intent' = [intent EXCEPT ![c] = Quiet]
  /\ UNCHANGED <<ids, raced, bindOps, cachev, nudgev>>

-----------------------------------------------------------------------------
(* nsresolve.refresh: GET, then rewrite the file in place.                 *)

RefreshGet(c, m) ==
  /\ fetched[c].at = "none"
  /\ fetched' = [fetched EXCEPT ![c] = [on |-> m, rows |-> bindRows, at |-> "got"]]
  /\ UNCHANGED <<bindv, cache, nudgev>>

RefreshOpen(c) ==                             \* open(_CACHE, "w") truncates
  /\ fetched[c].at = "got"
  /\ cache' = [cache EXCEPT ![fetched[c].on] = {}]
  /\ fetched' = [fetched EXCEPT ![c].at = "opened"]
  /\ UNCHANGED <<bindv, nudgev>>

RefreshDump(c) ==
  /\ fetched[c].at = "opened"
  /\ cache' = [cache EXCEPT ![fetched[c].on] = fetched[c].rows]
  /\ fetched' = [fetched EXCEPT ![c] = [on |-> NoRow, rows |-> {}, at |-> "none"]]
  /\ UNCHANGED <<bindv, nudgev>>

(* The process is killed, or the GET fails, and the file stays as it is.   *)
RefreshEnds(c) ==
  /\ fetched[c].at # "none"
  /\ fetched' = [fetched EXCEPT ![c] = [on |-> NoRow, rows |-> {}, at |-> "none"]]
  /\ UNCHANGED <<bindv, cache, nudgev>>

(* resolve_with_source on the file alone: the host-agnostic binding, then  *)
(* this host's, then the fallbacks.  A file that is missing, truncated or  *)
(* not JSON reads as no bindings.                                          *)
(* The list is ordered by key, so which of two equal keys comes first is   *)
(* the database's choice.                                                  *)
Resolve(m) ==
  LET of(h) == {r.ns : r \in {q \in cache[m] : q.host = h}}
  IN IF of(AnyHost) # {} THEN of(AnyHost)
     ELSE IF of(m) # {} THEN of(m) ELSE {Fallback}

-----------------------------------------------------------------------------
(* Deferred nudges.                                                        *)

(* record_nudge: a repeat re-opens the row.                                *)
RecordNudge(n) ==
  /\ opens[n] < MaxOpens
  /\ opens' = [opens EXCEPT ![n] = @ + 1]
  /\ open' = open \cup {n}
  /\ UNCHANGED <<bindv, cachev, shown, picked, doubled>>

TakeSelect(c) ==
  /\ picked[c] = {} /\ open # {}
  /\ picked' = [picked EXCEPT ![c] = open]
  /\ doubled' = doubled \cup (open \cap UNION {picked[d] : d \in Clients})
  /\ UNCHANGED <<bindv, cachev, open, opens, shown>>

TakeWithoutMark(c) ==                         \* mutant: delivered_at not written
  /\ picked[c] # {}
  /\ shown' = [n \in Pairs |-> IF n \in picked[c] THEN shown[n] + 1 ELSE shown[n]]
  /\ picked' = [picked EXCEPT ![c] = {}]
  /\ UNCHANGED <<bindv, cachev, open, opens, doubled>>

(* UPDATE ... WHERE id IN (the SELECT): the ids were found by the inner    *)
(* SELECT, and an UPDATE that had to wait for another does not find them   *)
(* again.                                                                  *)
TakeUpdate(c) ==
  /\ picked[c] # {}
  /\ open' = open \ picked[c]
  /\ shown' = [n \in Pairs |-> IF n \in picked[c] THEN shown[n] + 1 ELSE shown[n]]
  /\ picked' = [picked EXCEPT ![c] = {}]
  /\ UNCHANGED <<bindv, cachev, opens, doubled>>

BindingStep ==
  \E c \in Clients :
     \/ BindSelect(c) \/ BindWrite(c) \/ UnbindFind(c) \/ UnbindDelete(c)
     \/ RefreshOpen(c) \/ RefreshDump(c) \/ RefreshEnds(c)
     \/ \E m \in Machines : BindHost(c, m) \/ RefreshGet(c, m)
NudgeStep ==
  \/ \E c \in Clients : TakeSelect(c) \/ TakeUpdate(c)
  \/ \E n \in Pairs : RecordNudge(n)
BindingNext == BindingStep \/ NudgeStep

BindingSpec == BindingInit /\ [][BindingNext]_bindingVars

-----------------------------------------------------------------------------
Row == [id : 1..ids, host : HostIds, ns : Spaces]

BindingTypeOK ==
  /\ bindRows \subseteq Row
  /\ ids \in Nat /\ bindOps \in 0..MaxBindOps
  /\ bound \in [HostIds -> Spaces \cup {NoRow}]
  /\ cache \in [Machines -> SUBSET Row]
  /\ raced \subseteq HostIds
  /\ open \cup doubled \subseteq Pairs
  /\ opens \in [Pairs -> 0..MaxOpens] /\ shown \in [Pairs -> Nat]
  /\ picked \in [Clients -> SUBSET Pairs]

(* What the last bind of the repository asked for, before what this        *)
(* machine's did.                                                          *)
AsBound(m) ==
  IF bound[AnyHost] # NoRow THEN bound[AnyHost]
  ELSE IF bound[m] # NoRow THEN bound[m] ELSE Fallback

(* "re-binding the same key just changes the namespace" (upsert_binding):  *)
(* a machine whose cache is up to date sends its writes where the last     *)
(* bind said, and nowhere else.  Two clients binding the repository for    *)
(* the first time at once are the exception: both insert, and from then on *)
(* either row may win.                                                     *)
RoutedAsBound ==
  \A m \in Machines :
    (cache[m] = bindRows /\ raced \cap {AnyHost, m} = {}) => Resolve(m) = {AsBound(m)}

(* "at-most-once display" (take_pending_nudges): a nudge is shown no more  *)
(* often than it was recorded, unless two sessions took it at the same     *)
(* moment.                                                                 *)
NudgesShownOnce ==
  \A n \in Pairs : n \notin doubled => shown[n] <= opens[n]
=============================================================================
