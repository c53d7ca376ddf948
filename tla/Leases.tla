------------------------------ MODULE Leases ------------------------------
(***************************************************************************)
(* One coordination lease (one namespace, one key): Control.lease_acquire, *)
(* lease_heartbeat and lease_release behind their HTTP handlers, and the   *)
(* sessions that call them (MCP tools, `memnos lease`).  The row is all    *)
(* the server keeps; a session knows what the last answer told it.  A      *)
(* statement reads now() when it starts and may then wait for the row.     *)
(***************************************************************************)
EXTENDS Naturals

CONSTANTS
  Sessions,    \* agents' sessions
  Holders,     \* holder_id values
  HolderOf,    \* HolderOf[s]: the holder_id s calls itself
  TTLs,        \* ttl_seconds asked for
  NoLease,     \* no unreleased row
  LastTick,    \* bound: the clock stops there
  MaxCalls     \* bound: calls in a behaviour

ASSUME HolderAssumption == HolderOf \in [Sessions -> Holders]
ASSUME TTLAssumption    == TTLs \subseteq Nat \ {0}
ASSUME LeaseBounds      == LastTick \in Nat /\ MaxCalls \in Nat
ASSUME NoLeaseAssumption ==
  NoLease \notin [holder : Holders, expires : Nat]

VARIABLES
  clock,      \* the database's now()
  lease,      \* the unreleased row, or NoLease: the index allows one
  calls,      \* calls that have not been answered yet
  made,       \* calls made so far
  awaited,    \* awaited[s]: the call s is waiting for, 0 when none
  until,      \* until[s]: the expires_at s was last told
  undercut    \* sessions whose lease a call under their own name cut short

leaseVars == <<clock, lease, calls, made, awaited, until, undercut>>

Verbs == {"acquire", "heartbeat", "release"}

(* A session works on the item until the expiry it was told.               *)
Working(s) == until[s] > clock

-----------------------------------------------------------------------------
LeaseInit ==
  /\ clock = 0
  /\ lease = NoLease
  /\ calls = {} /\ made = 0
  /\ awaited = [s \in Sessions |-> 0]
  /\ until = [s \in Sessions |-> 0]
  /\ undercut = {}

LeaseTick ==
  /\ clock < LastTick
  /\ clock' = clock + 1
  /\ UNCHANGED <<lease, calls, made, awaited, until, undercut>>

(* A session acquires what it does not hold, heartbeats or releases what   *)
(* it was granted; it stops working when it asks for the release.          *)
LeaseCall(s) ==
  /\ awaited[s] = 0 /\ made < MaxCalls
  /\ \E v \in Verbs, ttl \in TTLs :
       /\ IF v = "acquire" THEN ~Working(s) ELSE until[s] > 0
       /\ calls' = calls \cup
            {[id |-> made + 1, by |-> s, verb |-> v, ttl |-> ttl,
              phase |-> "sent", at |-> 0, yes |-> FALSE, told |-> 0]}
       /\ until' = IF v = "release" THEN [until EXCEPT ![s] = 0] ELSE until
  /\ made' = made + 1
  /\ awaited' = [awaited EXCEPT ![s] = made + 1]
  /\ UNCHANGED <<clock, lease, undercut>>

(* The session gives up on the answer (60 s), which nobody reads then; a   *)
(* call that has not been served may be, at any later time, or never.      *)
LeaseTimeout(s) ==
  /\ awaited[s] # 0
  /\ awaited' = [awaited EXCEPT ![s] = 0]
  /\ calls' = {c \in calls : ~(c.id = awaited[s] /\ c.phase = "done")}
  /\ UNCHANGED <<clock, lease, made, until, undercut>>

-----------------------------------------------------------------------------
(* The statements.                                                         *)

Becomes(c, d) == calls' = (calls \ {c}) \cup {d}

LeaseStatement(c) ==
  /\ c.phase = "sent"
  /\ Becomes(c, [c EXCEPT !.phase = "begun", !.at = clock])
  /\ UNCHANGED <<clock, lease, made, awaited, until, undercut>>

(* lease_who_holds, lease_list: what the other statements test as well.    *)
LeaseActive(now) == lease # NoLease /\ lease.expires > now

Mine(c) == lease # NoLease /\ lease.holder = HolderOf[c.by]

Namesakes(c) == {s \in Sessions : HolderOf[s] = HolderOf[c.by]}

Awaited(c) == awaited[c.by] = c.id

Finish(c, yes) ==
  IF Awaited(c)
    THEN Becomes(c, [c EXCEPT !.phase = "done", !.yes = yes,
                              !.told = IF yes /\ c.verb # "release"
                                         THEN c.at + c.ttl ELSE 0])
    ELSE calls' = calls \ {c}

(* INSERT ... ON CONFLICT DO UPDATE WHERE expires_at <= now(): not         *)
(* re-entrant, the holder's own name is denied like any other.             *)
LeaseAcquire(c) ==
  /\ c.phase = "begun" /\ c.verb = "acquire"
  /\ IF LeaseActive(c.at)
       THEN Finish(c, FALSE) /\ UNCHANGED <<lease, undercut>>
       ELSE /\ lease' = [holder |-> HolderOf[c.by], expires |-> c.at + c.ttl]
            /\ Finish(c, TRUE)
            /\ undercut' = IF Awaited(c) THEN undercut \ {c.by} ELSE undercut
  /\ UNCHANGED <<clock, made, awaited, until>>

LeaseHeartbeat(c) ==
  /\ c.phase = "begun" /\ c.verb = "heartbeat"
  /\ IF Mine(c) /\ LeaseActive(c.at)
       THEN /\ lease' = [lease EXCEPT !.expires = c.at + c.ttl]
            /\ Finish(c, TRUE)
            /\ undercut' = IF c.at + c.ttl < lease.expires
                             THEN undercut \cup Namesakes(c) ELSE undercut
       ELSE Finish(c, FALSE) /\ UNCHANGED <<lease, undercut>>
  /\ UNCHANGED <<clock, made, awaited, until>>

(* The row is named by its holder alone: expired or not, whichever         *)
(* acquisition the caller had in mind.                                     *)
LeaseRelease(c) ==
  /\ c.phase = "begun" /\ c.verb = "release"
  /\ IF Mine(c)
       THEN /\ lease' = NoLease
            /\ Finish(c, TRUE)
            /\ undercut' = undercut \cup Namesakes(c)
       ELSE Finish(c, FALSE) /\ UNCHANGED <<lease, undercut>>
  /\ UNCHANGED <<clock, made, awaited, until>>

-----------------------------------------------------------------------------
(* The handler writes the event turn of a grant or a release after its     *)
(* statement has committed: when that fails the session is told 500 of a   *)
(* lease that changed.                                                     *)
LeaseAnswer(c) ==
  /\ c.phase = "done"
  /\ calls' = calls \ {c}
  /\ awaited' = [awaited EXCEPT ![c.by] = 0]
  /\ until' \in {until, [until EXCEPT ![c.by] =
                       IF c.yes \/ c.verb = "heartbeat" THEN c.told ELSE @]}
  /\ UNCHANGED <<clock, lease, made, undercut>>

LeaseServe(c) ==
  \/ LeaseStatement(c) \/ LeaseAcquire(c) \/ LeaseHeartbeat(c)
  \/ LeaseRelease(c) \/ LeaseAnswer(c)

LeaseNext ==
  \/ LeaseTick
  \/ \E s \in Sessions : LeaseCall(s) \/ LeaseTimeout(s)
  \/ \E c \in calls : LeaseServe(c)

LeaseSpec == LeaseInit /\ [][LeaseNext]_leaseVars

-----------------------------------------------------------------------------
LeaseTypeOK ==
  /\ clock \in Nat /\ made \in 0..MaxCalls
  /\ lease \in [holder : Holders, expires : Nat] \cup {NoLease}
  /\ calls \subseteq [id : 1..made, by : Sessions, verb : Verbs, ttl : TTLs,
                      phase : {"sent", "begun", "done"}, at : 0..clock,
                      yes : BOOLEAN, told : Nat]
  /\ awaited \in [Sessions -> 0..made]
  /\ until \in [Sessions -> Nat]
  /\ undercut \subseteq Sessions

(* "Atomically acquire an exclusive lease on a work item" (lease_acquire): *)
(* two sessions of different holders never work on the item at once,       *)
(* however late calls are served, answers lost and clocks read - unless a  *)
(* call under one's own name took its lease back or shortened it, which a  *)
(* release or a heartbeat served late can do: they name the holder, not    *)
(* the acquisition.                                                        *)
OneWorker ==
  \A s, t \in Sessions :
    (Working(s) /\ Working(t) /\ HolderOf[s] # HolderOf[t])
      => s \in undercut \/ t \in undercut
=============================================================================
