---------------------------- MODULE OfflineQueue ----------------------------
(***************************************************************************)
(* The durable write-behind queue of the client-side adapters:             *)
(* offline_queue.py (enqueue, drain, _reclaim_stale_claims) as memnos_mcp  *)
(* `remember` and the hooks use it.  One file per pending write; a drainer *)
(* claims a file by renaming it after its own pid, stamps the claim's      *)
(* mtime, POSTs it and removes it; a claim older than STALE_CLAIM_AGE is   *)
(* taken to be orphaned and renamed back.  Every rename, utime, remove and *)
(* POST is a step: the file system is the only thing drainers share.       *)
(***************************************************************************)
EXTENDS Naturals

CONSTANTS
  Items,      \* pending writes, numbered in queued_at order
  Drainers,   \* adapter and hook processes that drain, by pid
  Nil,        \* no item, no owner
  MaxFaults   \* bound: failures, lost answers, crashes and live claims seen
              \* as stale in a behaviour

ASSUME ItemsAssumption == Items \subseteq Nat
ASSUME NilAssumption   == Nil \notin Items /\ Nil \notin Drainers
ASSUME FaultAssumption == MaxFaults \in Nat

VARIABLES
  bad,         \* items the server refuses for good (401/403/400)
  timely,      \* no live drainer holds a claim for STALE_CLAIM_AGE
  loc,         \* loc[i]: where the file of item i is
  owner,       \* owner[i]: the pid in the name of i's claim
  fresh,       \* fresh[i]: the file's mtime is younger than STALE_CLAIM_AGE
  acked,       \* items whose caller was told "remembered"
  copies,      \* copies[i]: turns stored for i; 2 stands for several
  excused,     \* items a fault or a stolen claim may have stored twice
  unreadable,  \* items whose claimed file could not be read
  faults,      \* faults so far
  pc,          \* pc[d]: where drainer d is in drain()
  cur,         \* cur[d]: the item d is handling
  todo         \* todo[d]: what is left of the listing d is walking

env     == <<bad, timely>>
files   == <<loc, owner, fresh>>
ghosts  == <<acked, copies, excused, unreadable, faults>>
drainer == <<pc, cur, todo>>
vars    == <<env, files, ghosts, drainer>>

Places == {"new", "refused", "tmp", "queued", "claimed", "rejected", "gone"}
Stages == {"off", "sweep", "steal", "scan", "stamp", "load", "discard",
           "post", "remove", "release", "reject"}

-----------------------------------------------------------------------------
Init ==
  /\ bad \in SUBSET Items
  /\ timely \in BOOLEAN
  /\ loc = [i \in Items |-> "new"]
  /\ owner = [i \in Items |-> Nil]
  /\ fresh = [i \in Items |-> TRUE]
  /\ acked = {} /\ excused = {} /\ unreadable = {}
  /\ copies = [i \in Items |-> 0]
  /\ faults = 0
  /\ pc = [d \in Drainers |-> "off"]
  /\ cur = [d \in Drainers |-> Nil]
  /\ todo = [d \in Drainers |-> {}]

Fault == faults < MaxFaults /\ faults' = faults + 1

Store(i)  == copies' = [copies EXCEPT ![i] = IF @ = 2 THEN 2 ELSE @ + 1]
Excuse(i) == excused' = excused \cup {i}

Place(i, p, o) == loc' = [loc EXCEPT ![i] = p] /\ owner' = [owner EXCEPT ![i] = o]
Goto(d, s)     == pc' = [pc EXCEPT ![d] = s]

(* The claim d made is still there under d's name.                         *)
Holds(d) == loc[cur[d]] = "claimed" /\ owner[cur[d]] = d

-----------------------------------------------------------------------------
(* The caller's own write: memnos_mcp.remember.                            *)

RememberStored(i) ==
  /\ loc[i] = "new" /\ i \notin bad
  /\ Place(i, "gone", Nil)
  /\ Store(i)
  /\ acked' = acked \cup {i}
  /\ UNCHANGED <<env, fresh, excused, unreadable, faults, drainer>>

(* 4xx: surfaced to the caller, never queued.                              *)
RememberRefused(i) ==
  /\ loc[i] = "new" /\ i \in bad
  /\ Place(i, "refused", Nil)
  /\ UNCHANGED <<env, fresh, ghosts, drainer>>

(* No answer, or 5xx: is_transient.  A read timeout may come after the     *)
(* turn was stored.                                                        *)
RememberTransient(i) ==
  /\ loc[i] = "new" /\ Fault
  /\ Place(i, "tmp", Nil)
  /\ \/ UNCHANGED <<copies, excused>>
     \/ i \notin bad /\ Store(i) /\ Excuse(i)
  /\ UNCHANGED <<env, fresh, acked, unreadable, drainer>>

(* enqueue: os.replace publishes the finished file; only then is the       *)
(* caller told.                                                            *)
Enqueue(i) ==
  /\ loc[i] = "tmp"
  /\ Place(i, "queued", Nil)
  /\ fresh' = [fresh EXCEPT ![i] = TRUE]
  /\ acked' = acked \cup {i}
  /\ UNCHANGED <<env, copies, excused, unreadable, faults, drainer>>

(* STALE_CLAIM_AGE goes by on a file.                                      *)
Handling(d, i) == cur[d] = i /\ pc[d] # "steal"

Age(i) ==
  /\ loc[i] \in {"queued", "claimed"} /\ fresh[i]
  /\ (timely /\ loc[i] = "claimed") => \A d \in Drainers : ~Handling(d, i)
  /\ fresh' = [fresh EXCEPT ![i] = FALSE]
  /\ UNCHANGED <<env, loc, owner, ghosts, drainer>>

-----------------------------------------------------------------------------
(* drain()                                                                 *)

Claims == {i \in Items : loc[i] = "claimed"}
Queued == {i \in Items : loc[i] = "queued"}

StartWithoutSweep(d) ==                       \* mutant: no reclaim
  /\ pc[d] = "off"
  /\ Goto(d, "sweep")
  /\ UNCHANGED <<env, files, ghosts, cur, todo>>

(* _reclaim_stale_claims lists the claims there are ...                    *)
Start(d) ==
  /\ pc[d] = "off"
  /\ todo' = [todo EXCEPT ![d] = Claims]
  /\ Goto(d, "sweep")
  /\ UNCHANGED <<env, files, ghosts, cur>>

(* ... reads the mtime of each.  A live claim can look old only between    *)
(* its rename and its utime, or when its drainer was suspended: each time  *)
(* counts as a fault.                                                      *)
LooksStale(i) == loc[i] = "claimed" /\ ~fresh[i]

Alive(i) == \E d \in Drainers : Handling(d, i)

StatStale(d) ==
  /\ pc[d] = "sweep"
  /\ \E i \in todo[d] :
       /\ LooksStale(i)
       /\ IF Alive(i) THEN Fault ELSE UNCHANGED faults
       /\ todo' = [todo EXCEPT ![d] = @ \ {i}]
       /\ cur' = [cur EXCEPT ![d] = i]
  /\ Goto(d, "steal")
  /\ UNCHANGED <<env, files, acked, copies, excused, unreadable>>

StatFresh(d) ==
  /\ pc[d] = "sweep"
  /\ \E i \in todo[d] :
       /\ ~LooksStale(i)
       /\ todo' = [todo EXCEPT ![d] = @ \ {i}]
  /\ UNCHANGED <<env, files, ghosts, pc, cur>>

(* A claim found old is renamed back, whatever it has become since.        *)
Steal(d) ==
  /\ pc[d] = "steal"
  /\ LET i == cur[d] IN
       IF loc[i] = "claimed"
         THEN /\ Place(i, "queued", Nil)
              /\ IF \E e \in Drainers : Handling(e, i) /\ pc[e] # "stamp"
                   THEN Excuse(i) ELSE UNCHANGED excused
         ELSE UNCHANGED <<loc, owner, excused>>
  /\ Goto(d, "sweep")
  /\ cur' = [cur EXCEPT ![d] = Nil]
  /\ UNCHANGED <<env, fresh, acked, copies, unreadable, faults, todo>>

List(d) ==
  /\ pc[d] = "sweep" /\ todo[d] = {}
  /\ todo' = [todo EXCEPT ![d] = Queued]
  /\ Goto(d, "scan")
  /\ UNCHANGED <<env, files, ghosts, cur>>

Oldest(i, S) == \A j \in S : i <= j

ClaimByCopy(d) ==                             \* mutant: not an exclusive rename
  /\ pc[d] = "scan"
  /\ \E i \in todo[d] :
       /\ Oldest(i, todo[d])
       /\ todo' = [todo EXCEPT ![d] = @ \ {i}]
       /\ IF loc[i] \in {"queued", "claimed"}
            THEN /\ Place(i, "claimed", d)
                 /\ cur' = [cur EXCEPT ![d] = i]
                 /\ Goto(d, "stamp")
            ELSE UNCHANGED <<loc, owner, pc, cur>>
  /\ UNCHANGED <<env, fresh, ghosts>>

(* os.rename(src, claimed): the loser of a race moves on.                  *)
Claim(d) ==
  /\ pc[d] = "scan"
  /\ \E i \in todo[d] :
       /\ Oldest(i, todo[d])
       /\ todo' = [todo EXCEPT ![d] = @ \ {i}]
       /\ IF loc[i] = "queued"
            THEN /\ Place(i, "claimed", d)
                 /\ cur' = [cur EXCEPT ![d] = i]
                 /\ Goto(d, "stamp")
            ELSE UNCHANGED <<loc, owner, pc, cur>>
  /\ UNCHANGED <<env, fresh, ghosts>>

(* os.utime(claimed): fails when the claim was stolen meanwhile.           *)
Stamp(d) ==
  /\ pc[d] = "stamp"
  /\ IF Holds(d)
       THEN /\ fresh' = [fresh EXCEPT ![cur[d]] = TRUE]
            /\ Goto(d, "load") /\ UNCHANGED cur
       ELSE /\ UNCHANGED fresh
            /\ Goto(d, "scan") /\ cur' = [cur EXCEPT ![d] = Nil]
  /\ UNCHANGED <<env, loc, owner, ghosts, todo>>

(* json.load(open(claimed)): any exception discards the file.              *)
Load(d) ==
  /\ pc[d] = "load"
  /\ Goto(d, IF Holds(d) THEN "post" ELSE "discard")
  /\ UNCHANGED <<env, files, ghosts, cur, todo>>

LoadFails(d) ==
  /\ pc[d] = "load" /\ Fault
  /\ unreadable' = unreadable \cup {cur[d]}
  /\ Goto(d, "discard")
  /\ UNCHANGED <<env, files, acked, copies, excused, cur, todo>>

(* _post_remember, and the class of its outcome.                           *)
PostStored(d) ==
  /\ pc[d] = "post" /\ cur[d] \notin bad
  /\ Store(cur[d])
  /\ Goto(d, "remove")
  /\ UNCHANGED <<env, files, acked, excused, unreadable, faults, cur, todo>>

PostTransient(d) ==
  /\ pc[d] = "post" /\ Fault
  /\ \/ UNCHANGED <<copies, excused>>
     \/ cur[d] \notin bad /\ Store(cur[d]) /\ Excuse(cur[d])
  /\ Goto(d, "release")
  /\ UNCHANGED <<env, files, acked, unreadable, cur, todo>>

PostRefused(d) ==
  /\ pc[d] = "post" /\ cur[d] \in bad
  /\ Goto(d, "reject")
  /\ UNCHANGED <<env, files, ghosts, cur, todo>>

(* The rename, replace or remove that ends an item, if the claim is still  *)
(* d's; then the scan goes on, or stops after a transient failure.         *)
Resolve(d, stage, place) ==
  /\ pc[d] = stage
  /\ IF Holds(d) THEN Place(cur[d], place, Nil) ELSE UNCHANGED <<loc, owner>>
  /\ cur' = [cur EXCEPT ![d] = Nil]
  /\ UNCHANGED <<env, fresh, ghosts>>

RemoveUnsent(d) ==                            \* mutant: removed whatever the POST did
  /\ Resolve(d, "release", "gone") /\ Goto(d, "off")
  /\ todo' = [todo EXCEPT ![d] = {}]

Remove(d)  == Resolve(d, "remove", "gone") /\ Goto(d, "scan") /\ UNCHANGED todo
Discard(d) == Resolve(d, "discard", "gone") /\ Goto(d, "scan") /\ UNCHANGED todo
Reject(d)  == Resolve(d, "reject", "rejected") /\ Goto(d, "scan") /\ UNCHANGED todo
Release(d) == /\ Resolve(d, "release", "queued") /\ Goto(d, "off")
              /\ todo' = [todo EXCEPT ![d] = {}]

Return(d) ==
  /\ pc[d] = "scan" /\ todo[d] = {}
  /\ Goto(d, "off")
  /\ UNCHANGED <<env, files, ghosts, cur, todo>>

(* The process is killed: its claim stays behind under its name.  A POST   *)
(* on the wire may or may not reach the server.                            *)
Crash(d) ==
  /\ pc[d] # "off" /\ Fault
  /\ \/ pc[d] # "remove" /\ UNCHANGED <<copies, excused>>
     \/ pc[d] = "post" /\ cur[d] \notin bad /\ Store(cur[d]) /\ Excuse(cur[d])
     \/ pc[d] = "remove" /\ Excuse(cur[d]) /\ UNCHANGED copies
  /\ Goto(d, "off")
  /\ cur' = [cur EXCEPT ![d] = Nil]
  /\ todo' = [todo EXCEPT ![d] = {}]
  /\ UNCHANGED <<env, files, acked, unreadable>>

Caller(i) == RememberStored(i) \/ RememberRefused(i) \/ RememberTransient(i)
             \/ Enqueue(i)

Drain(d) ==
  \/ Start(d) \/ StatStale(d) \/ StatFresh(d) \/ Steal(d) \/ List(d)
  \/ Claim(d) \/ Stamp(d) \/ Load(d)
  \/ PostStored(d) \/ PostRefused(d)
  \/ Remove(d) \/ Discard(d) \/ Reject(d) \/ Release(d) \/ Return(d)

Next ==
  \/ \E i \in Items : Caller(i) \/ Age(i)
  \/ \E d \in Drainers : Drain(d) \/ LoadFails(d) \/ PostTransient(d) \/ Crash(d)

Spec == Init /\ [][Next]_vars

(* Adapters drain at start and after every successful call, so some        *)
(* process keeps draining while the machine is in use; time passes.        *)
Fairness ==
  /\ \A d \in Drainers : WF_vars(Drain(d))
  /\ \A i \in Items : WF_vars(Age(i))

FairSpec == Spec /\ Fairness

-----------------------------------------------------------------------------
TypeOK ==
  /\ bad \subseteq Items /\ timely \in BOOLEAN
  /\ loc \in [Items -> Places]
  /\ owner \in [Items -> Drainers \cup {Nil}]
  /\ fresh \in [Items -> BOOLEAN]
  /\ acked \subseteq Items /\ excused \subseteq Items /\ unreadable \subseteq Items
  /\ copies \in [Items -> 0..2]
  /\ faults \in 0..MaxFaults
  /\ pc \in [Drainers -> Stages]
  /\ cur \in [Drainers -> Items \cup {Nil}]
  /\ todo \in [Drainers -> SUBSET Items]
  /\ \A i \in Items : loc[i] = "claimed" <=> owner[i] # Nil
  /\ \A d \in Drainers : cur[d] = Nil <=> pc[d] \in {"off", "sweep", "scan"}

(* "The write is never lost" (enqueue): once the caller has been told its  *)
(* memory is remembered, the item is stored, waiting, or set aside as      *)
(* rejected, whatever drainers race, crash or steal from each other.  The  *)
(* one exception is a queue file that could not be read back.              *)
NeverLost ==
  \A i \in acked :
    \/ copies[i] > 0
    \/ loc[i] \in {"queued", "claimed", "rejected"}
    \/ i \in unreadable

(* An item is stored twice only after an answer was lost, its drainer died *)
(* around the POST, or its live claim was stolen: racing drainers alone    *)
(* never duplicate a write.                                                *)
DuplicatesExplained == \A i \in Items : copies[i] = 2 => i \in excused

(* Every acknowledged write leaves the queue for good once faults stop: a  *)
(* claim orphaned by a crash is recovered, and a refused item blocks none  *)
(* behind it.                                                              *)
QueueDrains ==
  \A i \in Items : (i \in acked) ~> [](loc[i] \in {"gone", "rejected"})

(* "exactly one drainer ever sends a given item" (drain): no two live      *)
(* drainers POST one item at the same time, even when every POST is timely *)
OneSender ==
  timely => \A d, e \in Drainers :
              (pc[d] = "post" /\ pc[e] = "post" /\ cur[d] = cur[e]) => d = e
=============================================================================
