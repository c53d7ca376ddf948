------------------------------ MODULE Gateway ------------------------------
(***************************************************************************)
(* The zero-downtime front door: memnos_gateway.py.  The main thread boots *)
(* and shuts down, the upgrade thread replaces the live backend, the       *)
(* watchdog heals a dead one, request threads forward to whichever backend *)
(* is current, and backends are processes that die, wedge and recover on   *)
(* their own.  `_current_port` and `_current_proc` are one variable, read  *)
(* and written by all of them without a lock.                              *)
(***************************************************************************)
EXTENDS Naturals, FiniteSets

CONSTANTS
  Backends,      \* backend processes; a dead one's name is used again
  Requests,      \* client requests, each repeated for ever
  Nil,           \* None
  MissThreshold, \* WATCHDOG_MISS_THRESHOLD
  MaxHeals,      \* WATCHDOG_MAX_HEAL_ATTEMPTS
  MaxUpgrades    \* bound: upgrades asked for in a behaviour

ASSUME NilAssumption   == Nil \notin Backends
ASSUME RequestAssumption == IsFiniteSet(Requests)
ASSUME BoundAssumption == /\ MissThreshold \in Nat \ {0}
                          /\ MaxHeals \in Nat \ {0} /\ MaxUpgrades \in Nat

VARIABLES
  life,      \* life[b]: the process of backend b
  current,   \* _current_port / _current_proc
  mainPc,    \* the main thread, in run()
  first,     \* the initial backend
  stop,      \* stop_evt
  upPc,      \* the upgrade thread, in _run_rolling_upgrade
  status,    \* _upgrade_state["status"]
  upOld,     \* its old_proc
  upNew,     \* its new_proc
  drained,   \* what _wait_drain returned
  upgrades,  \* upgrades asked for so far
  dogPc,     \* the watchdog, in _watchdog_loop
  dogOld,    \* its proc
  dogNew,    \* its new_proc
  misses,    \* consecutive_misses
  failures,  \* consecutive_heal_failures
  healed,    \* last_heal_ok_at is not None
  reqPc,     \* request threads, in _forward
  reqOn,     \* the port each has read
  cut,       \* requests on a backend an upgrade killed as drained
  clobbered  \* run() overwrote a backend an upgrade had made current

mainv    == <<mainPc, first, stop>>
upgradev == <<upPc, status, upOld, upNew, drained, upgrades>>
dogv     == <<dogPc, dogOld, dogNew, misses, failures, healed>>
reqv     == <<reqPc, reqOn>>
ghosts   == <<cut, clobbered>>
vars     == <<life, current, mainv, upgradev, dogv, reqv, ghosts>>

Alive(b) == b # Nil /\ life[b] \in {"booting", "up", "wedged"}

-----------------------------------------------------------------------------
Init ==
  /\ life = [b \in Backends |-> "dead"]
  /\ current = Nil
  /\ mainPc = "boot" /\ first = Nil /\ stop = FALSE
  /\ upPc = "idle" /\ status = "none" /\ upOld = Nil /\ upNew = Nil
  /\ drained = FALSE /\ upgrades = 0
  /\ dogPc = "off" /\ dogOld = Nil /\ dogNew = Nil
  /\ misses = 0 /\ failures = 0 /\ healed = FALSE
  /\ reqPc = [r \in Requests |-> "idle"] /\ reqOn = [r \in Requests |-> Nil]
  /\ cut = {} /\ clobbered = FALSE

(* A process nobody refers to any more can be started under a new port.    *)
Free == {b \in Backends : /\ life[b] = "dead"
                          /\ b \notin {current, first, upOld, upNew, dogOld, dogNew}
                          /\ \A r \in Requests : reqOn[r] # b}

Spawn(b) == b \in Free /\ life' = [life EXCEPT ![b] = "booting"]
Kill(b)  == life' = IF b = Nil THEN life ELSE [life EXCEPT ![b] = "dead"]

Up == mainPc \in {"booting", "serving"}       \* the gateway process is running

-----------------------------------------------------------------------------
(* Backend processes: what happens to them without the gateway.            *)
Become(b, from, to) ==
  /\ life[b] \in from
  /\ life' = [life EXCEPT ![b] = to]
  /\ UNCHANGED <<current, mainv, upgradev, dogv, reqv, ghosts>>

Ready(b)   == Up /\ Become(b, {"booting"}, "up")
Wedge(b)   == Become(b, {"up"}, "wedged")
Recover(b) == Become(b, {"wedged"}, "up")
Die(b)     == Become(b, {"booting", "up", "wedged"}, "dead")

(* _gateway_parent_watcher: the recorded gateway pid is gone.              *)
WatchParent(b) ==
  /\ mainPc = "exited"
  /\ Become(b, {"booting", "up", "wedged"}, "dead")

-----------------------------------------------------------------------------
(* The main thread: run().                                                 *)
BootSpawn ==
  /\ mainPc = "boot"
  /\ \/ /\ mainPc' = "exited" /\ UNCHANGED <<life, first>>
     \/ \E b \in Backends : Spawn(b) /\ first' = b /\ mainPc' = "booting"
  /\ UNCHANGED <<current, stop, upgradev, dogv, reqv, ghosts>>

(* The assignment is unconditional; the watchdog starts.                   *)
BootReady ==
  /\ mainPc = "booting" /\ life[first] = "up"
  /\ mainPc' = "serving"
  /\ clobbered' = (current # Nil)
  /\ current' = first /\ first' = Nil
  /\ dogPc' = "idle"
  /\ UNCHANGED <<life, stop, upgradev, dogOld, dogNew, misses, failures,
                 healed, reqv, cut>>

BootFails ==
  /\ mainPc = "booting" /\ life[first] # "up"
  /\ Kill(first) /\ first' = Nil
  /\ mainPc' = "exited"
  /\ UNCHANGED <<current, stop, upgradev, dogv, reqv, ghosts>>

Signal ==
  /\ mainPc = "serving" /\ ~stop
  /\ stop' = TRUE
  /\ UNCHANGED <<life, current, mainPc, first, upgradev, dogv, reqv, ghosts>>

(* httpd.shutdown, kill the current backend, exit; daemon threads end      *)
(* wherever they are.                                                      *)
Shutdown ==
  /\ mainPc = "serving" /\ stop
  /\ Kill(current)
  /\ mainPc' = "exited"
  /\ UNCHANGED <<current, first, stop, upgradev, dogv, reqv, ghosts>>

(* SIGKILL, out of memory: nothing is cleaned up.                          *)
Crash ==
  /\ Up
  /\ mainPc' = "exited"
  /\ UNCHANGED <<life, current, first, stop, upgradev, dogv, reqv, ghosts>>

-----------------------------------------------------------------------------
(* Request threads: _forward.                                              *)
ReadPort(r) ==
  /\ Up /\ reqPc[r] = "idle" /\ current # Nil    \* None: 503, starting up
  /\ reqPc' = [reqPc EXCEPT ![r] = "read"]
  /\ reqOn' = [reqOn EXCEPT ![r] = current]
  /\ UNCHANGED <<life, current, mainv, upgradev, dogv, ghosts>>

Send(r) ==                                       \* _inflight_incr
  /\ reqPc[r] = "read"
  /\ reqPc' = [reqPc EXCEPT ![r] = "sent"]
  /\ UNCHANGED <<life, current, mainv, upgradev, dogv, reqOn, ghosts>>

Answered(r) ==                                   \* or 502; _inflight_decr
  /\ reqPc[r] = "sent"
  /\ reqPc' = [reqPc EXCEPT ![r] = "idle"]
  /\ reqOn' = [reqOn EXCEPT ![r] = Nil]
  /\ UNCHANGED <<life, current, mainv, upgradev, dogv, ghosts>>

On(b, pcs)  == {r \in Requests : reqOn[r] = b /\ reqPc[r] \in pcs}
Inflight(b) == Cardinality(On(b, {"sent"}))

-----------------------------------------------------------------------------
(* The upgrade thread: _start_rolling_upgrade and _run_rolling_upgrade.    *)
UpgradeStart ==
  /\ Up /\ status # "running" /\ upPc = "idle" /\ upgrades < MaxUpgrades
  /\ status' = "running" /\ upPc' = "begin" /\ upgrades' = upgrades + 1
  /\ UNCHANGED <<life, current, mainv, upOld, upNew, drained, dogv, reqv, ghosts>>

UpgradeOverSilently(s) ==                     \* mutant: status left "running"
  /\ upPc' = "idle"
  /\ upOld' = Nil /\ upNew' = Nil /\ drained' = FALSE
  /\ UNCHANGED <<status, upgrades>>
UpgradeOver(s) ==
  /\ status' = s /\ upPc' = "idle"
  /\ upOld' = Nil /\ upNew' = Nil /\ drained' = FALSE
  /\ UNCHANGED upgrades

UpgradeRead ==
  /\ Up /\ upPc = "begin"
  /\ upOld' = current /\ upPc' = "spawn"
  /\ UNCHANGED <<life, current, mainv, status, upNew, drained, upgrades, dogv,
                 reqv, ghosts>>

UpgradeSpawn ==
  /\ Up /\ upPc = "spawn"
  /\ \/ UpgradeOver("failed") /\ UNCHANGED life
     \/ /\ \E b \in Backends : Spawn(b) /\ upNew' = b
        /\ upPc' = "prewarm"
        /\ UNCHANGED <<status, upOld, drained, upgrades>>
  /\ UNCHANGED <<current, mainv, dogv, reqv, ghosts>>

PrewarmFails ==            \* timed out or exited
  /\ Up /\ upPc = "prewarm" /\ life[upNew] # "up"
  /\ Kill(upNew) /\ UpgradeOver("failed")
  /\ UNCHANGED <<current, mainv, dogv, reqv, ghosts>>

Prewarmed ==               \* /readyz answered
  /\ Up /\ upPc = "prewarm" /\ life[upNew] = "up"
  /\ upPc' = "flip"
  /\ UNCHANGED <<life, current, mainv, status, upOld, upNew, drained, upgrades,
                 dogv, reqv, ghosts>>

(* The identity check and the flip it protects.                            *)
Flip ==
  /\ Up /\ upPc = "flip" /\ current = upOld
  /\ current' = upNew
  /\ upPc' = IF upOld = Nil THEN "decide" ELSE "settle"
  /\ UNCHANGED <<life, mainv, status, upOld, upNew, drained, upgrades, dogv,
                 reqv, ghosts>>

Superseded ==
  /\ Up /\ upPc = "flip" /\ current # upOld
  /\ Kill(upNew) /\ UpgradeOver("failed")
  /\ UNCHANGED <<current, mainv, dogv, reqv, ghosts>>

(* The pause of _wait_drain, assumed long enough for every request that    *)
(* read the old port to have been counted.                                 *)
SettleAtOnce ==                               \* mutant: no pause
  /\ Up /\ upPc = "settle"
  /\ upPc' = "drain"
  /\ UNCHANGED <<life, current, mainv, status, upOld, upNew, drained, upgrades,
                 dogv, reqv, ghosts>>
Settle == On(upOld, {"read"}) = {} /\ SettleAtOnce

DrainEndsWith(d) ==
  /\ Up /\ upPc = "drain"
  /\ upPc' = "decide" /\ drained' = d
  /\ UNCHANGED <<life, current, mainv, status, upOld, upNew, upgrades, dogv,
                 reqv, ghosts>>
Drained      == Inflight(upOld) = 0 /\ DrainEndsWith(TRUE)
DrainTimeout == Inflight(upOld) > 0 /\ DrainEndsWith(FALSE)
WatchDied    == ~Alive(upNew) /\ DrainEndsWith(FALSE)

(* The recheck before the old backend is killed, and the rollback.         *)
Decide ==
  /\ Up /\ upPc = "decide" /\ Alive(upNew)
  /\ upPc' = "killold"
  /\ UNCHANGED <<life, current, mainv, status, upOld, upNew, drained, upgrades,
                 dogv, reqv, ghosts>>

Rollback ==
  /\ Up /\ upPc = "decide" /\ ~Alive(upNew)
  /\ current' = IF Alive(upOld) THEN upOld ELSE Nil
  /\ UpgradeOver("failed")
  /\ UNCHANGED <<life, mainv, dogv, reqv, ghosts>>

KillOld ==
  /\ Up /\ upPc = "killold"
  /\ Kill(upOld) /\ UpgradeOver("done")
  /\ cut' = IF drained THEN cut \cup On(upOld, {"read", "sent"}) ELSE cut
  /\ UNCHANGED <<current, mainv, dogv, reqv, clobbered>>

Upgrade ==
  \/ UpgradeRead \/ UpgradeSpawn \/ PrewarmFails \/ Prewarmed
  \/ Flip \/ Superseded \/ Settle \/ Drained \/ DrainTimeout \/ WatchDied
  \/ Decide \/ Rollback \/ KillOld

-----------------------------------------------------------------------------
(* The watchdog: _watchdog_loop.                                           *)
DogGoes(pc) == dogPc' = pc

(* One tick that is not skipped.  A healthy backend clears the misses and, *)
(* WATCHDOG_STABLE_S after a heal, the failures.                           *)
MayTickOnLive == /\ Up            \* mutant: skips an exited backend
                 /\ dogPc = "idle" /\ ~stop
                 /\ status # "running" /\ Alive(current)
MayTick == /\ Up /\ dogPc = "idle" /\ ~stop
           /\ status # "running" /\ current # Nil

ProbeHealthy ==
  /\ MayTick /\ life[current] = "up"
  /\ misses' = 0
  /\ \/ UNCHANGED <<failures, healed>>
     \/ healed /\ failures' = 0 /\ healed' = FALSE
  /\ UNCHANGED <<life, current, mainv, upgradev, dogPc, dogOld, dogNew, reqv,
                 ghosts>>

Misses(enough) ==
  /\ MayTick /\ life[current] # "up"
  /\ IF ~Alive(current) \/ enough
     THEN misses' = 0 /\ dogOld' = current /\ DogGoes("heal")
     ELSE misses' = misses + 1 /\ UNCHANGED <<dogOld, dogPc>>
  /\ UNCHANGED <<life, current, mainv, upgradev, dogNew, failures, healed,
                 reqv, ghosts>>

ProbeMissesOneMore == Misses(misses >= MissThreshold)  \* mutant: off by one
ProbeMisses == Misses(misses + 1 >= MissThreshold)

HealSpawn ==
  /\ Up /\ dogPc = "heal"
  /\ \/ DogGoes("after") /\ failures' = failures + 1 /\ UNCHANGED <<life, dogNew>>
     \/ /\ \E b \in Backends : Spawn(b) /\ dogNew' = b
        /\ DogGoes("ready") /\ UNCHANGED failures
  /\ UNCHANGED <<current, mainv, upgradev, dogOld, misses, healed, reqv, ghosts>>

HealFails ==               \* the replacement timed out or exited
  /\ Up /\ dogPc = "ready" /\ life[dogNew] # "up"
  /\ Kill(dogNew) /\ dogNew' = Nil
  /\ failures' = failures + 1 /\ DogGoes("after")
  /\ UNCHANGED <<current, mainv, upgradev, dogOld, misses, healed, reqv, ghosts>>

Discard ==                 \* drop the replacement, which is not a failure
  /\ Kill(dogNew) /\ dogNew' = Nil /\ DogGoes("after")
  /\ UNCHANGED <<current, mainv, upgradev, dogOld, misses, failures, healed,
                 reqv, ghosts>>

(* It answered /readyz: the upgrade status is read, under its lock ...     *)
HealReady ==
  /\ Up /\ dogPc = "ready" /\ life[dogNew] = "up"
  /\ IF status = "running" THEN Discard
     ELSE /\ DogGoes("swap")
          /\ UNCHANGED <<life, current, mainv, upgradev, dogOld, dogNew, misses,
                         failures, healed, reqv, ghosts>>

(* ... and then, without it, whether proc is still the current backend.    *)
SwapIn ==
  /\ Up /\ dogPc = "swap"
  /\ current' = dogNew /\ dogNew' = Nil
  /\ failures' = 0 /\ healed' = TRUE /\ DogGoes("killold")
  /\ UNCHANGED <<life, mainv, upgradev, dogOld, misses, reqv, ghosts>>
HealSwap   == current = dogOld /\ SwapIn
HealDefers == Up /\ dogPc = "swap" /\ current # dogOld /\ Discard

HealKillOld ==
  /\ Up /\ dogPc = "killold"
  /\ Kill(dogOld) /\ dogOld' = Nil /\ DogGoes("idle")
  /\ UNCHANGED <<current, mainv, upgradev, dogNew, misses, failures, healed,
                 reqv, ghosts>>

(* Give up after MaxHeals failures in a row, or back off.                  *)
AfterHeal ==
  /\ Up /\ dogPc = "after"
  /\ IF failures >= MaxHeals THEN DogGoes("off") /\ stop' = TRUE
                             ELSE DogGoes("idle") /\ UNCHANGED stop
  /\ dogOld' = Nil
  /\ UNCHANGED <<life, current, mainPc, first, upgradev, dogNew, misses,
                 failures, healed, reqv, ghosts>>

Watchdog ==
  \/ ProbeHealthy \/ ProbeMisses \/ HealSpawn \/ HealFails \/ HealReady
  \/ HealSwap \/ HealDefers \/ HealKillOld \/ AfterHeal

-----------------------------------------------------------------------------
Main == BootSpawn \/ BootReady \/ BootFails \/ Shutdown

Terminated ==
  /\ mainPc = "exited" /\ \A b \in Backends : life[b] = "dead"
  /\ UNCHANGED vars

Next ==
  \/ Main \/ Signal \/ Crash \/ Upgrade \/ UpgradeStart \/ Watchdog \/ Terminated
  \/ \E b \in Backends : Ready(b) \/ Wedge(b) \/ Recover(b) \/ Die(b) \/ WatchParent(b)
  \/ \E r \in Requests : ReadPort(r) \/ Send(r) \/ Answered(r)

(* Every wait of a gateway thread has a timeout, so each thread goes on;   *)
(* nothing makes a backend become ready, a client call or an upgrade start.*)
Fairness ==
  /\ WF_vars(Main) /\ WF_vars(Upgrade) /\ WF_vars(Watchdog)
  /\ \A r \in Requests : WF_vars(Send(r)) /\ WF_vars(Answered(r))
  /\ \A b \in Backends : WF_vars(WatchParent(b))

Spec == Init /\ [][Next]_vars /\ Fairness

-----------------------------------------------------------------------------
(* Type correctness; the watchdog's two counters stay below the thresholds *)
(* that act on them.                                                       *)
TypeOK ==
  /\ life \in [Backends -> {"dead", "booting", "up", "wedged"}]
  /\ {current, first, upOld, upNew, dogOld, dogNew} \subseteq Backends \cup {Nil}
  /\ mainPc \in {"boot", "booting", "serving", "exited"} /\ stop \in BOOLEAN
  /\ upPc \in {"idle", "begin", "spawn", "prewarm", "flip", "settle", "drain",
               "decide", "killold"}
  /\ status \in {"none", "running", "failed", "done"}
  /\ drained \in BOOLEAN /\ upgrades \in 0..MaxUpgrades
  /\ dogPc \in {"off", "idle", "heal", "ready", "swap", "killold", "after"}
  /\ misses \in 0..(MissThreshold - 1) /\ failures \in 0..MaxHeals
  /\ healed \in BOOLEAN
  /\ reqPc \in [Requests -> {"idle", "read", "sent"}]
  /\ reqOn \in [Requests -> Backends \cup {Nil}]
  /\ cut \subseteq Requests /\ clobbered \in BOOLEAN

(* _run_rolling_upgrade, _wait_drain: no client call is still running on   *)
(* an old backend when an upgrade that found it drained kills it.          *)
NoRequestCut == cut = {}

(* The watchdog and the upgrade thread replace the same backend without a  *)
(* lock: whenever both are at rest, every live backend process is the one  *)
(* being served from.  Except after run() overwrote the result of an       *)
(* upgrade that finished before the initial backend was ready.             *)
NoOrphan ==
  mainPc = "serving" /\ upPc = "idle" /\ dogPc = "idle" /\ ~clobbered
    => \A b \in Backends : Alive(b) => b = current

(* _kill is aimed by one thread while another may change what is served:   *)
(* neither the replaced backend nor the spare one is current when either   *)
(* thread is about to kill it.                                             *)
KillsOnlyReplaced ==
  /\ upPc = "killold" /\ upOld # Nil => current # upOld
  /\ dogPc = "killold" => current # dogOld
  /\ upPc \in {"prewarm", "flip"} => current # upNew
  /\ dogPc \in {"ready", "swap"} => current # dogNew

(* The incident _watchdog_loop closes: a backend that dies does not stay   *)
(* the one being served from, however upgrades and heals overlap; it is    *)
(* replaced, or the gateway exits.                                         *)
DeadIsReplaced ==
  \A b \in Backends :
    (mainPc = "serving" /\ current = b /\ life[b] = "dead")
      ~> (mainPc = "exited" \/ current # b)

(* An upgrade ends, whatever dies and whatever requests hang: the next one *)
(* is never refused for ever as "already running".                         *)
UpgradeEnds == status = "running" ~> (status # "running" \/ mainPc = "exited")

(* _watchdog_loop, memnos_gateway.py:372-384: the watchdog gives up only   *)
(* when the gateway is "unable to ever serve again", not when the backend  *)
(* it was healing has been replaced by a healthy one.                      *)
GivesUpOnlyWhenDown ==
  [][(dogPc = "after" /\ dogPc' = "off")
       => ~(current \notin {Nil, dogOld} /\ life[current] = "up")]_vars

(* The gateway cuts no request, leaves no backend behind and kills none    *)
(* that has not been replaced.                                             *)
GatewaySound == NoRequestCut /\ NoOrphan /\ KillsOnlyReplaced
=============================================================================
