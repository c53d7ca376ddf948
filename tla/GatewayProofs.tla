-------------------------- MODULE GatewayProofs --------------------------
(***************************************************************************)
(* Proofs about the front door (Gateway): however the upgrade thread, the  *)
(* watchdog, run() and the requests interleave, the counters stay in       *)
(* range, no request is cut, none but a replaced backend is killed and     *)
(* none is left behind.                                                    *)
(***************************************************************************)
EXTENDS Gateway, FiniteSetTheorems, TLAPS

-----------------------------------------------------------------------------
(* What the upgrade thread and the watchdog hold at each point.            *)
Replaced == {"settle", "drain", "decide", "killold"}  \* upgrade, past the flip
Spare    == {"prewarm", "flip"}                       \* and before it

Holding ==
  /\ upPc = "idle" <=> status # "running"
  /\ upPc \in {"idle", "begin"} => upOld = Nil
  /\ upPc \in {"idle", "begin", "spawn"} <=> upNew = Nil
  /\ drained => upPc \in {"decide", "killold"} /\ upOld # Nil
  /\ upPc \in {"settle", "drain"} => upOld # Nil
  /\ dogPc \in {"ready", "swap"} <=> dogNew # Nil
  /\ dogPc \in {"off", "idle"} <=> dogOld = Nil
  /\ dogPc \in {"idle", "heal", "ready", "swap", "killold"} => failures < MaxHeals
  /\ mainPc = "boot" => current = Nil /\ upPc = "idle"
  /\ mainPc = "booting" => first # Nil
  /\ mainPc \in {"boot", "booting"} => dogPc = "off" /\ failures = 0 /\ ~clobbered

(* The processes two threads hold are different ones.                      *)
Apart ==
  /\ mainPc = "booting" => first \notin {current, upOld, upNew}
  /\ upNew # Nil => upNew \notin {upOld, dogOld, dogNew}
  /\ dogNew # Nil => dogNew \notin {upOld, dogOld, current}
  /\ upPc \in Spare => current # upNew
  /\ upPc \in Replaced => /\ current # Nil /\ current # dogOld
                          /\ upOld # Nil => current # upOld
                          /\ current # upNew => clobbered
  /\ dogPc = "killold" => /\ current # dogOld
                          /\ upPc \in Replaced => upOld # dogOld

(* A live process is served from, or some thread still has to end it.      *)
OwnedProcess(b) ==
  \/ b = current
  \/ mainPc = "booting" /\ b = first
  \/ upPc \in Spare /\ b = upNew
  \/ upPc \in Replaced /\ b = upOld
  \/ dogPc \in {"ready", "swap"} /\ b = dogNew
  \/ dogPc = "killold" /\ b = dogOld

AllOwned == mainPc # "exited" /\ ~clobbered => \A b \in Backends : Alive(b) => OwnedProcess(b)

(* Past the pause nobody is about to call the old backend, and once it is  *)
(* drained nobody is calling it.                                           *)
Quieted ==
  \A r \in Requests :
    reqOn[r] = upOld /\ upOld # Nil =>
      /\ upPc \in {"drain", "decide", "killold"} => reqPc[r] # "read"
      /\ drained => reqPc[r] # "sent"

Uncut == Quieted /\ NoRequestCut

GatewayInv == TypeOK /\ Holding /\ Apart /\ AllOwned /\ Uncut

USE NilAssumption, BoundAssumption DEF vars, mainv, upgradev, dogv, reqv, ghosts

LEMMA InitGateway == Init => GatewayInv
  <1> SUFFICES ASSUME Init PROVE GatewayInv
    OBVIOUS
  <1> USE DEF Init
  <1>1. TypeOK
    <2>1. /\ {current, first, upOld, upNew, dogOld, dogNew} \subseteq Backends \cup {Nil}
          /\ reqPc \in [Requests -> {"idle", "read", "sent"}]
          /\ reqOn \in [Requests -> Backends \cup {Nil}]
          /\ life \in [Backends -> {"dead", "booting", "up", "wedged"}]
      OBVIOUS
    <2>2. /\ upgrades \in 0..MaxUpgrades /\ misses \in 0..(MissThreshold - 1)
          /\ failures \in 0..MaxHeals
      OBVIOUS
    <2>3. {stop, drained, healed, clobbered} \subseteq BOOLEAN /\ cut \subseteq Requests
      OBVIOUS
    <2> QED
      BY <2>1, <2>2, <2>3 DEF TypeOK
  <1>2. Holding /\ Apart /\ AllOwned
    BY DEF Holding, Apart, AllOwned, Alive, Replaced, Spare
  <1>3. Uncut
    BY DEF Uncut, Quieted, NoRequestCut
  <1> QED
    BY <1>1, <1>2, <1>3 DEF GatewayInv

-----------------------------------------------------------------------------
(* Types, and the counters' bounds.                                        *)
LEMMA TypesKept == TypeOK /\ Holding /\ [Next]_vars => TypeOK'
  <1> SUFFICES ASSUME TypeOK, Holding, [Next]_vars PROVE TypeOK'
    OBVIOUS
  <1> USE DEF TypeOK, Holding
  <1>1. CASE UNCHANGED <<vars>>
    BY <1>1
  <1>2. CASE BootSpawn
    BY <1>2 DEF BootSpawn, Spawn, Free
  <1>3. CASE BootReady
    BY <1>3 DEF BootReady
  <1>4. CASE BootFails
    BY <1>4 DEF BootFails, Kill
  <1>5. CASE Shutdown
    BY <1>5 DEF Shutdown, Kill
  <1>6. CASE Signal
    BY <1>6 DEF Signal
  <1>7. CASE Crash
    BY <1>7 DEF Crash, Up
  <1>8. CASE UpgradeStart
    BY <1>8 DEF UpgradeStart, Up
  <1>9. CASE UpgradeRead
    BY <1>9 DEF UpgradeRead, Up
  <1>10. CASE UpgradeSpawn
    <2>1. CASE UpgradeOver("failed")
      BY <1>10, <2>1 DEF UpgradeSpawn, UpgradeOver
    <2>2. CASE \E b \in Backends : Spawn(b) /\ upNew' = b
      BY <1>10, <2>2 DEF UpgradeSpawn, Spawn, UpgradeOver
    <2> QED
      BY <1>10, <2>1, <2>2 DEF UpgradeSpawn
  <1>11. CASE PrewarmFails
    BY <1>11 DEF PrewarmFails, Kill, UpgradeOver, Up
  <1>12. CASE Prewarmed
    BY <1>12 DEF Prewarmed, Up
  <1>13. CASE Flip
    BY <1>13 DEF Flip, Up
  <1>14. CASE Superseded
    BY <1>14 DEF Superseded, Kill, UpgradeOver, Up
  <1>15. CASE Settle
    BY <1>15 DEF Settle, SettleAtOnce, On, Up
  <1>16. CASE Drained
    BY <1>16 DEF Drained, DrainEndsWith, Up
  <1>17. CASE DrainTimeout
    BY <1>17 DEF DrainTimeout, DrainEndsWith, Up
  <1>18. CASE WatchDied
    BY <1>18 DEF WatchDied, DrainEndsWith, Up
  <1>19. CASE Decide
    BY <1>19 DEF Decide, Up
  <1>20. CASE Rollback
    BY <1>20 DEF Rollback, UpgradeOver, Alive, Up
  <1>21. CASE KillOld
    BY <1>21 DEF KillOld, Kill, UpgradeOver, On, Up
  <1>22. CASE ProbeHealthy
    <2>1. misses' \in 0..(MissThreshold - 1) /\ failures' \in 0..MaxHeals
      BY <1>22 DEF ProbeHealthy
    <2>2. healed' \in BOOLEAN
      BY <1>22 DEF ProbeHealthy
    <2>3. UNCHANGED <<life, current, mainv, upgradev, dogPc, dogOld, dogNew, reqv, ghosts>>
      BY <1>22 DEF ProbeHealthy
    <2> QED
      BY <2>1, <2>2, <2>3
  <1>23. CASE ProbeMisses
    BY <1>23 DEF ProbeMisses, Misses, MayTick, DogGoes, Alive, Up
  <1>24. CASE HealSpawn
    BY <1>24 DEF HealSpawn, DogGoes, Spawn, Free, Up
  <1>25. CASE HealFails
    BY <1>25 DEF HealFails, Kill, DogGoes, Up
  <1>26. CASE HealReady
    BY <1>26 DEF HealReady, Discard, Kill, DogGoes, Up
  <1>27. CASE HealSwap
    BY <1>27 DEF HealSwap, SwapIn, DogGoes, Up
  <1>28. CASE HealDefers
    BY <1>28 DEF HealDefers, Discard, Kill, DogGoes, Up
  <1>29. CASE HealKillOld
    BY <1>29 DEF HealKillOld, Kill, DogGoes, Up
  <1>30. CASE AfterHeal
    BY <1>30 DEF AfterHeal, DogGoes, Up
  <1>31. ASSUME NEW b \in Backends, Ready(b) PROVE TypeOK'
    BY <1>31 DEF Ready, Become, Up
  <1>32. ASSUME NEW b \in Backends, Wedge(b) PROVE TypeOK'
    BY <1>32 DEF Wedge, Become
  <1>33. ASSUME NEW b \in Backends, Recover(b) PROVE TypeOK'
    BY <1>33 DEF Recover, Become
  <1>34. ASSUME NEW b \in Backends, Die(b) PROVE TypeOK'
    BY <1>34 DEF Die, Become
  <1>35. ASSUME NEW b \in Backends, WatchParent(b) PROVE TypeOK'
    BY <1>35 DEF WatchParent, Become
  <1>36. ASSUME NEW r \in Requests, ReadPort(r) PROVE TypeOK'
    BY <1>36 DEF ReadPort, Up
  <1>37. ASSUME NEW r \in Requests, Send(r) PROVE TypeOK'
    BY <1>37 DEF Send
  <1>38. ASSUME NEW r \in Requests, Answered(r) PROVE TypeOK'
    BY <1>38 DEF Answered
  <1> QED
    BY <1>1, <1>2, <1>3, <1>4, <1>5, <1>6, <1>7, <1>8, <1>9, <1>10, <1>11, <1>12,
       <1>13, <1>14, <1>15, <1>16, <1>17, <1>18, <1>19, <1>20, <1>21, <1>22, <1>23,
       <1>24, <1>25, <1>26, <1>27, <1>28, <1>29, <1>30, <1>31, <1>32, <1>33, <1>34,
       <1>35, <1>36, <1>37, <1>38
    DEF Next, Main, Upgrade, Watchdog, Terminated

(* A thread holds what its place in its function says.                    *)
LEMMA HoldingKept == TypeOK /\ Holding /\ [Next]_vars => Holding'
  <1> SUFFICES ASSUME TypeOK, Holding, [Next]_vars PROVE Holding'
    OBVIOUS
  <1> USE DEF TypeOK, Holding
  <1>1. CASE UNCHANGED <<mainPc, first, current, upPc, status, upOld, upNew, drained,
                    dogPc, dogOld, dogNew, failures, clobbered>>
    BY <1>1
  <1>2. CASE BootSpawn
    BY <1>2 DEF BootSpawn, Spawn, Free
  <1>3. CASE BootReady
    BY <1>3 DEF BootReady
  <1>4. CASE BootFails
    BY <1>4 DEF BootFails, Kill
  <1>5. CASE Shutdown
    BY <1>5 DEF Shutdown, Kill
  <1>6. CASE Crash
    BY <1>6 DEF Crash, Up
  <1>7. CASE UpgradeStart
    BY <1>7 DEF UpgradeStart, Up
  <1>8. CASE UpgradeRead
    BY <1>8 DEF UpgradeRead, Up
  <1>9. CASE UpgradeSpawn
    BY <1>9 DEF UpgradeSpawn, UpgradeOver, Spawn, Free, Up
  <1>10. CASE PrewarmFails
    BY <1>10 DEF PrewarmFails, Kill, UpgradeOver, Up
  <1>11. CASE Prewarmed
    BY <1>11 DEF Prewarmed, Up
  <1>12. CASE Flip
    BY <1>12 DEF Flip, Up
  <1>13. CASE Superseded
    BY <1>13 DEF Superseded, Kill, UpgradeOver, Up
  <1>14. CASE Settle
    BY <1>14 DEF Settle, SettleAtOnce, On, Up
  <1>15. CASE Drained
    BY <1>15 DEF Drained, DrainEndsWith, Up
  <1>16. CASE DrainTimeout
    BY <1>16 DEF DrainTimeout, DrainEndsWith, Up
  <1>17. CASE WatchDied
    BY <1>17 DEF WatchDied, DrainEndsWith, Up
  <1>18. CASE Decide
    BY <1>18 DEF Decide, Up
  <1>19. CASE Rollback
    BY <1>19 DEF Rollback, UpgradeOver, Alive, Up
  <1>20. CASE KillOld
    BY <1>20 DEF KillOld, Kill, UpgradeOver, On, Up
  <1>21. CASE ProbeHealthy
    BY <1>21 DEF ProbeHealthy, MayTick, Up
  <1>22. CASE ProbeMisses
    BY <1>22 DEF ProbeMisses, Misses, MayTick, DogGoes, Alive, Up
  <1>23. CASE HealSpawn
    BY <1>23 DEF HealSpawn, DogGoes, Spawn, Free, Up
  <1>24. CASE HealFails
    BY <1>24 DEF HealFails, Kill, DogGoes, Up
  <1>25. CASE HealReady
    BY <1>25 DEF HealReady, Discard, Kill, DogGoes, Up
  <1>26. CASE HealSwap
    BY <1>26 DEF HealSwap, SwapIn, DogGoes, Up
  <1>27. CASE HealDefers
    BY <1>27 DEF HealDefers, Discard, Kill, DogGoes, Up
  <1>28. CASE HealKillOld
    BY <1>28 DEF HealKillOld, Kill, DogGoes, Up
  <1>29. CASE AfterHeal
    BY <1>29 DEF AfterHeal, DogGoes, Up
  <1> QED
    BY <1>1, <1>2, <1>3, <1>4, <1>5, <1>6, <1>7, <1>8, <1>9, <1>10, <1>11, <1>12,
       <1>13, <1>14, <1>15, <1>16, <1>17, <1>18, <1>19, <1>20, <1>21, <1>22, <1>23,
       <1>24, <1>25, <1>26, <1>27, <1>28, <1>29
    DEF Next, Main, Upgrade, Watchdog, Terminated, Signal, Become, Ready, Wedge,
        Recover, Die, WatchParent, ReadPort, Send, Answered

(* No two threads ever hold the same process.                              *)
LEMMA ApartKept == TypeOK /\ Holding /\ Apart /\ [Next]_vars => Apart'
  <1> SUFFICES ASSUME TypeOK, Holding, Apart, [Next]_vars PROVE Apart'
    OBVIOUS
  <1> USE DEF TypeOK, Holding, Apart, Replaced, Spare
  <1>1. CASE UNCHANGED <<mainPc, first, current, upPc, upOld, upNew, dogPc, dogOld, dogNew,
                    clobbered>>
    BY <1>1
  <1>2. CASE BootSpawn
    BY <1>2 DEF BootSpawn, Spawn, Free
  <1>3. CASE BootReady
    BY <1>3 DEF BootReady
  <1>4. CASE BootFails
    BY <1>4 DEF BootFails, Kill
  <1>5. CASE Shutdown
    BY <1>5 DEF Shutdown, Kill
  <1>6. CASE Crash
    BY <1>6 DEF Crash, Up
  <1>7. CASE UpgradeRead
    BY <1>7 DEF UpgradeRead, Up
  <1>8. CASE UpgradeSpawn
    BY <1>8 DEF UpgradeSpawn, UpgradeOver, Spawn, Free, Up
  <1>9. CASE PrewarmFails
    BY <1>9 DEF PrewarmFails, Kill, UpgradeOver, Up
  <1>10. CASE Prewarmed
    BY <1>10 DEF Prewarmed, Up
  <1>11. CASE Flip
    BY <1>11 DEF Flip, Up
  <1>12. CASE Superseded
    BY <1>12 DEF Superseded, Kill, UpgradeOver, Up
  <1>13. CASE Settle
    BY <1>13 DEF Settle, SettleAtOnce, On, Up
  <1>14. CASE Drained
    BY <1>14 DEF Drained, DrainEndsWith, Up
  <1>15. CASE DrainTimeout
    BY <1>15 DEF DrainTimeout, DrainEndsWith, Up
  <1>16. CASE WatchDied
    BY <1>16 DEF WatchDied, DrainEndsWith, Up
  <1>17. CASE Decide
    BY <1>17 DEF Decide, Up
  <1>18. CASE Rollback
    BY <1>18 DEF Rollback, UpgradeOver, Alive, Up
  <1>19. CASE KillOld
    BY <1>19 DEF KillOld, Kill, UpgradeOver, On, Up
  <1>20. CASE ProbeMisses
    BY <1>20 DEF ProbeMisses, Misses, MayTick, DogGoes, Alive, Up
  <1>21. CASE HealSpawn
    BY <1>21 DEF HealSpawn, DogGoes, Spawn, Free, Up
  <1>22. CASE HealFails
    BY <1>22 DEF HealFails, Kill, DogGoes, Up
  <1>23. CASE HealReady
    BY <1>23 DEF HealReady, Discard, Kill, DogGoes, Up
  <1>24. CASE HealSwap
    BY <1>24 DEF HealSwap, SwapIn, DogGoes, Up
  <1>25. CASE HealDefers
    BY <1>25 DEF HealDefers, Discard, Kill, DogGoes, Up
  <1>26. CASE HealKillOld
    BY <1>26 DEF HealKillOld, Kill, DogGoes, Up
  <1>27. CASE AfterHeal
    BY <1>27 DEF AfterHeal, DogGoes, Up
  <1> QED
    BY <1>1, <1>2, <1>3, <1>4, <1>5, <1>6, <1>7, <1>8, <1>9, <1>10, <1>11, <1>12,
       <1>13, <1>14, <1>15, <1>16, <1>17, <1>18, <1>19, <1>20, <1>21, <1>22, <1>23,
       <1>24, <1>25, <1>26, <1>27
    DEF Next, Main, Upgrade, Watchdog, Terminated, Signal, Become, UpgradeStart,
        ProbeHealthy, Ready, Wedge, Recover, Die, WatchParent, ReadPort, Send,
        Answered

(* Every live process is somebody's.                                       *)
LEMMA OwnedKept == TypeOK /\ Holding /\ Apart /\ AllOwned /\ [Next]_vars => AllOwned'
  <1> SUFFICES ASSUME TypeOK, Holding, Apart, AllOwned, [Next]_vars PROVE AllOwned'
    OBVIOUS
  <1> USE DEF TypeOK, Holding, Apart, AllOwned, OwnedProcess, Alive, Replaced, Spare
  <1>1. CASE UNCHANGED <<life, mainPc, first, current, upPc, upOld, upNew, dogPc, dogOld, dogNew,
                    clobbered>>
    BY <1>1
  <1>2. CASE BootSpawn
    BY <1>2 DEF BootSpawn, Spawn, Free
  <1>3. CASE BootReady
    BY <1>3 DEF BootReady
  <1>4. CASE BootFails
    BY <1>4 DEF BootFails, Kill
  <1>5. CASE Shutdown
    BY <1>5 DEF Shutdown, Kill
  <1>6. CASE Crash
    BY <1>6 DEF Crash, Up
  <1>7. CASE UpgradeStart
    BY <1>7 DEF UpgradeStart, Up
  <1>8. CASE UpgradeRead
    BY <1>8 DEF UpgradeRead, Up
  <1>9. CASE UpgradeSpawn
    BY <1>9 DEF UpgradeSpawn, UpgradeOver, Spawn, Free, Up
  <1>10. CASE PrewarmFails
    BY <1>10 DEF PrewarmFails, Kill, UpgradeOver, Up
  <1>11. CASE Prewarmed
    BY <1>11 DEF Prewarmed, Up
  <1>12. CASE Flip
    BY <1>12 DEF Flip, Up
  <1>13. CASE Superseded
    BY <1>13 DEF Superseded, Kill, UpgradeOver, Up
  <1>14. CASE Settle
    BY <1>14 DEF Settle, SettleAtOnce, On, Up
  <1>15. CASE Drained
    BY <1>15 DEF Drained, DrainEndsWith, Up
  <1>16. CASE DrainTimeout
    BY <1>16 DEF DrainTimeout, DrainEndsWith, Up
  <1>17. CASE WatchDied
    BY <1>17 DEF WatchDied, DrainEndsWith, Up
  <1>18. CASE Decide
    BY <1>18 DEF Decide, Up
  <1>19. CASE Rollback
    BY <1>19 DEF Rollback, UpgradeOver, Alive, Up
  <1>20. CASE KillOld
    BY <1>20 DEF KillOld, Kill, UpgradeOver, On, Up
  <1>21. CASE ProbeMisses
    BY <1>21 DEF ProbeMisses, Misses, MayTick, DogGoes, Alive, Up
  <1>22. CASE HealSpawn
    BY <1>22 DEF HealSpawn, DogGoes, Spawn, Free, Up
  <1>23. CASE HealFails
    BY <1>23 DEF HealFails, Kill, DogGoes, Up
  <1>24. CASE HealReady
    BY <1>24 DEF HealReady, Discard, Kill, DogGoes, Up
  <1>25. CASE HealSwap
    BY <1>25 DEF HealSwap, SwapIn, DogGoes, Up
  <1>26. CASE HealDefers
    BY <1>26 DEF HealDefers, Discard, Kill, DogGoes, Up
  <1>27. CASE HealKillOld
    BY <1>27 DEF HealKillOld, Kill, DogGoes, Up
  <1>28. CASE AfterHeal
    BY <1>28 DEF AfterHeal, DogGoes, Up
  <1>29. ASSUME NEW b \in Backends, Ready(b) PROVE AllOwned'
    BY <1>29 DEF Ready, Become, Up
  <1>30. ASSUME NEW b \in Backends, Wedge(b) PROVE AllOwned'
    BY <1>30 DEF Wedge, Become
  <1>31. ASSUME NEW b \in Backends, Recover(b) PROVE AllOwned'
    BY <1>31 DEF Recover, Become
  <1>32. ASSUME NEW b \in Backends, Die(b) PROVE AllOwned'
    BY <1>32 DEF Die, Become
  <1>33. ASSUME NEW b \in Backends, WatchParent(b) PROVE AllOwned'
    BY <1>33 DEF WatchParent, Become
  <1> QED
    BY <1>1, <1>2, <1>3, <1>4, <1>5, <1>6, <1>7, <1>8, <1>9, <1>10, <1>11, <1>12,
       <1>13, <1>14, <1>15, <1>16, <1>17, <1>18, <1>19, <1>20, <1>21, <1>22, <1>23,
       <1>24, <1>25, <1>26, <1>27, <1>28, <1>29, <1>30, <1>31, <1>32, <1>33
    DEF Next, Main, Upgrade, Watchdog, Terminated, Signal, ProbeHealthy, ReadPort,
        Send, Answered

(* No request is on a backend that is found drained.                       *)
LEMMA NobodyOn ==
  ASSUME TypeOK, NEW b, Inflight(b) = 0
  PROVE  \A r \in Requests : reqOn[r] = b => reqPc[r] # "sent"
  <1>1. On(b, {"sent"}) \subseteq Requests
    BY DEF On
  <1>2. IsFiniteSet(On(b, {"sent"}))
    BY <1>1, RequestAssumption, FS_Subset
  <1>3. On(b, {"sent"}) = {}
    BY <1>2, FS_EmptySet DEF Inflight
  <1> QED
    BY <1>3 DEF On

(* The old backend stays without requests until it is killed.              *)
LEMMA QuietKept == TypeOK /\ Holding /\ Apart /\ Uncut /\ [Next]_vars => Uncut'
  <1> SUFFICES ASSUME TypeOK, Holding, Apart, Uncut, [Next]_vars PROVE Uncut'
    OBVIOUS
  <1> USE DEF TypeOK, Holding, Apart, Uncut, Quieted, NoRequestCut, Replaced, Spare
  <1>1. CASE UNCHANGED <<current, upPc, upOld, drained, reqPc, reqOn, cut>>
    BY <1>1
  <1>2. CASE BootReady
    BY <1>2 DEF BootReady
  <1>3. CASE UpgradeStart
    BY <1>3 DEF UpgradeStart, Up
  <1>4. CASE UpgradeRead
    BY <1>4 DEF UpgradeRead, Up
  <1>5. CASE UpgradeSpawn
    BY <1>5 DEF UpgradeSpawn, UpgradeOver, Spawn, Free, Up
  <1>6. CASE PrewarmFails
    BY <1>6 DEF PrewarmFails, Kill, UpgradeOver, Up
  <1>7. CASE Prewarmed
    BY <1>7 DEF Prewarmed, Up
  <1>8. CASE Flip
    BY <1>8 DEF Flip, Up
  <1>9. CASE Superseded
    BY <1>9 DEF Superseded, Kill, UpgradeOver, Up
  <1>10. CASE Settle
    BY <1>10 DEF Settle, SettleAtOnce, On, Up
  <1>11. CASE Drained
    BY <1>11, NobodyOn DEF Drained, DrainEndsWith, Up
  <1>12. CASE DrainTimeout
    BY <1>12 DEF DrainTimeout, DrainEndsWith, Up
  <1>13. CASE WatchDied
    BY <1>13 DEF WatchDied, DrainEndsWith, Up
  <1>14. CASE Decide
    BY <1>14 DEF Decide, Up
  <1>15. CASE Rollback
    BY <1>15 DEF Rollback, UpgradeOver, Alive, Up
  <1>16. CASE KillOld
    BY <1>16 DEF KillOld, Kill, UpgradeOver, On, Up
  <1>17. CASE HealSwap
    BY <1>17 DEF HealSwap, SwapIn, DogGoes, Up
  <1>18. ASSUME NEW r \in Requests, ReadPort(r) PROVE Uncut'
    BY <1>18 DEF ReadPort, Up
  <1>19. ASSUME NEW r \in Requests, Send(r) PROVE Uncut'
    BY <1>19 DEF Send
  <1>20. ASSUME NEW r \in Requests, Answered(r) PROVE Uncut'
    BY <1>20 DEF Answered
  <1> QED
    BY <1>1, <1>2, <1>3, <1>4, <1>5, <1>6, <1>7, <1>8, <1>9, <1>10, <1>11, <1>12,
       <1>13, <1>14, <1>15, <1>16, <1>17, <1>18, <1>19, <1>20
    DEF Next, Main, Upgrade, Watchdog, Terminated, BootSpawn, BootFails, Shutdown,
        Signal, Crash, ProbeHealthy, ProbeMisses, Misses, HealSpawn, HealFails,
        HealReady, HealDefers, Discard, HealKillOld, AfterHeal, Become, Ready,
        Wedge, Recover, Die, WatchParent

LEMMA GatewayNext == GatewayInv /\ [Next]_vars => GatewayInv'
  BY TypesKept, HoldingKept, ApartKept, OwnedKept, QuietKept DEF GatewayInv

-----------------------------------------------------------------------------
(* TypeOK holds for any number of backends, requests, heals and upgrades:  *)
(* the watchdog's counters stay below what acts on them.                   *)
THEOREM GatewayTypeCorrect == Spec => []TypeOK
  <1>1. GatewayInv => TypeOK
    BY DEF GatewayInv
  <1> QED
    BY <1>1, InitGateway, GatewayNext, PTL DEF Spec

(* An upgrade and a heal that replace the same backend without a lock cut  *)
(* no request of a drained backend, kill only what has been replaced and   *)
(* leave no process behind that nobody serves from.                        *)
THEOREM FrontDoorIsSound == Spec => []GatewaySound
  <1>1. GatewayInv => GatewaySound
    <2> SUFFICES ASSUME GatewayInv PROVE NoOrphan /\ KillsOnlyReplaced
      BY DEF GatewayInv, Uncut, GatewaySound
    <2>1. NoOrphan
      BY DEF GatewayInv, AllOwned, OwnedProcess, NoOrphan, Replaced, Spare
    <2>2. KillsOnlyReplaced
      BY DEF GatewayInv, TypeOK, Holding, Apart, KillsOnlyReplaced, Replaced, Spare
    <2> QED
      BY <2>1, <2>2
  <1> QED
    BY <1>1, InitGateway, GatewayNext, PTL DEF Spec
=============================================================================
