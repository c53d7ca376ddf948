------------------------------- MODULE Launch -------------------------------
(***************************************************************************)
(* `memnos start`, `stop`, `restart` and `autostart` (memnos_cli.py)       *)
(* around the gateway process and a login service.  A command finds the    *)
(* gateway through two files, server.pid and gateway_state.json, that      *)
(* commands and gateways write and delete without a lock; what orders them *)
(* is the public port, which one process holds from bind to exit.  The     *)
(* backends behind a gateway are module Gateway.                           *)
(***************************************************************************)
EXTENDS Naturals, FiniteSets

CONSTANTS
  Gateways,     \* gateway processes; the name of a forgotten one is reused
  NoGateway,    \* no file, no child
  Shells,       \* command invocations
  MaxCommands,  \* bound: commands run
  MaxCrashes    \* bound: kills of a gateway or a command, reboots

ASSUME LaunchBounds == MaxCommands \in Nat /\ MaxCrashes \in Nat
ASSUME NoGatewayIsNone == NoGateway \notin Gateways

VARIABLES
  gw,         \* gw[g]: "none", "starting" (nothing bound), "bound" (the port),
              \* "booting" (state written), "up", "sick" (no backend answers),
              \* "closing" (stopping its backend), "cleared" (about to exit)
  pidFile,    \* server.pid
  stateFile,  \* gateway_state.json
  service,    \* the login service: "none", "loaded" or "stopped"
  child,      \* the gateway the service runs
  shell,      \* shell[c]: the command, where it is, the gateway it started
  contested,  \* gateways a command started another one beside
  muddled,    \* commands overlapped, or one was killed half way
  commands, crashes

launchVars == <<gw, pidFile, stateFile, service, child, shell, contested,
                muddled, commands, crashes>>

Idle == [cmd |-> "none", at |-> "idle", own |-> NoGateway]
Running(g) == gw[g] # "none"

(* The listening socket is not closed before the process exits.            *)
HoldsPort(g) == gw[g] \in {"bound", "booting", "up", "sick", "closing", "cleared"}
PortFree == \A g \in Gateways : ~HoldsPort(g)

(* _server_up: /healthz is answered by a backend.                          *)
ServerUp == \E g \in Gateways : gw[g] = "up"
(* _gateway_status: the control endpoint takes the recorded token.         *)
ControlAnswers == stateFile # NoGateway /\ gw[stateFile] \in {"booting", "up", "sick"}

Unused == {g \in Gateways : /\ ~Running(g) /\ g \notin {pidFile, stateFile, child}
                            /\ \A c \in Shells : shell[c].own # g}
(* One unused pid is as good as another.                                   *)
NewPid == CHOOSE g \in Unused : TRUE

-----------------------------------------------------------------------------
LaunchInit ==
  /\ gw = [g \in Gateways |-> "none"]
  /\ pidFile = NoGateway /\ stateFile = NoGateway
  /\ service = "none" /\ child = NoGateway
  /\ shell = [c \in Shells |-> Idle]
  /\ contested = {} /\ muddled = FALSE
  /\ commands = 0 /\ crashes = 0

(* Gateway processes: memnos_gateway.run.                                  *)
Turn(g, from, to) ==
  /\ gw[g] \in from
  /\ gw' = [gw EXCEPT ![g] = to]
  /\ UNCHANGED <<pidFile, service, shell, contested, muddled, commands>>

(* A mutated boot: the state file is written before the port is bound.     *)
BindAfterState(g) ==
  /\ Turn(g, {"starting"}, IF PortFree THEN "bound" ELSE "none")
  /\ stateFile' = g
  /\ child' = IF child = g /\ ~PortFree THEN NoGateway ELSE child
  /\ UNCHANGED crashes

(* A second process on the port fails, before it has written anything.     *)
Bind(g) ==
  /\ Turn(g, {"starting"}, IF PortFree THEN "bound" ELSE "none")
  /\ child' = IF child = g /\ ~PortFree THEN NoGateway ELSE child
  /\ UNCHANGED <<stateFile, crashes>>

WriteState(g) ==
  /\ Turn(g, {"bound"}, "booting") /\ stateFile' = g
  /\ UNCHANGED <<child, crashes>>

BackendUp(g) == Turn(g, {"booting", "sick"}, "up") /\ UNCHANGED <<stateFile, child, crashes>>
BackendLost(g) == Turn(g, {"up"}, "sick") /\ UNCHANGED <<stateFile, child, crashes>>

(* The watchdog gives up, or the first backend never came up.              *)
GatewayFails(g) ==
  /\ Turn(g, {"booting", "sick"}, "closing")
  /\ UNCHANGED <<stateFile, child, crashes>>

(* _clear_state deletes the file, whoever wrote it.                        *)
ClearState(g) ==
  /\ Turn(g, {"closing"}, "cleared") /\ stateFile' = NoGateway
  /\ UNCHANGED <<child, crashes>>

GatewayExits(g) ==
  /\ Turn(g, {"cleared"}, "none")
  /\ child' = IF child = g THEN NoGateway ELSE child
  /\ UNCHANGED <<stateFile, crashes>>

GatewayKilled(g) ==
  /\ crashes < MaxCrashes /\ Running(g)
  /\ Turn(g, {gw[g]}, "none")
  /\ child' = IF child = g THEN NoGateway ELSE child
  /\ crashes' = crashes + 1 /\ UNCHANGED stateFile

(* The service keeps a gateway running (KeepAlive, Restart=always).        *)
ServiceSpawns ==
  /\ service = "loaded" /\ child = NoGateway
  /\ \E g \in Unused : /\ g = NewPid
                       /\ gw' = [gw EXCEPT ![g] = "starting"] /\ child' = g
                       /\ contested' = contested \ {g}
  /\ UNCHANGED <<pidFile, stateFile, service, shell, muddled, commands, crashes>>

(* SIGTERM: its handler is installed once the first backend is up.         *)
AfterSigterm(S) ==
  [g \in Gateways |->
     IF g \notin S THEN gw[g]
     ELSE CASE gw[g] \in {"starting", "bound", "booting"} -> "none"
            [] gw[g] \in {"up", "sick"} -> "closing"
            [] OTHER -> gw[g]]

(* The service's child after a SIGTERM: one that dies at once is gone.     *)
ChildAfter == IF child # NoGateway /\ AfterSigterm({child})[child] = "none"
                THEN NoGateway ELSE child

Reboot ==
  /\ crashes < MaxCrashes /\ crashes' = crashes + 1
  /\ gw' = [g \in Gateways |-> "none"] /\ child' = NoGateway
  /\ service' = IF service = "stopped" THEN "loaded" ELSE service
  /\ muddled' = (muddled \/ \E c \in Shells : shell[c] # Idle)
  /\ shell' = [c \in Shells |-> Idle]
  /\ contested' = {}
  /\ UNCHANGED <<pidFile, stateFile, commands>>

-----------------------------------------------------------------------------
(* Commands.                                                               *)
Issue(c, cmd, at) ==
  /\ shell[c] = Idle /\ commands < MaxCommands
  /\ commands' = commands + 1
  /\ shell' = [shell EXCEPT ![c] = [Idle EXCEPT !.cmd = cmd, !.at = at]]
  /\ muddled' = (muddled \/ \E d \in Shells : shell[d] # Idle)
  /\ UNCHANGED <<gw, pidFile, stateFile, service, child, contested, crashes>>

Command(c) == \/ Issue(c, "start", "start")     \/ Issue(c, "stop", "stop")
              \/ Issue(c, "restart", "restart") \/ Issue(c, "autostart", "install")
              \/ Issue(c, "autostart", "remove")

At(c, step) == shell[c].at = step
GoTo(c, step) == shell' = [shell EXCEPT ![c] = IF step = "idle" THEN Idle
                                             ELSE [@ EXCEPT !.at = step]]
Still == UNCHANGED <<muddled, commands, crashes>>

Start(c) ==
  /\ At(c, "start")
  /\ IF service = "none"
       THEN GoTo(c, "check") /\ UNCHANGED service
       ELSE /\ GoTo(c, IF ServerUp THEN "idle" ELSE "wait_for_service")
            /\ service' = IF ServerUp THEN service ELSE "loaded"
  /\ UNCHANGED <<gw, pidFile, stateFile, child, contested>> /\ Still

(* _start_gateway_background.                                              *)
CheckNothingUp(c) ==
  /\ At(c, "check") /\ GoTo(c, IF ServerUp THEN "idle" ELSE "spawn")
  /\ UNCHANGED <<gw, pidFile, stateFile, service, child, contested>> /\ Still

SpawnGateway(c) ==
  LET beside == {h \in Gateways : Running(h)}
  IN /\ At(c, "spawn")
     /\ \E g \in Unused :
          /\ g = NewPid
          /\ gw' = [gw EXCEPT ![g] = "starting"]
          /\ shell' = [shell EXCEPT ![c].at = "write_pid", ![c].own = g]
          /\ contested' = (contested \ {g}) \cup beside
                          \cup (IF beside = {} THEN {} ELSE {g})
     /\ UNCHANGED <<pidFile, stateFile, service, child>> /\ Still

WritePid(c) ==
  /\ At(c, "write_pid") /\ GoTo(c, "wait")
  /\ pidFile' = shell[c].own
  /\ UNCHANGED <<gw, stateFile, service, child, contested>> /\ Still

(* _wait_for_boot_or_die: any server that answers will do; a dead gateway  *)
(* takes the state file with it.  Its six minutes outlast a boot's five.   *)
WaitForBoot(c) ==
  /\ At(c, "wait")
  /\ \/ ServerUp /\ UNCHANGED stateFile
     \/ ~ServerUp /\ ~Running(shell[c].own) /\ stateFile' = NoGateway
  /\ GoTo(c, "idle")
  /\ UNCHANGED <<gw, pidFile, service, child, contested>> /\ Still

(* Up, or six minutes have passed.                                         *)
WaitForService(c) ==
  /\ At(c, "wait_for_service") /\ GoTo(c, "idle")
  /\ UNCHANGED <<gw, pidFile, stateFile, service, child, contested>> /\ Still

Stop(c) ==
  /\ At(c, "stop")
  /\ IF service # "none"
       THEN /\ service' = "stopped" /\ gw' = AfterSigterm({child})
            /\ child' = ChildAfter /\ GoTo(c, "signal")
       ELSE /\ UNCHANGED <<service, gw, child>>
            /\ GoTo(c, IF pidFile = NoGateway THEN "idle" ELSE "signal")
  /\ UNCHANGED <<pidFile, stateFile, contested>> /\ Still

(* _stop_quiet reads the file and signals; then deletes the file.          *)
SignalPids(c) ==
  /\ At(c, "signal") /\ GoTo(c, IF pidFile = NoGateway THEN "clear" ELSE "unpid")
  /\ gw' = AfterSigterm({pidFile})
  /\ UNCHANGED <<pidFile, stateFile, service, child, contested>> /\ Still

DropPid(c) ==
  /\ At(c, "unpid") /\ GoTo(c, "clear") /\ pidFile' = NoGateway
  /\ UNCHANGED <<gw, stateFile, service, child, contested>> /\ Still

DropState(c) ==
  /\ At(c, "clear")
  /\ GoTo(c, IF shell[c].cmd = "stop" THEN "stopped" ELSE "await_down")
  /\ stateFile' = NoGateway
  /\ UNCHANGED <<gw, pidFile, service, child, contested>> /\ Still

Stopped(c) ==
  /\ At(c, "stopped") /\ GoTo(c, "idle")
  /\ UNCHANGED <<gw, pidFile, stateFile, service, child, contested>> /\ Still

(* _rolling_upgrade_or_convert: upgrade a gateway that answers; otherwise  *)
(* regenerate and restart the service, or stop and start.                  *)
Restart(c) ==
  /\ At(c, "restart")
  /\ IF ControlAnswers
       THEN GoTo(c, "idle") /\ UNCHANGED <<service, gw, child>>
       ELSE IF service # "none"
         THEN /\ service' = "loaded" /\ gw' = AfterSigterm({child})
              /\ child' = ChildAfter /\ GoTo(c, "wait_for_service")
         ELSE GoTo(c, "signal") /\ UNCHANGED <<service, gw, child>>
  /\ UNCHANGED <<pidFile, stateFile, contested>> /\ Still

(* Ten seconds for the old server to stop answering.                       *)
AwaitDown(c) ==
  /\ At(c, "await_down") /\ GoTo(c, IF ServerUp THEN "idle" ELSE "check")
  /\ UNCHANGED <<gw, pidFile, stateFile, service, child, contested>> /\ Still

(* cmd_autostart.  On launchd a loaded service is reloaded, under systemd  *)
(* it is left running.                                                     *)
InstallService(c) ==
  /\ At(c, "install") /\ GoTo(c, "idle") /\ service' = "loaded"
  /\ \/ gw' = AfterSigterm({child}) /\ child' = ChildAfter
     \/ UNCHANGED <<gw, child>>
  /\ UNCHANGED <<pidFile, stateFile, contested>> /\ Still

RemoveService(c) ==
  /\ At(c, "remove") /\ GoTo(c, "idle") /\ service' = "none"
  /\ gw' = AfterSigterm({child}) /\ child' = NoGateway
  /\ UNCHANGED <<pidFile, stateFile, contested>> /\ Still

(* Ctrl-C or a kill.                                                       *)
CommandDies(c) ==
  /\ shell[c] # Idle /\ crashes < MaxCrashes
  /\ crashes' = crashes + 1 /\ muddled' = TRUE
  /\ GoTo(c, "idle")
  /\ UNCHANGED <<gw, pidFile, stateFile, service, child, contested, commands>>

LaunchNext ==
  \/ \E g \in Gateways :
       \/ Bind(g) \/ WriteState(g) \/ BackendUp(g) \/ BackendLost(g)
       \/ GatewayFails(g) \/ ClearState(g) \/ GatewayExits(g) \/ GatewayKilled(g)
  \/ \E c \in Shells :
       \/ Command(c) \/ Start(c) \/ CheckNothingUp(c) \/ SpawnGateway(c)
       \/ WritePid(c) \/ WaitForBoot(c) \/ WaitForService(c)
       \/ Stop(c) \/ SignalPids(c) \/ DropPid(c) \/ DropState(c) \/ Stopped(c)
       \/ Restart(c) \/ AwaitDown(c) \/ InstallService(c) \/ RemoveService(c)
       \/ CommandDies(c)
  \/ ServiceSpawns \/ Reboot

LaunchSpec == LaunchInit /\ [][LaunchNext]_launchVars

-----------------------------------------------------------------------------
(* Type invariant.                                                         *)
LaunchTypeOK ==
  /\ gw \in [Gateways -> {"none", "starting", "bound", "booting", "up", "sick",
                          "closing", "cleared"}]
  /\ {pidFile, stateFile, child} \subseteq Gateways \cup {NoGateway}
  /\ service \in {"none", "loaded", "stopped"}
  /\ contested \subseteq Gateways /\ muddled \in BOOLEAN
  /\ commands \in 0..MaxCommands /\ crashes \in 0..MaxCrashes

(* A gateway that shuts down deletes no other gateway's state file, though *)
(* it does not look whose it is: nobody else can have written it before    *)
(* the port is released.                                                   *)
ShutdownClearsOwnState ==
  \A g \in Gateways : gw[g] = "closing" => stateFile \in {g, NoGateway}

(* Commands run one after the other, whatever dies between them, keep hold *)
(* of the gateway: the next `restart` finds it, the next `stop` stops it.  *)
(* Only a start beside a running gateway (booting or with its backend      *)
(* down) loses it.                                                         *)
Quiet == ~muddled /\ \A c \in Shells : shell[c] = Idle
ControlLostOnlyWhenContested ==
  Quiet => \A g \in Gateways \ contested :
    gw[g] \in {"up", "sick"} => stateFile = g /\ g \in {pidFile, child}

(* When `stop` has reported success nothing it could have stopped serves   *)
(* or is about to.                                                         *)
StopStops ==
  ~muddled /\ (\E c \in Shells : At(c, "stopped")) =>
    \A g \in Gateways \ contested : gw[g] \in {"none", "closing", "cleared"}
=============================================================================
