------------------------------- MODULE Reexec -------------------------------
(***************************************************************************)
(* The stdio MCP adapter replacing its own image after an upgrade          *)
(* (memnos_mcp.py, "self-re-exec on version change"): a watcher thread     *)
(* polls a signature of the installed files, waits for the tool calls in   *)
(* flight, and execs.  The host keeps one connection and never knows.      *)
(***************************************************************************)
EXTENDS Naturals, FiniteSets

CONSTANTS
  Calls,       \* tool calls, each repeated for ever
  MaxInstalls  \* bound: upgrades installed

ASSUME ReexecBounds == MaxInstalls \in Nat

VARIABLES
  disk,      \* the signature of what is installed: a count of installs
  install,   \* an installer is writing, "before" or "after" the files the
             \* signature covers; "none" otherwise
  ticked,    \* a tick has fallen into this install
  image,     \* the running process: its signature when it started, whether
             \* it read half an install and the installs were overtaken, has
             \* seen `initialize`, is resumed
  prev,      \* prev_sig
  watcher,   \* the watcher thread
  hostReady, \* the host has sent `initialize`, which it does once
  call,      \* call[r]: where the request is
  late,      \* requests first counted after the watcher's last look
  overtaken, \* an install began with an earlier one still not picked up
  installs

reexecVars == <<disk, install, ticked, image, prev, watcher, hostReady, call,
                late, overtaken, installs>>

In(where) == {r \in Calls : call[r] \in where}

Launched(resumed) ==
  [sig |-> disk, torn |-> install # "none", overtaken |-> overtaken,
   initialized |-> FALSE, resumed |-> resumed]

-----------------------------------------------------------------------------
ReexecInit ==
  /\ disk = 0 /\ install = "none" /\ ticked = FALSE
  /\ overtaken = FALSE /\ image = Launched(FALSE) /\ prev = 0
  /\ watcher = "watching" /\ hostReady = FALSE
  /\ call = [r \in Calls |-> "none"]
  /\ late = {} /\ installs = 0

(* The installer.                                                          *)
InstallBegins ==
  /\ install = "none" /\ installs < MaxInstalls
  /\ installs' = installs + 1
  /\ install' = "before" /\ ticked' = FALSE
  /\ overtaken' = (overtaken \/ disk # image.sig)
  /\ UNCHANGED <<disk, image, prev, watcher, call, late, hostReady>>

SignatureMoves ==
  /\ install = "before" /\ install' = "after" /\ disk' = disk + 1
  /\ UNCHANGED <<ticked, image, prev, watcher, call, late, overtaken,
                 installs, hostReady>>

InstallEnds ==
  /\ install = "after" /\ install' = "none"
  /\ UNCHANGED <<disk, ticked, image, prev, watcher, call, late, overtaken,
                 installs, hostReady>>

(* The host: `initialize` once on its one connection, then calls.          *)
HostInitializes ==
  /\ ~hostReady /\ hostReady' = TRUE
  /\ image' = [image EXCEPT !.initialized = TRUE]
  /\ UNCHANGED <<disk, install, ticked, prev, watcher, call, late,
                 overtaken, installs>>

Advance(r, from, to) == call[r] \in from /\ call' = [call EXCEPT ![r] = to]
Elsewhere ==
  UNCHANGED <<disk, install, ticked, image, prev, watcher, hostReady,
              overtaken, installs>>

HostCalls(r) ==
  /\ hostReady
  /\ Advance(r, {"none", "answered"}, "in_the_pipe")
  /\ late' = late \ {r}
  /\ Elsewhere

(* A session that has neither seen `initialize` nor been resumed refuses.  *)
Admits == image.initialized \/ image.resumed
ReadCall(r) ==
  /\ Advance(r, {"in_the_pipe"}, IF Admits THEN "read" ELSE "refused")
  /\ UNCHANGED late /\ Elsewhere

(* _tracked: _enter_call, the tool, _exit_call; each restarts the grace.   *)
EnterCall(r) ==
  /\ Advance(r, {"read"}, "running")
  /\ late' = IF watcher = "leaving" THEN late \cup {r} ELSE late
  /\ Elsewhere
ExitCall(r) ==
  Advance(r, {"running"}, "finished") /\ UNCHANGED late /\ Elsewhere
FlushReply(r) ==
  Advance(r, {"finished"}, "answered") /\ UNCHANGED late /\ Elsewhere

(* One poll of the signature: changed, and the same twice in a row.  An    *)
(* install is shorter than the interval between two polls.                 *)
Tick ==
  /\ watcher = "watching" /\ (install = "none" \/ ~ticked)
  /\ ticked' = (install # "none")
  /\ IF disk = image.sig \/ disk # prev
       THEN prev' = disk /\ UNCHANGED watcher
       ELSE watcher' = "waiting" /\ UNCHANGED prev
  /\ UNCHANGED <<disk, install, image, call, late, overtaken, installs,
                 hostReady>>

(* _wait_idle_and_reexec: no call counted, and none has entered or left    *)
(* for the grace period, in which a finished one's reply is flushed.       *)
SeesIdle ==
  /\ watcher = "waiting" /\ In({"running", "finished"}) = {}
  /\ watcher' = "leaving"
  /\ UNCHANGED <<disk, install, ticked, image, prev, call, late, overtaken,
                 installs, hostReady>>

(* _do_reexec, after draining the offline queue with the lock released:    *)
(* what the old image had read and not answered is gone.                   *)
Exec ==
  /\ watcher = "leaving"
  /\ image' = Launched(TRUE) /\ overtaken' = FALSE
  /\ prev' = disk /\ watcher' = "watching"
  /\ call' = [r \in Calls |-> IF call[r] \in {"read", "running", "finished"}
                                THEN "lost" ELSE call[r]]
  /\ UNCHANGED <<disk, install, ticked, late, installs, hostReady>>

(* The script is not found or execv fails: the watcher has returned.       *)
ExecFails ==
  /\ watcher = "leaving" /\ watcher' = "gone"
  /\ UNCHANGED <<disk, install, ticked, image, prev, call, late, overtaken,
                 installs, hostReady>>

ReexecNext ==
  \/ InstallBegins \/ SignatureMoves \/ InstallEnds \/ HostInitializes
  \/ \E r \in Calls : \/ HostCalls(r) \/ ReadCall(r) \/ EnterCall(r)
                      \/ ExitCall(r) \/ FlushReply(r)
  \/ Tick \/ SeesIdle \/ Exec \/ ExecFails

ReexecSpec == ReexecInit /\ [][ReexecNext]_reexecVars

-----------------------------------------------------------------------------
(* Type invariant.                                                         *)
ReexecTypeOK ==
  /\ disk \in 0..MaxInstalls /\ prev \in 0..MaxInstalls
  /\ image.sig \in 0..MaxInstalls
  /\ install \in {"none", "before", "after"}
  /\ watcher \in {"watching", "waiting", "leaving", "gone"}
  /\ \A r \in Calls : call[r] \in {"none", "in_the_pipe", "read", "running",
                                   "finished", "answered", "refused", "lost"}

(* A call the watcher could count when it last looked is answered; no call *)
(* is refused by the new image for want of an `initialize` that will not   *)
(* come.                                                                   *)
CountedCallsAnswered ==
  /\ In({"refused"}) = {}
  /\ \A r \in In({"running", "finished"}) : watcher = "leaving" => r \in late

(* The process restarts from half an install only when that install began  *)
(* while an earlier one was still waiting to be picked up.                 *)
WholeImageUnlessOvertaken == image.torn => image.overtaken
=============================================================================
