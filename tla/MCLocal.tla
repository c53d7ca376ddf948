------------------------------- MODULE MCLocal -------------------------------
(* The programs on a user's machine, one to a behaviour: the gateway, its  *)
(* launcher, the adapter that replaces itself, the workspace files Tommy   *)
(* scopes, its handoffs, its dispatches, its channel to a harness, its     *)
(* interactive session and its update notice, the Claude Code hooks, the   *)
(* transcript capture and the capture proxy.  They share no variable; part *)
(* says which one a behaviour runs, the others stay as they began.         *)
EXTENDS Gateway, Launch, Reexec, Scoping, Handoff, Hooks, Capture, Dispatch,
        Channel, Proxy, Session, UpdateNotice, TLC

CONSTANTS
  b1, b2, b3, r1,                    \* gateway
  g1, g2, g3, g4, s1, s2,            \* launch
  x1, x2,                            \* reexec
  d1, d2, proc1, proc2, mcpFile, settingsFile,   \* scoping
  a1, a2, w1,                        \* handoff
  h1, h2, ownRule, linkedRule,   \* hooks
  k1, k2, k3,                        \* dispatch
  e1, e2, e3, xu, xv, ya, yb,        \* proxy
  l1, l2                             \* update notice

MCBackends   == {b1, b2, b3}
MCRequests   == {r1}
MCGateways   == {g1, g2, g3, g4}
MCShells     == {s1, s2}
MCCalls      == {x1, x2}
MCDispatches == {d1, d2}
MCProcessOf  == d1 :> proc1 @@ d2 :> proc2
MCSlots      == {mcpFile, settingsFile}
MCAgents     == {a1, a2}
MCWorks      == {w1}
MCRuns       == {h1, h2}
MCRules      == {ownRule, linkedRule}
MCLevel      == ownRule :> "block" @@ linkedRule :> "ask"
MCHome       == ownRule :> "own" @@ linkedRule :> "linked"
MCTasks      == {k1, k2, k3}
MCExchanges  == {e1, e2, e3}
MCTexts      == {xu, xv, ya, yb}
MCUserText   == e1 :> xu @@ e2 :> xu @@ e3 :> xv
MCReplyText  == e1 :> ya @@ e2 :> yb @@ e3 :> yb
MCLaunches   == {l1, l2}

VARIABLE part

LocalInit ==
  /\ part \in {"gateway", "launch", "reexec", "scoping", "handoff", "hooks",
               "capture", "dispatch", "channel", "proxy", "session", "notice"}
  /\ Init /\ LaunchInit /\ ReexecInit /\ ScopingInit /\ HandoffInit /\ HookInit
  /\ CaptureInit /\ DispatchInit /\ ChannelInit /\ ProxyInit
  /\ SessionInit /\ NoticeInit
  /\ part # "scoping"  => file = [s \in Slots |-> Plain(NoText)]
  /\ part # "hooks"    => active = {} /\ ~linked
  /\ part # "capture"  => ~headless
  /\ part # "session"  => ~memnos /\ scope = "none"

LocalNext ==
  /\ UNCHANGED part
  /\ IF part = "gateway"  THEN Next         ELSE UNCHANGED vars
  /\ IF part = "launch"   THEN LaunchNext   ELSE UNCHANGED launchVars
  /\ IF part = "reexec"   THEN ReexecNext   ELSE UNCHANGED reexecVars
  /\ IF part = "scoping"  THEN ScopingNext  ELSE UNCHANGED scopingVars
  /\ IF part = "handoff"  THEN HandoffNext  ELSE UNCHANGED handoffVars
  /\ IF part = "hooks"    THEN HookNext     ELSE UNCHANGED hookVars
  /\ IF part = "capture"  THEN CaptureNext  ELSE UNCHANGED captureVars
  /\ IF part = "dispatch" THEN DispatchNext ELSE UNCHANGED dispatchVars
  /\ IF part = "channel"  THEN ChannelNext  ELSE UNCHANGED channelVars
  /\ IF part = "proxy"    THEN ProxyNext    ELSE UNCHANGED proxyVars
  /\ IF part = "session"  THEN SessionNext  ELSE UNCHANGED sessionVars
  /\ IF part = "notice"   THEN NoticeNext   ELSE UNCHANGED noticeVars

(* The variables of the part that runs: the rest of a state never changes. *)
LocalView ==
  CASE part = "gateway"  -> <<part, vars>>
    [] part = "launch"   -> <<part, launchVars>>
    [] part = "reexec"   -> <<part, reexecVars>>
    [] part = "scoping"  -> <<part, scopingVars>>
    [] part = "handoff"  -> <<part, handoffVars>>
    [] part = "hooks"    -> <<part, hookVars>>
    [] part = "capture"  -> <<part, captureVars>>
    [] part = "dispatch" -> <<part, dispatchVars>>
    [] part = "channel"  -> <<part, channelVars>>
    [] part = "proxy"    -> <<part, proxyVars>>
    [] part = "session"  -> <<part, sessionVars>>
    [] part = "notice"   -> <<part, noticeVars>>

LocalSpec ==
  LocalInit /\ [][LocalNext]_<<part, vars, launchVars, reexecVars, scopingVars,
    handoffVars, hookVars, captureVars, dispatchVars, channelVars, proxyVars,
    sessionVars, noticeVars>>

-----------------------------------------------------------------------------
(* The variables of the part that runs have their types.                   *)
LocalTypeOK ==
  CASE part = "gateway"  -> TypeOK
    [] part = "launch"   -> LaunchTypeOK
    [] part = "reexec"   -> ReexecTypeOK
    [] part = "scoping"  -> ScopingTypeOK
    [] part = "handoff"  -> HandoffTypeOK
    [] part = "hooks"    -> HookTypeOK
    [] part = "capture"  -> CaptureTypeOK
    [] part = "dispatch" -> DispatchTypeOK
    [] part = "channel"  -> ChannelTypeOK
    [] part = "proxy"    -> ProxyTypeOK
    [] part = "session"  -> SessionTypeOK
    [] part = "notice"   -> NoticeTypeOK

(* Starting, stopping, self-replacement and update notice of the programs. *)
ServicesSound ==
  /\ part = "launch" =>
       ShutdownClearsOwnState /\ ControlLostOnlyWhenContested /\ StopStops
  /\ part = "reexec" => CountedCallsAnswered /\ WholeImageUnlessOvertaken
  /\ part = "notice" => ToldOnce /\ PreferenceKept

(* The files of a workspace belong to the dispatch or session that runs in *)
(* it, and are given back.                                                 *)
WorkspaceKept ==
  /\ part = "scoping" => ScopedWhileRunning /\ WorkspaceGivenBack
  /\ part = "session" => LeavesNothing /\ ScopeOutlastsHarness

(* What transcripts and relayed calls say reaches the memory.              *)
CaptureSound == SidesKept /\ CapturedRightly /\ IngestsWholeTranscript
=============================================================================
