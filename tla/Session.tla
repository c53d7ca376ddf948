------------------------------ MODULE Session ------------------------------
(***************************************************************************)
(* One run of the interactive `tommy` (agents/tommy/tommy/cli.py,          *)
(* _launch_harness): it prepares a prompt file, a control channel and the  *)
(* scoped memnos files, starts a harness in its own process group, waits,  *)
(* cleans up and ingests the harness's transcript.  Ctrl-C reaches Tommy   *)
(* and the harness, SIGTERM only Tommy; either may come at any step.       *)
(***************************************************************************)
EXTENDS Naturals

CONSTANTS MaxSignals,   \* bound: Ctrl-Cs and SIGTERMs
          MaxWritten    \* bound: transcript writes of the harness

ASSUME SessionBounds == MaxSignals \in Nat /\ MaxWritten \in Nat

VARIABLES
  stage,      \* Tommy's step
  memnos,     \* a client was made: memnos answered
  promptFile, \* the prompt file exists
  scope,      \* the scoped files: "none" (a bound workspace), "due", "held", "back"
  harnessIs,  \* "none", "running" or "ended"
  leaving,    \* an exception is on its way out through the finally block
  mishap,     \* "no_harness", "outside" (killed but not while waiting),
              \* "impatient" (went on without the harness)
  written,    \* lines of the harness's transcript
  latestFile, \* whose transcript was modified last
  ingested,   \* the transcript ingested, and how much of it
  signals

sessionVars == <<stage, memnos, promptFile, scope, harnessIs, leaving, mishap, written,
                 latestFile, ingested, signals>>

Preparing == {"check", "secrets", "prompt", "channel", "scope", "spawn", "arm", "armed"}
Cleaning == {"restore", "unlink", "give_back"}
NotIngested == [of |-> "none", upTo |-> 0]

-----------------------------------------------------------------------------
SessionInit ==
  /\ stage = "check" /\ memnos \in BOOLEAN
  /\ promptFile = FALSE /\ scope \in {"none", "due"}
  /\ harnessIs = "none" /\ leaving = FALSE /\ mishap = {}
  /\ written = 0 /\ latestFile = "none" /\ ingested = NotIngested /\ signals = 0

Proceed(step) == stage' = step
Aside == UNCHANGED <<memnos, signals, written, latestFile>>

(* Is the harness known and on PATH; do the secrets resolve.  Neither      *)
(* refusal may leave anything behind.                                      *)
CheckHarness ==
  /\ stage = "check" /\ stage' \in {"secrets", "exited"}
  /\ UNCHANGED <<promptFile, scope, harnessIs, leaving, mishap, ingested>> /\ Aside

ResolveSecrets ==
  /\ stage = "secrets" /\ stage' \in {"prompt", "exited"}
  /\ UNCHANGED <<promptFile, scope, harnessIs, leaving, mishap, ingested>> /\ Aside

WritePrompt ==
  /\ stage = "prompt" /\ Proceed("channel") /\ promptFile' = TRUE
  /\ UNCHANGED <<scope, harnessIs, leaving, mishap, ingested>> /\ Aside

OpenChannel ==
  /\ stage = "channel" /\ Proceed("scope")
  /\ UNCHANGED <<promptFile, scope, harnessIs, leaving, mishap, ingested>> /\ Aside

(* generate_scoping_files: module Scoping.                                 *)
ScopeWorkspace ==
  /\ stage = "scope" /\ Proceed("spawn")
  /\ scope' = IF scope = "due" THEN "held" ELSE scope
  /\ UNCHANGED <<promptFile, harnessIs, leaving, mishap, ingested>> /\ Aside

SpawnHarness ==
  /\ stage = "spawn" /\ Proceed("arm") /\ harnessIs' = "running"
  /\ UNCHANGED <<promptFile, scope, leaving, mishap, ingested>> /\ Aside

(* No port, no scoped files, or Popen raises: only the latter cleans up,   *)
(* and only the scoped files.                                              *)
NoHarness ==
  /\ stage \in {"channel", "scope", "spawn"} /\ Proceed("exited")
  /\ scope' = IF scope = "held" THEN "back" ELSE scope
  /\ mishap' = mishap \cup {"no_harness"}
  /\ UNCHANGED <<promptFile, harnessIs, leaving, ingested>> /\ Aside

(* signal.signal(SIGTERM, ..), then the try block.                         *)
ArmHandler ==
  /\ \/ stage = "arm" /\ Proceed("armed")
     \/ stage = "armed" /\ Proceed("wait")
  /\ UNCHANGED <<promptFile, scope, harnessIs, leaving, mishap, ingested>> /\ Aside

HarnessReturns ==
  /\ stage \in {"wait", "wait_again", "forwarded"} /\ harnessIs = "ended" /\ Proceed("restore")
  /\ UNCHANGED <<promptFile, scope, harnessIs, leaving, mishap, ingested>> /\ Aside

(* Three seconds after SIGTERM was passed on.                              *)
HarnessTooSlow ==
  /\ stage = "forwarded" /\ harnessIs = "running" /\ Proceed("restore")
  /\ mishap' = mishap \cup {"impatient"}
  /\ UNCHANGED <<promptFile, scope, harnessIs, leaving, ingested>> /\ Aside

(* The finally block: handler back, channel closed, prompt file deleted,   *)
(* workspace given back.                                                   *)
RestoreHandler ==
  /\ stage = "restore" /\ Proceed("unlink")
  /\ UNCHANGED <<promptFile, scope, harnessIs, leaving, mishap, ingested>> /\ Aside

UnlinkPrompt ==
  /\ stage = "unlink" /\ Proceed("give_back") /\ promptFile' = FALSE
  /\ UNCHANGED <<scope, harnessIs, leaving, mishap, ingested>> /\ Aside

GiveScopeBack ==
  /\ stage = "give_back"
  /\ Proceed(IF memnos /\ ~leaving THEN "capture" ELSE "exited")
  /\ scope' = IF scope = "held" THEN "back" ELSE scope
  /\ UNCHANGED <<promptFile, harnessIs, leaving, mishap, ingested>> /\ Aside

(* _post_run_capture: the transcript modified last, of any project; what   *)
(* fails is passed over.                                                   *)
CaptureTranscript ==
  /\ stage = "capture" /\ Proceed("exited")
  /\ \/ ingested' = IF latestFile = "none" THEN NotIngested ELSE [of |-> latestFile, upTo |-> written]
     \/ UNCHANGED ingested
  /\ UNCHANGED <<promptFile, scope, harnessIs, leaving, mishap>> /\ Aside

-----------------------------------------------------------------------------
(* Around Tommy.                                                           *)
TranscriptGrows ==
  /\ harnessIs = "running" /\ written < MaxWritten
  /\ written' = written + 1 /\ latestFile' = "own"
  /\ UNCHANGED <<stage, memnos, promptFile, scope, harnessIs, leaving, mishap, ingested, signals>>

SessionHarnessEnds ==
  /\ harnessIs = "running" /\ harnessIs' = "ended"
  /\ UNCHANGED <<stage, memnos, promptFile, scope, leaving, mishap, written, latestFile,
                 ingested, signals>>

OtherSessionWrites ==
  /\ latestFile # "other" /\ latestFile' = "other"
  /\ UNCHANGED <<stage, memnos, promptFile, scope, harnessIs, leaving, mishap, written,
                 ingested, signals>>

TakeSignal == signals < MaxSignals /\ signals' = signals + 1
Impatient == mishap \cup (IF harnessIs = "running" THEN {"impatient"} ELSE {})

(* Anywhere but in the wait a signal ends Tommy on the spot.               *)
KilledOutside ==
  /\ TakeSignal /\ stage \in Preparing \cup Cleaning \cup {"capture"}
  /\ Proceed("exited") /\ mishap' = mishap \cup {"outside"}
  /\ UNCHANGED <<memnos, promptFile, scope, harnessIs, leaving, written, latestFile, ingested>>

(* Ctrl-C: wait for the harness to take it in; a second one waits no more. *)
Interrupt ==
  /\ TakeSignal
  /\ \/ stage = "wait" /\ Proceed("wait_again") /\ UNCHANGED <<leaving, mishap>>
     \/ stage = "wait_again" /\ Proceed("restore") /\ mishap' = Impatient /\ UNCHANGED leaving
     \/ stage = "forwarded" /\ Proceed("restore") /\ mishap' = Impatient /\ leaving' = TRUE
  /\ UNCHANGED <<memnos, promptFile, scope, harnessIs, written, latestFile, ingested>>

(* SIGTERM is passed on to the harness, unless one is already being dealt  *)
(* with: then it goes out through the finally block.                       *)
Terminate ==
  /\ TakeSignal
  /\ \/ stage = "wait" /\ Proceed("forwarded") /\ UNCHANGED <<leaving, mishap>>
     \/ /\ stage \in {"wait_again", "forwarded"} /\ Proceed("restore")
        /\ mishap' = Impatient /\ leaving' = TRUE
  /\ UNCHANGED <<memnos, promptFile, scope, harnessIs, written, latestFile, ingested>>

SessionNext ==
  \/ CheckHarness \/ ResolveSecrets \/ WritePrompt \/ OpenChannel \/ ScopeWorkspace
  \/ SpawnHarness \/ NoHarness \/ ArmHandler \/ HarnessReturns \/ HarnessTooSlow
  \/ RestoreHandler \/ UnlinkPrompt \/ GiveScopeBack \/ CaptureTranscript
  \/ TranscriptGrows \/ SessionHarnessEnds \/ OtherSessionWrites
  \/ KilledOutside \/ Interrupt \/ Terminate

SessionSpec == SessionInit /\ [][SessionNext]_sessionVars

-----------------------------------------------------------------------------
(* Type invariant.                                                         *)
SessionTypeOK ==
  /\ stage \in Preparing \cup Cleaning
            \cup {"wait", "wait_again", "forwarded", "capture", "exited"}
  /\ {memnos, promptFile, leaving} \subseteq BOOLEAN
  /\ scope \in {"none", "due", "held", "back"}
  /\ harnessIs \in {"none", "running", "ended"}
  /\ mishap \subseteq {"no_harness", "outside", "impatient"}
  /\ written \in 0..MaxWritten /\ latestFile \in {"none", "own", "other"}
  /\ ingested \in [of : {"none", "own", "other"}, upTo : 0..MaxWritten]

(* Signals during the wait, however many, leave no prompt file and no      *)
(* scoped workspace behind, and a refused launch leaves nothing at all.    *)
LeavesNothing ==
  stage = "exited" =>
    /\ promptFile => mishap \cap {"no_harness", "outside"} # {}
    /\ scope = "held" => "outside" \in mishap

(* The workspace keeps its scope as long as the harness runs, unless Tommy *)
(* was told twice, or waited three seconds after a SIGTERM.                *)
ScopeOutlastsHarness ==
  scope = "back" /\ harnessIs = "running" => "impatient" \in mishap

(* What is ingested as the run's transcript is all of it, unless another   *)
(* session wrote later, or Tommy went on before the harness had ended.     *)
IngestsWholeTranscript ==
  ingested.of = "own" /\ "impatient" \notin mishap => ingested.upTo = written
=============================================================================
