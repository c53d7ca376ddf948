------------------------------- MODULE Capture -------------------------------
(***************************************************************************)
(* The Stop hook (memnos_cli.py cmd_hook, "remember"): it folds the        *)
(* transcript of a Claude Code session to the last thing the user said and *)
(* the reply since, and stores both.  Claude Code is still writing the     *)
(* transcript, ends a hook after fifteen seconds, and the server may be    *)
(* down or slow.                                                           *)
(***************************************************************************)
EXTENDS Naturals, Sequences, FiniteSets, Folds

CONSTANTS
  MaxEvents,   \* bound: events of the transcript
  MaxStops,    \* bound: Stop hooks
  PostTimeout, \* seconds one POST /remember may take (12)
  HookLimit    \* seconds Claude Code gives the hook (15)

ASSUME CaptureBounds ==
  /\ {MaxEvents, MaxStops, PostTimeout, HookLimit} \subseteq Nat
  /\ 0 < PostTimeout /\ PostTimeout <= HookLimit

VARIABLES
  trail,     \* the events of the session, in order
  headless,  \* claude -p: the last message comes in the payload
  hook,      \* the Stop hook that runs, if one does
  onServer, inQueue,  \* what was stored, and what was parked for the queue
  settled    \* what each Stop hook was to store, and how it ended

captureVars == <<trail, headless, hook, onServer, inQueue, settled>>

UserKinds  == {"plain", "short", "notice", "eval"}  \* text of a user event, by noise reason
OtherKinds == {"echo", "meta"}       \* a tool_result without text; an isMeta event
ReplyKinds == {"reply", "brief"}     \* brief: under 30 characters
NoHook == [at |-> "none", seen |-> 0, cut |-> FALSE, last |-> 0, said |-> {}, clock |-> 0]

CaptureInit ==
  /\ trail = <<>> /\ headless \in BOOLEAN /\ hook = NoHook
  /\ onServer = {} /\ inQueue = {} /\ settled = {}

-----------------------------------------------------------------------------
(* The user, Claude Code, a tool or the agent adds to the session.         *)
SessionGoesOn ==
  /\ hook = NoHook /\ Len(trail) < MaxEvents
  /\ \E k \in UserKinds \cup OtherKinds \cup ReplyKinds : trail' = Append(trail, k)
  /\ UNCHANGED <<headless, hook, onServer, inQueue, settled>>

(* The agent has spoken: Stop.  In headless mode its last message may not  *)
(* be in the file yet, and a line being appended may be read in part.      *)
StopFires ==
  /\ hook = NoHook /\ Cardinality(settled) < MaxStops
  /\ trail # <<>> /\ trail[Len(trail)] \in ReplyKinds
  /\ \E cut \in BOOLEAN, lag \in 0..1 :
       /\ cut \/ (lag = 1 => headless)
       /\ cut => lag = 1
       /\ hook' = [NoHook EXCEPT !.at = "reading", !.cut = cut, !.seen = Len(trail) - lag]
  /\ UNCHANGED <<trail, headless, onServer, inQueue, settled>>

(* isMeta is skipped, and only text the user event really has counts.      *)
Speaks(i) == trail[i] \in UserKinds

Nothing == [last |-> 0, said |-> {}]
(* One line of the transcript.                                             *)
Line(i, acc) ==
  CASE Speaks(i) -> [last |-> i, said |-> {}]
    [] trail[i] \in ReplyKinds -> [acc EXCEPT !.said = @ \cup {i}]
    [] OTHER -> acc
Latest(S) == CHOOSE i \in S : \A j \in S : j <= i
(* The loop over the lines that are in the file.                           *)
Folded == MapThenFoldSet(Line, Nothing, LAMBDA i : i, Latest, 1..hook.seen)

(* The payload's last_assistant_message, when the transcript had no reply. *)
Payload == IF headless THEN {Len(trail)} ELSE {}

(* A line read in part raises: the user's text is not taken over, while    *)
(* the replies found so far are.                                           *)
ReadTranscript ==
  LET got == Folded
  IN /\ hook.at = "reading"
     /\ hook' = [hook EXCEPT !.at = "user",
                   !.last = IF hook.cut THEN 0 ELSE got.last,
                   !.said = IF got.said = {} THEN Payload ELSE got.said]
     /\ UNCHANGED <<trail, headless, onServer, inQueue, settled>>

UserIsNoise == hook.last = 0 \/ trail[hook.last] # "plain"
ReplyIsNoise == hook.last = 0 \/ trail[hook.last] = "eval"
TooBrief == \A i \in hook.said : trail[i] = "brief"
UserItem  == [who |-> "user", of |-> {hook.last}]
ReplyItem == [who |-> "assistant", of |-> hook.said]

(* _save: the POST succeeds, fails at once, or runs into its timeout, when *)
(* the server may have stored the turn all the same.  Any failure parks    *)
(* the turn; a hook past its limit is ended before it can.                 *)
Save(item, next) ==
  \/ onServer' = onServer \cup {item} /\ hook' = next /\ UNCHANGED inQueue
  \/ inQueue' = inQueue \cup {item} /\ hook' = next /\ UNCHANGED onServer
  \/ /\ hook.clock + PostTimeout <= HookLimit
     /\ inQueue' = inQueue \cup {item} /\ onServer' \in {onServer, onServer \cup {item}}
     /\ hook' = [next EXCEPT !.clock = @ + PostTimeout]
  \/ /\ hook.clock + PostTimeout > HookLimit
     /\ onServer' \in {onServer, onServer \cup {item}}
     /\ hook' = [hook EXCEPT !.at = "killed"] /\ UNCHANGED inQueue

SaveUser ==
  /\ hook.at = "user"
  /\ IF UserIsNoise THEN hook' = [hook EXCEPT !.at = "reply"] /\ UNCHANGED <<onServer, inQueue>>
                    ELSE Save(UserItem, [hook EXCEPT !.at = "reply"])
  /\ UNCHANGED <<trail, headless, settled>>

SaveReply ==
  /\ hook.at = "reply"
  /\ IF TooBrief \/ ReplyIsNoise
       THEN hook' = [hook EXCEPT !.at = "ended"] /\ UNCHANGED <<onServer, inQueue>>
       ELSE Save(ReplyItem, [hook EXCEPT !.at = "ended"])
  /\ UNCHANGED <<trail, headless, settled>>

HookEnds ==
  /\ hook.at \in {"ended", "killed"} /\ hook' = NoHook
  /\ settled' = settled \cup {[upto |-> Len(trail), seen |-> hook.seen, cut |-> hook.cut,
                               killed |-> hook.at = "killed", slow |-> hook.clock > 0]}
  /\ UNCHANGED <<trail, headless, onServer, inQueue>>

CaptureNext == SessionGoesOn \/ StopFires \/ ReadTranscript \/ SaveUser \/ SaveReply \/ HookEnds

CaptureSpec == CaptureInit /\ [][CaptureNext]_captureVars
-----------------------------------------------------------------------------
CaptureTypeOK ==
  /\ trail \in Seq(UserKinds \cup OtherKinds \cup ReplyKinds) /\ headless \in BOOLEAN
  /\ hook.at \in {"none", "reading", "user", "reply", "ended", "killed"}
  /\ hook.last \in 0..MaxEvents /\ hook.said \in SUBSET (1..MaxEvents)
  /\ hook.clock \in Nat /\ onServer \cap inQueue \in SUBSET (onServer \cup inQueue)

Asked(n) == LET said == {i \in 1..n : trail[i] \in UserKinds}
            IN IF said = {} THEN 0 ELSE Latest(said)
SaidSince(a, n) == {i \in a + 1..n : trail[i] \in ReplyKinds}
Kept == onServer \cup inQueue

(* What a Stop hook is for, whatever the server did and however the        *)
(* transcript interleaves tool results and Claude Code's own events: when  *)
(* no line was read in part, the last words of the user are stored or      *)
(* queued unless they are noise, and so is the whole reply to them the     *)
(* file held, or the payload's when it held none, after terse or automated *)
(* triggers too.  Only a reply may be lost to the time limit, and only     *)
(* behind a POST that ran into its timeout.                                *)
SidesKept ==
  \A s \in settled :
    LET a == Asked(s.upto)
        said == IF SaidSince(a, s.seen) = {} /\ headless THEN {s.upto}
                                                        ELSE SaidSince(a, s.seen)
    IN ~s.cut =>
       /\ a > 0 /\ trail[a] = "plain" => [who |-> "user", of |-> {a}] \in Kept
       /\ s.killed => s.slow
       /\ a > 0 /\ trail[a] # "eval" /\ (\E i \in said : trail[i] # "brief") /\ ~s.killed
            => [who |-> "assistant", of |-> said] \in Kept
=============================================================================
