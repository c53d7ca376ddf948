------------------------------- MODULE Channel -------------------------------
(***************************************************************************)
(* One dispatched harness and the two threads Tommy keeps for it           *)
(* (tommy/control.py ControlServer; mcp_server.py _drain_stdout and        *)
(* tommy_control): the accept thread takes the harness's connection and    *)
(* its lines, the drain thread takes its stdout and removes the prompt     *)
(* file, and tool calls send control messages meanwhile.                   *)
(***************************************************************************)
EXTENDS Naturals, Sequences

CONSTANTS MaxLines, MaxSends   \* bounds: lines from the harness, control calls

ASSUME ChannelBounds == MaxLines \in Nat /\ MaxSends \in Nat

VARIABLES
  proc,      \* the harness: "new", "up", "ended", or never launched
  accept,    \* the accept thread: "listening", "connected" or "over"
  peer,      \* the harness's end of the connection: "none", "open" or "closed"
  wire,      \* lines on their way to Tommy
  lines,     \* lines[i]: what the harness's i-th line is
  heard,     \* lines Tommy has put into the task's output
  early,     \* lines taken before the task was published
  taskKnown, prompt,    \* the Task exists; its prompt file does
  asking,     \* the tommy_control call in progress
  outbox, received, sends  \* sent to the harness, taken by it, and answered

channelVars == <<proc, accept, peer, wire, lines, heard, early, taskKnown, prompt,
                 asking, outbox, received, sends>>
inbound  == <<wire, lines, heard, early>>
outbound == <<asking, outbox, received, sends>>

LineKinds == {"message", "malformed", "not an object"}

ChannelInit ==
  /\ proc = "new" /\ accept = "listening" /\ peer = "none"
  /\ wire = <<>> /\ lines = <<>> /\ heard = <<>> /\ early = {}
  /\ taskKnown = FALSE /\ prompt = TRUE
  /\ asking = 0 /\ outbox = <<>> /\ received = <<>> /\ sends = <<>>

-----------------------------------------------------------------------------
HarnessStarts ==
  /\ proc = "new" /\ proc' \in {"up", "never"}
  /\ UNCHANGED <<accept, peer, inbound, taskKnown, prompt, outbound>>

(* The Task is built, made known to the channel, and its drain started.    *)
TaskPublished ==
  /\ proc \in {"up", "ended"} /\ ~taskKnown /\ taskKnown' = TRUE
  /\ UNCHANGED <<proc, accept, peer, inbound, prompt, outbound>>

HarnessDials ==
  /\ proc = "up" /\ accept = "listening" /\ peer = "none" /\ peer' = "open"
  /\ UNCHANGED <<proc, accept, inbound, taskKnown, prompt, outbound>>

Accepts ==
  /\ accept = "listening" /\ peer # "none" /\ accept' = "connected"
  /\ UNCHANGED <<proc, peer, inbound, taskKnown, prompt, outbound>>

(* Thirty seconds: a connection not yet accepted is reset.                 *)
AcceptTimesOut ==
  /\ accept = "listening" /\ accept' = "over"
  /\ peer' = IF peer = "open" THEN "closed" ELSE peer
  /\ UNCHANGED <<proc, inbound, taskKnown, prompt, outbound>>

HarnessWrites ==
  /\ proc = "up" /\ peer = "open" /\ Len(lines) < MaxLines
  /\ \E k \in LineKinds : lines' = Append(lines, k)
  /\ wire' = Append(wire, Len(lines) + 1)
  /\ UNCHANGED <<proc, accept, peer, heard, early, taskKnown, prompt, outbound>>

(* A line that is JSON and no object makes the callback raise, which ends  *)
(* the thread.                                                             *)
Breaks(line) == line = "not an object" /\ taskKnown

(* The lines received are taken one by one; a malformed one is passed over.*)
Receives ==
  LET i == Head(wire)
  IN /\ accept = "connected" /\ wire # <<>> /\ wire' = Tail(wire)
     /\ heard' = IF taskKnown /\ lines[i] = "message" THEN Append(heard, i) ELSE heard
     /\ early' = IF taskKnown THEN early ELSE early \cup {i}
     /\ accept' = IF Breaks(lines[i]) THEN "over" ELSE accept
     /\ UNCHANGED <<proc, peer, lines, taskKnown, prompt, outbound>>

(* recv returns nothing: Tommy's end is closed.                            *)
SeesHangUp ==
  /\ accept = "connected" /\ peer = "closed" /\ wire = <<>> /\ accept' = "over"
  /\ UNCHANGED <<proc, peer, inbound, taskKnown, prompt, outbound>>

HarnessReads ==
  /\ proc = "up" /\ peer = "open" /\ outbox # <<>>
  /\ received' = Append(received, Head(outbox)) /\ outbox' = Tail(outbox)
  /\ UNCHANGED <<proc, accept, peer, inbound, taskKnown, prompt, asking, sends>>

HarnessStops ==
  /\ proc = "up" /\ proc' = "ended"
  /\ peer' = IF peer = "open" THEN "closed" ELSE peer
  /\ UNCHANGED <<accept, inbound, taskKnown, prompt, outbound>>

(* A mutated drain thread that does not wait for the end of stdout.        *)
StdoutOverAtOnce == taskKnown
StdoutOver == taskKnown /\ proc = "ended"
DrainThreadEnds ==
  /\ prompt /\ StdoutOver /\ prompt' = FALSE
  /\ UNCHANGED <<proc, accept, peer, inbound, taskKnown, outbound>>

(* tommy_control: the task is running; then it waits to be connected ...   *)
ControlAsked ==
  /\ taskKnown /\ proc = "up" /\ asking = 0 /\ Len(sends) < MaxSends
  /\ asking' = Len(sends) + 1
  /\ UNCHANGED <<proc, accept, peer, inbound, taskKnown, prompt, outbox, received, sends>>

CanSend == accept = "connected"

(* ... and sends, which succeeds until the hang-up has been seen.          *)
ControlSends ==
  /\ asking # 0 /\ asking' = 0
  /\ sends' = Append(sends, [ok |-> CanSend, gone |-> peer = "closed"])
  /\ outbox' = IF accept = "connected" /\ peer = "open" THEN Append(outbox, asking) ELSE outbox
  /\ UNCHANGED <<proc, accept, peer, inbound, taskKnown, prompt, received>>

ChannelNext ==
  \/ HarnessStarts \/ TaskPublished \/ HarnessDials \/ Accepts \/ AcceptTimesOut
  \/ HarnessWrites \/ Receives \/ SeesHangUp \/ HarnessReads \/ HarnessStops
  \/ DrainThreadEnds \/ ControlAsked \/ ControlSends

ChannelSpec == ChannelInit /\ [][ChannelNext]_channelVars

-----------------------------------------------------------------------------
Entries(s) == {s[i] : i \in DOMAIN s}
ChannelTypeOK ==
  /\ proc \in {"new", "up", "ended", "never"} /\ accept \in {"listening", "connected", "over"}
  /\ peer \in {"none", "open", "closed"} /\ taskKnown \in BOOLEAN /\ prompt \in BOOLEAN
  /\ lines \in Seq(LineKinds)
  /\ Entries(wire) \cup Entries(heard) \cup early \subseteq DOMAIN lines
  /\ asking \in 0..MaxSends /\ Entries(outbox) \cup Entries(received) \subseteq 1..MaxSends

(* Every message of the harness reaches the task's output, in order, once, *)
(* unless it came before the task was published or the thread was over; a  *)
(* control call that answers "sent" has put its message where the harness  *)
(* reads it next, or the harness had already hung up, and one that answers *)
(* otherwise has not; and the prompt file stays while its harness runs.    *)
EveryLineHeard ==
  /\ \A i, j \in DOMAIN heard : i < j => heard[i] < heard[j]
  /\ accept # "over" => \A i \in DOMAIN lines :
       lines[i] = "message" => i \in Entries(wire) \cup Entries(heard) \cup early
SendsHonest ==
  \A i \in DOMAIN sends :
    IF sends[i].ok THEN i \in Entries(outbox) \cup Entries(received) \/ sends[i].gone
                   ELSE i \notin Entries(outbox) \cup Entries(received)
ChannelSound == EveryLineHeard /\ SendsHonest /\ (proc = "up" => prompt)
=============================================================================
