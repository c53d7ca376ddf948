------------------------------ MODULE Dispatch ------------------------------
(***************************************************************************)
(* Tommy's dispatches (tommy/mcp_server.py): a harness is launched, joins  *)
(* a bounded registry, commits to the workspace, and is judged afterwards  *)
(* by the diff since its launch.  The MCP server runs its tools one at a   *)
(* time; harnesses and people go on meanwhile.                             *)
(***************************************************************************)
EXTENDS Integers, Sequences, FiniteSets

CONSTANTS
  Tasks, NoTask,
  TaskCap,                \* entries the registry keeps (100)
  MaxCommits, MaxQuestions \* bounds: commits; verdicts and sweeps

ASSUME DispatchBounds ==
  /\ {TaskCap, MaxCommits, MaxQuestions} \subseteq Nat /\ MaxCommits # 0
  /\ NoTask \notin Tasks

VARIABLES
  tool,      \* the tool call in progress
  harness,   \* harness[t]: "none", "coming", "up" or "ended"
  base,      \* base[t]: the commits there were at launch, or -1
  published, \* tasks that have been launched and recorded
  registry,  \* _tasks: which insertion into it put task t there, 0 if t is not there
  repo,      \* the commits of the workspace: who made it, whether it violates
  verdicts, sweeps, \* what the tools answered
  crowded,   \* running tasks dropped when no finished one was left to drop
  slipped,   \* tasks that ended between the two listings of the last eviction
  asked

dispatchVars == <<tool, harness, base, published, registry, repo, verdicts,
                  sweeps, crowded, slipped, asked>>
coderVars == <<base, published, registry, crowded, slipped>>
answers == <<verdicts, sweeps, asked>>

(* merge_gate of tommy.yaml, which every tool reads anew and anyone may     *)
(* edit in between: on, off, or a file that does not parse.                *)
Gates == {"on", "off", "broken"}

Call(n, t, k) == [name |-> n, task |-> t, seen |-> k, list |-> {}, gate |-> "off"]
IdleTool == Call("idle", NoTask, 0)
InRegistry == {t \in Tasks : registry[t] > 0}
Standing(t) == harness[t] = "up"

DispatchInit ==
  /\ tool = IdleTool
  /\ harness = [t \in Tasks |-> "none"] /\ base = [t \in Tasks |-> -1]
  /\ published = {} /\ registry = [t \in Tasks |-> 0]
  /\ repo = <<[by |-> NoTask, bad |-> FALSE]>>
  /\ verdicts = {} /\ sweeps = {} /\ crowded = {} /\ slipped = {} /\ asked = 0

-----------------------------------------------------------------------------
(* tommy_dispatch.  A secret that does not resolve refuses the launch      *)
(* before anything exists; the corpus gate and recall only add to the      *)
(* prompt, whatever they answer.  An unused id is as good as another.      *)
NewTask == CHOOSE t \in Tasks : harness[t] = "none"

PreparePrompt(t) ==
  /\ tool = IdleTool /\ harness[t] = "none" /\ t = NewTask
  /\ tool' = Call("listening", t, 0)
  /\ harness' = [harness EXCEPT ![t] = "coming"]
  /\ UNCHANGED <<coderVars, repo, answers>>

(* A mutated dispatch that takes HEAD when the task is published.          *)
TakeBaseLate(t, when) == when = "published"
(* rev-parse HEAD, right before the launch.                                *)
TakeBase(t, when) == when = "launching"
HeadAt(t, when) == IF TakeBase(t, when) THEN [base EXCEPT ![t] = Len(repo)] ELSE base

CaptureHead(t) ==
  /\ tool = Call("listening", t, 0) /\ tool' = Call("launching", t, 0)
  /\ base' \in {base, HeadAt(t, "launching")}
  /\ UNCHANGED <<harness, published, registry, crowded, slipped, repo, answers>>

Launch(t) ==
  /\ tool = Call("launching", t, 0) /\ tool' = Call("launched", t, 0)
  /\ harness' = [harness EXCEPT ![t] = "up"]
  /\ UNCHANGED <<coderVars, repo, answers>>

(* Popen raises.                                                           *)
LaunchFails(t) ==
  /\ tool = Call("launching", t, 0) /\ tool' = IdleTool
  /\ harness' = [harness EXCEPT ![t] = "ended"]
  /\ UNCHANGED <<coderVars, repo, answers>>

(* The Task is made, the drain thread started, and _evict_tasks takes down *)
(* the tasks that are no longer running.                                   *)
PublishTask(t) ==
  /\ tool = Call("launched", t, 0)
  /\ published' = published \cup {t}
  /\ base' = HeadAt(t, "published")
  /\ tool' = [Call("evicting", t, 0) EXCEPT !.list = {u \in InRegistry : ~Standing(u)}]
  /\ UNCHANGED <<harness, registry, crowded, slipped, repo, answers>>

(* The n oldest of S.                                                      *)
OldestOf(S, n) == {t \in S : Cardinality({u \in S : registry[u] <= registry[t]}) <= n}
Excess == IF Cardinality(InRegistry) > TaskCap THEN Cardinality(InRegistry) - TaskCap ELSE 0
(* Completed tasks first, then those still running when asked again.       *)
Evicted(completed) ==
  LET first == OldestOf(completed, Excess)
  IN first \cup OldestOf({u \in InRegistry \ completed : Standing(u)}, Excess - Cardinality(first))

EvictAndRegister(t) ==
  LET out == Evicted(tool.list)
  IN /\ tool.name = "evicting" /\ tool.task = t
     /\ registry' = [u \in Tasks |-> IF u = t THEN Cardinality(published)
                                     ELSE IF u \in out THEN 0 ELSE registry[u]]
     /\ crowded' = crowded \cup IF tool.list \subseteq out THEN {u \in out : Standing(u)} ELSE {}
     /\ slipped' = {u \in InRegistry \ tool.list : ~Standing(u)}
     /\ \E waits \in BOOLEAN : tool' = IF waits THEN Call("waiting", t, 0) ELSE IdleTool
     /\ UNCHANGED <<harness, base, published, repo, answers>>

(* async_run=False: proc.wait, then the rest of its output.                *)
WaitForHarness(t) ==
  /\ tool = Call("waiting", t, 0) /\ ~Standing(t) /\ tool' = IdleTool
  /\ UNCHANGED <<harness, coderVars, repo, answers>>

-----------------------------------------------------------------------------
Commits(who, bad) ==
  /\ Len(repo) < MaxCommits /\ (who # NoTask => Standing(who))
  /\ repo' = Append(repo, [by |-> who, bad |-> bad])
  /\ UNCHANGED <<tool, harness, coderVars, answers>>

(* The process ends: its end of the connection closes, stdout is at EOF.   *)
HarnessEnds(t) ==
  /\ Standing(t) /\ harness' = [harness EXCEPT ![t] = "ended"]
  /\ UNCHANGED <<tool, coderVars, repo, answers>>

-----------------------------------------------------------------------------
Asks(n, t, g) ==
  /\ tool = IdleTool /\ asked < MaxQuestions /\ asked' = asked + 1
  /\ tool' = [Call(n, t, Len(repo)) EXCEPT !.gate = g]
  /\ UNCHANGED <<harness, coderVars, repo, verdicts, sweeps>>

Verdict(t, g, blocked, reason) ==
  /\ verdicts' = verdicts \cup {[task |-> t, gate |-> g, blocked |-> blocked,
                                 reason |-> reason, upto |-> Len(repo)]}
  /\ tool' = IdleTool
  /\ UNCHANGED <<harness, coderVars, repo, sweeps>>

Judgeable(t) == ~Standing(t) /\ base[t] >= 0

(* tommy_verdict, where the check cannot run: blocked unless the gate is   *)
(* known to be off.                                                        *)
VerdictUnverified(t, gate) ==
  /\ tool = IdleTool /\ asked < MaxQuestions /\ asked' = asked + 1
  /\ t \in InRegistry /\ (gate = "broken" \/ ~Judgeable(t))
  /\ Verdict(t, gate, gate # "off", IF gate = "off" THEN "gate_off" ELSE "unverified")

VerdictAsked(t, gate) ==
  /\ t \in InRegistry /\ gate # "broken" /\ Judgeable(t)
  /\ Asks("verdict", t, gate)

Since(t, n) == {repo[i] : i \in base[t] + 1..n}
(* git diff base..HEAD, and POST /corpus/check_diff, which may fail.       *)
VerdictGiven(t, g) ==
  LET bad == \E c \in Since(t, Len(repo)) : c.bad
  IN /\ tool.name = "verdict" /\ tool.gate = g /\ tool.task = t
     /\ UNCHANGED asked
     /\ \/ Verdict(t, g, g = "on", IF g = "on" THEN "unverified" ELSE "gate_off")
        \/ /\ Since(t, Len(repo)) = {}
           /\ Verdict(t, g, FALSE, IF g = "on" THEN "no_diff" ELSE "gate_off")
        \/ /\ Since(t, Len(repo)) # {}
           /\ Verdict(t, g, g = "on" /\ bad,
                CASE g = "off" -> "gate_off" [] bad -> "violations" [] OTHER -> "clean")

(* tommy_drift_sweep: _clamp_commits counts the history, the diff is taken *)
(* a moment later, and only its first chunks are checked, each by a        *)
(* request that may fail.                                                  *)
SweepAsked == Asks("sweep", NoTask, "off")

Clamp(requested, total) == IF requested < total - 1 THEN requested ELSE total - 1

SweepDone(requested) ==
  LET n == Clamp(requested, tool.seen)
      window == Len(repo) - n + 1..Len(repo)
  IN /\ tool.name = "sweep" /\ tool' = IdleTool
     /\ \E checked \in SUBSET window, failures \in BOOLEAN :
        \E answered \in IF failures THEN SUBSET checked ELSE {checked} :
          sweeps' = sweeps \cup
            {[asked |-> requested, head |-> Len(repo), counted |-> tool.seen,
              found |-> {i \in answered : repo[i].bad},
              failures |-> failures, truncated |-> checked # window]}
     /\ UNCHANGED <<harness, coderVars, repo, verdicts, asked>>

DispatchNext ==
  \/ \E t \in Tasks :
       \/ PreparePrompt(t) \/ CaptureHead(t) \/ Launch(t)
       \/ LaunchFails(t) \/ PublishTask(t) \/ EvictAndRegister(t) \/ WaitForHarness(t)
       \/ HarnessEnds(t)
       \/ \E g \in Gates : VerdictUnverified(t, g) \/ VerdictAsked(t, g) \/ VerdictGiven(t, g)
  \/ \E who \in Tasks \cup {NoTask}, bad \in BOOLEAN : Commits(who, bad)
  \/ SweepAsked \/ \E n \in 1..MaxCommits : SweepDone(n)

DispatchSpec == DispatchInit /\ [][DispatchNext]_dispatchVars

-----------------------------------------------------------------------------
DispatchTypeOK ==
  /\ tool.task \in Tasks \cup {NoTask} /\ tool.seen \in 0..MaxCommits
  /\ harness \in [Tasks -> {"none", "coming", "up", "ended"}]
  /\ base \in [Tasks -> -1..MaxCommits]
  /\ published \in SUBSET Tasks /\ InRegistry \in SUBSET published
  /\ crowded \cup slipped \subseteq Tasks
  /\ asked \in 0..MaxQuestions

(* A merge gate that is on, or that may be on, lets a task through only    *)
(* when nothing it committed from launch to exit violates the corpus,      *)
(* whoever else was committing and whatever could not be checked; and it   *)
(* blocks for violations only when there is one since the launch.          *)
GateHolds ==
  \A v \in verdicts : v.gate # "off" =>
     /\ ~v.blocked => \A i \in DOMAIN repo : ~(repo[i].by = v.task /\ repo[i].bad)
     /\ v.reason = "violations" =>
          \E i \in base[v.task] + 1..v.upto : repo[i].bad

(* The registry holds at most one task more than its cap and those that    *)
(* ended while it was being trimmed, and it forgets a task that still runs *)
(* only when it had no finished one to forget instead.                     *)
RunningTasksKept ==
  /\ Cardinality(InRegistry) <= TaskCap + 1 + Cardinality(slipped)
  /\ \A t \in published : Standing(t) /\ t \notin InRegistry =>
       t \in crowded \/ (tool.task = t /\ tool.name = "evicting")

(* A sweep that reports no failure, no truncation and no commit meanwhile  *)
(* lists every violating commit of its window.                             *)
SweepComplete ==
  \A s \in sweeps : ~s.failures /\ ~s.truncated /\ s.counted = s.head =>
     \A i \in DOMAIN repo : repo[i].bad /\ i <= s.head /\ i > 1 /\ s.head - i < s.asked
                              => i \in s.found

(* A dispatch's verdict, its place in the registry, and the sweep of all.  *)
DispatchSound == GateHolds /\ RunningTasksKept /\ SweepComplete
=============================================================================
