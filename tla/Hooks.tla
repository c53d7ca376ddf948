-------------------------------- MODULE Hooks --------------------------------
(***************************************************************************)
(* The files the Claude Code hooks keep between invocations (memnos_cli.py *)
(* cmd_hook; offline_queue.py save_snapshot): the cached enforcement rules *)
(* of a namespace, the last recall of that namespace, and the capture      *)
(* counters.  Every invocation is a process of its own and dozens may run  *)
(* at once.  Rules and snapshots are written through one temporary name,   *)
(* counters through a name of the writer's own.  An inode is named after   *)
(* the process that created it.                                            *)
(***************************************************************************)
EXTENDS Naturals, FiniteSets

CONSTANTS
  Runs,              \* invocations of a hook
  Rules, Level,      \* enforcement rules, each "ask" or "block"
  Home,              \* Home[r]: the namespace's own rule, or a linked one's
  NoFile,
  MaxRuleChanges     \* bound: rules and links set or taken back

ASSUME HookBounds ==
  /\ MaxRuleChanges \in Nat
  /\ Level \in [Rules -> {"ask", "block"}] /\ Home \in [Rules -> {"own", "linked"}]

(* Invocations, names and the absence of a file are told apart.            *)
ASSUME NamesAssumption ==
  /\ NoFile \notin Runs
  /\ Runs \cap {"rules", "snapshot", "stats", "rules.tmp", "snapshot.tmp", "stats.tmp"} = {}

VARIABLES
  active, linked,  \* the rules in the database; the link to the other namespace
  dir, data,       \* names to inodes, inodes to contents
  run,             \* run[h]: what the invocation does and how far it is
  changes,
  clashed,         \* files two writers have been at together
  floor, ceiling,  \* rules in force throughout, and ever, the last whole refresh
  stops            \* finished Stop hooks since the counters were last reset

hookVars == <<active, linked, dir, data, run, changes, clashed, floor, ceiling, stops>>

Kinds == {"status", "enforce", "recall", "stop"}
Files == {"rules", "snapshot", "stats"}
FileOf(k) == CASE k = "status" -> "rules" [] k = "recall" -> "snapshot" [] OTHER -> "stats"
Shared(f) == CASE f = "rules" -> "rules.tmp" [] f = "snapshot" -> "snapshot.tmp"
               [] OTHER -> "stats.tmp"
(* open(path + ".tmp"), and mkstemp for the counters.                      *)
TempOf(h) == IF run[h].kind = "stop" THEN h ELSE Shared(FileOf(run[h].kind))

Unreadable == [whole |-> FALSE, of |-> {}]
Whole(v) == [whole |-> TRUE, of |-> v]
Loaded(f) == IF dir[f] = NoFile THEN Unreadable ELSE data[dir[f]]
(* Two buffers written from offset 0: the later covers the earlier, or     *)
(* leaves its tail behind.                                                 *)
Mixed(old, new) == IF old.whole /\ old # new THEN {new, Unreadable} ELSE {new}

Reach(r) == Home[r] = "own" \/ linked
Governing == {r \in active : Reach(r)}
Fresh == [kind |-> "none", step |-> "new", fd |-> NoFile, got |-> {}, todo |-> {},
          always |-> {}, ever |-> {}, answer |-> "none", shown |-> "none"]

HookInit ==
  /\ active \in SUBSET Rules /\ linked \in BOOLEAN
  /\ dir = [n \in Files \cup {Shared("rules"), Shared("snapshot"), Shared("stats")}
                  \cup Runs |-> NoFile]
  /\ data = [h \in Runs |-> Unreadable]
  /\ run = [h \in Runs |-> Fresh]
  /\ changes = 0 /\ clashed = {} /\ floor = {} /\ ceiling = Rules /\ stops = {}

Ended(r, got) == [Fresh EXCEPT !.kind = r.kind, !.step = "done", !.answer = r.answer,
                               !.got = got]
Busy(f) == {h \in Runs : run[h].step \notin {"new", "done"} /\ FileOf(run[h].kind) = f}
Begins(h) == run[h] = Fresh
Clash(k) ==
  clashed' = IF Busy(FileOf(k)) # {} THEN clashed \cup {FileOf(k)} ELSE clashed
ruleVars == <<active, linked, changes>>
fileVars == <<dir, data>>
past == <<floor, ceiling, stops>>

-----------------------------------------------------------------------------
Witnessed(r, throughout, since) == [r EXCEPT !.always = throughout, !.ever = since]

(* add_ and remove_constraint_enforcement, link_ and unlink_namespaces.    *)
ChangeRules ==
  /\ changes < MaxRuleChanges /\ changes' = changes + 1
  /\ \/ \E r \in Rules : active' = (active \ {r}) \cup ({r} \ active) /\ UNCHANGED linked
     \/ linked' = ~linked /\ UNCHANGED active
  /\ run' = [h \in Runs |->
       IF run[h].step # "listing" THEN run[h]
       ELSE Witnessed(run[h], run[h].always \cap Governing', run[h].ever \cup active')]
  /\ UNCHANGED <<fileVars, clashed, past>>

(* hook status: the namespaces to read are found first, then each is read. *)
FanOut(h) ==
  /\ Begins(h) /\ Clash("status")
  /\ run' = [run EXCEPT ![h] = [Fresh EXCEPT !.kind = "status", !.step = "listing",
               !.todo = {"own"} \cup IF linked THEN {"linked"} ELSE {},
               !.always = Governing, !.ever = active]]
  /\ UNCHANGED <<ruleVars, fileVars, past>>

ListOne(h) ==
  \E s \in run[h].todo :
    /\ run[h].step = "listing" /\ ("own" \in run[h].todo => s = "own")
    /\ run' = [run EXCEPT ![h] = [run[h] EXCEPT
         !.got = run[h].got \cup {r \in active : Home[r] = s}, !.todo = run[h].todo \ {s},
         !.step = IF run[h].todo = {s} THEN "ready" ELSE "listing"]]
    /\ UNCHANGED <<ruleVars, fileVars, clashed, past>>

(* The refresh or the counter fails before it writes, and is swallowed.    *)
GiveUpFile(h) ==
  /\ run[h].kind \in {"status", "stop"} /\ run[h].step \in {"listing", "ready"}
  /\ run' = [run EXCEPT ![h] = Ended(@, {})]
  /\ UNCHANGED <<ruleVars, fileVars, clashed, past>>

(* hook recall: POST /recall.                                              *)
Recalled(h) ==
  /\ Begins(h) /\ Clash("recall")
  /\ \E a \in {"live", "nothing", "transient", "refused"} :
       run' = [run EXCEPT ![h] = [Fresh EXCEPT !.kind = "recall", !.answer = a,
                 !.got = {h},
                 !.step = CASE a = "live" -> "ready" [] a = "nothing" -> "done"
                            [] OTHER -> "failed",
                 !.shown = IF a = "nothing" THEN "live" ELSE "none"]]
  /\ UNCHANGED <<ruleVars, fileVars, past>>

(* _record_capture reads the counters; an unreadable file counts as none.  *)
ReadCounters(h) ==
  /\ Begins(h) /\ Clash("stop")
  /\ run' = [run EXCEPT ![h] = [Fresh EXCEPT !.kind = "stop", !.step = "ready",
               !.got = Loaded("stats").of \cup {h}]]
  /\ UNCHANGED <<ruleVars, fileVars, past>>

(* open(tmp, "w") truncates the file of that name, whoever is writing it.  *)
OpenTemp(h) ==
  LET i == IF dir[TempOf(h)] = NoFile THEN h ELSE dir[TempOf(h)]
  IN /\ run[h].step = "ready"
     /\ dir' = [dir EXCEPT ![TempOf(h)] = i]
     /\ data' = [data EXCEPT ![i] = Unreadable]
     /\ run' = [run EXCEPT ![h].step = "opened", ![h].fd = i]
     /\ UNCHANGED <<ruleVars, clashed, past>>

WriteTemp(h) ==
  /\ run[h].step = "opened"
  /\ \E c \in Mixed(data[run[h].fd], Whole(run[h].got)) :
       data' = [data EXCEPT ![run[h].fd] = c]
  /\ run' = [run EXCEPT ![h].step = "written"]
  /\ UNCHANGED <<ruleVars, dir, clashed, past>>

(* A mutated refresh that writes the cache in place.                       *)
PublishFirst(h) == run[h].step = "opened" /\ run[h].kind # "stop"
Publishes(h) == run[h].step = "written"

(* os.replace(tmp, path).                                                  *)
Publish(h) ==
  LET f == FileOf(run[h].kind)
  IN /\ Publishes(h) /\ dir[TempOf(h)] # NoFile
     /\ dir' = [dir EXCEPT ![f] = dir[TempOf(h)], ![TempOf(h)] = NoFile]
     /\ run' = [run EXCEPT ![h] = [Ended(@, {}) EXCEPT
                  !.shown = IF f = "snapshot" THEN "live" ELSE "none"]]
     /\ floor' = IF f = "rules" THEN run[h].always ELSE floor
     /\ ceiling' = IF f = "rules" THEN run[h].ever ELSE ceiling
     /\ stops' = IF f = "stats" THEN stops \cup {h} ELSE stops
     /\ UNCHANGED <<ruleVars, data, clashed>>

(* FileNotFoundError: swallowed by a refresh, and in a recall taken for a  *)
(* failure of the server.                                                  *)
PublishFails(h) ==
  /\ Publishes(h) /\ dir[TempOf(h)] = NoFile
  /\ run' = [run EXCEPT ![h] = IF @.kind = "recall" THEN [@ EXCEPT !.step = "failed"]
                               ELSE Ended(@, {})]
  /\ UNCHANGED <<ruleVars, fileVars, clashed, past>>

(* is_transient, then load_snapshot.                                       *)
ServesSnapshot(h) == run[h].answer # "refused" /\ Loaded("snapshot").whole

RecallFallsBack(h) ==
  /\ run[h].step = "failed"
  /\ run' = [run EXCEPT ![h] =
       IF ServesSnapshot(h)
         THEN [Ended(@, Loaded("snapshot").of) EXCEPT !.shown = "stale"]
         ELSE [Ended(@, {}) EXCEPT !.shown = "off"]]
  /\ UNCHANGED <<ruleVars, fileVars, clashed, past>>

Decision(rs) == CASE \E r \in rs : Level[r] = "block" -> "deny"
                  [] rs = {} -> "defer"
                  [] OTHER -> "ask"

(* hook enforce: a tool call every rule's matcher matches.  An unreadable  *)
(* cache has no rules.                                                     *)
Enforce(h) ==
  /\ Begins(h)
  /\ run' = [run EXCEPT ![h] = [Fresh EXCEPT !.kind = "enforce", !.step = "done",
               !.got = Loaded("rules").of, !.shown = Decision(Loaded("rules").of),
               !.always = floor, !.ever = ceiling,
               !.answer = IF "rules" \in clashed THEN "clashed" ELSE "none"]]
  /\ UNCHANGED <<ruleVars, fileVars, clashed, past>>

(* hook stats --reset.                                                     *)
ResetCounters ==
  /\ dir["stats"] # NoFile
  /\ dir' = [dir EXCEPT !["stats"] = NoFile]
  /\ stops' = {}
  /\ clashed' = IF Busy("stats") # {} THEN clashed \cup {"stats"} ELSE clashed
  /\ UNCHANGED <<ruleVars, data, run, floor, ceiling>>

(* Claude Code ends a hook that takes too long.                            *)
HookKilled(h) ==
  /\ run[h].step \notin {"new", "done"}
  /\ run' = [run EXCEPT ![h] = Ended(@, {})]
  /\ UNCHANGED <<ruleVars, fileVars, clashed, past>>

HookNext ==
  \/ ChangeRules \/ ResetCounters
  \/ \E h \in Runs :
       \/ FanOut(h) \/ ListOne(h) \/ GiveUpFile(h) \/ Recalled(h)
       \/ ReadCounters(h) \/ OpenTemp(h) \/ WriteTemp(h) \/ Publish(h)
       \/ PublishFails(h) \/ RecallFallsBack(h) \/ Enforce(h) \/ HookKilled(h)

HookSpec == HookInit /\ [][HookNext]_hookVars

-----------------------------------------------------------------------------
HookTypeOK ==
  /\ active \in SUBSET Rules /\ linked \in BOOLEAN /\ changes \in 0..MaxRuleChanges
  /\ \A n \in DOMAIN dir : dir[n] \in Runs \cup {NoFile}
  /\ \A h \in Runs : /\ data[h].whole \in BOOLEAN
                     /\ run[h].kind \in Kinds \cup {"none"}
                     /\ run[h].fd \in Runs \cup {NoFile}
  /\ clashed \in SUBSET Files /\ floor \in SUBSET Rules /\ ceiling \in SUBSET Rules
  /\ stops \in SUBSET Runs

(* Unless two sessions refreshed the cache at once, a tool call is denied  *)
(* when a block rule stood all through the last refresh, and is stopped    *)
(* only by rules that stood at some moment of it, however the rules and    *)
(* the link changed between its reads and whichever hooks were killed.     *)
EnforcedAsRefreshed ==
  \A h \in Runs : run[h].kind = "enforce" /\ run[h].answer # "clashed" =>
     /\ run[h].always \subseteq run[h].got /\ run[h].got \subseteq run[h].ever
     /\ (\E r \in run[h].always : Level[r] = "block") => run[h].shown = "deny"

(* Two Stop hooks may lose a count of each other, but the counters are     *)
(* never unreadable and so never start over by themselves; hooks that run  *)
(* one after the other lose none.                                          *)
CountsSurvive ==
  /\ dir["stats"] # NoFile => Loaded("stats").whole
  /\ "stats" \notin clashed => stops \subseteq Loaded("stats").of

(* A recall the server refused shows nothing kept from before; a snapshot  *)
(* shown as stale is one whole answer of an earlier recall; and the answer *)
(* of a live recall is kept back only when another recall of the namespace *)
(* was saving its own.                                                     *)
RecallShowsStore ==
  \A h \in Runs : run[h].kind = "recall" /\ run[h].step = "done" =>
     /\ run[h].answer = "refused" => run[h].shown # "stale"
     /\ run[h].shown = "stale" =>
          \E s \in Runs : run[h].got = {s} /\ run[s].answer = "live"
     /\ run[h].answer = "live" /\ run[h].shown \in {"stale", "off"} =>
          "snapshot" \in clashed

(* Rules, counts and recalls that the hooks read from files they share.    *)
HooksSound == EnforcedAsRefreshed /\ CountsSurvive /\ RecallShowsStore
=============================================================================
