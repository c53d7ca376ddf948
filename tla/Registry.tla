----------------------------- MODULE Registry -----------------------------
(***************************************************************************)
(* The namespace registry (memnos_control.namespaces) against the data it  *)
(* indexes: insert_raw_turn's two statements and its per-process cache,    *)
(* Control.init and its backfill, create / delete / prune, copy / move.    *)
(* Connections are autocommit, so every statement is a step and anything   *)
(* may come between two of them.  A wildcard grant sees what the registry  *)
(* lists and nothing else.                                                 *)
(***************************************************************************)
EXTENDS Naturals, FiniteSets

CONSTANTS
  Names,       \* namespaces
  Hosts,       \* server processes: two during a rolling upgrade
  NoJob,       \* the administrator is idle
  MaxWrites,   \* bound: turns written
  MaxJobs,     \* bound: what the administrator does
  MaxMishaps,  \* bound: failed statements and restarts
  MaxEvents    \* bound: writes, jobs and mishaps together

ASSUME RegistryBounds ==
  {MaxWrites, MaxJobs, MaxMishaps, MaxEvents} \subseteq Nat

VARIABLES
  registry,    \* names with a row
  turns,       \* turns[n]: raw turns stored under n; 0 predates the registry
  facts,       \* facts[n]: turns whose facts are stored under n
  backfilled,  \* the completion marker
  boot,        \* boot[h]: where Control.init is in process h
  scan,        \* scan[h]: row ids up to max_id that h has still to scan
  known,       \* known[h]: _known_registered_namespaces
  writes,      \* writes past their first statement
  written,     \* turns written so far
  job,         \* the statement the administrator is at
  listed,      \* prune's candidates, as listed
  jobs,        \* jobs so far
  mishaps,     \* mishaps so far
  old,         \* names with data from before the registry
  gap,         \* names hit by a mishap or a job since their last whole write
  dropped,     \* names deleted or moved into since a row was last written
  purged       \* turns removed by a purge that somebody asked for

data     == <<turns, facts>>
booting  == <<backfilled, boot, scan>>
writing  == <<known, writes, written>>
admin    == <<job, listed, jobs>>
seen     == <<old, gap, dropped, purged>>
regVars  == <<registry, data, booting, writing, admin, mishaps, seen>>

HasData(n) == turns[n] \cup facts[n] # {}
TurnIds        == 0..MaxWrites

-----------------------------------------------------------------------------
RegInit ==
  /\ registry = {}
  /\ \E T, F \in SUBSET Names :
       /\ turns = [n \in Names |-> IF n \in T THEN {0} ELSE {}]
       /\ facts = [n \in Names |-> IF n \in F THEN {0} ELSE {}]
       /\ old = T \cup F
  /\ backfilled = FALSE
  /\ boot = [h \in Hosts |-> "start"] /\ scan = [h \in Hosts |-> {}]
  /\ known = [h \in Hosts |-> {}] /\ writes = {} /\ written = 0
  /\ job = NoJob /\ listed = {} /\ jobs = 0 /\ mishaps = 0
  /\ gap = {} /\ dropped = {} /\ purged = {}

(* INSERT INTO namespaces ... ON CONFLICT                                  *)
List(S) == registry' = registry \cup S /\ dropped' = dropped \ S

MoreEvents == written + jobs + mishaps < MaxEvents
Mishap == mishaps < MaxMishaps /\ MoreEvents /\ mishaps' = mishaps + 1

-----------------------------------------------------------------------------
(* Control.init: the backfill runs until it has completed once, ever.      *)

StageTo(h, s) == boot' = [boot EXCEPT ![h] = s]
Rows(table)   == UNION {table[n] : n \in Names}

BootStart(h) ==
  /\ boot[h] = "start"
  /\ IF backfilled THEN StageTo(h, "up") /\ UNCHANGED scan
     ELSE /\ StageTo(h, "turns")
          /\ scan' = [scan EXCEPT ![h] = Rows(turns)]
  /\ UNCHANGED <<registry, data, backfilled, writing, admin, mishaps, seen>>

(* One keyset chunk: the names its rows have by then.                      *)
BootChunk(h, stage, table) ==
  /\ boot[h] = stage
  /\ \E i \in scan[h] :
       /\ \A j \in scan[h] : i <= j
       /\ List({n \in Names : i \in table[n]})
       /\ scan' = [scan EXCEPT ![h] = @ \ {i}]
  /\ UNCHANGED <<data, backfilled, boot, writing, admin, mishaps,
                 old, gap, purged>>

BootNextTable(h) ==
  /\ boot[h] = "turns" /\ scan[h] = {}
  /\ StageTo(h, "facts")
  /\ scan' = [scan EXCEPT ![h] = Rows(facts)]
  /\ UNCHANGED <<registry, data, backfilled, writing, admin, mishaps, seen>>

BootMark(h) ==
  /\ boot[h] = "facts" /\ scan[h] = {}
  /\ backfilled' = TRUE
  /\ StageTo(h, "up")
  /\ UNCHANGED <<registry, data, scan, writing, admin, mishaps, seen>>

(* Logged, not fatal: the next boot starts over.                           *)
BackfillFails(h) ==
  /\ boot[h] \in {"turns", "facts"} /\ Mishap
  /\ StageTo(h, "up")
  /\ scan' = [scan EXCEPT ![h] = {}]
  /\ UNCHANGED <<registry, data, backfilled, writing, admin, seen>>

Boot(h) ==
  \/ BootStart(h) \/ BootNextTable(h) \/ BootMark(h) \/ BackfillFails(h)
  \/ BootChunk(h, "turns", turns) \/ BootChunk(h, "facts", facts)

(* The process dies, and its cache and unfinished writes with it.          *)
HostRestarts(h) ==
  /\ Mishap
  /\ StageTo(h, "start")
  /\ scan' = [scan EXCEPT ![h] = {}]
  /\ known' = [known EXCEPT ![h] = {}]
  /\ writes' = {w \in writes : w.by # h}
  /\ gap' = gap \cup {w.ns : w \in {v \in writes : v.by = h /\ v.at = "register"}}
  /\ UNCHANGED <<registry, data, backfilled, written, admin, old, dropped, purged>>

-----------------------------------------------------------------------------
(* A write: the turn, its registration, and some time later its facts.     *)

WriteTurn(h, n) ==
  /\ boot[h] = "up" /\ written < MaxWrites /\ MoreEvents
  /\ written' = written + 1
  /\ turns' = [turns EXCEPT ![n] = @ \cup {written + 1}]
  /\ writes' = writes \cup {[turn |-> written + 1, ns |-> n, by |-> h,
                             at |-> "register"]}
  /\ UNCHANGED <<registry, facts, booting, known, admin, mishaps, seen>>

Extracting(w) == writes' = (writes \ {w}) \cup {[w EXCEPT !.at = "extract"]}

(* Skipped for a name this process has registered before; a failure is     *)
(* swallowed, the turn being stored.                                       *)
Register(w) ==
  /\ w.at = "register"
  /\ Extracting(w)
  /\ \/ /\ w.ns \in known[w.by]
        /\ gap' = gap \ {w.ns}
        /\ UNCHANGED <<registry, known, dropped, mishaps>>
     \/ /\ w.ns \notin known[w.by]
        /\ List({w.ns})
        /\ known' = [known EXCEPT ![w.by] = @ \cup {w.ns}]
        /\ gap' = gap \ {w.ns}
        /\ UNCHANGED mishaps
     \/ /\ w.ns \notin known[w.by] /\ Mishap
        /\ gap' = gap \cup {w.ns}
        /\ UNCHANGED <<registry, known, dropped>>
  /\ UNCHANGED <<data, booting, written, admin, old, purged>>

(* Facts go where the turn was written, whatever has become of the name.   *)
Extract(w) ==
  /\ w.at = "extract"
  /\ writes' = writes \ {w}
  /\ \E F \in {{}, {w.turn}} : facts' = [facts EXCEPT ![w.ns] = @ \cup F]
  /\ UNCHANGED <<registry, turns, booting, known, written, admin, mishaps, seen>>

-----------------------------------------------------------------------------
(* The administrator: console, CLI and /namespace/copy.                    *)

NewJob == job = NoJob /\ jobs < MaxJobs /\ MoreEvents /\ jobs' = jobs + 1

(* create_namespace, set_namespace_kind, set_namespace_inherit_ancestors.  *)
CreateName(n) ==
  /\ NewJob /\ List({n})
  /\ UNCHANGED <<data, booting, writing, job, listed, mishaps, old, gap, purged>>

Deletion(n, purge, wanted) ==
  [do |-> "row", ns |-> n, to |-> n, purge |-> purge, wanted |-> wanted]

DeleteName(n) ==
  /\ NewJob
  /\ \E purge \in BOOLEAN : job' = Deletion(n, purge, TRUE)
  /\ UNCHANGED <<registry, data, booting, writing, listed, mishaps, seen>>

(* namespace_prune_candidates: one statement over registry and data; which *)
(* small namespaces are stale is the clock's choice.                       *)
PruneScan ==
  /\ NewJob /\ listed = {}
  /\ \E stale \in SUBSET {n \in Names : HasData(n)} :
       listed' = {[ns |-> n, full |-> n \in stale] :
                    n \in stale \cup {m \in registry : ~HasData(m)}}
  /\ UNCHANGED <<registry, data, booting, writing, job, mishaps, seen>>

(* --force: purge what was listed with data, only unregister the rest.     *)
PruneNext ==
  /\ job = NoJob
  /\ \E c \in listed : /\ job' = Deletion(c.ns, c.full, c.full)
                       /\ listed' = listed \ {c}
  /\ UNCHANGED <<registry, data, booting, writing, jobs, mishaps, seen>>

(* delete_namespace: registry row (then grants and links), and with purge  *)
(* the tables one by one, facts before turns.                              *)
DropRow ==
  /\ job # NoJob /\ job.do = "row"
  /\ registry' = registry \ {job.ns}
  /\ gap' = gap \cup {job.ns} /\ dropped' = dropped \cup {job.ns}
  /\ job' = IF job.purge THEN [job EXCEPT !.do = "facts"] ELSE NoJob
  /\ UNCHANGED <<data, booting, writing, listed, jobs, mishaps, old, purged>>

PurgeFacts ==
  /\ job # NoJob /\ job.do = "facts"
  /\ facts' = [facts EXCEPT ![job.ns] = {}]
  /\ job' = [job EXCEPT !.do = "turns"]
  /\ UNCHANGED <<registry, turns, booting, writing, listed, jobs, mishaps, seen>>

PurgeTurns ==
  /\ job # NoJob /\ job.do = "turns"
  /\ turns' = [turns EXCEPT ![job.ns] = {}]
  /\ purged' = IF job.wanted THEN purged \cup turns[job.ns] ELSE purged
  /\ job' = NoJob
  /\ UNCHANGED <<registry, facts, booting, writing, listed, jobs, mishaps,
                 old, gap, dropped>>

(* migrate_namespace: turns, then facts, re-labelled (move) or inserted    *)
(* again (copy); it registers nothing.                                     *)
Migrate(src, dst) ==
  /\ NewJob /\ src # dst
  /\ \E move \in BOOLEAN :
       job' = [do |-> "migrate", ns |-> src, to |-> dst, purge |-> move,
               wanted |-> FALSE]
  /\ UNCHANGED <<registry, data, booting, writing, listed, mishaps, seen>>

Relabel(table) ==
  LET moved == table[job.ns] IN
    [table EXCEPT ![job.to] = @ \cup moved,
                  ![job.ns] = IF job.purge THEN {} ELSE moved]

Into == gap' = gap \cup {job.to} /\ dropped' = dropped \cup {job.to}

CopyTurnsOnly ==                              \* mutant: copy now, delete later
  /\ job # NoJob /\ job.do = "migrate" /\ Into
  /\ turns' = [turns EXCEPT ![job.to] = @ \cup turns[job.ns]]
  /\ job' = [job EXCEPT !.do = IF job.purge THEN "turns" ELSE "migrate2"]
  /\ UNCHANGED <<registry, facts, booting, writing, listed, jobs, mishaps,
                 old, purged>>

MigrateTurns ==
  /\ job # NoJob /\ job.do = "migrate" /\ Into
  /\ turns' = Relabel(turns)
  /\ job' = [job EXCEPT !.do = "migrate2"]
  /\ UNCHANGED <<registry, facts, booting, writing, listed, jobs, mishaps,
                 old, purged>>

MigrateFacts ==
  /\ job # NoJob /\ job.do = "migrate2" /\ Into
  /\ facts' = Relabel(facts)
  /\ job' = NoJob
  /\ UNCHANGED <<registry, turns, booting, writing, listed, jobs, mishaps,
                 old, purged>>

(* A statement of the job fails, and ends a prune with it: what was done   *)
(* stays done.                                                             *)
JobFails ==
  /\ job # NoJob /\ Mishap
  /\ job' = NoJob /\ listed' = {}
  /\ UNCHANGED <<registry, data, booting, writing, jobs, seen>>

Administer ==
  \/ PruneScan \/ PruneNext \/ DropRow \/ PurgeFacts \/ PurgeTurns
  \/ MigrateTurns \/ MigrateFacts \/ JobFails
  \/ \E n \in Names : CreateName(n) \/ DeleteName(n)
  \/ \E m, n \in Names : Migrate(m, n)

RegNext ==
  \/ \E h \in Hosts : Boot(h) \/ HostRestarts(h)
  \/ \E h \in Hosts, n \in Names : WriteTurn(h, n)
  \/ \E w \in writes : Register(w) \/ Extract(w)
  \/ Administer

RegSpec == RegInit /\ [][RegNext]_regVars

-----------------------------------------------------------------------------
RegTypeOK ==
  /\ registry \subseteq Names /\ backfilled \in BOOLEAN
  /\ turns \in [Names -> SUBSET TurnIds] /\ facts \in [Names -> SUBSET TurnIds]
  /\ boot \in [Hosts -> {"start", "turns", "facts", "up"}]
  /\ scan \in [Hosts -> SUBSET TurnIds] /\ known \in [Hosts -> SUBSET Names]
  /\ writes \subseteq [turn : 1..written, ns : Names, by : Hosts,
                       at : {"register", "extract"}]
  /\ written \in 0..MaxWrites
  /\ listed \subseteq [ns : Names, full : BOOLEAN]
  /\ old \cup gap \cup dropped \subseteq Names /\ purged \subseteq TurnIds

Unlisted(n) == HasData(n) /\ n \notin registry

(* What a wildcard grant's wide recall would miss: a write that has not    *)
(* reached its second statement, data from before the registry until the   *)
(* backfill has completed, a name hit by a failure since its last whole    *)
(* write - and names deleted or moved into, which no later write need put  *)
(* right.  "must stay a COMPLETE index of every namespace that has data"   *)
(* (readable_namespaces) holds up to these.                                *)
Accounted(n) ==
  \/ n \in gap
  \/ n \in old /\ ~backfilled
  \/ \E w \in writes : w.ns = n /\ w.at = "register"

RegistryComplete == \A n \in Names : Unlisted(n) => Accounted(n) \/ n \in dropped

(* A turn stays stored until somebody asks for its namespace to be purged  *)
(* or a prune lists the namespace with data: neither a move racing a write *)
(* nor the pruning of a namespace that was empty when listed loses it.     *)
TurnsSurvive ==
  \A i \in 1..written : i \in purged \/ \E n \in Names : i \in turns[n]

(* The registry lists what has data, and no job loses a turn.              *)
RegistrySound == RegistryComplete /\ TurnsSurvive
=============================================================================
