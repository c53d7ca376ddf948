------------------------------ MODULE Provision ------------------------------
(***************************************************************************)
(* `memnos setup` (memnos_cli.py): it provides a database, embedded or in  *)
(* a container, makes the schema at the width the chosen embeddings need,  *)
(* puts the provider's key in the vault and saves the config last.  It may *)
(* be killed at any step and run again, with other choices.                *)
(***************************************************************************)
EXTENDS Naturals

CONSTANTS MaxSetups,   \* bound: runs of setup
          MaxSetupTroubles  \* bound: kills, failures of what it calls

ASSUME ProvisionBounds == MaxSetups \in Nat /\ MaxSetupTroubles \in Nat

Kinds == {"embedded", "docker"}

VARIABLES
  setup,      \* its step, the kind of database, the key it holds, was an OpenAI key given
  files,      \* ~/.memnos/pg: binaries moved into place, cluster "none", "begun" or
              \* "made", state.json "none", "torn" or "whole"
  postgres,   \* the embedded server: "down" or "up"
  container,  \* "none", "stopped" or "running"
  db,         \* db[k]: created, width of its vector columns (0: none yet), the key
              \* its OpenAI secret is under (0: none), memories stored
  cfg,        \* config.json: kind of database, key, does it name the OpenAI secret
  blocked,    \* a run refused by what an earlier one had left
  cut,        \* a run of setup ended half way through its files, or after the schema
  changes,    \* "switched" database, "recreated" container, "rechosen" embeddings,
              \* OpenAI key only in the "environment" of setup
  used,       \* databases that memories were stored in
  keys, setups, setupTroubles

provisionVars == <<setup, files, postgres, container, db, cfg, blocked, cut, changes,
                   used, keys, setups, setupTroubles>>

NoRun == [at |-> "none", kind |-> "embedded", key |-> 0, openai |-> FALSE]
Fresh == [created |-> FALSE, width |-> 0, secret |-> 0, stored |-> FALSE]

-----------------------------------------------------------------------------
ProvisionInit ==
  /\ setup = NoRun
  /\ files = [moved |-> FALSE, cluster |-> "none", state |-> "none"]
  /\ postgres = "down" /\ container = "none"
  /\ db = [k \in Kinds |-> Fresh]
  /\ cfg = [kind |-> "none", key |-> 0, openai |-> FALSE]
  /\ blocked = FALSE /\ cut = {} /\ changes = {} /\ used = {}
  /\ keys = 0 /\ setups = 0 /\ setupTroubles = 0

Step(from, to) == setup.at = from /\ setup' = [setup EXCEPT !.at = to]
Trouble == setupTroubles < MaxSetupTroubles /\ setupTroubles' = setupTroubles + 1
Machinery == <<files, postgres, container>>
Contents == <<db, cfg, blocked, cut, changes, used, keys, setups>>

(* main loads the config; --embedded (the default) or --docker.            *)
RunSetup ==
  /\ setup = NoRun /\ setups < MaxSetups /\ setups' = setups + 1
  /\ \E k \in Kinds : setup' = [NoRun EXCEPT !.kind = k, !.key = cfg.key,
                                !.at = IF k = "docker" THEN "find_container"
                                       ELSE IF files.state = "whole" THEN "ensure_up"
                                       ELSE "download"]
  /\ UNCHANGED <<db, cfg, blocked, cut, changes, used, keys, setupTroubles>> /\ UNCHANGED Machinery

(* _ensure_embedded_pg.  The binaries are unpacked and moved into place; a *)
(* directory already there refuses them.                                   *)
MoveBinaries ==
  /\ IF files.moved
       THEN setup.at = "download" /\ setup' = NoRun /\ blocked' = TRUE /\ UNCHANGED files
       ELSE /\ Step("download", "initdb") /\ UNCHANGED blocked
            /\ files' = [files EXCEPT !.moved = TRUE]
  /\ UNCHANGED <<postgres, container, db, cfg, cut, changes, used, keys, setups, setupTroubles>>

InitDb ==
  /\ \/ Step("initdb", "initialising") /\ files' = [files EXCEPT !.cluster = "begun"]
     \/ Step("initialising", "start") /\ files' = [files EXCEPT !.cluster = "made"]
  /\ UNCHANGED <<postgres, container, setupTroubles>> /\ UNCHANGED Contents

StartPostgres ==
  /\ Step("start", "create_database") /\ postgres' = "up"
  /\ UNCHANGED <<files, container, setupTroubles>> /\ UNCHANGED Contents

CreateDatabase ==
  /\ Step("create_database", "save_state")
  /\ db' = [db EXCEPT !["embedded"].created = TRUE]
  /\ UNCHANGED <<cfg, blocked, cut, changes, used, keys, setups, setupTroubles>> /\ UNCHANGED Machinery

(* _save_embedded_state empties the file, then writes it.                  *)
SaveState ==
  /\ \/ Step("save_state", "saving_state") /\ files' = [files EXCEPT !.state = "torn"]
     \/ Step("saving_state", "schema") /\ files' = [files EXCEPT !.state = "whole"]
  /\ UNCHANGED <<postgres, container, setupTroubles>> /\ UNCHANGED Contents

EnsureUp ==
  /\ Step("ensure_up", "schema") /\ postgres' = "up"
  /\ UNCHANGED <<files, container, setupTroubles>> /\ UNCHANGED Contents

(* _ensure_docker_pg: what docker ps says, a stopped container started.    *)
FindContainer ==
  /\ Step("find_container", IF container = "none" THEN "run_container" ELSE "ask_container")
  /\ container' = IF container = "stopped" THEN "running" ELSE container
  /\ UNCHANGED <<files, postgres, setupTroubles>> /\ UNCHANGED Contents

ReuseContainer ==
  /\ container = "running" /\ Step("ask_container", "schema")
  /\ UNCHANGED setupTroubles /\ UNCHANGED Machinery /\ UNCHANGED Contents

(* No port or no password in the answers (the container has stopped since, *)
(* docker failed): the container is removed, and its data with it.         *)
RecreateContainer ==
  /\ Step("ask_container", "run_container")
  /\ IF container = "running" THEN Trouble ELSE UNCHANGED setupTroubles
  /\ container' = "none" /\ db' = [db EXCEPT !["docker"] = Fresh]
  /\ changes' = changes \cup {"recreated"}
  /\ UNCHANGED <<files, postgres, cfg, blocked, cut, used, keys, setups>>

RunContainer ==
  /\ Step("run_container", "schema") /\ container' = "running"
  /\ db' = [db EXCEPT !["docker"].created = TRUE]
  /\ UNCHANGED <<files, postgres, cfg, blocked, cut, changes, used, keys, setups, setupTroubles>>

(* The key of the config, or a new one; the schema at the width chosen,    *)
(* where there is none yet.                                                *)
MakeSchema ==
  LET k == setup.kind IN
  /\ setup.at = "schema"
  /\ \E openai \in {"no", "typed", "environment"} :
       LET wide == IF db[k].width # 0 THEN db[k].width
                   ELSE IF openai = "no" THEN 384 ELSE 1536 IN
       /\ setup' = [setup EXCEPT !.at = "vault", !.openai = (openai = "typed"),
                                 !.key = IF setup.key = 0 THEN keys + 1 ELSE setup.key]
       /\ db' = [db EXCEPT ![k].width = wide]
       /\ changes' = changes
            \cup (IF cfg.kind \notin {"none", k} THEN {"switched"} ELSE {})
            \cup (IF openai = "typed" /\ wide = 384 THEN {"rechosen"} ELSE {})
            \cup (IF openai = "environment" THEN {"environment"} ELSE {})
  /\ keys' = IF setup.key = 0 THEN keys + 1 ELSE keys
  /\ UNCHANGED <<cfg, blocked, cut, used, setups, setupTroubles>> /\ UNCHANGED Machinery

StoreKey ==
  /\ Step("vault", "save_config")
  /\ db' = IF setup.openai THEN [db EXCEPT ![setup.kind].secret = setup.key] ELSE db
  /\ UNCHANGED <<cfg, blocked, cut, changes, used, keys, setups, setupTroubles>> /\ UNCHANGED Machinery

(* An OpenAI reference the config already holds stays.                     *)
SaveSetup ==
  /\ setup.at = "save_config" /\ setup' = NoRun
  /\ cfg' = [kind |-> setup.kind, key |-> setup.key, openai |-> cfg.openai \/ setup.openai]
  /\ UNCHANGED <<db, blocked, cut, changes, used, keys, setups, setupTroubles>> /\ UNCHANGED Machinery

(* A kill, a failed download or initdb, a port taken meanwhile.            *)
SetupStops ==
  /\ setup # NoRun /\ Trouble /\ setup' = NoRun
  /\ cut' = cut \cup
       (IF setup.at \in {"initdb", "initialising", "start", "create_database",
                         "save_state", "saving_state"} THEN {"files"} ELSE {})
       \cup (IF setup.at \in {"vault", "save_config"} THEN {"schema"} ELSE {})
  /\ UNCHANGED <<db, cfg, blocked, changes, used, keys, setups>> /\ UNCHANGED Machinery

-----------------------------------------------------------------------------
(* Memory is used; machines and containers stop.                           *)
StoreMemory ==
  /\ cfg.kind \in Kinds /\ db[cfg.kind].created /\ ~db[cfg.kind].stored
  /\ IF cfg.kind = "docker" THEN container = "running" ELSE postgres = "up"
  /\ db' = [db EXCEPT ![cfg.kind].stored = TRUE] /\ used' = used \cup {cfg.kind}
  /\ UNCHANGED <<setup, cfg, blocked, cut, changes, keys, setups, setupTroubles>>
  /\ UNCHANGED Machinery

DatabaseStops ==
  /\ Trouble
  /\ \/ postgres = "up" /\ postgres' = "down" /\ UNCHANGED container
     \/ container = "running" /\ container' = "stopped" /\ UNCHANGED postgres
  /\ UNCHANGED <<setup, files>> /\ UNCHANGED Contents

(* _preflight_pg, before a server starts.                                  *)
AutoStart ==
  /\ setup = NoRun /\ cfg.kind = "embedded" /\ files.state = "whole" /\ postgres = "down"
  /\ postgres' = "up"
  /\ UNCHANGED <<setup, files, container, setupTroubles>> /\ UNCHANGED Contents

ProvisionNext ==
  \/ RunSetup \/ MoveBinaries \/ InitDb \/ StartPostgres \/ CreateDatabase \/ SaveState
  \/ EnsureUp \/ FindContainer \/ ReuseContainer \/ RecreateContainer \/ RunContainer
  \/ MakeSchema \/ StoreKey \/ SaveSetup \/ SetupStops
  \/ StoreMemory \/ DatabaseStops \/ AutoStart

ProvisionSpec == ProvisionInit /\ [][ProvisionNext]_provisionVars

-----------------------------------------------------------------------------
(* Type invariant.                                                         *)
ProvisionTypeOK ==
  /\ setup \in [at : {"none", "download", "initdb", "initialising", "start",
                      "create_database", "save_state", "saving_state", "ensure_up",
                      "find_container", "ask_container", "run_container", "schema",
                      "vault", "save_config"},
                kind : Kinds, key : 0..MaxSetups, openai : BOOLEAN]
  /\ files \in [moved : BOOLEAN, cluster : {"none", "begun", "made"},
                state : {"none", "torn", "whole"}]
  /\ postgres \in {"down", "up"} /\ container \in {"none", "stopped", "running"}
  /\ db \in [Kinds -> [created : BOOLEAN, width : {0, 384, 1536}, secret : 0..MaxSetups,
                       stored : BOOLEAN]]
  /\ cfg \in [kind : Kinds \cup {"none"}, key : 0..MaxSetups, openai : BOOLEAN]
  /\ cut \subseteq {"files", "schema"}
  /\ changes \subseteq {"switched", "recreated", "rechosen", "environment"}
  /\ used \subseteq Kinds

(* The state file that makes later commands skip the first-time setup is   *)
(* there only for a cluster with its database; and only a run that stopped *)
(* half way through its files blocks the runs after it.                    *)
StateMeansReady ==
  /\ files.state = "whole" => /\ files.moved /\ files.cluster = "made"
                              /\ db["embedded"].created
  /\ blocked => "files" \in cut

(* However often setup runs and wherever it was killed, the config it left *)
(* fits its database: the width of the columns, and the key its secret is  *)
(* under.  Exceptions: a schema made by a run that was killed, a change of *)
(* database or embeddings, a container removed for want of an answer, an   *)
(* OpenAI key that only setup's environment had.                           *)
ConfigFitsDatabase ==
  cfg.kind # "none" /\ changes = {} /\ "schema" \notin cut =>
    /\ cfg.openai => db[cfg.kind].secret = cfg.key
    /\ db[cfg.kind].width = IF cfg.openai THEN 1536 ELSE 384

(* No run of setup loses a memory, but for the container it removes when   *)
(* docker does not tell its port and password.                             *)
MemoriesKept ==
  \A k \in used : db[k].stored \/ (k = "docker" /\ "recreated" \in changes)
=============================================================================
