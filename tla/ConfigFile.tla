----------------------------- MODULE ConfigFile -----------------------------
(***************************************************************************)
(* ~/.memnos/config.json (memnos_cli.py) and the gateway's daily update    *)
(* check that reads it (memnos_gateway.py).  Every command loads the whole *)
(* file when it starts and, if it changes a setting, writes the whole file *)
(* back much later, truncating it first.  Two settings are followed: the   *)
(* key the vault is under (0: none) and the automatic update.  The vault's *)
(* own rotation is module Vault.                                           *)
(***************************************************************************)
EXTENDS Naturals

CONSTANTS
  Commands,      \* command processes
  MaxIssued,     \* bound: commands started
  MaxRekeys,     \* bound: rotations of the vault key
  MaxReleases,   \* bound: versions published
  MaxCommandKills \* bound: commands killed

ASSUME ConfigBounds == {MaxIssued, MaxRekeys, MaxReleases, MaxCommandKills} \subseteq Nat

VARIABLES
  config,     \* the file: does it parse, and what it says
  vaultKey,   \* the key the vault's rows are under
  command,    \* command[c]: what it does, where it is, the settings it holds,
              \* how many saves it knows of, whether its load found a torn file
  saved,      \* saves completed
  wanted,      \* the update preference last set by a command
  mishaps,    \* "stale", "torn" or "killed" saves so far
  released, onDisk,   \* newest version published, version installed
  tick,       \* the gateway's check: where it is, what was wanted when it read
  issued, rekeys, commandKills

configVars == <<config, vaultKey, command, saved, wanted, mishaps, released, onDisk,
                tick, issued, rekeys, commandKills>>

NoSettings == [key |-> 0, auto |-> FALSE]
Resting == [does |-> "none", at |-> "idle", holds |-> NoSettings, knows |-> 0, torn |-> FALSE]
Waiting == [at |-> "waiting", wanted |-> FALSE]
Doings == {"enable", "disable", "rekey", "upgrade"}

Move(c, step) == command' = [command EXCEPT ![c].at = step]
Finish(c) == command' = [command EXCEPT ![c] = Resting]
Unmoved == UNCHANGED <<config, vaultKey, saved, mishaps, released, onDisk, tick,
                       issued, rekeys, commandKills>>

-----------------------------------------------------------------------------
ConfigInit ==
  /\ config = [whole |-> TRUE, key |-> 1, auto |-> FALSE] /\ vaultKey = 1
  /\ command = [c \in Commands |-> Resting]
  /\ saved = 0 /\ wanted = FALSE /\ mishaps = {}
  /\ released = 0 /\ onDisk = 0 /\ tick = Waiting
  /\ issued = 0 /\ rekeys = 0 /\ commandKills = 0

StartCommand(c, does) ==
  /\ command[c] = Resting /\ issued < MaxIssued /\ issued' = issued + 1
  /\ command' = [command EXCEPT ![c].does = does, ![c].at = "load"]

IssueCommand(c) ==
  /\ \E does \in Doings : StartCommand(c, does)
  /\ UNCHANGED <<config, vaultKey, saved, wanted, mishaps, released, onDisk, tick,
                 rekeys, commandKills>>

(* load_config, called by main: a file that does not parse is an empty one. *)
LoadConfig(c) ==
  /\ command[c].at = "load"
  /\ command' = [command EXCEPT
       ![c].at = "think", ![c].knows = saved, ![c].torn = ~config.whole,
       ![c].holds = IF config.whole THEN [key |-> config.key, auto |-> config.auto]
                                    ELSE NoSettings]
  /\ UNCHANGED wanted /\ Unmoved

(* `memnos upgrade --auto-update` and --no-auto-update.                    *)
SetPreference(c) ==
  /\ command[c].at = "think" /\ command[c].does \in {"enable", "disable"}
  /\ command' = [command EXCEPT ![c].at = "truncate",
                                ![c].holds.auto = (command[c].does = "enable")]
  /\ UNCHANGED wanted /\ Unmoved

(* `memnos secret rotate`: rows under another key than the one the command *)
(* holds are skipped; the new key is saved afterwards all the same.        *)
RekeyVault(c) ==
  /\ command[c].at = "think" /\ command[c].does = "rekey"
  /\ IF command[c].holds.key = 0
       THEN Finish(c) /\ UNCHANGED <<vaultKey, rekeys>>
       ELSE /\ rekeys < MaxRekeys /\ rekeys' = rekeys + 1
            /\ command' = [command EXCEPT ![c].at = "truncate", ![c].holds.key = rekeys + 2]
            /\ vaultKey' = IF vaultKey = command[c].holds.key THEN rekeys + 2 ELSE vaultKey
  /\ UNCHANGED <<config, saved, wanted, mishaps, released, onDisk, tick, issued, commandKills>>

(* `memnos upgrade`: what PyPI says is saved before anything is installed. *)
AskIndex(c) ==
  /\ command[c].at = "think" /\ command[c].does = "upgrade"
  /\ Move(c, "truncate") \/ Finish(c)           \* unreachable: sys.exit
  /\ UNCHANGED wanted /\ Unmoved

(* save_config: open(.., "w") empties the file, the text follows on close. *)
TruncateConfig(c) ==
  /\ command[c].at = "truncate" /\ Move(c, "fill")
  /\ config' = [config EXCEPT !.whole = FALSE]
  /\ UNCHANGED <<vaultKey, saved, wanted, mishaps, released, onDisk, tick, issued,
                 rekeys, commandKills>>

(* Text written over the text of another save leaves a tail that may not parse. *)
FillConfig(c) ==
  /\ command[c].at = "fill" /\ Move(c, "saved")
  /\ \E parses \in IF config.whole THEN BOOLEAN ELSE {TRUE} :
       /\ config' = [whole |-> parses, key |-> command[c].holds.key,
                     auto |-> command[c].holds.auto]
       /\ mishaps' = mishaps \cup (IF command[c].knows # saved THEN {"stale"} ELSE {})
                             \cup (IF command[c].torn \/ ~parses THEN {"torn"} ELSE {})
  /\ saved' = saved + 1
  /\ wanted' = IF command[c].does \in {"enable", "disable"}
                THEN command[c].does = "enable" ELSE wanted
  /\ UNCHANGED <<vaultKey, released, onDisk, tick, issued, rekeys, commandKills>>

AfterSave(c) ==
  /\ command[c].at = "saved"
  /\ IF command[c].does = "upgrade" /\ released > onDisk
       THEN Move(c, "install") \/ Finish(c)     \* --check only says so
       ELSE Finish(c)
  /\ UNCHANGED wanted /\ Unmoved

(* The installer: it may fail, or exit 0 and install nothing; the version  *)
(* found on disk afterwards is what the command reports.                   *)
RunInstaller(c) ==
  /\ command[c].at = "install" /\ Finish(c)
  /\ onDisk' \in onDisk..released
  /\ UNCHANGED <<config, vaultKey, saved, wanted, mishaps, released, tick, issued,
                 rekeys, commandKills>>

CommandKilled(c) ==
  /\ command[c] # Resting /\ commandKills < MaxCommandKills
  /\ commandKills' = commandKills + 1 /\ Finish(c)
  /\ mishaps' = mishaps \cup
       (IF command[c].at = "fill" \/ (command[c].does = "rekey" /\ command[c].at = "truncate")
          THEN {"killed"} ELSE {})
  /\ UNCHANGED <<config, vaultKey, saved, wanted, released, onDisk, tick, issued, rekeys>>

(* The gateway: _update_check_loop.                                        *)
PublishVersion ==
  /\ released < MaxReleases /\ released' = released + 1
  /\ UNCHANGED <<config, vaultKey, command, saved, wanted, mishaps, onDisk, tick,
                 issued, rekeys, commandKills>>

(* A version newer than the one on disk, read afresh at every check.       *)
TickChecks ==
  /\ tick = Waiting /\ released > onDisk
  /\ tick' = [tick EXCEPT !.at = "read_preference"]
  /\ UNCHANGED <<config, vaultKey, command, saved, wanted, mishaps, released, onDisk,
                 issued, rekeys, commandKills>>

(* _read_auto_update_pref: False when the file does not parse.             *)
TickReadsPreference ==
  /\ tick.at = "read_preference"
  /\ tick' = IF config.whole /\ config.auto
               THEN [at |-> "spawn", wanted |-> wanted] ELSE Waiting
  /\ UNCHANGED <<config, vaultKey, command, saved, wanted, mishaps, released, onDisk,
                 issued, rekeys, commandKills>>

(* _spawn_auto_update: `memnos upgrade --no-restart`, a process of its own. *)
TickSpawnsUpgrade ==
  /\ tick.at = "spawn" /\ tick' = Waiting
  /\ \/ \E c \in Commands : StartCommand(c, "upgrade")
     \/ UNCHANGED <<command, issued>>           \* it could not be launched
  /\ UNCHANGED <<config, vaultKey, saved, wanted, mishaps, released, onDisk, rekeys,
                 commandKills>>

ConfigNext ==
  \/ \E c \in Commands :
       \/ IssueCommand(c) \/ LoadConfig(c) \/ SetPreference(c) \/ RekeyVault(c)
       \/ AskIndex(c) \/ TruncateConfig(c) \/ FillConfig(c) \/ AfterSave(c)
       \/ RunInstaller(c) \/ CommandKilled(c)
  \/ PublishVersion \/ TickChecks \/ TickReadsPreference \/ TickSpawnsUpgrade

ConfigSpec == ConfigInit /\ [][ConfigNext]_configVars

-----------------------------------------------------------------------------
(* Type invariant.                                                         *)
ConfigTypeOK ==
  /\ config \in [whole : BOOLEAN, key : 0..(MaxRekeys + 1), auto : BOOLEAN]
  /\ vaultKey \in 1..(MaxRekeys + 1) /\ saved \in 0..MaxIssued /\ wanted \in BOOLEAN
  /\ \A c \in Commands :
       /\ command[c].does \in Doings \cup {"none"}
       /\ command[c].at \in {"idle", "load", "think", "truncate", "fill", "saved", "install"}
       /\ command[c].holds \in [key : 0..(MaxRekeys + 1), auto : BOOLEAN]
  /\ mishaps \subseteq {"stale", "torn", "killed"}
  /\ {released, onDisk} \subseteq 0..MaxReleases
  /\ tick \in [at : {"waiting", "read_preference", "spawn"}, wanted : BOOLEAN]

(* With no command running the file opens the vault and holds the update   *)
(* preference last set, whatever the gateway and its own upgrades did      *)
(* meanwhile, unless a save wrote settings loaded before another save,     *)
(* settings loaded from a half-written file, or was cut off.               *)
ConfigKept ==
  mishaps = {} /\ (\A c \in Commands : command[c] = Resting) =>
    config = [whole |-> TRUE, key |-> vaultKey, auto |-> wanted]

(* The gateway installs by itself only if the user wanted it when it read  *)
(* the preference; only a save gone wrong can bring a withdrawn one back.  *)
UpdatesOnlyAsAsked == tick.at = "spawn" /\ mishaps = {} => tick.wanted
=============================================================================
