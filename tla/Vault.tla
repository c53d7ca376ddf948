-------------------------------- MODULE Vault --------------------------------
(***************************************************************************)
(* The secret vault (core/vault.py) and the rotation of its master key     *)
(* (`memnos secret rotate`): the rows are read at once, re-encrypted and   *)
(* updated one by one, each update committed alone, and the new key is     *)
(* saved in the configuration last.  Secrets are set and deleted from the  *)
(* console, which keeps the key it was started with, and the command line. *)
(***************************************************************************)
EXTENDS Naturals, FiniteSets

CONSTANTS
  Secrets, Plaintexts, NoValue,
  MaxSets, MaxRotations   \* secrets set; rotations begun

ASSUME VaultBounds ==
  NoValue \notin Plaintexts /\ MaxSets \in Nat /\ MaxRotations \in Nat

VARIABLES
  vault,      \* vault[n]: the key and the value row n holds; NoRow without one
  configKey,  \* secret_key in config.json
  serverKey,  \* MEMNOS_SECRET_KEY of the running server
  rotation,   \* the rotation under way: new key, stage, rows still to treat
  rotations,  \* keys generated
  meant,      \* meant[n]: the value last set, NoValue once deleted
  sets,       \* secrets set
  exposed     \* secrets set beside a rotation or with an outdated key, or
              \* re-encrypted by a rotation that then died

vaultVars == <<vault, configKey, serverKey, rotation, rotations, meant, sets, exposed>>

NoRow == [key |-> 0, value |-> NoValue]
NotRotating == [stage |-> "idle", new |-> 0, rows |-> {}, done |-> {}]
Present(n) == vault[n] # NoRow

VaultInit ==
  /\ vault = [n \in Secrets |-> NoRow] /\ meant = [n \in Secrets |-> NoValue]
  /\ configKey = 1 /\ serverKey = 1 /\ rotation = NotRotating
  /\ rotations = 0 /\ sets = 0 /\ exposed = {}

(* Vault.set, by the server or by the command line.                        *)
SetSecret(n, v, key) ==
  /\ sets < MaxSets /\ sets' = sets + 1
  /\ vault' = [vault EXCEPT ![n] = [key |-> key, value |-> v]]
  /\ meant' = [meant EXCEPT ![n] = v]
  /\ exposed' = IF rotation = NotRotating /\ key = configKey THEN exposed \ {n}
                ELSE exposed \cup {n}
  /\ UNCHANGED <<configKey, serverKey, rotation, rotations>>

DeleteSecret(n) ==
  /\ Present(n) /\ vault' = [vault EXCEPT ![n] = NoRow]
  /\ meant' = [meant EXCEPT ![n] = NoValue]
  /\ UNCHANGED <<configKey, serverKey, rotation, rotations, sets, exposed>>

ServerTakesKey ==
  /\ serverKey # configKey /\ serverKey' = configKey
  /\ UNCHANGED <<vault, configKey, rotation, rotations, meant, sets, exposed>>

-----------------------------------------------------------------------------
(* rotate_key: one SELECT of all rows.                                     *)
BeginRotation ==
  /\ rotation = NotRotating /\ rotations < MaxRotations /\ rotations' = rotations + 1
  /\ rotation' = [stage |-> "update", new |-> rotations + 2, done |-> {},
                  rows |-> {[name |-> n, row |-> vault[n]] : n \in {m \in Secrets : Present(m)}}]
  /\ UNCHANGED <<vault, configKey, serverKey, meant, sets, exposed>>

(* The UPDATE finds no row when the secret has been deleted meanwhile.     *)
Updates(n) == Present(n)

(* A row under another key does not decrypt, and is skipped.               *)
TreatRow(r) ==
  LET ours == {n \in {r.name} : r.row.key = configKey /\ Updates(n)}
  IN /\ vault' = [n \in Secrets |-> IF n \notin ours THEN vault[n]
                   ELSE [key |-> rotation.new, value |-> r.row.value]]
     /\ rotation' = [rotation EXCEPT !.rows = rotation.rows \ {r},
                                     !.done = rotation.done \cup ours]

RotateRow ==
  /\ rotation.stage = "update" /\ \E r \in rotation.rows : TreatRow(r)
  /\ UNCHANGED <<configKey, serverKey, rotations, meant, sets, exposed>>

(* cmd_secret saves the new key after the last row.                        *)
(* A mutated command that saves it before.                                 *)
SavesAtAnyRow == rotation.stage = "update" /\ configKey # rotation.new
SavesNow == rotation.stage = "update" /\ rotation.rows = {}
SaveKey ==
  /\ SavesNow /\ configKey' = rotation.new /\ rotation' = NotRotating
  /\ UNCHANGED <<vault, serverKey, rotations, meant, sets, exposed>>

(* The command is killed, or a statement fails: the new key is forgotten.  *)
RotationDies ==
  /\ rotation # NotRotating /\ rotation' = NotRotating
  /\ exposed' = exposed \cup rotation.done
  /\ UNCHANGED <<vault, configKey, serverKey, rotations, meant, sets>>

VaultNext ==
  \/ \E n \in Secrets, v \in Plaintexts, key \in {serverKey, configKey} : SetSecret(n, v, key)
  \/ \E n \in Secrets : DeleteSecret(n)
  \/ ServerTakesKey \/ BeginRotation \/ RotateRow \/ SaveKey \/ RotationDies

VaultSpec == VaultInit /\ [][VaultNext]_vaultVars

-----------------------------------------------------------------------------
VaultTypeOK ==
  /\ \A n \in Secrets : vault[n].key \in 0..(rotations + 1)
                        /\ vault[n].value \in Plaintexts \cup {NoValue}
  /\ meant \in [Secrets -> Plaintexts \cup {NoValue}]
  /\ {configKey, serverKey} \subseteq 1..(rotations + 1)
  /\ rotation.stage \in {"idle", "update"} /\ exposed \subseteq Secrets

(* Whatever rotations complete, die or run beside deletions, a secret      *)
(* decrypts to the value last set under the key on file, or the one that   *)
(* the running rotation is about to file; and a deleted secret stays gone. *)
SecretsSurviveRotation ==
  \A n \in Secrets :
    /\ Present(n) <=> meant[n] # NoValue
    /\ Present(n) /\ n \notin exposed =>
         /\ vault[n].value = meant[n]
         /\ vault[n].key = (IF n \in rotation.done THEN rotation.new ELSE configKey)
=============================================================================
