---------------------------- MODULE ChangeProofs ----------------------------
(***************************************************************************)
(* Proofs about what changes beneath the stored memory: the rotation of    *)
(* the key the secrets are encrypted with (Vault), of the embeddings       *)
(* (Migration), of the settings (ConfigFile), and a run of setup           *)
(* (Provision), each for any number of commands, failures and kills.       *)
(***************************************************************************)
EXTENDS Vault, Migration, ConfigFile, Provision, FiniteSetTheorems, TLAPS

-----------------------------------------------------------------------------
(* Vault.  The rows a rotation has read and not treated yet are as they    *)
(* were, but for the secrets touched beside it; every other row is treated *)
(* or still to be.                                                         *)
Kept == [key : Nat, value : Plaintexts]

VaultTypes ==
  /\ vault \in [Secrets -> {NoRow} \cup Kept]
  /\ meant \in [Secrets -> Plaintexts \cup {NoValue}]
  /\ rotation \in [stage : {"idle", "update"}, new : Nat, done : SUBSET Secrets,
                   rows : SUBSET [name : Secrets, row : Kept]]
  /\ configKey \in Nat /\ serverKey \in Nat /\ rotations \in Nat
  /\ rotation.stage = "idle" <=> rotation = NotRotating

RowsAsRead ==
  \A x \in rotation.rows :
    /\ x.name \notin rotation.done
    /\ Present(x.name) /\ x.name \notin exposed => vault[x.name] = x.row
    /\ \A y \in rotation.rows : x.name = y.name => x = y

NoneLeftOut ==
  rotation.stage = "update" =>
    \A n \in Secrets : Present(n) /\ n \notin exposed =>
      n \in rotation.done \/ \E x \in rotation.rows : x.name = n

VaultInv == VaultTypes /\ SecretsSurviveRotation /\ RowsAsRead /\ NoneLeftOut

RotationType == [stage : {"idle", "update"}, new : Nat, done : SUBSET Secrets,
                 rows : SUBSET [name : Secrets, row : Kept]]

LEMMA RowFacts ==
  ASSUME VaultTypes
  PROVE  /\ rotation \in RotationType /\ rotation.stage \in {"idle", "update"}
         /\ rotation.new \in Nat /\ rotation.done \in SUBSET Secrets
         /\ rotation.rows \in SUBSET [name : Secrets, row : Kept]
         /\ NoRow.value = NoValue /\ NoRow.key = 0
         /\ \A k \in Kept : k # NoRow /\ k.value \in Plaintexts /\ k.value # NoValue
         /\ \A n \in Secrets : Present(n) => vault[n] \in Kept
         /\ \A n \in Secrets : Present(n) <=> vault[n] \in Kept
  BY VaultBounds DEF VaultTypes, RotationType, NoRow, Kept, Present

LEMMA IdleRotation ==
  /\ NotRotating \in RotationType /\ NotRotating.stage = "idle"
  /\ NotRotating.done = {} /\ NotRotating.rows = {}
  BY DEF NotRotating, RotationType

LEMMA SetSecretKeeps ==
  ASSUME VaultInv, NEW n \in Secrets, NEW v \in Plaintexts, NEW key \in {serverKey, configKey},
         SetSecret(n, v, key)
  PROVE  VaultInv'
  <1>1. PICK k : k = [key |-> key, value |-> v]
    OBVIOUS
  <1>2. /\ vault' = [vault EXCEPT ![n] = k] /\ meant' = [meant EXCEPT ![n] = v]
        /\ exposed' = IF rotation = NotRotating /\ key = configKey THEN exposed \ {n}
                      ELSE exposed \cup {n}
        /\ UNCHANGED <<configKey, serverKey, rotation, rotations>>
    BY <1>1 DEF SetSecret
  <1>3. VaultTypes /\ k \in Kept /\ k.key = key /\ k.value = v
    BY <1>1 DEF VaultInv, VaultTypes, Kept
  <1>4. \A m \in Secrets : /\ vault'[m] = IF m = n THEN k ELSE vault[m]
                           /\ meant'[m] = IF m = n THEN v ELSE meant[m]
    BY <1>2, <1>3 DEF VaultTypes
  <1>5. VaultTypes'
    BY <1>2, <1>3 DEF VaultTypes
  <1>6. \A m \in Secrets \ {n} : Present(m)' <=> Present(m)
    BY <1>4 DEF Present
  <1>7. Present(n)' /\ v # NoValue
    BY <1>3, <1>4, RowFacts, VaultBounds DEF Present
  <1>8. n \notin exposed' => rotation = NotRotating /\ key = configKey
    BY <1>2
  <1>9. SecretsSurviveRotation'
    <2> SUFFICES ASSUME NEW m \in Secrets
                 PROVE  /\ Present(m)' <=> meant'[m] # NoValue
                        /\ Present(m)' /\ m \notin exposed' =>
                             /\ vault'[m].value = meant'[m]
                             /\ vault'[m].key = (IF m \in rotation'.done THEN rotation'.new
                                                 ELSE configKey')
      BY DEF SecretsSurviveRotation
    <2>1. CASE m = n
      BY <1>2, <1>3, <1>4, <1>7, <1>8, <2>1, IdleRotation
    <2>2. CASE m # n
      BY <1>2, <1>4, <1>6, <2>2 DEF VaultInv, SecretsSurviveRotation
    <2> QED
      BY <2>1, <2>2
  <1>10. RowsAsRead'
    <2>1. n \notin exposed' => rotation.rows = {}
      BY <1>8, IdleRotation
    <2>2. \A x \in rotation.rows : x.name \in Secrets
      BY <1>3, RowFacts
    <2> QED
      BY <1>2, <1>4, <1>6, <2>1, <2>2 DEF VaultInv, RowsAsRead
  <1>11. NoneLeftOut'
    <2>1. n \notin exposed' => rotation.stage = "idle"
      BY <1>8, IdleRotation
    <2> QED
      BY <1>2, <1>6, <2>1 DEF VaultInv, NoneLeftOut
  <1> QED
    BY <1>5, <1>9, <1>10, <1>11 DEF VaultInv

LEMMA DeleteSecretKeeps ==
  ASSUME VaultInv, NEW n \in Secrets, DeleteSecret(n) PROVE VaultInv'
  <1>1. /\ vault' = [vault EXCEPT ![n] = NoRow] /\ meant' = [meant EXCEPT ![n] = NoValue]
        /\ UNCHANGED <<configKey, serverKey, rotation, rotations, exposed>>
    BY DEF DeleteSecret
  <1>2. VaultTypes
    BY DEF VaultInv
  <1>3. \A m \in Secrets : /\ vault'[m] = IF m = n THEN NoRow ELSE vault[m]
                           /\ meant'[m] = IF m = n THEN NoValue ELSE meant[m]
    BY <1>1, <1>2 DEF VaultTypes
  <1>4. VaultTypes'
    BY <1>1, <1>2 DEF VaultTypes
  <1>5. ~Present(n)' /\ \A m \in Secrets \ {n} : Present(m)' <=> Present(m)
    BY <1>3 DEF Present
  <1>6. SecretsSurviveRotation'
    <2> SUFFICES ASSUME NEW m \in Secrets
                 PROVE  /\ Present(m)' <=> meant'[m] # NoValue
                        /\ Present(m)' /\ m \notin exposed' =>
                             /\ vault'[m].value = meant'[m]
                             /\ vault'[m].key = (IF m \in rotation'.done THEN rotation'.new
                                                 ELSE configKey')
      BY DEF SecretsSurviveRotation
    <2> QED
      BY <1>1, <1>3, <1>5 DEF VaultInv, SecretsSurviveRotation
  <1>7. RowsAsRead'
    <2>1. \A x \in rotation.rows : x.name \in Secrets
      BY <1>2, RowFacts
    <2> QED
      BY <1>1, <1>3, <1>5, <2>1 DEF VaultInv, RowsAsRead
  <1>8. NoneLeftOut'
    BY <1>1, <1>5 DEF VaultInv, NoneLeftOut
  <1> QED
    BY <1>4, <1>6, <1>7, <1>8 DEF VaultInv

LEMMA BeginRotationKeeps ==
  ASSUME VaultInv, BeginRotation PROVE VaultInv'
  <1>1. PICK found : found = {[name |-> n, row |-> vault[n]] : n \in {m \in Secrets : Present(m)}}
    OBVIOUS
  <1>2. PICK r : r = [stage |-> "update", new |-> rotations + 2, done |-> {}, rows |-> found]
    OBVIOUS
  <1>3. /\ rotation = NotRotating /\ rotations' = rotations + 1 /\ rotation' = r
        /\ UNCHANGED <<vault, configKey, serverKey, meant, exposed>>
    BY <1>1, <1>2 DEF BeginRotation
  <1>4. VaultTypes /\ rotations \in Nat /\ rotations + 2 \in Nat
    BY DEF VaultInv, VaultTypes
  <1>5. found \in SUBSET [name : Secrets, row : Kept]
    BY <1>1, <1>4, RowFacts
  <1>6. /\ r.stage = "update" /\ r.new = rotations + 2 /\ r.done = {} /\ r.rows = found
        /\ r \in RotationType /\ r # NotRotating
    <2>1. r.stage = "update" /\ r.new = rotations + 2 /\ r.done = {} /\ r.rows = found
      BY <1>2
    <2>2. r \in RotationType
      BY <1>2, <1>4, <1>5 DEF RotationType
    <2> QED
      BY <2>1, <2>2, IdleRotation
  <1>7. VaultTypes'
    <2>1. rotations' \in Nat
      BY <1>3, <1>4
    <2> QED
      BY <1>3, <1>4, <1>6, <2>1 DEF VaultTypes, RotationType
  <1>8. \A n \in Secrets : Present(n)' <=> Present(n)
    BY <1>3 DEF Present
  <1>9. SecretsSurviveRotation'
    BY <1>3, <1>6, <1>8, IdleRotation DEF VaultInv, SecretsSurviveRotation
  <1>10. \A x \in found : \E n \in Secrets : Present(n) /\ x.name = n /\ x.row = vault[n]
                           /\ x = [name |-> n, row |-> vault[n]]
    BY <1>1
  <1>11. RowsAsRead'
    BY <1>3, <1>6, <1>10 DEF RowsAsRead
  <1>12. NoneLeftOut'
    <2>1. \A n \in Secrets : Present(n) => \E x \in found : x.name = n
      <3> SUFFICES ASSUME NEW n \in Secrets, Present(n) PROVE \E x \in found : x.name = n
        OBVIOUS
      <3>1. [name |-> n, row |-> vault[n]] \in found
        BY <1>1
      <3> QED
        BY <3>1
    <2> QED
      BY <1>3, <1>6, <1>8, <2>1 DEF NoneLeftOut
  <1> QED
    BY <1>7, <1>9, <1>11, <1>12 DEF VaultInv

LEMMA RotateRowKeeps ==
  ASSUME VaultInv, RotateRow PROVE VaultInv'
  <1>1. PICK x \in rotation.rows : TreatRow(x)
    BY DEF RotateRow
  <1>2. /\ rotation.stage = "update"
        /\ UNCHANGED <<configKey, serverKey, rotations, meant, exposed>>
    BY DEF RotateRow
  <1>3. PICK n : n = x.name
    OBVIOUS
  <1>4. PICK k : k = [key |-> rotation.new, value |-> x.row.value]
    OBVIOUS
  <1>5. PICK treated : treated = {m \in {n} : x.row.key = configKey /\ Updates(m)}
    OBVIOUS
  <1>6. /\ VaultTypes /\ n \in Secrets /\ x.row \in Kept /\ k \in Kept /\ treated \subseteq Secrets
        /\ k.key = rotation.new /\ k.value = x.row.value
        /\ n \in treated <=> x.row.key = configKey /\ Present(n)
    BY <1>1, <1>3, <1>4, <1>5, RowFacts DEF VaultInv, Kept, Updates
  <1>7. \A m \in Secrets : vault'[m] = IF m \in treated THEN k ELSE vault[m]
    BY <1>1, <1>3, <1>4, <1>5 DEF TreatRow
  <1>8. vault' \in [Secrets -> {NoRow} \cup Kept]
    BY <1>1, <1>3, <1>4, <1>5, <1>6 DEF TreatRow, VaultTypes
  <1>9. PICK r : r = rotation'
    OBVIOUS
  <1>10. /\ r.stage = "update" /\ r.new = rotation.new /\ r.rows = rotation.rows \ {x}
         /\ r.done = rotation.done \cup treated
         /\ r = [stage |-> r.stage, new |-> r.new, done |-> r.done, rows |-> r.rows]
    <2>1. rotation' = [rotation EXCEPT !.rows = rotation.rows \ {x},
                                       !.done = rotation.done \cup treated]
      BY <1>1, <1>3, <1>5 DEF TreatRow
    <2> QED
      BY <1>2, <1>6, <1>9, <2>1, RowFacts DEF RotationType
  <1>11. r \in RotationType
    BY <1>6, <1>10, RowFacts DEF RotationType
  <1>12. VaultTypes'
    BY <1>2, <1>6, <1>8, <1>9, <1>10, <1>11, IdleRotation DEF VaultTypes,
       RotationType
  <1>13. \A m \in Secrets : Present(m)' <=> Present(m)
    BY <1>5, <1>6, <1>7, RowFacts DEF Present
  <1>14. /\ n \notin rotation.done /\ \A y \in rotation.rows : y.name = n => y = x
         /\ Present(n) /\ n \notin exposed => vault[n] = x.row
    BY <1>3 DEF VaultInv, RowsAsRead
  <1>15. Present(n) /\ n \notin exposed => n \in treated /\ k.value = meant[n]
    <2> SUFFICES ASSUME Present(n), n \notin exposed PROVE n \in treated /\ k.value = meant[n]
      OBVIOUS
    <2>1. vault[n] = x.row /\ vault[n].value = meant[n] /\ vault[n].key = configKey
      BY <1>6, <1>14 DEF VaultInv, SecretsSurviveRotation
    <2> QED
      BY <1>5, <1>6, <2>1
  <1>16. treated \subseteq {n}
    BY <1>5
  <1>17. SecretsSurviveRotation'
    <2> SUFFICES ASSUME NEW m \in Secrets
                 PROVE  /\ Present(m)' <=> meant'[m] # NoValue
                        /\ Present(m)' /\ m \notin exposed' =>
                             /\ vault'[m].value = meant'[m]
                             /\ vault'[m].key = (IF m \in rotation'.done THEN rotation'.new
                                                 ELSE configKey')
      BY DEF SecretsSurviveRotation
    <2>1. Present(m)' <=> meant'[m] # NoValue
      BY <1>2, <1>13 DEF VaultInv, SecretsSurviveRotation
    <2>2. CASE m = n
      BY <1>2, <1>6, <1>7, <1>9, <1>10, <1>13, <1>15, <2>1, <2>2
    <2>3. CASE m # n
      BY <1>2, <1>7, <1>9, <1>10, <1>13, <1>16, <2>1, <2>3
      DEF VaultInv, SecretsSurviveRotation
    <2> QED
      BY <2>2, <2>3
  <1>18. RowsAsRead'
    <2> SUFFICES ASSUME NEW y \in rotation'.rows
                 PROVE  /\ y.name \notin rotation'.done
                        /\ Present(y.name)' /\ y.name \notin exposed' => vault'[y.name] = y.row
                        /\ \A z \in rotation'.rows : y.name = z.name => y = z
      BY DEF RowsAsRead
    <2>1. y \in rotation.rows /\ y # x /\ y.name \in Secrets
      BY <1>6, <1>9, <1>10, RowFacts
    <2>2. y.name # n
      BY <1>14, <2>1
    <2> QED
      BY <1>2, <1>7, <1>9, <1>10, <1>13, <1>16, <2>1, <2>2 DEF VaultInv, RowsAsRead
  <1>19. NoneLeftOut'
    <2> SUFFICES ASSUME NEW m \in Secrets, Present(m), m \notin exposed
                 PROVE  m \in r.done \/ \E y \in r.rows : y.name = m
      BY <1>2, <1>9, <1>13 DEF NoneLeftOut
    <2>1. CASE m = n
      BY <1>10, <1>15, <2>1
    <2>2. CASE m # n
      <3>1. m \in rotation.done \/ \E y \in rotation.rows : y.name = m
        BY <1>2 DEF VaultInv, NoneLeftOut
      <3> QED
        BY <1>3, <1>10, <2>2, <3>1
    <2> QED
      BY <2>1, <2>2
  <1> QED
    BY <1>12, <1>17, <1>18, <1>19 DEF VaultInv

LEMMA RotationEnds ==
  ASSUME VaultInv, SaveKey \/ RotationDies PROVE VaultInv'
  <1>1. /\ rotation' = NotRotating /\ UNCHANGED <<vault, serverKey, rotations, meant>>
        /\ configKey' = configKey \/ configKey' = rotation.new
        /\ exposed \subseteq exposed'
    BY DEF SaveKey, RotationDies
  <1>2. VaultTypes
    BY DEF VaultInv
  <1>3. VaultTypes'
    BY <1>1, <1>2, IdleRotation, RowFacts DEF VaultTypes, RotationType
  <1>4. \A n \in Secrets : Present(n)' <=> Present(n)
    BY <1>1 DEF Present
  <1>5. ASSUME NEW n \in Secrets, Present(n), n \notin exposed'
        PROVE  vault[n].key = configKey'
    <2>1. n \notin exposed /\ vault[n].key = IF n \in rotation.done THEN rotation.new ELSE configKey
      BY <1>1, <1>5 DEF VaultInv, SecretsSurviveRotation
    <2>2. CASE SaveKey
      <3>1. /\ rotation.stage = "update" /\ rotation.rows = {} /\ configKey' = rotation.new
        BY <2>2 DEF SaveKey, SavesNow
      <3>2. n \in rotation.done
        BY <1>5, <2>1, <3>1 DEF VaultInv, NoneLeftOut
      <3> QED
        BY <2>1, <3>1, <3>2
    <2>3. CASE RotationDies
      <3>1. exposed' = exposed \cup rotation.done /\ configKey' = configKey
        BY <2>3 DEF RotationDies
      <3> QED
        BY <1>5, <2>1, <3>1
    <2> QED
      BY <2>2, <2>3
  <1>6. SecretsSurviveRotation'
    <2> SUFFICES ASSUME NEW m \in Secrets
                 PROVE  /\ Present(m)' <=> meant'[m] # NoValue
                        /\ Present(m)' /\ m \notin exposed' =>
                             /\ vault'[m].value = meant'[m]
                             /\ vault'[m].key = (IF m \in rotation'.done THEN rotation'.new
                                                 ELSE configKey')
      BY DEF SecretsSurviveRotation
    <2> QED
      BY <1>1, <1>4, <1>5, IdleRotation DEF VaultInv, SecretsSurviveRotation
  <1>7. RowsAsRead' /\ NoneLeftOut'
    BY <1>1, IdleRotation DEF RowsAsRead, NoneLeftOut
  <1> QED
    BY <1>3, <1>6, <1>7 DEF VaultInv

LEMMA InitVault ==
  ASSUME VaultInit PROVE VaultInv
  <1>1. /\ vault = [n \in Secrets |-> NoRow] /\ meant = [n \in Secrets |-> NoValue]
        /\ configKey = 1 /\ serverKey = 1 /\ rotation = NotRotating /\ rotations = 0
    BY DEF VaultInit
  <1>2. VaultTypes
    BY <1>1, IdleRotation DEF VaultTypes, RotationType
  <1>3. \A n \in Secrets : ~Present(n) /\ meant[n] = NoValue
    BY <1>1 DEF Present
  <1> QED
    BY <1>1, <1>2, <1>3, IdleRotation
    DEF VaultInv, SecretsSurviveRotation, RowsAsRead, NoneLeftOut

LEMMA VaultNextInv ==
  ASSUME VaultInv, [VaultNext]_vaultVars PROVE VaultInv'
  <1>1. CASE \E n \in Secrets, v \in Plaintexts, key \in {serverKey, configKey} :
               SetSecret(n, v, key)
    BY <1>1, SetSecretKeeps
  <1>2. CASE \E n \in Secrets : DeleteSecret(n)
    BY <1>2, DeleteSecretKeeps
  <1>3. CASE ServerTakesKey \/ UNCHANGED vaultVars
    <2>1. /\ UNCHANGED <<vault, configKey, rotation, rotations, meant, exposed>>
          /\ serverKey' \in {serverKey, configKey}
      BY <1>3 DEF ServerTakesKey, vaultVars
    <2> QED
      BY <2>1 DEF VaultInv, VaultTypes, SecretsSurviveRotation, RowsAsRead,
         NoneLeftOut, Present
  <1>4. CASE BeginRotation
    BY <1>4, BeginRotationKeeps
  <1>5. CASE RotateRow
    BY <1>5, RotateRowKeeps
  <1>6. CASE SaveKey \/ RotationDies
    BY <1>6, RotationEnds
  <1> QED
    BY <1>1, <1>2, <1>3, <1>4, <1>5, <1>6 DEF VaultNext

(* No rotation of the master key loses a secret, for any number of them    *)
(* that complete, die or run beside changes: every secret not touched      *)
(* beside one decrypts, under the key on file or the one about to be, to   *)
(* the value last set.                                                     *)
THEOREM SecretsAreKept == VaultSpec => []SecretsSurviveRotation
  <1>1. VaultInv => SecretsSurviveRotation
    BY DEF VaultInv
  <1>2. VaultInit => VaultInv
    BY InitVault
  <1>3. VaultInv /\ [VaultNext]_vaultVars => VaultInv'
    BY VaultNextInv
  <1> QED
    BY <1>1, <1>2, <1>3, PTL DEF VaultSpec
-----------------------------------------------------------------------------
(* Vault: a key in use was made, and the newest is that of the rotation    *)
(* under way.                                                              *)
KeysMade == 1..rotations + 1
VaultTallies ==
  /\ \A n \in Secrets : vault[n].key \in KeysMade \cup {0}
  /\ configKey \in KeysMade /\ serverKey \in KeysMade
  /\ rotation.stage = "update" => rotation.new = rotations + 1
  /\ exposed \in SUBSET Secrets

LEMMA VaultTalliesInit == ASSUME VaultInit PROVE VaultTallies
  BY DEF VaultInit, VaultTallies, KeysMade, NoRow, NotRotating

(* What a rotation treats of a row is a row under its own key.             *)
LEMMA TreatsRight ==
  ASSUME VaultTypes, VaultTallies, NEW r \in rotation.rows, TreatRow(r)
  PROVE  /\ \A n \in Secrets : vault'[n] = vault[n] \/ vault'[n].key = rotation.new
         /\ rotation'.new = rotation.new /\ rotation'.stage = rotation.stage
  <1>1. rotation \in RotationType
    BY DEF VaultTypes, RotationType
  <1> QED
    BY <1>1 DEF TreatRow, RotationType

LEMMA VaultTalliesKept ==
  ASSUME VaultInv, VaultTallies, [VaultNext]_vaultVars
  PROVE  VaultTallies'
  <1>0. VaultTypes /\ rotations \in Nat /\ DOMAIN vault = Secrets
    BY DEF VaultInv, VaultTypes
  <1>1. CASE \E n \in Secrets, v \in Plaintexts, key \in {serverKey, configKey} :
               SetSecret(n, v, key)
    <2>1. PICK n \in Secrets, v \in Plaintexts, key \in {serverKey, configKey} : SetSecret(n, v, key)
      BY <1>1
    <2>2. UNCHANGED <<configKey, serverKey, rotation, rotations>>
      BY <2>1 DEF SetSecret
    <2>3. \A m \in Secrets : vault'[m].key \in {key, vault[m].key}
      BY <1>0, <2>1 DEF SetSecret
    <2>4. key \in KeysMade
      BY <2>1 DEF VaultTallies
    <2>5. exposed' \in SUBSET Secrets
      BY <2>1 DEF SetSecret, VaultTallies
    <2> QED
      BY <2>2, <2>3, <2>4, <2>5 DEF VaultTallies, KeysMade
  <1>2. CASE \E n \in Secrets : DeleteSecret(n)
    <2>1. PICK n \in Secrets : DeleteSecret(n)
      BY <1>2
    <2>2. UNCHANGED <<configKey, serverKey, rotation, rotations, exposed>>
      BY <2>1 DEF DeleteSecret
    <2>3. \A m \in Secrets : vault'[m].key \in {0, vault[m].key}
      BY <1>0, <2>1 DEF DeleteSecret, NoRow
    <2> QED
      BY <2>2, <2>3 DEF VaultTallies, KeysMade
  <1>3. CASE ServerTakesKey \/ UNCHANGED vaultVars
    <2>1. /\ UNCHANGED <<vault, configKey, rotation, rotations, exposed>>
          /\ serverKey' \in {serverKey, configKey}
      BY <1>3 DEF ServerTakesKey, vaultVars
    <2> QED
      BY <2>1 DEF VaultTallies, KeysMade
  <1>4. CASE BeginRotation
    <2>1. /\ rotations' = rotations + 1 /\ rotation'.new = rotations + 2
          /\ UNCHANGED <<vault, configKey, serverKey, exposed>>
      BY <1>4 DEF BeginRotation
    <2>2. KeysMade \subseteq KeysMade' /\ rotation'.new = rotations' + 1
      BY <1>0, <2>1 DEF KeysMade
    <2> QED
      BY <2>1, <2>2 DEF VaultTallies
  <1>5. CASE RotateRow
    <2>1. rotation.stage = "update" /\ rotation.new = rotations + 1
      BY <1>5 DEF RotateRow, VaultTallies
    <2>2. rotation.new \in KeysMade
      BY <1>0, <2>1 DEF KeysMade
    <2>3. UNCHANGED <<configKey, serverKey, rotations, exposed>>
      BY <1>5 DEF RotateRow
    <2>4. PICK r \in rotation.rows : TreatRow(r)
      BY <1>5 DEF RotateRow
    <2>5. /\ \A n \in Secrets : vault'[n] = vault[n] \/ vault'[n].key = rotation.new
          /\ rotation'.new = rotation.new
      BY <1>0, <2>4, TreatsRight
    <2> QED
      BY <2>1, <2>2, <2>3, <2>5 DEF VaultTallies, KeysMade
  <1>6. CASE SaveKey
    <2>1. rotation.stage = "update" /\ configKey' = rotation.new /\ rotation' = NotRotating
      BY <1>6 DEF SaveKey, SavesNow
    <2>2. configKey' \in KeysMade
      BY <1>0, <2>1 DEF VaultTallies, KeysMade
    <2>3. UNCHANGED <<vault, serverKey, rotations, exposed>>
      BY <1>6 DEF SaveKey
    <2> QED
      BY <2>1, <2>2, <2>3 DEF VaultTallies, KeysMade, NotRotating
  <1>7. CASE RotationDies
    <2>1. rotation' = NotRotating /\ exposed' = exposed \cup rotation.done
          /\ UNCHANGED <<vault, configKey, serverKey, rotations>>
      BY <1>7 DEF RotationDies
    <2>2. exposed' \in SUBSET Secrets
      BY <1>0, <2>1, RowFacts DEF VaultTallies
    <2> QED
      BY <2>1, <2>2 DEF VaultTallies, KeysMade, NotRotating
  <1> QED
    BY <1>1, <1>2, <1>3, <1>4, <1>5, <1>6, <1>7 DEF VaultNext

LEMMA VaultTyped == ASSUME VaultInv, VaultTallies PROVE VaultTypeOK
  <1>1. VaultTypes
    BY DEF VaultInv
  <1>2. \A n \in Secrets : vault[n].value \in Plaintexts \cup {NoValue}
    BY <1>1 DEF VaultTypes, Kept, NoRow
  <1>3. KeysMade \cup {0} \subseteq 0..(rotations + 1)
    BY <1>1 DEF VaultTypes, KeysMade
  <1>4. rotation.stage \in {"idle", "update"}
    BY <1>1 DEF VaultTypes
  <1> QED
    BY <1>1, <1>2, <1>3, <1>4 DEF VaultTypes, VaultTallies, VaultTypeOK, KeysMade

-----------------------------------------------------------------------------
(* Migration.  A row is told by its id, and ids are the first numbers; a   *)
(* migration under way is at one of the tables.                            *)
VectorRow == [id : Nat, table : Tables, vector : Dims \cup {Empty}]
MigrationType == [stage : {"idle", "alter", "select", "embed"}, target : Dims \cup {Empty},
                  table : Nat, todo : SUBSET Nat]

RowsNumbered ==
  /\ vectors \subseteq VectorRow /\ IsFiniteSet(vectors)
  /\ \A r \in vectors : r.id <= Cardinality(vectors)
  /\ \A r, s \in vectors : r.id = s.id => r = s

MigrationTypes ==
  /\ column \in [Tables -> Dims] /\ mode \in Dims /\ serverMode \in Dims
  /\ killed \in BOOLEAN /\ migration \in MigrationType
  /\ migration.stage = "idle" => migration = NoMigration
  /\ migration.stage # "idle" => migration.table \in 1..Len(Vectored) /\ migration.target \in Dims

(* The tables a migration is through with are of its dimension and whole;  *)
(* the one it is at is whole but for the rows it has still to embed.  With *)
(* none under way, and none ever killed, all of them are.                  *)
Behind(i) == column[Vectored[i]] = migration.target

HalfDone ==
  migration.stage # "idle" =>
    /\ \A i \in 1..(migration.table - 1) :
         /\ Behind(i)
         /\ Vectored[i] # ThisTable \/ migration.stage = "alter" => Whole(Vectored[i])
    /\ migration.stage \in {"select", "embed"} => column[ThisTable] = migration.target
    /\ migration.stage = "embed" =>
         \A r \in InTable(ThisTable) : r.vector = migration.target \/ r.id \in migration.todo
    /\ \A id \in migration.todo : \E r \in InTable(ThisTable) : r.id = id
    /\ migration.stage # "embed" => migration.todo = {}

MigrationInv == RowsNumbered /\ MigrationTypes /\ HalfDone /\ EveryRowEmbedded

LEMMA TableNames ==
  ASSUME MigrationBounds
  PROVE  /\ Len(Vectored) \in Nat \ {0} /\ DOMAIN Vectored = 1..Len(Vectored)
         /\ \A i \in 1..Len(Vectored) : Vectored[i] \in Tables
         /\ \A t \in Tables : \E i \in 1..Len(Vectored) : Vectored[i] = t
  BY DEF MigrationBounds, Tables

LEMMA IdleMigration ==
  /\ NoMigration \in MigrationType /\ NoMigration.stage = "idle" /\ NoMigration.todo = {}
  BY DEF NoMigration, MigrationType

LEMMA StageOrder == After("alter") = "select" /\ After("select") = "embed" /\ Stages[1] = "alter"
  <1>1. /\ Stages[1] = "alter" /\ Stages[2] = "select" /\ Stages[3] = "embed"
    BY DEF Stages
  <1>2. (CHOOSE i \in 1..2 : Stages[i] = "alter") = 1
    BY <1>1
  <1>3. (CHOOSE i \in 1..2 : Stages[i] = "select") = 2
    BY <1>1
  <1> QED
    BY <1>1, <1>2, <1>3 DEF After

LEMMA MigrationInitInv == ASSUME MigrationInit PROVE MigrationInv
  <1>1. PICK d \in Dims : column = [t \in Tables |-> d] /\ mode = d /\ serverMode = d
    BY DEF MigrationInit
  <1>2. vectors = {} /\ migration = NoMigration /\ killed = FALSE
    BY DEF MigrationInit
  <1>3. RowsNumbered
    BY <1>2, FS_EmptySet DEF RowsNumbered
  <1>4. MigrationTypes
    BY <1>1, <1>2, IdleMigration DEF MigrationTypes
  <1> QED
    BY <1>1, <1>2, <1>3, <1>4, IdleMigration
       DEF MigrationInv, HalfDone, EveryRowEmbedded, Whole, InTable

(* Rows that are rewritten keep their ids.                                 *)
LEMMA Rewritten ==
  ASSUME RowsNumbered, NEW f, f \in [vectors -> VectorRow],
         \A r \in vectors : f[r].id = r.id, vectors' = {f[r] : r \in vectors}
  PROVE  RowsNumbered'
  <1>1. IsFiniteSet(vectors) /\ \A r, s \in vectors : r.id = s.id => r = s
    BY DEF RowsNumbered
  <1>2. f \in [vectors -> vectors']
    <2>1. \A r \in vectors : f[r] \in vectors'
      OBVIOUS
    <2> HIDE DEF VectorRow
    <2> QED
      BY <2>1
  <1>3. f \in Surjection(vectors, vectors')
    BY <1>2 DEF Surjection
  <1>4. f \in Injection(vectors, vectors')
    <2>1. ASSUME NEW a \in vectors, NEW b \in vectors, f[a] = f[b] PROVE a = b
      <3>1. a.id = f[a].id /\ b.id = f[b].id
        OBVIOUS
      <3>2. a.id = b.id
        BY <2>1, <3>1
      <3> QED
        BY <1>1, <3>2
    <2> HIDE DEF VectorRow
    <2> QED
      BY <1>2, <2>1 DEF Injection, IsInjective
  <1>5. IsFiniteSet(vectors') /\ Cardinality(vectors') = Cardinality(vectors)
    BY <1>1, <1>3, <1>4, FS_Surjection
  <1>6. vectors' \subseteq VectorRow
    OBVIOUS
  <1>7. \A r \in vectors' : r.id <= Cardinality(vectors')
    BY <1>5 DEF RowsNumbered
  <1>8. \A r, s \in vectors' : r.id = s.id => r = s
    BY <1>1
  <1> QED
    BY <1>5, <1>6, <1>7, <1>8 DEF RowsNumbered

LEMMA ServerWritesKeeps ==
  ASSUME MigrationBounds, MigrationInv, NEW t \in Tables, ServerWrites(t) PROVE MigrationInv'
  <1>1. PICK w : w = [id |-> Cardinality(vectors) + 1, table |-> t, vector |-> serverMode]
    OBVIOUS
  <1>2. /\ vectors' = vectors \cup {w} /\ column[t] = serverMode
        /\ UNCHANGED <<column, mode, serverMode, migration, killed>>
        /\ RowsNumbered /\ MigrationTypes /\ HalfDone /\ EveryRowEmbedded
    BY <1>1 DEF ServerWrites, MigrationInv
  <1>3. Cardinality(vectors) \in Nat /\ IsFiniteSet(vectors) /\ vectors \subseteq VectorRow
    BY <1>2, FS_CardinalityType DEF RowsNumbered
  <1>4. /\ w \in VectorRow /\ w.id = Cardinality(vectors) + 1 /\ w.table = t
        /\ w.vector = column[t]
    BY <1>1, <1>2, <1>3 DEF VectorRow, MigrationTypes
  <1>5. \A r \in vectors : r.id # w.id
    BY <1>2, <1>3, <1>4 DEF RowsNumbered, VectorRow
  <1>6. w \notin vectors
    BY <1>5
  <1>7. IsFiniteSet(vectors') /\ Cardinality(vectors') = Cardinality(vectors) + 1
    BY <1>2, <1>3, <1>6, FS_AddElement
  <1>8. RowsNumbered'
    <2>1. vectors' \subseteq VectorRow
      BY <1>2, <1>3, <1>4
    <2>2. \A r \in vectors' : r.id <= Cardinality(vectors')
      BY <1>2, <1>3, <1>4, <1>7 DEF RowsNumbered, VectorRow
    <2>3. \A r, s \in vectors' : r.id = s.id => r = s
      BY <1>2, <1>5 DEF RowsNumbered
    <2> QED
      BY <1>7, <2>1, <2>2, <2>3 DEF RowsNumbered
  <1>9. MigrationTypes'
    BY <1>2 DEF MigrationTypes
  <1>10. \A x : InTable(x)' = InTable(x) \cup (IF x = t THEN {w} ELSE {})
    BY <1>2, <1>4 DEF InTable
  <1>11. \A x : Whole(x) => Whole(x)'
    BY <1>2, <1>4, <1>10 DEF Whole
  <1>12. HalfDone'
    <2>1. ThisTable' = ThisTable /\ \A i : Behind(i)' <=> Behind(i)
      BY <1>2 DEF ThisTable, Behind
    <2>2. migration.stage = "embed" =>
            \A r \in InTable(ThisTable)' : r.vector = migration.target \/ r.id \in migration.todo
      BY <1>2, <1>4, <1>10, <2>1 DEF HalfDone
    <2>3. migration.stage # "idle" =>
            \A id \in migration.todo : \E r \in InTable(ThisTable)' : r.id = id
      <3>1. InTable(ThisTable) \subseteq InTable(ThisTable)'
        BY <1>2, <2>1 DEF InTable
      <3> QED
        BY <1>2, <3>1 DEF HalfDone
    <2> HIDE DEF ThisTable
    <2> QED
      BY <1>2, <1>11, <2>1, <2>2, <2>3 DEF HalfDone
  <1>13. EveryRowEmbedded'
    BY <1>2, <1>11 DEF EveryRowEmbedded
  <1> QED
    BY <1>8, <1>9, <1>12, <1>13 DEF MigrationInv

LEMMA ServerTakesModeKeeps == ASSUME MigrationInv, ServerTakesMode PROVE MigrationInv'
  <1>1. /\ serverMode' = mode /\ UNCHANGED <<column, vectors, mode, migration, killed>>
        /\ RowsNumbered /\ MigrationTypes /\ HalfDone /\ EveryRowEmbedded
    BY DEF ServerTakesMode, MigrationInv
  <1>2. RowsNumbered' /\ MigrationTypes'
    BY <1>1 DEF RowsNumbered, MigrationTypes
  <1>3. HalfDone' /\ EveryRowEmbedded'
    BY <1>1 DEF HalfDone, EveryRowEmbedded, Behind, Whole, InTable, ThisTable
  <1> QED
    BY <1>2, <1>3 DEF MigrationInv

LEMMA BeginMigrationKeeps ==
  ASSUME MigrationBounds, MigrationInv, NEW d \in Dims, BeginMigration(d) PROVE MigrationInv'
  <1>1. PICK m : m = [stage |-> Stages[1], target |-> d, table |-> 1, todo |-> {}]
    OBVIOUS
  <1>2. /\ migration = NoMigration /\ migration' \in {NoMigration, m}
        /\ UNCHANGED <<column, vectors, mode, serverMode, killed>>
        /\ RowsNumbered /\ MigrationTypes /\ EveryRowEmbedded
    BY <1>1 DEF BeginMigration, MigrationInv
  <1>3. /\ m \in MigrationType /\ m.stage = "alter" /\ m.table = 1 /\ m.todo = {} /\ m.target = d
        /\ m # NoMigration
    BY <1>1, StageOrder, IdleMigration DEF MigrationType
  <1>4. RowsNumbered'
    BY <1>2 DEF RowsNumbered
  <1>5. MigrationTypes'
    BY <1>2, <1>3, TableNames, IdleMigration DEF MigrationTypes
  <1>6. HalfDone'
    BY <1>2, <1>3, IdleMigration DEF HalfDone
  <1>7. EveryRowEmbedded'
    BY <1>2, <1>3 DEF EveryRowEmbedded, Whole, InTable
  <1> QED
    BY <1>4, <1>5, <1>6, <1>7 DEF MigrationInv

LEMMA AlterColumnKeeps ==
  ASSUME MigrationBounds, MigrationInv, AlterColumn PROVE MigrationInv'
  <1>1. PICK t : t = ThisTable
    OBVIOUS
  <1>2. PICK m : m = [migration EXCEPT !.stage = "select"]
    OBVIOUS
  <1>3. PICK f : f = [r \in vectors |-> IF r.table = t THEN [r EXCEPT !.vector = Empty] ELSE r]
    OBVIOUS
  <1>4. /\ migration.stage = "alter" /\ column' = [column EXCEPT ![t] = migration.target]
        /\ migration' = m /\ UNCHANGED <<mode, serverMode, killed>>
        /\ RowsNumbered /\ MigrationTypes /\ HalfDone
    BY <1>1, <1>2, StageOrder DEF AlterColumn, MigrationInv
  <1>5. vectors' = {f[r] : r \in vectors}
    BY <1>1, <1>3 DEF AlterColumn
  <1>6. /\ f \in [vectors -> VectorRow]
        /\ \A r \in vectors : f[r].id = r.id /\ f[r].table = r.table
        /\ \A r \in vectors : r.table # t => f[r] = r
    BY SMTT(30), <1>3, <1>4 DEF RowsNumbered, VectorRow
  <1>7. /\ m \in MigrationType /\ m.stage = "select" /\ m.target = migration.target
        /\ m.table = migration.table /\ m.todo = migration.todo
    BY <1>2, <1>4 DEF MigrationTypes, MigrationType
  <1>8. t \in Tables /\ t = Vectored[migration.table] /\ migration.target \in Dims
    BY <1>1, <1>4, TableNames DEF ThisTable, MigrationTypes
  <1>9. RowsNumbered'
    BY <1>4, <1>5, <1>6, Rewritten
  <1>10. MigrationTypes'
    BY <1>4, <1>7, <1>8 DEF MigrationTypes
  <1>11. ThisTable' = t
    BY <1>4, <1>7, <1>8 DEF ThisTable
  <1>12. \A x : x # t => InTable(x)' = InTable(x)
    BY <1>5, <1>6 DEF InTable
  <1>13. column'[t] = migration.target /\ \A x \in Tables : x # t => column'[x] = column[x]
    BY <1>4, <1>8 DEF MigrationTypes
  <1>14. \A x \in Tables : x # t => (Whole(x)' <=> Whole(x))
    BY <1>12, <1>13 DEF Whole
  <1>15. migration.table \in 1..Len(Vectored) /\ Len(Vectored) \in Nat
    BY <1>4, TableNames DEF MigrationTypes
  <1>16. ASSUME NEW i \in 1..(migration.table - 1)
         PROVE  Behind(i)' /\ (Vectored[i] # t => Whole(Vectored[i])')
    <2>1. Vectored[i] \in Tables
      BY <1>15, TableNames
    <2>2. Behind(i) /\ Whole(Vectored[i])
      BY <1>4 DEF HalfDone
    <2> QED
      BY <1>4, <1>7, <1>13, <1>14, <2>1, <2>2 DEF Behind
  <1>17. HalfDone'
    <2>1. m.todo = {}
      BY <1>4, <1>7 DEF HalfDone
    <2> HIDE DEF ThisTable
    <2> QED
      BY <1>4, <1>7, <1>11, <1>13, <1>16, <2>1 DEF HalfDone
  <1>18. EveryRowEmbedded'
    BY <1>4, <1>7, IdleMigration DEF EveryRowEmbedded
  <1> QED
    BY <1>9, <1>10, <1>17, <1>18 DEF MigrationInv

LEMMA SelectRowsKeeps ==
  ASSUME MigrationBounds, MigrationInv, SelectRows PROVE MigrationInv'
  <1>1. PICK t : t = ThisTable
    OBVIOUS
  <1>2. PICK ids : ids = {r.id : r \in InTable(t)}
    OBVIOUS
  <1>3. PICK m : m = [migration EXCEPT !.stage = "embed", !.todo = ids]
    OBVIOUS
  <1>4. /\ migration.stage = "select" /\ migration' = m
        /\ UNCHANGED <<column, vectors, mode, serverMode, killed>>
        /\ RowsNumbered /\ MigrationTypes /\ HalfDone
    BY <1>1, <1>2, <1>3, StageOrder DEF SelectRows, MigrationInv
  <1>5. ids \subseteq Nat
    BY <1>2, <1>4 DEF InTable, RowsNumbered, VectorRow
  <1>6. /\ m \in MigrationType /\ m.stage = "embed" /\ m.target = migration.target
        /\ m.table = migration.table /\ m.todo = ids
    BY <1>3, <1>4, <1>5 DEF MigrationTypes, MigrationType
  <1>7. RowsNumbered'
    BY <1>4 DEF RowsNumbered
  <1>8. MigrationTypes'
    BY <1>4, <1>6 DEF MigrationTypes
  <1>9. ThisTable' = t
    BY <1>1, <1>4, <1>6 DEF ThisTable
  <1>10. InTable(t)' = InTable(t) /\ \A x : Whole(x)' <=> Whole(x)
    BY <1>4 DEF InTable, Whole
  <1>11. \A i : Behind(i)' <=> Behind(i)
    BY <1>4, <1>6 DEF Behind
  <1>12. HalfDone'
    <2>1. /\ \A r \in InTable(t)' : r.id \in m.todo
          /\ \A id \in m.todo : \E r \in InTable(t)' : r.id = id
      BY <1>2, <1>6, <1>10
    <2>2. /\ column'[t] = m.target
          /\ \A i \in 1..(m.table - 1) : Behind(i)' /\ (Vectored[i] # t => Whole(Vectored[i])')
      BY <1>1, <1>4, <1>6, <1>10, <1>11 DEF HalfDone
    <2> HIDE DEF ThisTable
    <2> QED
      BY <1>4, <1>6, <1>9, <2>1, <2>2 DEF HalfDone
  <1>13. EveryRowEmbedded'
    BY <1>4, <1>6, IdleMigration DEF EveryRowEmbedded
  <1> QED
    BY <1>7, <1>8, <1>12, <1>13 DEF MigrationInv

LEMMA EmbedRowKeeps ==
  ASSUME MigrationBounds, MigrationInv, EmbedRow PROVE MigrationInv'
  <1>1. PICK t : t = ThisTable
    OBVIOUS
  <1>2. PICK n \in migration.todo :
          /\ vectors' = {IF r.id = n THEN [r EXCEPT !.vector = migration.target] ELSE r
                         : r \in vectors}
          /\ migration' = [migration EXCEPT !.todo = @ \ {n}]
    BY DEF EmbedRow
  <1>3. PICK f : f = [r \in vectors |-> IF r.id = n THEN [r EXCEPT !.vector = migration.target]
                                        ELSE r]
    OBVIOUS
  <1>4. PICK m : m = [migration EXCEPT !.todo = migration.todo \ {n}]
    OBVIOUS
  <1>5. /\ migration.stage = "embed" /\ migration' = m
        /\ UNCHANGED <<column, mode, serverMode, killed>>
        /\ RowsNumbered /\ MigrationTypes /\ HalfDone
    BY <1>2, <1>4 DEF EmbedRow, MigrationInv
  <1>6. vectors' = {f[r] : r \in vectors}
    BY <1>2, <1>3
  <1>7. migration \in MigrationType /\ migration.target \in Dims
        /\ migration.table \in 1..Len(Vectored)
    BY <1>5 DEF MigrationTypes
  <1>8. /\ f \in [vectors -> VectorRow]
        /\ \A r \in vectors : f[r].id = r.id /\ f[r].table = r.table
        /\ \A r \in vectors : r.id # n => f[r] = r
        /\ \A r \in vectors : r.id = n => f[r].vector = migration.target
    BY SMTT(30), <1>3, <1>5, <1>7 DEF RowsNumbered, VectorRow
  <1>9. /\ m \in MigrationType /\ m.stage = "embed" /\ m.target = migration.target
        /\ m.table = migration.table /\ m.todo = migration.todo \ {n}
    BY <1>4, <1>5, <1>7 DEF MigrationType
  <1>10. RowsNumbered'
    BY <1>5, <1>6, <1>8, Rewritten
  <1>11. MigrationTypes'
    BY <1>5, <1>7, <1>9 DEF MigrationTypes
  <1>12. ThisTable' = t
    BY <1>1, <1>5, <1>9 DEF ThisTable
  <1>13. \A r \in vectors : r.id = n => r.table = t
    <2>1. \E r \in vectors : r.id = n /\ r.table = t
      BY <1>1, <1>2, <1>5 DEF HalfDone, InTable
    <2> QED
      BY <1>5, <2>1 DEF RowsNumbered
  <1>14. \A x : x # t => InTable(x)' = InTable(x)
    BY <1>6, <1>8, <1>13 DEF InTable
  <1>15. \A x : x # t => (Whole(x)' <=> Whole(x))
    BY <1>5, <1>14 DEF Whole
  <1>16. \A i : Behind(i)' <=> Behind(i)
    BY <1>5, <1>9 DEF Behind
  <1>17. \A r \in InTable(t)' : r.vector = migration.target \/ r.id \in m.todo
    <2>1. \A r \in InTable(t) : r.vector = migration.target \/ r.id \in migration.todo
      BY <1>1, <1>5 DEF HalfDone
    <2>2. ASSUME NEW r \in vectors, f[r].table = t
          PROVE  f[r].vector = migration.target \/ f[r].id \in m.todo
      BY <1>8, <1>9, <2>1, <2>2 DEF InTable
    <2> QED
      BY <1>6, <2>2 DEF InTable
  <1>18. \A id \in m.todo : \E r \in InTable(t)' : r.id = id
    <2>1. ASSUME NEW id \in m.todo PROVE \E r \in InTable(t)' : r.id = id
      <3>1. PICK r \in vectors : r.table = t /\ r.id = id
        BY <1>1, <1>5, <1>9, <2>1 DEF HalfDone, InTable
      <3>2. f[r] \in vectors' /\ f[r].table = t /\ f[r].id = id
        BY <1>6, <1>8, <3>1
      <3> QED
        BY <3>2 DEF InTable
    <2> QED
      BY <2>1
  <1>19. HalfDone'
    <2>1. /\ column'[t] = m.target
          /\ \A i \in 1..(m.table - 1) : Behind(i)' /\ (Vectored[i] # t => Whole(Vectored[i])')
      BY <1>1, <1>5, <1>9, <1>15, <1>16 DEF HalfDone
    <2> HIDE DEF ThisTable
    <2> QED
      BY <1>5, <1>9, <1>12, <1>17, <1>18, <2>1 DEF HalfDone
  <1>20. EveryRowEmbedded'
    BY <1>5, <1>9, IdleMigration DEF EveryRowEmbedded
  <1> QED
    BY <1>10, <1>11, <1>19, <1>20 DEF MigrationInv

(* With its last row embedded a table is of its dimension and whole, like  *)
(* those before it.                                                        *)
LEMMA TableDone ==
  ASSUME MigrationBounds, MigrationInv, migration.stage = "embed", migration.todo = {}
  PROVE  \A i \in 1..migration.table : Behind(i) /\ Whole(Vectored[i])
  <1>1. HalfDone /\ migration.table \in Nat /\ ThisTable = Vectored[migration.table]
    BY DEF MigrationInv, MigrationTypes, MigrationType, ThisTable
  <1>2. column[ThisTable] = migration.target /\ Whole(ThisTable)
    BY <1>1 DEF HalfDone, Whole
  <1>3. ASSUME NEW i \in 1..migration.table PROVE Behind(i) /\ Whole(Vectored[i])
    <2>1. CASE i = migration.table
      BY <1>1, <1>2, <2>1 DEF Behind
    <2>2. CASE i # migration.table
      <3>1. i \in 1..(migration.table - 1)
        BY <1>1, <2>2
      <3>2. Behind(i) /\ (Vectored[i] # ThisTable => Whole(Vectored[i]))
        BY <1>1, <3>1 DEF HalfDone
      <3> QED
        BY <1>2, <3>2
    <2> QED
      BY <2>1, <2>2
  <1> QED
    BY <1>3

LEMMA NextTableKeeps ==
  ASSUME MigrationBounds, MigrationInv, NextTable PROVE MigrationInv'
  <1>1. PICK u : u = [migration EXCEPT !.stage = "alter"]
    OBVIOUS
  <1>1a. PICK m : m = [u EXCEPT !.table = u.table + 1]
    OBVIOUS
  <1>2. /\ migration.stage = "embed" /\ migration.todo = {} /\ migration.table < Len(Vectored)
        /\ migration' = m /\ UNCHANGED <<column, vectors, mode, serverMode, killed>>
        /\ RowsNumbered /\ MigrationTypes
    <2>1. migration \in MigrationType
      BY DEF MigrationInv, MigrationTypes
    <2>2. u.table = migration.table
      BY <1>1, <2>1 DEF MigrationType
    <2>3. m = [migration EXCEPT !.stage = "alter", !.table = migration.table + 1]
      BY <1>1, <1>1a, <2>1, <2>2 DEF MigrationType
    <2> QED
      BY <2>3, StageOrder DEF NextTable, MigrationInv
  <1>3. migration \in MigrationType /\ migration.target \in Dims
        /\ migration.table \in 1..Len(Vectored) /\ Len(Vectored) \in Nat
    BY <1>2, TableNames DEF MigrationTypes
  <1>4. /\ m \in MigrationType /\ m.stage = "alter" /\ m.target = migration.target
        /\ m.table = migration.table + 1 /\ m.todo = {}
    <2>1. /\ u \in MigrationType /\ u.stage = "alter" /\ u.target = migration.target
          /\ u.table = migration.table /\ u.todo = {}
      BY <1>1, <1>2, <1>3 DEF MigrationType
    <2> QED
      BY <1>1a, <2>1 DEF MigrationType
  <1>5. RowsNumbered'
    BY <1>2 DEF RowsNumbered
  <1>6. MigrationTypes'
    <2>1. m.table \in 1..Len(Vectored)
      BY <1>2, <1>3, <1>4
    <2> QED
      BY <1>2, <1>3, <1>4, <2>1 DEF MigrationTypes
  <1>7. \A i : /\ Behind(i)' <=> Behind(i)
               /\ Whole(Vectored[i])' <=> Whole(Vectored[i])
    BY <1>2, <1>4 DEF Behind, Whole, InTable
  <1>8. HalfDone'
    <2>1. \A i \in 1..(m.table - 1) : Behind(i)' /\ Whole(Vectored[i])'
      BY <1>2, <1>3, <1>4, <1>7, TableDone
    <2> QED
      BY <1>2, <1>4, <2>1 DEF HalfDone
  <1>9. EveryRowEmbedded'
    BY <1>2, <1>4, IdleMigration DEF EveryRowEmbedded
  <1> QED
    BY <1>5, <1>6, <1>8, <1>9 DEF MigrationInv

LEMMA MigrationEndsKeeps ==
  ASSUME MigrationBounds, MigrationInv, MigrationEnds PROVE MigrationInv'
  <1>1. /\ migration.stage = "embed" /\ migration.todo = {} /\ migration.table = Len(Vectored)
        /\ mode' = migration.target /\ migration' = NoMigration
        /\ UNCHANGED <<column, vectors, serverMode, killed>> /\ RowsNumbered /\ MigrationTypes
    BY DEF MigrationEnds, MigrationInv
  <1>2. RowsNumbered'
    BY <1>1 DEF RowsNumbered
  <1>3. MigrationTypes'
    BY <1>1, IdleMigration DEF MigrationTypes
  <1>4. HalfDone'
    BY <1>1, IdleMigration DEF HalfDone
  <1>5. \A t \in Tables : column[t] = migration.target /\ Whole(t)
    BY <1>1, TableDone, TableNames DEF Behind
  <1>6. EveryRowEmbedded'
    BY <1>1, <1>5 DEF EveryRowEmbedded, Whole, InTable
  <1> QED
    BY <1>2, <1>3, <1>4, <1>6 DEF MigrationInv

LEMMA MigrationDiesKeeps == ASSUME MigrationInv, MigrationDies PROVE MigrationInv'
  <1>1. /\ migration' = NoMigration /\ killed' = TRUE
        /\ UNCHANGED <<column, vectors, mode, serverMode>> /\ RowsNumbered /\ MigrationTypes
    BY DEF MigrationDies, MigrationInv
  <1> QED
    BY <1>1, IdleMigration
       DEF MigrationInv, RowsNumbered, MigrationTypes, HalfDone, EveryRowEmbedded

LEMMA MigrationNextInv ==
  ASSUME MigrationBounds, MigrationInv, [MigrationNext]_migrationVars PROVE MigrationInv'
  <1>1. CASE \E t \in Tables : ServerWrites(t)
    BY <1>1, ServerWritesKeeps
  <1>2. CASE \E d \in Dims : BeginMigration(d)
    BY <1>2, BeginMigrationKeeps
  <1>3. CASE ServerTakesMode \/ AlterColumn \/ SelectRows \/ EmbedRow
    BY <1>3, ServerTakesModeKeeps, AlterColumnKeeps, SelectRowsKeeps, EmbedRowKeeps
  <1>4. CASE NextTable \/ MigrationEnds \/ MigrationDies
    BY <1>4, NextTableKeeps, MigrationEndsKeeps, MigrationDiesKeeps
  <1>5. CASE UNCHANGED migrationVars
    BY <1>5 DEF migrationVars, MigrationInv, RowsNumbered, MigrationTypes, HalfDone,
                EveryRowEmbedded, Behind, Whole, InTable, ThisTable
  <1> QED
    BY <1>1, <1>2, <1>3, <1>4, <1>5 DEF MigrationNext

(* With no migration under way, and none ever killed, every table is of    *)
(* the configured dimension and every row has its vector, though a server  *)
(* was writing all the while.                                              *)
THEOREM MigrationLosesNoVector == MigrationSpec => []EveryRowEmbedded
  <1>1. MigrationInit => MigrationInv
    BY MigrationInitInv
  <1>2. MigrationInv /\ [MigrationNext]_migrationVars => MigrationInv'
    BY MigrationNextInv, MigrationBounds
  <1>3. MigrationInv => EveryRowEmbedded
    BY DEF MigrationInv
  <1> QED
    BY <1>1, <1>2, <1>3, PTL DEF MigrationSpec

-----------------------------------------------------------------------------
(* Migration: a row has no vector, or one of its table's dimension.        *)
VectorFits(r) == r.vector \in {Empty, column[r.table]}
VectorsFit == \A r \in vectors : VectorFits(r)

LEMMA VectorsFitInit == ASSUME MigrationInit PROVE VectorsFit
  BY DEF MigrationInit, VectorsFit

LEMMA VectorsFitAltered ==
  ASSUME MigrationBounds, MigrationInv, VectorsFit, AlterColumn PROVE VectorsFit'
  <1>1. PICK t : t = ThisTable
    OBVIOUS
  <1>2. /\ MigrationTypes /\ RowsNumbered /\ migration.stage = "alter"
        /\ column' = [column EXCEPT ![t] = migration.target]
        /\ vectors' = {IF r.table = t THEN [r EXCEPT !.vector = Empty] ELSE r : r \in vectors}
    BY <1>1 DEF AlterColumn, MigrationInv
  <1>3. t \in Tables
    BY <1>1, <1>2, TableNames DEF ThisTable, MigrationTypes
  <1>4. column'[t] = migration.target /\ \A x \in Tables : x # t => column'[x] = column[x]
    BY <1>2, <1>3 DEF MigrationTypes
  <1>5. ASSUME NEW r \in vectors,
               NEW s, s = (IF r.table = t THEN [r EXCEPT !.vector = Empty] ELSE r)
        PROVE  s.vector \in {Empty, column'[s.table]}
    <2>1. r \in VectorRow /\ r.vector \in {Empty, column[r.table]}
      BY <1>2, <1>5 DEF RowsNumbered, VectorsFit, VectorFits
    <2>2. CASE r.table = t
      <3>1. s.vector = Empty
        BY <1>5, <2>1, <2>2 DEF VectorRow
      <3> QED
        BY <3>1
    <2>3. CASE r.table # t
      <3>1. s = r /\ r.table \in Tables
        BY <1>5, <2>1, <2>3 DEF VectorRow
      <3> QED
        BY <1>4, <2>1, <2>3, <3>1
    <2> QED
      BY <2>2, <2>3
  <1> QED
    BY <1>2, <1>5 DEF VectorsFit, VectorFits

LEMMA VectorsFitEmbedded ==
  ASSUME MigrationBounds, MigrationInv, VectorsFit, EmbedRow PROVE VectorsFit'
  <1>1. PICK n \in migration.todo :
          vectors' = {IF r.id = n THEN [r EXCEPT !.vector = migration.target] ELSE r
                      : r \in vectors}
    BY DEF EmbedRow
  <1>2. /\ column' = column /\ migration.stage = "embed" /\ RowsNumbered /\ HalfDone
    BY DEF EmbedRow, MigrationInv
  <1>3. column[ThisTable] = migration.target
    BY <1>2 DEF HalfDone
  <1>4. PICK q \in vectors : q.table = ThisTable /\ q.id = n
    BY <1>1, <1>2 DEF HalfDone, InTable
  <1>5. ASSUME NEW r \in vectors,
               NEW s, s = (IF r.id = n THEN [r EXCEPT !.vector = migration.target] ELSE r)
        PROVE  s.vector \in {Empty, column[s.table]}
    <2>1. r \in VectorRow /\ r.vector \in {Empty, column[r.table]}
      BY <1>2, <1>5 DEF RowsNumbered, VectorsFit, VectorFits
    <2>2. CASE r.id = n
      <3>1. r = q
        BY <1>2, <1>4, <1>5, <2>2 DEF RowsNumbered
      <3>2. s.vector = migration.target /\ s.table = r.table
        BY <1>5, <2>1, <2>2 DEF VectorRow
      <3> QED
        BY <1>3, <1>4, <3>1, <3>2
    <2>3. CASE r.id # n
      BY <1>5, <2>1, <2>3
    <2> QED
      BY <2>2, <2>3
  <1> QED
    BY <1>1, <1>2, <1>5 DEF VectorsFit, VectorFits

LEMMA VectorsFitKept ==
  ASSUME MigrationBounds, MigrationInv, VectorsFit, [MigrationNext]_migrationVars
  PROVE  VectorsFit'
  <1>1. CASE \E t \in Tables : ServerWrites(t)
    BY <1>1 DEF ServerWrites, VectorsFit, VectorFits
  <1>2. CASE AlterColumn
    BY <1>2, VectorsFitAltered
  <1>3. CASE EmbedRow
    BY <1>3, VectorsFitEmbedded
  <1>4. CASE UNCHANGED <<column, vectors>>
    BY <1>4 DEF VectorsFit, VectorFits
  <1>5. UNCHANGED <<column, vectors>> \/ (\E t \in Tables : ServerWrites(t)) \/ AlterColumn \/ EmbedRow
    BY DEF MigrationNext, migrationVars, BeginMigration, ServerTakesMode, SelectRows, NextTable,
           MigrationEnds, MigrationDies
  <1> QED
    BY <1>1, <1>2, <1>3, <1>4, <1>5

LEMMA MigrationTyped == ASSUME MigrationInv, VectorsFit PROVE MigrationTypeOK
  <1>1. MigrationTypes /\ RowsNumbered /\ HalfDone
    BY DEF MigrationInv
  <1>2. migration.stage \in {"idle", "alter", "select", "embed"} /\ killed \in BOOLEAN
    BY <1>1 DEF MigrationTypes, MigrationType
  <1>3. \A r \in vectors : r.table \in Tables
    BY <1>1 DEF RowsNumbered, VectorRow
  <1>4. migration.todo \subseteq {r.id : r \in vectors}
    <2>1. CASE migration.stage = "idle"
      BY <1>1, <2>1, IdleMigration DEF MigrationTypes
    <2>2. CASE migration.stage # "idle"
      BY <1>1, <2>2 DEF HalfDone, InTable
    <2> QED
      BY <2>1, <2>2
  <1> QED
    BY <1>1, <1>2, <1>3, <1>4 DEF MigrationTypes, VectorsFit, VectorFits, MigrationTypeOK

-----------------------------------------------------------------------------
(* ConfigFile.  What a command holds is what it loaded, and it has seen no *)
(* more saves than there were.                                             *)
Settings == [key : Nat, auto : BOOLEAN]
CommandSteps == {"idle", "load", "think", "truncate", "fill", "saved", "install"}
Process == [does : Doings \cup {"none"}, at : CommandSteps, holds : Settings, knows : Nat,
            torn : BOOLEAN]

ConfigTypes ==
  /\ config \in [whole : BOOLEAN, key : Nat, auto : BOOLEAN]
  /\ vaultKey \in Nat /\ saved \in Nat /\ wanted \in BOOLEAN /\ rekeys \in Nat
  /\ command \in [Commands -> Process]
  /\ \A c \in Commands : command[c].knows <= saved

(* A command is current when no save came since its load and the load      *)
(* found a whole file; until it fills in its own settings it then holds    *)
(* those of the file.                                                      *)
Loaded(c) == command[c].at \in {"think", "truncate", "fill"}
UpToDate(c) == command[c].knows = saved /\ ~command[c].torn
Saving(c) == command[c].at \in {"truncate", "fill"}
Rekeying(c) == command[c].does = "rekey" /\ Saving(c)

HoldsTheFile ==
  \A c \in Commands : Loaded(c) /\ UpToDate(c) =>
    /\ ~Rekeying(c) => command[c].holds.key = config.key
    /\ command[c].does \notin {"enable", "disable"} \/ command[c].at = "think" =>
         command[c].holds.auto = config.auto
    /\ command[c].does \in {"enable", "disable"} /\ Saving(c) =>
         command[c].holds.auto = (command[c].does = "enable")

(* The file is whole but for a save under way; the vault is under the key  *)
(* of the file, or of a rotation whose save is still to come.  A rotation  *)
(* that is not current any more cannot end but in a mishap.                *)
WholeUnlessSaving ==
  config.whole \/ \E c \in Commands : command[c].at = "fill"

Doomed == \E c \in Commands : Rekeying(c) /\ ~UpToDate(c)

VaultFollows ==
  \/ Doomed
  \/ vaultKey = config.key /\ \A c \in Commands : ~Rekeying(c)
  \/ \E c \in Commands : Rekeying(c) /\ command[c].holds.key = vaultKey

ConfigInv ==
  /\ ConfigTypes
  /\ mishaps = {} =>
       /\ HoldsTheFile /\ WholeUnlessSaving /\ VaultFollows
       /\ config.auto = wanted
       /\ tick.at = "spawn" => tick.wanted

(* One command's record is replaced.                                       *)
LEMMA Replaced ==
  ASSUME ConfigTypes, NEW c \in Commands, NEW p, p \in Process, p.knows <= saved,
         command' = [command EXCEPT ![c] = p]
  PROVE  /\ command' \in [Commands -> Process] /\ command'[c] = p
         /\ \A d \in Commands : d # c => command'[d] = command[d]
         /\ \A d \in Commands : command'[d].knows <= saved
  <1>1. command \in [Commands -> Process] /\ \A d \in Commands : command[d].knows <= saved
    BY DEF ConfigTypes
  <1> HIDE DEF Process
  <1>2. /\ command' \in [Commands -> Process] /\ command'[c] = p
        /\ \A d \in Commands : d # c => command'[d] = command[d]
    BY <1>1
  <1> QED
    BY <1>1, <1>2

LEMMA RestingFacts ==
  /\ Resting \in Process /\ Resting.knows = 0 /\ Resting.at = "idle" /\ Resting.torn = FALSE
  /\ Resting.does = "none" /\ Resting.holds = NoSettings
  BY DEF Resting, Process, NoSettings, Settings, CommandSteps, Doings

LEMMA ConfigInitInv == ConfigInit => ConfigInv
  <1> SUFFICES ASSUME ConfigInit PROVE ConfigInv
    OBVIOUS
  <1>1. /\ config \in [whole : BOOLEAN, key : Nat, auto : BOOLEAN]
        /\ config.whole /\ config.key = 1 /\ config.auto = FALSE
    BY DEF ConfigInit
  <1>2. \A c \in Commands : command[c] = Resting
    BY DEF ConfigInit
  <1>3. ConfigTypes
    <2>1. command \in [Commands -> Process]
      BY RestingFacts DEF ConfigInit
    <2>2. /\ vaultKey \in Nat /\ saved \in Nat /\ wanted \in BOOLEAN /\ rekeys \in Nat
          /\ saved = 0
      BY DEF ConfigInit
    <2> QED
      BY <1>1, <1>2, <2>1, <2>2, RestingFacts DEF ConfigTypes
  <1>4. tick.at = "waiting" /\ vaultKey = 1 /\ wanted = FALSE
    BY DEF ConfigInit, Waiting
  <1> QED
    BY <1>1, <1>2, <1>3, <1>4, RestingFacts DEF ConfigInv, HoldsTheFile, WholeUnlessSaving,
       VaultFollows, Loaded, Saving, Rekeying

(* A command that starts, or that leaves by another way than a save.       *)
LEMMA Beside ==
  ASSUME ConfigInv, NEW c \in Commands,
         UNCHANGED <<config, vaultKey, saved, wanted, mishaps>>,
         command' \in [Commands -> Process],
         \A d \in Commands : d # c => command'[d] = command[d],
         \A d \in Commands : command'[d].knows <= saved,
         command'[c].at \notin {"think", "truncate", "fill"},
         mishaps' = {} => command[c].at # "fill" /\ ~Rekeying(c),
         rekeys' \in Nat, tick'.at = "spawn" => tick.at = "spawn" /\ tick' = tick
  PROVE  ConfigInv'
  <1>1. ConfigTypes'
    BY DEF ConfigInv, ConfigTypes
  <1> SUFFICES ASSUME mishaps' = {}
               PROVE  /\ HoldsTheFile' /\ WholeUnlessSaving' /\ VaultFollows'
                      /\ (config.auto = wanted)' /\ (tick.at = "spawn" => tick.wanted)'
    BY <1>1 DEF ConfigInv
  <1>2. /\ HoldsTheFile /\ WholeUnlessSaving /\ VaultFollows /\ config.auto = wanted
        /\ tick.at = "spawn" => tick.wanted
    BY DEF ConfigInv
  <1>3. HoldsTheFile'
    BY <1>2 DEF HoldsTheFile, Loaded, UpToDate, Saving, Rekeying
  <1>4. WholeUnlessSaving'
    BY <1>2 DEF WholeUnlessSaving
  <1>5. \A d \in Commands : /\ Rekeying(d)' <=> Rekeying(d)
                            /\ Rekeying(d) => d # c
    BY DEF Rekeying, Saving
  <1>6. VaultFollows'
    BY <1>2, <1>5 DEF VaultFollows, Doomed, UpToDate
  <1> QED
    BY <1>2, <1>3, <1>4, <1>6

LEMMA StartCommandStep ==
  ASSUME ConfigInv, NEW c \in Commands, NEW does, does \in Doings, StartCommand(c, does)
  PROVE  /\ command' \in [Commands -> Process]
         /\ \A d \in Commands : d # c => command'[d] = command[d]
         /\ \A d \in Commands : command'[d].knows <= saved
         /\ command'[c].at = "load" /\ command[c].at = "idle"
  <1>1. ConfigTypes /\ command[c] = Resting /\ saved \in Nat /\ command \in [Commands -> Process]
    BY DEF StartCommand, ConfigInv, ConfigTypes
  <1>2. PICK r : r = Resting
    OBVIOUS
  <1>6. PICK u : u = [r EXCEPT !.does = does]
    OBVIOUS
  <1>7. PICK p : p = [u EXCEPT !.at = "load"]
    OBVIOUS
  <1>8. r \in Process /\ r.knows = 0
    BY <1>2, RestingFacts
  <1>9. u \in Process /\ u.knows = 0
    BY <1>6, <1>8 DEF Process
  <1>4. p \in Process /\ p.knows = 0 /\ p.at = "load"
    BY <1>7, <1>9 DEF Process, CommandSteps
  <1>3. command' = [command EXCEPT ![c] = p]
    BY <1>1, <1>2, <1>6, <1>7 DEF StartCommand
  <1>5. p.knows <= saved
    BY <1>1, <1>4
  <1> QED
    BY <1>1, <1>3, <1>4, <1>5, Replaced, RestingFacts

LEMMA IssueCommandKeeps ==
  ASSUME ConfigInv, NEW c \in Commands, IssueCommand(c) PROVE ConfigInv'
  <1>1. PICK does \in Doings : StartCommand(c, does)
    BY DEF IssueCommand
  <1>2. UNCHANGED <<config, vaultKey, saved, wanted, mishaps, rekeys, tick>>
    BY DEF IssueCommand
  <1>3. /\ command' \in [Commands -> Process]
        /\ \A d \in Commands : d # c => command'[d] = command[d]
        /\ \A d \in Commands : command'[d].knows <= saved
        /\ command'[c].at = "load" /\ command[c].at = "idle"
    BY <1>1, StartCommandStep
  <1>4. rekeys' \in Nat
    BY <1>2 DEF ConfigInv, ConfigTypes
  <1>5. ~Rekeying(c)
    BY <1>3 DEF Rekeying, Saving
  <1> QED
    BY <1>2, <1>3, <1>4, <1>5, Beside

LEMMA FinishStep ==
  ASSUME ConfigInv, NEW c \in Commands, Finish(c)
  PROVE  /\ command' \in [Commands -> Process]
         /\ \A d \in Commands : d # c => command'[d] = command[d]
         /\ \A d \in Commands : command'[d].knows <= saved
         /\ command'[c].at = "idle"
  <1>1. ConfigTypes /\ saved \in Nat
    BY DEF ConfigInv, ConfigTypes
  <1>2. Resting.knows <= saved
    BY <1>1, RestingFacts
  <1> QED
    BY <1>1, <1>2, Replaced, RestingFacts DEF Finish

LEMMA MoveStep ==
  ASSUME ConfigInv, NEW c \in Commands, NEW step, step \in CommandSteps, Move(c, step)
  PROVE  /\ command' \in [Commands -> Process]
         /\ \A d \in Commands : d # c => command'[d] = command[d]
         /\ \A d \in Commands : command'[d].knows <= saved
         /\ command'[c].at = step /\ command'[c].does = command[c].does
         /\ command'[c].holds = command[c].holds /\ command'[c].knows = command[c].knows
         /\ command'[c].torn = command[c].torn
  <1>1. ConfigTypes /\ command[c] \in Process /\ command[c].knows <= saved
    BY DEF ConfigInv, ConfigTypes
  <1>2. PICK q : q = command[c]
    OBVIOUS
  <1>3. PICK p : p = [q EXCEPT !.at = step]
    OBVIOUS
  <1>4. /\ p \in Process /\ p.at = step /\ p.does = q.does /\ p.holds = q.holds
        /\ p.knows = q.knows /\ p.torn = q.torn
    BY <1>1, <1>2, <1>3 DEF Process
  <1>5. command' = [command EXCEPT ![c] = p]
    BY <1>2, <1>3 DEF Move
  <1>6. p.knows <= saved
    BY <1>1, <1>2, <1>4
  <1> QED
    BY <1>1, <1>2, <1>4, <1>5, <1>6, Replaced

LEMMA LoadConfigKeeps ==
  ASSUME ConfigInv, NEW c \in Commands, LoadConfig(c) PROVE ConfigInv'
  <1>1. /\ ConfigTypes /\ command[c] \in Process /\ saved \in Nat /\ command[c].at = "load"
        /\ UNCHANGED <<config, vaultKey, saved, wanted, mishaps, tick, rekeys>>
    BY DEF LoadConfig, Unmoved, ConfigInv, ConfigTypes
  <1>2. PICK h : h = IF config.whole THEN [key |-> config.key, auto |-> config.auto]
                     ELSE NoSettings
    OBVIOUS
  <1>3. h \in Settings /\ (config.whole => h.key = config.key /\ h.auto = config.auto)
    BY <1>1, <1>2 DEF ConfigTypes, Settings, NoSettings
  <1>4. PICK q : q = command[c]
    OBVIOUS
  <1>5. PICK r : r = [q EXCEPT !.at = "think"]
    OBVIOUS
  <1>6. PICK s : s = [r EXCEPT !.knows = saved]
    OBVIOUS
  <1>7. PICK t : t = [s EXCEPT !.torn = ~config.whole]
    OBVIOUS
  <1>8. PICK p : p = [t EXCEPT !.holds = h]
    OBVIOUS
  <1>9. r \in Process /\ r.at = "think" /\ r.does = q.does
    BY <1>1, <1>4, <1>5 DEF Process, CommandSteps
  <1>10. s \in Process /\ s.at = "think" /\ s.does = q.does /\ s.knows = saved
    BY <1>1, <1>6, <1>9 DEF Process
  <1>11. t \in Process /\ t.at = "think" /\ t.does = q.does /\ t.knows = saved
    BY <1>7, <1>10 DEF Process
  <1>12. t.torn <=> ~config.whole
    BY <1>7, <1>10 DEF Process
  <1>13. /\ p \in Process /\ p.at = "think" /\ p.does = q.does /\ p.knows = saved /\ p.holds = h
         /\ p.torn = t.torn
    BY <1>3, <1>8, <1>11 DEF Process
  <1>14. command' = [command EXCEPT ![c] = p]
    <2>1. command' = [command EXCEPT
            ![c].at = "think", ![c].knows = saved, ![c].torn = ~config.whole,
            ![c].holds = h]
      BY <1>2 DEF LoadConfig
    <2> QED
      BY <1>4, <1>5, <1>6, <1>7, <1>8, <2>1
  <1>15. p.knows <= saved
    BY <1>1, <1>13
  <1>16. /\ command' \in [Commands -> Process] /\ command'[c] = p
         /\ \A d \in Commands : d # c => command'[d] = command[d]
         /\ \A d \in Commands : command'[d].knows <= saved
    BY <1>1, <1>13, <1>14, <1>15, Replaced
  <1>17. ConfigTypes'
    BY <1>1, <1>16 DEF ConfigTypes
  <1> SUFFICES ASSUME mishaps = {}
               PROVE  /\ HoldsTheFile' /\ WholeUnlessSaving' /\ VaultFollows'
                      /\ (config.auto = wanted)' /\ (tick.at = "spawn" => tick.wanted)'
    BY <1>1, <1>17 DEF ConfigInv
  <1>18. /\ HoldsTheFile /\ WholeUnlessSaving /\ VaultFollows /\ config.auto = wanted
         /\ tick.at = "spawn" => tick.wanted
    BY DEF ConfigInv
  <1>19. /\ ~Rekeying(c) /\ ~Rekeying(c)' /\ ~Saving(c)'
         /\ \A d \in Commands : Rekeying(d)' <=> Rekeying(d)
         /\ \A d \in Commands : d # c => (UpToDate(d)' <=> UpToDate(d))
    BY <1>1, <1>13, <1>16 DEF Rekeying, Saving, UpToDate
  <1>20. HoldsTheFile'
    BY <1>1, <1>3, <1>12, <1>13, <1>16, <1>18, <1>19
       DEF HoldsTheFile, Loaded, UpToDate, Saving, Rekeying
  <1>21. WholeUnlessSaving'
    BY <1>1, <1>16, <1>18 DEF WholeUnlessSaving
  <1>22. VaultFollows'
    BY <1>1, <1>16, <1>18, <1>19 DEF VaultFollows, Doomed
  <1> QED
    BY <1>1, <1>18, <1>20, <1>21, <1>22

LEMMA SetPreferenceKeeps ==
  ASSUME ConfigInv, NEW c \in Commands, SetPreference(c) PROVE ConfigInv'
  <1>1. /\ ConfigTypes /\ command[c] \in Process /\ saved \in Nat /\ command[c].at = "think"
        /\ command[c].does \in {"enable", "disable"}
        /\ UNCHANGED <<config, vaultKey, saved, wanted, mishaps, tick, rekeys>>
    BY DEF SetPreference, Unmoved, ConfigInv, ConfigTypes
  <1>2. PICK q : q = command[c]
    OBVIOUS
  <1>3. PICK h : h = [q.holds EXCEPT !.auto = (q.does = "enable")]
    OBVIOUS
  <1>4. PICK r : r = [q EXCEPT !.at = "truncate"]
    OBVIOUS
  <1>5. PICK p : p = [r EXCEPT !.holds = h]
    OBVIOUS
  <1>6. q.holds \in Settings
    BY <1>1, <1>2 DEF Process
  <1>7. h \in Settings /\ h.key = q.holds.key
    BY <1>3, <1>6 DEF Settings
  <1>8. h.auto = (q.does = "enable")
    BY <1>3, <1>6 DEF Settings
  <1>9. /\ r \in Process /\ r.at = "truncate" /\ r.does = q.does /\ r.holds = q.holds
        /\ r.knows = q.knows /\ r.torn = q.torn
    BY <1>1, <1>2, <1>4 DEF Process, CommandSteps
  <1>10. /\ p \in Process /\ p.at = "truncate" /\ p.does = q.does /\ p.holds = h
         /\ p.knows = q.knows /\ p.torn = q.torn
    BY <1>5, <1>7, <1>9 DEF Process
  <1>11. command' = [command EXCEPT ![c] = p]
    BY <1>2, <1>3, <1>4, <1>5 DEF SetPreference
  <1>12. p.knows <= saved
    BY <1>1, <1>2, <1>10 DEF ConfigTypes
  <1>13. /\ command' \in [Commands -> Process] /\ command'[c] = p
         /\ \A d \in Commands : d # c => command'[d] = command[d]
         /\ \A d \in Commands : command'[d].knows <= saved
    BY <1>1, <1>10, <1>11, <1>12, Replaced
  <1>14. ConfigTypes'
    BY <1>1, <1>13 DEF ConfigTypes
  <1> SUFFICES ASSUME mishaps = {}
               PROVE  /\ HoldsTheFile' /\ WholeUnlessSaving' /\ VaultFollows'
                      /\ (config.auto = wanted)' /\ (tick.at = "spawn" => tick.wanted)'
    BY <1>1, <1>14 DEF ConfigInv
  <1>15. /\ HoldsTheFile /\ WholeUnlessSaving /\ VaultFollows /\ config.auto = wanted
         /\ tick.at = "spawn" => tick.wanted
    BY DEF ConfigInv
  <1>16. /\ ~Rekeying(c) /\ ~Rekeying(c)'
         /\ \A d \in Commands : Rekeying(d)' <=> Rekeying(d)
         /\ \A d \in Commands : UpToDate(d)' <=> UpToDate(d)
    BY <1>1, <1>2, <1>10, <1>13 DEF Rekeying, Saving, UpToDate
  <1>17. HoldsTheFile'
    <2>1. ASSUME NEW d \in Commands, Loaded(d)', UpToDate(d)', d = c
          PROVE  /\ command'[d].holds.key = config.key
                 /\ command'[d].holds.auto = (command'[d].does = "enable")
                 /\ command'[d].at = "truncate" /\ command'[d].does \in {"enable", "disable"}
      <3>1. Loaded(c) /\ UpToDate(c) /\ ~Rekeying(c)
        BY <1>1, <1>16, <2>1 DEF Loaded
      <3>2. q.holds.key = config.key
        BY <1>2, <1>15, <3>1 DEF HoldsTheFile
      <3> QED
        BY <1>1, <1>2, <1>7, <1>8, <1>10, <1>13, <2>1, <3>2
    <2>2. ASSUME NEW d \in Commands, Loaded(d)', UpToDate(d)', d # c
          PROVE  Loaded(d) /\ UpToDate(d) /\ command'[d] = command[d]
      BY <1>13, <1>16, <2>2 DEF Loaded
    <2> QED
      BY <1>1, <1>15, <1>16, <2>1, <2>2 DEF HoldsTheFile, Saving
  <1>18. WholeUnlessSaving'
    BY <1>1, <1>13, <1>15 DEF WholeUnlessSaving
  <1>19. VaultFollows'
    BY <1>1, <1>13, <1>15, <1>16 DEF VaultFollows, Doomed
  <1> QED
    BY <1>1, <1>15, <1>17, <1>18, <1>19

LEMMA RekeyVaultKeeps ==
  ASSUME ConfigInv, NEW c \in Commands, RekeyVault(c) PROVE ConfigInv'
  <1>1. /\ ConfigTypes /\ command[c] \in Process /\ saved \in Nat /\ command[c].at = "think"
        /\ command[c].does = "rekey" /\ rekeys \in Nat /\ vaultKey \in Nat
        /\ UNCHANGED <<config, saved, wanted, mishaps, tick>>
    BY DEF RekeyVault, ConfigInv, ConfigTypes
  <1>2. CASE command[c].holds.key = 0
    <2>1. Finish(c) /\ UNCHANGED <<vaultKey, rekeys>>
      BY <1>2 DEF RekeyVault
    <2>2. /\ command' \in [Commands -> Process]
          /\ \A d \in Commands : d # c => command'[d] = command[d]
          /\ \A d \in Commands : command'[d].knows <= saved
          /\ command'[c].at = "idle"
      BY <2>1, FinishStep
    <2>3. ~Rekeying(c)
      BY <1>1 DEF Rekeying, Saving
    <2> QED
      BY <1>1, <2>1, <2>2, <2>3, Beside
  <1>3. CASE command[c].holds.key # 0
    <2>1. PICK new : new = rekeys + 2
      OBVIOUS
    <2>2. PICK q : q = command[c]
      OBVIOUS
    <2>3. PICK h : h = [q.holds EXCEPT !.key = new]
      OBVIOUS
    <2>4. PICK r : r = [q EXCEPT !.at = "truncate"]
      OBVIOUS
    <2>5. PICK p : p = [r EXCEPT !.holds = h]
      OBVIOUS
    <2>6. /\ rekeys' = rekeys + 1 /\ command' = [command EXCEPT ![c] = p]
          /\ vaultKey' = IF vaultKey = q.holds.key THEN new ELSE vaultKey
      <3>1. /\ rekeys' = rekeys + 1
            /\ command' = [command EXCEPT ![c].at = "truncate", ![c].holds.key = rekeys + 2]
            /\ vaultKey' = IF vaultKey = command[c].holds.key THEN rekeys + 2 ELSE vaultKey
        BY <1>3 DEF RekeyVault
      <3> QED
        BY <2>1, <2>2, <2>3, <2>4, <2>5, <3>1
    <2>7. q.holds \in Settings /\ new \in Nat /\ rekeys' \in Nat
      BY <1>1, <2>1, <2>2, <2>6 DEF Process
    <2>8. h \in Settings /\ h.key = new /\ h.auto = q.holds.auto
      BY <2>3, <2>7 DEF Settings
    <2>9. /\ r \in Process /\ r.at = "truncate" /\ r.does = q.does /\ r.holds = q.holds
          /\ r.knows = q.knows /\ r.torn = q.torn
      BY <1>1, <2>2, <2>4 DEF Process, CommandSteps
    <2>10. /\ p \in Process /\ p.at = "truncate" /\ p.does = q.does /\ p.holds = h
           /\ p.knows = q.knows /\ p.torn = q.torn
      BY <2>5, <2>8, <2>9 DEF Process
    <2>11. p.knows <= saved
      BY <1>1, <2>2, <2>10 DEF ConfigTypes
    <2>12. /\ command' \in [Commands -> Process] /\ command'[c] = p
           /\ \A d \in Commands : d # c => command'[d] = command[d]
           /\ \A d \in Commands : command'[d].knows <= saved
      BY <1>1, <2>6, <2>10, <2>11, Replaced
    <2>13. ConfigTypes'
      BY <1>1, <2>6, <2>7, <2>12 DEF ConfigTypes
    <2> SUFFICES ASSUME mishaps = {}
                 PROVE  /\ HoldsTheFile' /\ WholeUnlessSaving' /\ VaultFollows'
                        /\ (config.auto = wanted)' /\ (tick.at = "spawn" => tick.wanted)'
      BY <1>1, <2>13 DEF ConfigInv
    <2>14. /\ HoldsTheFile /\ WholeUnlessSaving /\ VaultFollows /\ config.auto = wanted
           /\ tick.at = "spawn" => tick.wanted
      BY DEF ConfigInv
    <2>15. /\ ~Rekeying(c) /\ Rekeying(c)' /\ Loaded(c) /\ Saving(c)'
           /\ \A d \in Commands : d # c => (Rekeying(d)' <=> Rekeying(d))
           /\ \A d \in Commands : UpToDate(d)' <=> UpToDate(d)
           /\ command'[c].does = "rekey" /\ command'[c].at = "truncate"
           /\ command'[c].holds.key = new /\ command'[c].holds.auto = q.holds.auto
      BY <1>1, <2>2, <2>8, <2>10, <2>12 DEF Rekeying, Saving, UpToDate, Loaded
    <2>16. HoldsTheFile'
      <3>1. ASSUME UpToDate(c) PROVE q.holds.auto = config.auto /\ q.holds.key = config.key
        BY <1>1, <2>2, <2>14, <2>15, <3>1 DEF HoldsTheFile
      <3>2. \A d \in Commands : d # c => (Loaded(d)' <=> Loaded(d)) /\ (Saving(d)' <=> Saving(d))
        BY <2>12 DEF Loaded, Saving
      <3> QED
        BY <1>1, <2>12, <2>14, <2>15, <3>1, <3>2 DEF HoldsTheFile
    <2>17. WholeUnlessSaving'
      BY <1>1, <2>12, <2>14 DEF WholeUnlessSaving
    <2>18. VaultFollows'
      <3>1. CASE ~UpToDate(c)
        BY <2>15, <3>1 DEF VaultFollows, Doomed
      <3>2. CASE UpToDate(c)
        <4>1. q.holds.key = config.key
          BY <1>1, <2>2, <2>14, <2>15, <3>2 DEF HoldsTheFile
        <4>2. CASE vaultKey = config.key
          BY <2>6, <2>15, <4>1, <4>2 DEF VaultFollows
        <4>3. CASE vaultKey # config.key
          <5>1. vaultKey' = vaultKey
            BY <2>6, <4>1, <4>3
          <5>2. Doomed \/ \E d \in Commands : Rekeying(d) /\ command[d].holds.key = vaultKey
            BY <2>14, <4>3 DEF VaultFollows
          <5>3. CASE Doomed
            BY <2>15, <5>3 DEF VaultFollows, Doomed
          <5>4. ASSUME NEW d \in Commands, Rekeying(d), command[d].holds.key = vaultKey
                PROVE  VaultFollows'
            <6>1. d # c
              BY <2>15, <5>4
            <6> QED
              BY <2>12, <2>15, <5>1, <5>4, <6>1 DEF VaultFollows
          <5> QED
            BY <5>2, <5>3, <5>4
        <4> QED
          BY <4>2, <4>3
      <3> QED
        BY <3>1, <3>2
    <2> QED
      BY <1>1, <2>14, <2>16, <2>17, <2>18
  <1> QED
    BY <1>2, <1>3

(* A command moves on without a change of what it holds, and not out of a  *)
(* save nor into one but an upgrade's.                                     *)
LEMMA MovedOn ==
  ASSUME ConfigInv, NEW c \in Commands, NEW step, step \in CommandSteps, Move(c, step),
         UNCHANGED <<config, vaultKey, saved, wanted, mishaps, tick, rekeys>>,
         \/ command[c].at = "think" /\ command[c].does = "upgrade" /\ step = "truncate"
         \/ command[c].at = "saved" /\ step = "install"
  PROVE  ConfigInv'
  <1>1. /\ command' \in [Commands -> Process]
        /\ \A d \in Commands : d # c => command'[d] = command[d]
        /\ \A d \in Commands : command'[d].knows <= saved
        /\ command'[c].at = step /\ command'[c].does = command[c].does
        /\ command'[c].holds = command[c].holds /\ command'[c].knows = command[c].knows
        /\ command'[c].torn = command[c].torn
    BY MoveStep
  <1>2. ConfigTypes'
    BY <1>1 DEF ConfigInv, ConfigTypes
  <1> SUFFICES ASSUME mishaps = {}
               PROVE  /\ HoldsTheFile' /\ WholeUnlessSaving' /\ VaultFollows'
                      /\ (config.auto = wanted)' /\ (tick.at = "spawn" => tick.wanted)'
    BY <1>2 DEF ConfigInv
  <1>3. /\ HoldsTheFile /\ WholeUnlessSaving /\ VaultFollows /\ config.auto = wanted
        /\ tick.at = "spawn" => tick.wanted
    BY DEF ConfigInv
  <1>4. /\ ~Rekeying(c) /\ ~Rekeying(c)'
        /\ \A d \in Commands : d # c => (Rekeying(d)' <=> Rekeying(d))
        /\ \A d \in Commands : UpToDate(d)' <=> UpToDate(d)
        /\ \A d \in Commands : command'[d].holds = command[d].holds
        /\ \A d \in Commands : command'[d].does = command[d].does
        /\ Loaded(c)' => Loaded(c) /\ command[c].does = "upgrade"
        /\ \A d \in Commands : d # c => (Loaded(d)' <=> Loaded(d)) /\ (Saving(d)' <=> Saving(d))
    BY <1>1 DEF Rekeying, Saving, UpToDate, Loaded
  <1>5. HoldsTheFile'
    BY <1>1, <1>3, <1>4 DEF HoldsTheFile
  <1>6. WholeUnlessSaving'
    BY <1>1, <1>3 DEF WholeUnlessSaving
  <1>7. VaultFollows'
    BY <1>3, <1>4 DEF VaultFollows, Doomed
  <1> QED
    BY <1>3, <1>5, <1>6, <1>7

LEMMA LeavesQuietly ==
  ASSUME ConfigInv, NEW c \in Commands, Finish(c),
         UNCHANGED <<config, vaultKey, saved, wanted, mishaps, tick, rekeys>>,
         command[c].at \in {"saved", "install"} \/ command[c].does = "upgrade",
         command[c].at # "fill"
  PROVE  ConfigInv'
  <1>1. /\ command' \in [Commands -> Process]
        /\ \A d \in Commands : d # c => command'[d] = command[d]
        /\ \A d \in Commands : command'[d].knows <= saved
        /\ command'[c].at = "idle"
    BY FinishStep
  <1>2. ~Rekeying(c)
    BY DEF Rekeying, Saving
  <1>3. rekeys' \in Nat
    BY DEF ConfigInv, ConfigTypes
  <1> QED
    BY <1>1, <1>2, <1>3, Beside

LEMMA QuietSteps ==
  ASSUME ConfigInv, NEW c \in Commands, AskIndex(c) \/ AfterSave(c) \/ RunInstaller(c)
  PROVE  ConfigInv'
  <1>1. UNCHANGED <<config, vaultKey, saved, wanted, mishaps, tick, rekeys>>
    BY DEF AskIndex, AfterSave, RunInstaller, Unmoved
  <1>2. \/ /\ command[c].at = "think" /\ command[c].does = "upgrade"
           /\ Move(c, "truncate") \/ Finish(c)
        \/ command[c].at = "saved" /\ (Move(c, "install") \/ Finish(c))
        \/ command[c].at = "install" /\ Finish(c)
    BY DEF AskIndex, AfterSave, RunInstaller
  <1>3. CASE Finish(c)
    BY <1>1, <1>2, <1>3, LeavesQuietly
  <1>4. CASE ~Finish(c)
    <2>1. "truncate" \in CommandSteps /\ "install" \in CommandSteps
      BY DEF CommandSteps
    <2> QED
      BY <1>1, <1>2, <1>4, <2>1, MovedOn
  <1> QED
    BY <1>3, <1>4

LEMMA CommandKilledKeeps ==
  ASSUME ConfigInv, NEW c \in Commands, CommandKilled(c) PROVE ConfigInv'
  <1>1. /\ UNCHANGED <<config, vaultKey, saved, wanted, tick, rekeys>> /\ Finish(c)
        /\ mishaps' = {} => /\ mishaps = {}
                            /\ command[c].at # "fill"
                            /\ ~(command[c].does = "rekey" /\ command[c].at = "truncate")
    BY DEF CommandKilled
  <1>2. /\ command' \in [Commands -> Process]
        /\ \A d \in Commands : d # c => command'[d] = command[d]
        /\ \A d \in Commands : command'[d].knows <= saved
        /\ command'[c].at = "idle"
    BY <1>1, FinishStep
  <1>3. CASE mishaps' = {}
    <2>1. ~Rekeying(c) /\ command[c].at # "fill" /\ mishaps' = mishaps
      BY <1>1, <1>3 DEF Rekeying, Saving
    <2>2. rekeys' \in Nat
      BY <1>1 DEF ConfigInv, ConfigTypes
    <2> QED
      BY <1>1, <1>2, <2>1, <2>2, Beside
  <1>4. CASE mishaps' # {}
    BY <1>1, <1>2, <1>4 DEF ConfigInv, ConfigTypes
  <1> QED
    BY <1>3, <1>4

LEMMA TruncateConfigKeeps ==
  ASSUME ConfigInv, NEW c \in Commands, TruncateConfig(c) PROVE ConfigInv'
  <1>1. /\ ConfigTypes /\ command[c].at = "truncate" /\ Move(c, "fill")
        /\ config' = [config EXCEPT !.whole = FALSE]
        /\ UNCHANGED <<vaultKey, saved, wanted, mishaps, tick, rekeys>>
    BY DEF TruncateConfig, ConfigInv
  <1>2. /\ command' \in [Commands -> Process]
        /\ \A d \in Commands : d # c => command'[d] = command[d]
        /\ \A d \in Commands : command'[d].knows <= saved
        /\ command'[c].at = "fill" /\ command'[c].does = command[c].does
        /\ command'[c].holds = command[c].holds /\ command'[c].knows = command[c].knows
        /\ command'[c].torn = command[c].torn
    BY <1>1, MoveStep DEF CommandSteps
  <1>3. config \in [whole : BOOLEAN, key : Nat, auto : BOOLEAN]
    BY <1>1 DEF ConfigTypes
  <1>4. /\ config' \in [whole : BOOLEAN, key : Nat, auto : BOOLEAN]
        /\ config'.key = config.key /\ config'.auto = config.auto
    BY <1>1, <1>3
  <1>5. ConfigTypes'
    BY <1>1, <1>2, <1>4 DEF ConfigTypes
  <1> SUFFICES ASSUME mishaps = {}
               PROVE  /\ HoldsTheFile' /\ WholeUnlessSaving' /\ VaultFollows'
                      /\ (config.auto = wanted)' /\ (tick.at = "spawn" => tick.wanted)'
    BY <1>1, <1>5 DEF ConfigInv
  <1>6. /\ HoldsTheFile /\ WholeUnlessSaving /\ VaultFollows /\ config.auto = wanted
        /\ tick.at = "spawn" => tick.wanted
    BY DEF ConfigInv
  <1>7. \A d \in Commands : /\ Rekeying(d)' <=> Rekeying(d)
                            /\ UpToDate(d)' <=> UpToDate(d)
                            /\ Loaded(d)' <=> Loaded(d)
                            /\ Saving(d)' <=> Saving(d)
                            /\ command'[d].holds = command[d].holds
                            /\ command'[d].does = command[d].does
                            /\ command'[d].at = "think" => command[d].at = "think"
                            /\ command[d].at = "think" => command'[d].at = "think"
    BY <1>1, <1>2 DEF Rekeying, Saving, UpToDate, Loaded
  <1>8. HoldsTheFile'
    BY <1>4, <1>6, <1>7 DEF HoldsTheFile
  <1>9. WholeUnlessSaving'
    BY <1>2 DEF WholeUnlessSaving
  <1>10. VaultFollows'
    BY <1>1, <1>4, <1>6, <1>7 DEF VaultFollows, Doomed
  <1> QED
    BY <1>1, <1>4, <1>6, <1>8, <1>9, <1>10

LEMMA FillConfigKeeps ==
  ASSUME ConfigInv, NEW c \in Commands, FillConfig(c) PROVE ConfigInv'
  <1>1. /\ ConfigTypes /\ command[c].at = "fill" /\ Move(c, "saved") /\ saved' = saved + 1
        /\ saved \in Nat /\ command[c] \in Process
        /\ wanted' = IF command[c].does \in {"enable", "disable"}
                     THEN command[c].does = "enable" ELSE wanted
        /\ UNCHANGED <<vaultKey, tick, rekeys>>
    BY DEF FillConfig, ConfigInv, ConfigTypes
  <1>2. PICK parses \in BOOLEAN :
          /\ config' = [whole |-> parses, key |-> command[c].holds.key,
                        auto |-> command[c].holds.auto]
          /\ mishaps' = {} => /\ mishaps = {} /\ command[c].knows = saved
                              /\ ~command[c].torn /\ parses
    <2>1. PICK parses \in IF config.whole THEN BOOLEAN ELSE {TRUE} :
            /\ config' = [whole |-> parses, key |-> command[c].holds.key,
                          auto |-> command[c].holds.auto]
            /\ mishaps' = mishaps \cup (IF command[c].knows # saved THEN {"stale"} ELSE {})
                                  \cup (IF command[c].torn \/ ~parses THEN {"torn"} ELSE {})
      BY DEF FillConfig
    <2>2. mishaps' = {} => /\ mishaps = {} /\ command[c].knows = saved
                           /\ ~command[c].torn /\ parses
      BY <2>1
    <2>3. parses \in BOOLEAN
      BY <2>1
    <2> QED
      BY <2>1, <2>2, <2>3
  <1>3. /\ command' \in [Commands -> Process]
        /\ \A d \in Commands : d # c => command'[d] = command[d]
        /\ \A d \in Commands : command'[d].knows <= saved
        /\ command'[c].at = "saved" /\ command'[c].does = command[c].does
        /\ command'[c].holds = command[c].holds /\ command'[c].knows = command[c].knows
        /\ command'[c].torn = command[c].torn
    BY <1>1, MoveStep DEF CommandSteps
  <1>4. command[c].holds \in Settings
    BY <1>1 DEF Process
  <1>5. /\ config' \in [whole : BOOLEAN, key : Nat, auto : BOOLEAN]
        /\ config'.key = command[c].holds.key /\ config'.auto = command[c].holds.auto
        /\ config'.whole = parses
    BY <1>2, <1>4 DEF Settings
  <1>6. wanted' \in BOOLEAN
    BY <1>1 DEF ConfigTypes
  <1>7. \A d \in Commands : command'[d].knows <= saved' /\ command'[d].knows # saved'
    <2> TAKE d \in Commands
    <2>1. command'[d].knows \in Nat
      BY <1>3 DEF Process
    <2> QED
      BY <1>1, <1>3, <2>1
  <1>8. ConfigTypes'
    BY <1>1, <1>3, <1>5, <1>6, <1>7 DEF ConfigTypes
  <1> SUFFICES ASSUME mishaps' = {}
               PROVE  /\ HoldsTheFile' /\ WholeUnlessSaving' /\ VaultFollows'
                      /\ (config.auto = wanted)' /\ (tick.at = "spawn" => tick.wanted)'
    BY <1>8 DEF ConfigInv
  <1>9. /\ HoldsTheFile /\ WholeUnlessSaving /\ VaultFollows /\ config.auto = wanted
        /\ tick.at = "spawn" => tick.wanted
    BY <1>2 DEF ConfigInv
  <1>10. Loaded(c) /\ UpToDate(c) /\ Saving(c) /\ parses
    BY <1>1, <1>2 DEF Loaded, UpToDate, Saving
  <1>11. \A d \in Commands : /\ ~UpToDate(d)'
                             /\ d # c => (Rekeying(d)' <=> Rekeying(d))
                             /\ ~Rekeying(c)'
    BY <1>3, <1>7 DEF UpToDate, Rekeying, Saving
  <1>12. HoldsTheFile'
    BY <1>11 DEF HoldsTheFile
  <1>13. WholeUnlessSaving'
    BY <1>5, <1>10 DEF WholeUnlessSaving
  <1>14. VaultFollows'
    <2>1. CASE \E d \in Commands : d # c /\ Rekeying(d)
      BY <1>11, <2>1 DEF VaultFollows, Doomed
    <2>2. CASE \A d \in Commands : d # c => ~Rekeying(d)
      <3>1. \A d \in Commands : ~Rekeying(d)'
        BY <1>11, <2>2
      <3>2. ~Doomed
        BY <1>10, <2>2 DEF Doomed
      <3>3. command[c].holds.key = vaultKey
        <4>1. CASE Rekeying(c)
          BY <1>9, <2>2, <3>2, <4>1 DEF VaultFollows
        <4>2. CASE ~Rekeying(c)
          <5>1. command[c].holds.key = config.key
            BY <1>9, <1>10, <4>2 DEF HoldsTheFile
          <5>2. vaultKey = config.key
            BY <1>9, <2>2, <3>2, <4>2 DEF VaultFollows
          <5> QED
            BY <5>1, <5>2
        <4> QED
          BY <4>1, <4>2
      <3> QED
        BY <1>1, <1>5, <3>1, <3>3 DEF VaultFollows
    <2> QED
      BY <2>1, <2>2
  <1>15. config'.auto = wanted'
    <2>1. CASE command[c].does \in {"enable", "disable"}
      <3>1. command[c].holds.auto = (command[c].does = "enable")
        BY <1>9, <1>10, <2>1 DEF HoldsTheFile
      <3>2. wanted' = (command[c].does = "enable")
        BY <1>1, <2>1
      <3> QED
        BY <1>5, <3>1, <3>2
    <2>2. CASE command[c].does \notin {"enable", "disable"}
      <3>1. command[c].holds.auto = config.auto
        BY <1>9, <1>10, <2>2 DEF HoldsTheFile
      <3> QED
        BY <1>1, <1>5, <1>9, <2>2, <3>1
    <2> QED
      BY <2>1, <2>2
  <1> QED
    BY <1>1, <1>9, <1>12, <1>13, <1>14, <1>15

LEMMA TicksKeep ==
  ASSUME ConfigInv, PublishVersion \/ TickChecks \/ TickReadsPreference \/ TickSpawnsUpgrade
  PROVE  ConfigInv'
  <1>1. CASE PublishVersion \/ TickChecks
    <2>1. /\ UNCHANGED <<config, vaultKey, command, saved, wanted, mishaps, rekeys>>
          /\ tick'.at = "spawn" => tick' = tick
      BY <1>1 DEF PublishVersion, TickChecks, Waiting
    <2> QED
      BY <2>1 DEF ConfigInv, ConfigTypes, HoldsTheFile, WholeUnlessSaving, VaultFollows,
         Doomed, Loaded, UpToDate, Saving, Rekeying
  <1>2. CASE TickReadsPreference
    <2>1. /\ UNCHANGED <<config, vaultKey, command, saved, wanted, mishaps, rekeys>>
          /\ tick' = IF config.whole /\ config.auto
                     THEN [at |-> "spawn", wanted |-> wanted] ELSE Waiting
      BY <1>2 DEF TickReadsPreference
    <2>2. mishaps = {} /\ tick'.at = "spawn" => tick'.wanted
      BY <2>1 DEF Waiting, ConfigInv
    <2> QED
      BY <2>1, <2>2 DEF ConfigInv, ConfigTypes, HoldsTheFile, WholeUnlessSaving, VaultFollows,
         Doomed, Loaded, UpToDate, Saving, Rekeying
  <1>3. CASE TickSpawnsUpgrade
    <2>1. UNCHANGED <<config, vaultKey, saved, wanted, mishaps, rekeys>>
      BY <1>3 DEF TickSpawnsUpgrade
    <2>2. tick'.at = "waiting"
      BY <1>3 DEF TickSpawnsUpgrade, Waiting
    <2>3. ASSUME NEW c \in Commands, StartCommand(c, "upgrade") PROVE ConfigInv'
      <3>1. /\ command' \in [Commands -> Process]
            /\ \A d \in Commands : d # c => command'[d] = command[d]
            /\ \A d \in Commands : command'[d].knows <= saved
            /\ command'[c].at = "load" /\ command[c].at = "idle"
        BY <2>3, StartCommandStep DEF Doings
      <3>2. rekeys' \in Nat
        BY <2>1 DEF ConfigInv, ConfigTypes
      <3>3. ~Rekeying(c)
        BY <3>1 DEF Rekeying, Saving
      <3> QED
        BY <2>1, <2>2, <3>1, <3>2, <3>3, Beside
    <2>4. CASE UNCHANGED <<command, issued>>
      BY <2>1, <2>2, <2>4 DEF ConfigInv, ConfigTypes, HoldsTheFile, WholeUnlessSaving,
         VaultFollows, Doomed, Loaded, UpToDate, Saving, Rekeying
    <2> QED
      BY <1>3, <2>3, <2>4 DEF TickSpawnsUpgrade
  <1> QED
    BY <1>1, <1>2, <1>3

LEMMA ConfigNextInv == ASSUME ConfigInv, [ConfigNext]_configVars PROVE ConfigInv'
  <1>1. ASSUME NEW c \in Commands,
               \/ IssueCommand(c) \/ LoadConfig(c) \/ SetPreference(c) \/ RekeyVault(c)
               \/ AskIndex(c) \/ TruncateConfig(c) \/ FillConfig(c) \/ AfterSave(c)
               \/ RunInstaller(c) \/ CommandKilled(c)
        PROVE  ConfigInv'
    BY <1>1, IssueCommandKeeps, LoadConfigKeeps, SetPreferenceKeeps, RekeyVaultKeeps,
       QuietSteps, TruncateConfigKeeps, FillConfigKeeps, CommandKilledKeeps
  <1>2. CASE PublishVersion \/ TickChecks \/ TickReadsPreference \/ TickSpawnsUpgrade
    BY <1>2, TicksKeep
  <1>3. CASE UNCHANGED configVars
    BY <1>3 DEF configVars, ConfigInv, ConfigTypes, HoldsTheFile, WholeUnlessSaving,
       VaultFollows, Doomed, Loaded, UpToDate, Saving, Rekeying
  <1> QED
    BY <1>1, <1>2, <1>3 DEF ConfigNext

(* However many commands read and rewrite the whole file beside each       *)
(* other, the vault's rotation and the gateway's updates, the file opens   *)
(* the vault and holds the preference last set, and the gateway installs   *)
(* only as asked, unless a save went wrong.  A part of KeptThroughChange.  *)
THEOREM SettingsAreKept == ConfigSpec => [](ConfigKept /\ UpdatesOnlyAsAsked)
  <1>1. ConfigInv => ConfigKept /\ UpdatesOnlyAsAsked
    <2>1. ASSUME ConfigInv, mishaps = {}, \A c \in Commands : command[c] = Resting
          PROVE  config = [whole |-> TRUE, key |-> vaultKey, auto |-> wanted]
      <3>1. \A c \in Commands : command[c].at = "idle"
        BY <2>1, RestingFacts
      <3>2. config.whole /\ vaultKey = config.key /\ config.auto = wanted
        BY <2>1, <3>1 DEF ConfigInv, WholeUnlessSaving, VaultFollows, Doomed, Rekeying, Saving
      <3>3. config \in [whole : BOOLEAN, key : Nat, auto : BOOLEAN]
        BY <2>1 DEF ConfigInv, ConfigTypes
      <3>4. config.whole = TRUE
        BY <3>2, <3>3
      <3> QED
        BY <3>2, <3>3, <3>4
    <2> QED
      BY <2>1 DEF ConfigKept, UpdatesOnlyAsAsked, ConfigInv
  <1> QED
    BY <1>1, ConfigInitInv, ConfigNextInv, PTL DEF ConfigSpec

-----------------------------------------------------------------------------
(* ConfigFile: a command saves once, keys are made by rotations only, and  *)
(* what is on disk was published.                                          *)
Pending == {c \in Commands : command[c].at \in {"load", "think", "truncate", "fill"}}
SavesTallied ==
  /\ IsFiniteSet(Pending) /\ saved + Cardinality(Pending) <= issued
  /\ issued \in Nat /\ issued <= MaxIssued
KeysTallied ==
  /\ rekeys <= MaxRekeys /\ config.key <= rekeys + 1
  /\ 1 <= vaultKey /\ vaultKey <= rekeys + 1
  /\ \A c \in Commands : command[c].holds.key <= rekeys + 1
Ticks == [at : {"waiting", "read_preference", "spawn"}, wanted : BOOLEAN]
VersionsTallied ==
  /\ mishaps \subseteq {"stale", "torn", "killed"}
  /\ released \in Nat /\ onDisk \in Nat /\ onDisk <= released /\ released <= MaxReleases
  /\ tick \in Ticks
ConfigTallies == SavesTallied /\ KeysTallied /\ VersionsTallied

LEMMA BoundsOfConfig == MaxIssued \in Nat /\ MaxRekeys \in Nat /\ MaxReleases \in Nat
  BY ConfigBounds

LEMMA ConfigTalliesInit == ASSUME ConfigInit PROVE ConfigTallies
  <1>1. \A c \in Commands : command[c] = Resting
    BY DEF ConfigInit
  <1>2. Pending = {}
    BY <1>1, RestingFacts DEF Pending
  <1>3. IsFiniteSet(Pending) /\ Cardinality(Pending) = 0
    BY <1>2, FS_EmptySet
  <1>4. /\ saved = 0 /\ issued = 0 /\ rekeys = 0 /\ config.key = 1 /\ vaultKey = 1
        /\ mishaps = {} /\ released = 0 /\ onDisk = 0 /\ tick = Waiting
    BY DEF ConfigInit
  <1>5. SavesTallied
    BY <1>3, <1>4, BoundsOfConfig DEF SavesTallied
  <1>6. KeysTallied
    BY <1>1, <1>4, BoundsOfConfig, RestingFacts DEF KeysTallied, NoSettings
  <1>7. VersionsTallied
    BY <1>4, BoundsOfConfig DEF VersionsTallied, Ticks, Waiting
  <1> QED
    BY <1>5, <1>6, <1>7 DEF ConfigTallies

(* One command moves.                                                      *)
LEMMA PendingMoves ==
  ASSUME IsFiniteSet(Pending), NEW c \in Commands,
         \A d \in Commands : d # c => command'[d] = command[d]
  PROVE  /\ IsFiniteSet(Pending') /\ Cardinality(Pending) \in Nat /\ Cardinality(Pending') \in Nat
         /\ (c \in Pending <=> c \in Pending') => Cardinality(Pending') = Cardinality(Pending)
         /\ c \notin Pending /\ c \in Pending' => Cardinality(Pending') = Cardinality(Pending) + 1
         /\ c \in Pending /\ c \notin Pending' => Cardinality(Pending') = Cardinality(Pending) - 1
  <1>1. \A d : d # c => (d \in Pending <=> d \in Pending')
    BY DEF Pending
  <1>2. Cardinality(Pending) \in Nat
    BY FS_CardinalityType
  <1>3. CASE c \in Pending <=> c \in Pending'
    <2>1. Pending' = Pending
      BY <1>1, <1>3
    <2> QED
      BY <1>2, <1>3, <2>1
  <1>4. CASE c \notin Pending /\ c \in Pending'
    <2>1. Pending' = Pending \cup {c}
      BY <1>1, <1>4
    <2>2. IsFiniteSet(Pending') /\ Cardinality(Pending') = Cardinality(Pending) + 1
      BY <1>4, <2>1, FS_AddElement
    <2> QED
      BY <1>2, <1>4, <2>2
  <1>5. CASE c \in Pending /\ c \notin Pending'
    <2>1. Pending' = Pending \ {c}
      BY <1>1, <1>5
    <2>2. IsFiniteSet(Pending') /\ Cardinality(Pending') = Cardinality(Pending) - 1
      BY <1>5, <2>1, FS_RemoveElement
    <2>3. Cardinality(Pending') \in Nat
      BY <2>2, FS_CardinalityType
    <2> QED
      BY <1>2, <1>5, <2>2, <2>3
  <1> QED
    BY <1>3, <1>4, <1>5

(* How one command's record changes: its own step apart, the counters      *)
(* follow.                                                                 *)
LEMMA CommandMoves ==
  ASSUME ConfigTypes, SavesTallied, NEW c \in Commands,
         \A d \in Commands : d # c => command'[d] = command[d],
         \/ saved' = saved /\ issued' = issued /\ (c \in Pending' => c \in Pending)
         \/ saved' = saved /\ issued' = issued + 1 /\ issued < MaxIssued
         \/ saved' = saved + 1 /\ issued' = issued /\ c \in Pending /\ c \notin Pending'
  PROVE  SavesTallied'
  <1>1. /\ IsFiniteSet(Pending) /\ saved + Cardinality(Pending) <= issued
        /\ issued \in Nat /\ issued <= MaxIssued /\ saved \in Nat
    BY DEF SavesTallied, ConfigTypes
  <1>2. PICK m : m = Cardinality(Pending)
    OBVIOUS
  <1>3. PICK n : n = Cardinality(Pending')
    OBVIOUS
  <1>4. /\ IsFiniteSet(Pending') /\ m \in Nat /\ n \in Nat
        /\ (c \in Pending <=> c \in Pending') => n = m
        /\ c \notin Pending /\ c \in Pending' => n = m + 1
        /\ c \in Pending /\ c \notin Pending' => n = m - 1
    <2> HIDE DEF Pending
    <2> QED
      BY <1>1, <1>2, <1>3, PendingMoves
  <1>5. saved' + n <= issued' /\ issued' \in Nat /\ issued' <= MaxIssued
    <2>1. /\ n <= m + 1
          /\ (c \in Pending' => c \in Pending) => n <= m
          /\ c \in Pending /\ c \notin Pending' => n = m - 1
      BY <1>4
    <2> HIDE DEF Pending
    <2>2. CASE saved' = saved /\ issued' = issued /\ (c \in Pending' => c \in Pending)
      BY <1>1, <1>2, <1>4, <2>1, <2>2
    <2>3. CASE saved' = saved /\ issued' = issued + 1 /\ issued < MaxIssued
      BY <1>1, <1>2, <1>4, <2>1, <2>3, BoundsOfConfig
    <2>4. CASE saved' = saved + 1 /\ issued' = issued /\ c \in Pending /\ c \notin Pending'
      BY <1>1, <1>2, <1>4, <2>1, <2>4
    <2> QED
      BY <2>2, <2>3, <2>4
  <1> QED
    BY <1>3, <1>4, <1>5 DEF SavesTallied

(* A command's record with some of its fields changed.                     *)
LEMMA CommandFields ==
  ASSUME ConfigTypes, NEW c \in Commands
  PROVE  /\ DOMAIN command = Commands /\ command[c] \in Process
         /\ DOMAIN command[c] = {"does", "at", "holds", "knows", "torn"}
         /\ command[c].holds \in Settings /\ DOMAIN command[c].holds = {"key", "auto"}
         /\ command[c].holds.key \in Nat
  BY DEF ConfigTypes, Process, Settings

LEMMA StartTallies ==
  ASSUME ConfigTypes, SavesTallied, KeysTallied, NEW c \in Commands, NEW does,
         StartCommand(c, does), UNCHANGED <<config, vaultKey, saved, rekeys>>
  PROVE  SavesTallied' /\ KeysTallied'
  <1>1. PICK q : q = [command[c] EXCEPT !.does = does, !.at = "load"]
    OBVIOUS
  <1>2. command' = [command EXCEPT ![c] = q]
    BY <1>1, CommandFields DEF StartCommand
  <1>3. q.holds = command[c].holds
    BY <1>1, CommandFields
  <1>4. \A d \in Commands : d # c => command'[d] = command[d]
    BY <1>2, CommandFields
  <1>5. command'[c].holds = command[c].holds
    BY <1>2, <1>3, CommandFields
  <1>6. SavesTallied'
    <2>1. issued < MaxIssued /\ issued' = issued + 1 /\ saved' = saved
      BY DEF StartCommand
    <2> QED
      BY <1>4, <2>1, CommandMoves
  <1>7. KeysTallied'
    BY <1>4, <1>5 DEF KeysTallied
  <1> QED
    BY <1>6, <1>7

LEMMA FinishTallies ==
  ASSUME ConfigTypes, SavesTallied, KeysTallied, NEW c \in Commands,
         Finish(c), UNCHANGED <<config, vaultKey, saved, rekeys, issued>>
  PROVE  SavesTallied' /\ KeysTallied'
  <1>1. command'[c] = Resting /\ \A d \in Commands : d # c => command'[d] = command[d]
    BY CommandFields DEF Finish
  <1>2. c \notin Pending'
    BY <1>1, RestingFacts DEF Pending
  <1>3. SavesTallied'
    BY <1>1, <1>2, CommandMoves
  <1>4. command'[c].holds.key = 0 /\ rekeys \in Nat
    BY <1>1, RestingFacts DEF NoSettings, ConfigTypes
  <1>5. KeysTallied'
    BY <1>1, <1>4 DEF KeysTallied
  <1> QED
    BY <1>3, <1>5

(* A step that leaves the counters alone.                                  *)
LEMMA QuietTallies ==
  ASSUME ConfigTypes, SavesTallied, KeysTallied, NEW c \in Commands,
         \A d \in Commands : d # c => command'[d] = command[d],
         c \in Pending' => c \in Pending,
         command'[c].holds.key \in {0, config.key, command[c].holds.key},
         UNCHANGED <<vaultKey, saved, rekeys, issued>>, config'.key = config.key
  PROVE  SavesTallied' /\ KeysTallied'
  <1>1. SavesTallied'
    BY CommandMoves
  <1>2. rekeys \in Nat
    BY DEF ConfigTypes
  <1>3. KeysTallied'
    BY <1>2 DEF KeysTallied
  <1> QED
    BY <1>1, <1>3

LEMMA LoadTallies ==
  ASSUME ConfigTypes, SavesTallied, KeysTallied, NEW c \in Commands,
         LoadConfig(c) \/ SetPreference(c)
  PROVE  SavesTallied' /\ KeysTallied'
  <1>1. PICK a, h, k, t :
          /\ command' = [command EXCEPT ![c].at = a, ![c].knows = k, ![c].torn = t, ![c].holds = h]
          /\ h.key \in {0, config.key, command[c].holds.key}
    <2>1. CASE LoadConfig(c)
      <3>1. PICK h : h = IF config.whole THEN [key |-> config.key, auto |-> config.auto]
                                         ELSE NoSettings
        OBVIOUS
      <3>2. command' = [command EXCEPT ![c].at = "think", ![c].knows = saved,
                                       ![c].torn = ~config.whole, ![c].holds = h]
        BY <2>1, <3>1 DEF LoadConfig
      <3>3. h.key \in {0, config.key}
        BY <3>1 DEF NoSettings
      <3> QED
        BY <3>2, <3>3
    <2>2. CASE SetPreference(c)
      <3>1. PICK h : h = [command[c].holds EXCEPT !.auto = (command[c].does = "enable")]
        OBVIOUS
      <3>2. PICK q : q = [command[c] EXCEPT !.at = "truncate", !.holds = h]
        OBVIOUS
      <3>3. PICK r : r = [command[c] EXCEPT !.at = "truncate", !.knows = command[c].knows,
                                            !.torn = command[c].torn, !.holds = h]
        OBVIOUS
      <3>4. q = r
        BY <3>2, <3>3, CommandFields
      <3>5. command' = [command EXCEPT ![c] = q]
        BY <2>2, <3>1, <3>2, CommandFields DEF SetPreference
      <3>6. command' = [command EXCEPT ![c].at = "truncate", ![c].knows = command[c].knows,
                                       ![c].torn = command[c].torn, ![c].holds = h]
        BY <3>3, <3>4, <3>5, CommandFields
      <3>7. h.key = command[c].holds.key
        BY <3>1, CommandFields
      <3> QED
        BY <3>6, <3>7
    <2> QED
      BY <2>1, <2>2
  <1>2. PICK q : q = [command[c] EXCEPT !.at = a, !.knows = k, !.torn = t, !.holds = h]
    OBVIOUS
  <1>3. q.holds = h
    BY <1>2, CommandFields
  <1>4. command' = [command EXCEPT ![c] = q]
    BY <1>1, <1>2, CommandFields
  <1>5. command'[c].holds = h /\ \A d \in Commands : d # c => command'[d] = command[d]
    BY <1>3, <1>4, CommandFields
  <1>6. c \in Pending
    BY DEF LoadConfig, SetPreference, Pending
  <1>7. UNCHANGED <<vaultKey, saved, rekeys, issued>> /\ config'.key = config.key
    BY DEF LoadConfig, SetPreference, Unmoved
  <1>8. command'[c].holds.key \in {0, config.key, command[c].holds.key}
    BY <1>1, <1>5
  <1> QED
    BY ZenonT(30), <1>5, <1>6, <1>7, <1>8, QuietTallies

(* The step of a command that moves on with what it holds.                 *)
LEMMA MoveTallies ==
  ASSUME ConfigTypes, SavesTallied, KeysTallied, NEW c \in Commands, NEW step, Move(c, step),
         step \in {"load", "think", "truncate", "fill"} => c \in Pending,
         UNCHANGED <<vaultKey, saved, rekeys, issued>>, config'.key = config.key
  PROVE  SavesTallied' /\ KeysTallied'
  <1>1. PICK q : q = [command[c] EXCEPT !.at = step]
    OBVIOUS
  <1>2. q.holds = command[c].holds /\ q.at = step
    BY <1>1, CommandFields
  <1>3. command'[c] = q /\ \A d \in Commands : d # c => command'[d] = command[d]
    BY <1>1, CommandFields DEF Move
  <1>4. c \in Pending' => c \in Pending
    BY <1>2, <1>3 DEF Pending
  <1>5. command'[c].holds.key \in {0, config.key, command[c].holds.key}
    BY <1>2, <1>3
  <1> QED
    BY <1>3, <1>4, <1>5, QuietTallies

LEMMA RekeyTallies ==
  ASSUME ConfigTypes, SavesTallied, KeysTallied, NEW c \in Commands, RekeyVault(c)
  PROVE  SavesTallied' /\ KeysTallied'
  <1>0. UNCHANGED <<config, saved, issued>>
    BY DEF RekeyVault
  <1>1. CASE command[c].holds.key = 0
    BY <1>0, <1>1, FinishTallies DEF RekeyVault
  <1>2. CASE command[c].holds.key # 0
    <2>1. PICK h : h = [command[c].holds EXCEPT !.key = rekeys + 2]
      OBVIOUS
    <2>2. PICK q : q = [command[c] EXCEPT !.at = "truncate", !.holds = h]
      OBVIOUS
    <2>3. /\ rekeys < MaxRekeys /\ rekeys' = rekeys + 1 /\ vaultKey' \in {rekeys + 2, vaultKey}
          /\ command' = [command EXCEPT ![c] = q]
      BY <1>2, <2>1, <2>2, CommandFields DEF RekeyVault
    <2>4. q.holds = h /\ h.key = rekeys + 2
      BY <2>1, <2>2, CommandFields
    <2>5. command'[c].holds.key = rekeys + 2 /\ \A d \in Commands : d # c => command'[d] = command[d]
      BY <2>3, <2>4, CommandFields
    <2>6. c \in Pending
      BY DEF RekeyVault, Pending
    <2>7. SavesTallied'
      BY <1>0, <2>5, <2>6, CommandMoves
    <2>8. rekeys \in Nat /\ vaultKey \in Nat /\ config.key \in Nat
          /\ \A d \in Commands : command[d].holds.key \in Nat
      BY CommandFields DEF ConfigTypes
    <2>9. KeysTallied'
      <3>1. rekeys' \in Nat /\ rekeys' <= MaxRekeys /\ config'.key <= rekeys' + 1
        BY <1>0, <2>3, <2>8, BoundsOfConfig DEF KeysTallied
      <3>2. 1 <= vaultKey' /\ vaultKey' <= rekeys' + 1
        BY <2>3, <2>8 DEF KeysTallied
      <3>3. \A d \in Commands : command'[d].holds.key <= rekeys' + 1
        BY <2>3, <2>5, <2>8 DEF KeysTallied
      <3> QED
        BY <3>1, <3>2, <3>3 DEF KeysTallied
    <2> QED
      BY <2>7, <2>9
  <1> QED
    BY <1>1, <1>2

LEMMA FillTallies ==
  ASSUME ConfigTypes, SavesTallied, KeysTallied, NEW c \in Commands, FillConfig(c)
  PROVE  SavesTallied' /\ KeysTallied'
  <1>1. PICK q : q = [command[c] EXCEPT !.at = "saved"]
    OBVIOUS
  <1>2. q.holds = command[c].holds /\ q.at = "saved"
    BY <1>1, CommandFields
  <1>3. command'[c] = q /\ \A d \in Commands : d # c => command'[d] = command[d]
    BY <1>1, CommandFields DEF FillConfig, Move
  <1>4. c \in Pending /\ c \notin Pending'
    BY <1>2, <1>3 DEF Pending, FillConfig
  <1>5. saved' = saved + 1 /\ UNCHANGED <<vaultKey, rekeys, issued>>
    BY DEF FillConfig
  <1>6. config'.key = command[c].holds.key
    BY DEF FillConfig
  <1>7. SavesTallied'
    BY <1>3, <1>4, <1>5, CommandMoves
  <1>8. KeysTallied'
    BY <1>2, <1>3, <1>5, <1>6 DEF KeysTallied
  <1> QED
    BY <1>7, <1>8

LEMMA CommandTallies ==
  ASSUME ConfigTypes, SavesTallied, KeysTallied, NEW c \in Commands,
         \/ IssueCommand(c) \/ LoadConfig(c) \/ SetPreference(c) \/ RekeyVault(c)
         \/ AskIndex(c) \/ TruncateConfig(c) \/ FillConfig(c) \/ AfterSave(c)
         \/ RunInstaller(c) \/ CommandKilled(c)
  PROVE  SavesTallied' /\ KeysTallied'
  <1>1. CASE IssueCommand(c)
    <2>1. PICK does \in Doings : StartCommand(c, does)
      BY <1>1 DEF IssueCommand
    <2>2. UNCHANGED <<config, vaultKey, saved, rekeys>>
      BY <1>1 DEF IssueCommand
    <2> QED
      BY <2>1, <2>2, StartTallies
  <1>2. CASE AskIndex(c) \/ AfterSave(c)
    <2>1. UNCHANGED <<config, vaultKey, saved, rekeys, issued>>
      BY <1>2 DEF AskIndex, AfterSave, Unmoved
    <2>2. CASE Finish(c)
      BY <2>1, <2>2, FinishTallies
    <2>3. CASE ~Finish(c)
      <3>1. PICK step \in {"truncate", "install"} :
              Move(c, step) /\ (step = "truncate" => c \in Pending)
        BY <1>2, <2>3 DEF AskIndex, AfterSave, Pending
      <3> QED
        BY <2>1, <3>1, MoveTallies
    <2> QED
      BY <2>2, <2>3
  <1>3. CASE TruncateConfig(c)
    <2>1. Move(c, "fill") /\ c \in Pending /\ UNCHANGED <<vaultKey, saved, rekeys, issued>>
      BY <1>3 DEF TruncateConfig, Pending
    <2>2. config'.key = config.key
      BY <1>3 DEF TruncateConfig, ConfigTypes
    <2> QED
      BY <2>1, <2>2, MoveTallies
  <1>4. CASE RunInstaller(c) \/ CommandKilled(c)
    <2>1. Finish(c) /\ UNCHANGED <<config, vaultKey, saved, rekeys, issued>>
      BY <1>4 DEF RunInstaller, CommandKilled
    <2> QED
      BY <2>1, FinishTallies
  <1> QED
    BY <1>1, <1>2, <1>3, <1>4, LoadTallies, RekeyTallies, FillTallies

(* Versions are published before they are installed.                       *)
LEMMA VersionTallies ==
  ASSUME ConfigTypes, VersionsTallied, [ConfigNext]_configVars PROVE VersionsTallied'
  <1>0. /\ released \in Nat /\ onDisk \in Nat /\ onDisk <= released /\ released <= MaxReleases
        /\ mishaps \subseteq {"stale", "torn", "killed"} /\ tick \in Ticks
    BY DEF VersionsTallied
  <1>1. mishaps' \subseteq {"stale", "torn", "killed"}
    <2>1. CASE \E c \in Commands : FillConfig(c) \/ CommandKilled(c)
      BY <1>0, <2>1 DEF FillConfig, CommandKilled
    <2>2. CASE mishaps' = mishaps
      BY <1>0, <2>2
    <2>3. (\E c \in Commands : FillConfig(c) \/ CommandKilled(c)) \/ mishaps' = mishaps
      BY DEF ConfigNext, configVars, IssueCommand, LoadConfig, SetPreference, RekeyVault, AskIndex,
             TruncateConfig, AfterSave, RunInstaller, PublishVersion, TickChecks,
             TickReadsPreference, TickSpawnsUpgrade, Unmoved
    <2> QED
      BY <2>1, <2>2, <2>3
  <1>2. /\ released' \in Nat /\ onDisk' \in Nat /\ onDisk' <= released'
        /\ released' <= MaxReleases
    <2>1. CASE \E c \in Commands : RunInstaller(c)
      BY <1>0, <2>1 DEF RunInstaller
    <2>2. CASE PublishVersion
      BY <1>0, <2>2, BoundsOfConfig DEF PublishVersion
    <2>3. CASE released' = released /\ onDisk' = onDisk
      BY <1>0, <2>3
    <2>4. (\E c \in Commands : RunInstaller(c)) \/ PublishVersion
          \/ (released' = released /\ onDisk' = onDisk)
      BY DEF ConfigNext, configVars, IssueCommand, LoadConfig, SetPreference, RekeyVault, AskIndex,
             TruncateConfig, AfterSave, FillConfig, CommandKilled, TickChecks,
             TickReadsPreference, TickSpawnsUpgrade, Unmoved
    <2> QED
      BY <2>1, <2>2, <2>3, <2>4
  <1>3. tick' \in Ticks
    <2>1. CASE TickChecks
      BY <1>0, <2>1 DEF TickChecks, Ticks
    <2>2. CASE TickReadsPreference
      <3>1. [at |-> "spawn", wanted |-> wanted] \in Ticks /\ Waiting \in Ticks
        BY DEF Ticks, Waiting, ConfigTypes
      <3> QED
        BY <2>2, <3>1 DEF TickReadsPreference
    <2>3. CASE tick' \in {tick, Waiting}
      <3>1. Waiting \in Ticks
        BY DEF Ticks, Waiting
      <3> QED
        BY <1>0, <2>3, <3>1
    <2>4. TickChecks \/ TickReadsPreference \/ tick' \in {tick, Waiting}
      BY DEF ConfigNext, configVars, IssueCommand, LoadConfig, SetPreference, RekeyVault, AskIndex,
             TruncateConfig, AfterSave, FillConfig, CommandKilled, RunInstaller, PublishVersion,
             TickSpawnsUpgrade, Unmoved
    <2> QED
      BY <2>1, <2>2, <2>3, <2>4
  <1> QED
    BY <1>1, <1>2, <1>3 DEF VersionsTallied

LEMMA ConfigTalliesKept ==
  ASSUME ConfigTypes, ConfigTallies, [ConfigNext]_configVars PROVE ConfigTallies'
  <1>0. SavesTallied /\ KeysTallied /\ VersionsTallied
    BY DEF ConfigTallies
  <1>1. SavesTallied' /\ KeysTallied'
    <2>1. CASE \E c \in Commands :
            \/ IssueCommand(c) \/ LoadConfig(c) \/ SetPreference(c) \/ RekeyVault(c)
            \/ AskIndex(c) \/ TruncateConfig(c) \/ FillConfig(c) \/ AfterSave(c)
            \/ RunInstaller(c) \/ CommandKilled(c)
      BY <1>0, <2>1, CommandTallies
    <2>2. CASE \E c \in Commands :
                 StartCommand(c, "upgrade") /\ UNCHANGED <<config, vaultKey, saved, rekeys>>
      BY <1>0, <2>2, StartTallies
    <2>3. CASE UNCHANGED <<config, vaultKey, command, saved, issued, rekeys>>
      BY <1>0, <2>3 DEF SavesTallied, KeysTallied, Pending
    <2>4. CASE PublishVersion \/ TickChecks \/ TickReadsPreference \/ UNCHANGED configVars
      <3>1. UNCHANGED <<config, vaultKey, command, saved, issued, rekeys>>
        BY <2>4 DEF PublishVersion, TickChecks, TickReadsPreference, configVars
      <3> QED
        BY <2>3, <3>1
    <2>5. CASE TickSpawnsUpgrade
      <3>1. UNCHANGED <<config, vaultKey, saved, rekeys>>
            /\ ((\E c \in Commands : StartCommand(c, "upgrade")) \/ UNCHANGED <<command, issued>>)
        BY <2>5 DEF TickSpawnsUpgrade
      <3> QED
        BY <2>2, <2>3, <3>1
    <2> QED
      BY <2>1, <2>4, <2>5 DEF ConfigNext
  <1>2. VersionsTallied'
    BY <1>0, VersionTallies
  <1> QED
    BY <1>1, <1>2 DEF ConfigTallies

LEMMA ConfigTyped == ASSUME ConfigInv, ConfigTallies PROVE ConfigTypeOK
  <1>0. ConfigTypes /\ SavesTallied /\ KeysTallied /\ VersionsTallied
    BY DEF ConfigInv, ConfigTallies
  <1>1. config \in [whole : BOOLEAN, key : 0..(MaxRekeys + 1), auto : BOOLEAN]
    <2>1. config \in [whole : BOOLEAN, key : Nat, auto : BOOLEAN] /\ rekeys \in Nat
      BY <1>0 DEF ConfigTypes
    <2>2. config.key \in 0..(MaxRekeys + 1)
      <3>1. config.key \in Nat
        BY <2>1
      <3> QED
        BY <1>0, <2>1, <3>1, BoundsOfConfig DEF KeysTallied
    <2> QED
      BY <2>1, <2>2
  <1>2. vaultKey \in 1..(MaxRekeys + 1)
    BY <1>0, BoundsOfConfig DEF ConfigTypes, KeysTallied
  <1>3. saved \in 0..MaxIssued /\ wanted \in BOOLEAN
    <2>1. saved \in Nat /\ wanted \in BOOLEAN /\ Cardinality(Pending) \in Nat
      BY <1>0, FS_CardinalityType DEF ConfigTypes, SavesTallied
    <2>2. saved <= MaxIssued
      BY <1>0, <2>1, BoundsOfConfig DEF SavesTallied
    <2>3. saved \in 0..MaxIssued
      BY <2>1, <2>2, BoundsOfConfig
    <2> QED
      BY <2>1, <2>3
  <1>4. ASSUME NEW c \in Commands
        PROVE  /\ command[c].does \in Doings \cup {"none"} /\ command[c].at \in CommandSteps
               /\ command[c].holds \in [key : 0..(MaxRekeys + 1), auto : BOOLEAN]
    <2>1. command[c] \in Process /\ command[c].holds \in Settings /\ command[c].holds.key \in Nat
      BY <1>0, CommandFields
    <2>2. command[c].holds.key \in 0..(MaxRekeys + 1)
      <3>1. rekeys \in Nat /\ command[c].holds.key <= rekeys + 1 /\ rekeys <= MaxRekeys
        BY <1>0 DEF KeysTallied, ConfigTypes
      <3> QED
        BY <2>1, <3>1, BoundsOfConfig
    <2>3. command[c].holds \in [key : 0..(MaxRekeys + 1), auto : BOOLEAN]
      BY <2>1, <2>2 DEF Settings
    <2>4. command[c].does \in Doings \cup {"none"} /\ command[c].at \in CommandSteps
      BY <2>1 DEF Process
    <2> QED
      BY <2>3, <2>4
  <1>5. released \in 0..MaxReleases /\ onDisk \in 0..MaxReleases
    BY <1>0, BoundsOfConfig DEF VersionsTallied
  <1> QED
    BY <1>0, <1>1, <1>2, <1>3, <1>4, <1>5 DEF VersionsTallied, CommandSteps, Ticks, ConfigTypeOK

-----------------------------------------------------------------------------
(* Provision.  A run of setup is at one step, of the embedded database or  *)
(* of the container, and what it leaves is told by that step.              *)
SetupSteps ==
  {"none", "download", "initdb", "initialising", "start", "create_database", "save_state",
   "saving_state", "ensure_up", "find_container", "ask_container", "run_container",
   "schema", "vault", "save_config"}
InFiles == {"initdb", "initialising", "start", "create_database", "save_state", "saving_state"}
Widths == {0, 384, 1536}
Database == [created : BOOLEAN, width : Widths, secret : Nat, stored : BOOLEAN]

ProvisionTypes ==
  /\ setup \in [at : SetupSteps, kind : Kinds, key : Nat, openai : BOOLEAN]
  /\ files \in [moved : BOOLEAN, cluster : {"none", "begun", "made"},
                state : {"none", "torn", "whole"}]
  /\ db \in [Kinds -> Database]
  /\ cfg \in [kind : Kinds \cup {"none"}, key : Nat, openai : BOOLEAN]
  /\ keys \in Nat /\ used \subseteq Kinds

(* How far the files of the embedded database have come, by the step setup *)
(* is at; binaries in place that no run is at work on are a run's that was *)
(* cut, until the state file is whole.                                     *)
FilesFollow ==
  /\ setup.at \in InFiles => files.moved /\ files.state # "whole"
  /\ setup.at \in {"download"} => files.state # "whole"
  /\ setup.at \in {"start", "create_database", "save_state", "saving_state"} =>
       files.cluster = "made"
  /\ setup.at \in {"save_state", "saving_state"} => db["embedded"].created
  /\ files.moved /\ files.state # "whole" /\ setup.at \notin InFiles => "files" \in cut

(* What setup holds once the schema is made, as long as nothing was        *)
(* changed: the key of the config, if there is one, and embeddings of the  *)
(* width of the columns.                                                   *)
PastSchema == setup.at \in {"vault", "save_config"}

ChoicesFit ==
  /\ cfg.kind = "none" => cfg.key = 0 /\ ~cfg.openai
  /\ cfg.kind # "none" => cfg.key # 0
  /\ setup.at # "none" /\ cfg.kind # "none" => setup.key = cfg.key
  /\ PastSchema => setup.key # 0
  /\ changes = {} /\ "schema" \notin cut =>
       /\ PastSchema =>
            /\ cfg.kind \in {"none", setup.kind}
            /\ setup.openai => db[setup.kind].width = 1536
            /\ ~setup.openai /\ cfg.kind = "none" => db[setup.kind].width = 384
       /\ setup.at = "save_config" /\ setup.openai => db[setup.kind].secret = setup.key
       /\ \A k \in Kinds : cfg.kind = "none" /\ db[k].width # 0 => PastSchema /\ setup.kind = k

ProvisionInv ==
  /\ ProvisionTypes /\ FilesFollow /\ ChoicesFit
  /\ StateMeansReady /\ ConfigFitsDatabase /\ MemoriesKept

LEMMA ProvisionInitInv == ProvisionInit => ProvisionInv
  BY DEF Widths, ProvisionInit, ProvisionInv, ProvisionTypes, FilesFollow, ChoicesFit, StateMeansReady,
         ConfigFitsDatabase, MemoriesKept, NoRun, Fresh, Kinds, SetupSteps, InFiles, Database,
         PastSchema

LEMMA RunSetupKeeps == ASSUME ProvisionInv, RunSetup PROVE ProvisionInv'
  <1>1. PICK k \in Kinds :
          setup' = [NoRun EXCEPT !.kind = k, !.key = cfg.key,
                                 !.at = IF k = "docker" THEN "find_container"
                                        ELSE IF files.state = "whole" THEN "ensure_up"
                                        ELSE "download"]
    BY DEF RunSetup
  <1>2. /\ setup = NoRun /\ UNCHANGED <<files, db, cfg, blocked, cut, changes, used, keys>>
        /\ ProvisionTypes /\ FilesFollow /\ ChoicesFit
        /\ StateMeansReady /\ ConfigFitsDatabase /\ MemoriesKept
    BY DEF RunSetup, Machinery, ProvisionInv
  <1>3. /\ setup'.kind = k /\ setup'.key = cfg.key /\ setup'.openai = FALSE
        /\ setup'.at \in {"find_container", "ensure_up", "download"}
        /\ setup'.at = "download" => files.state # "whole"
        /\ setup' \in [at : SetupSteps, kind : Kinds, key : Nat, openai : BOOLEAN]
    BY <1>1, <1>2 DEF NoRun, SetupSteps, ProvisionTypes, Kinds
  <1>4. setup.at = "none"
    BY <1>2 DEF NoRun
  <1>5. ProvisionTypes'
    BY <1>2, <1>3 DEF ProvisionTypes
  <1>6. FilesFollow'
    BY <1>2, <1>3, <1>4 DEF FilesFollow, InFiles
  <1>7. ChoicesFit'
    BY <1>2, <1>3, <1>4 DEF ChoicesFit, PastSchema
  <1> QED
    BY <1>2, <1>5, <1>6, <1>7
       DEF ProvisionInv, StateMeansReady, ConfigFitsDatabase, MemoriesKept

LEMMA StepTaken ==
  ASSUME ProvisionTypes, NEW from, NEW to \in SetupSteps, Step(from, to)
  PROVE  /\ setup.at = from /\ setup'.at = to /\ setup'.kind = setup.kind
         /\ setup'.key = setup.key /\ setup'.openai = setup.openai
         /\ setup' \in [at : SetupSteps, kind : Kinds, key : Nat, openai : BOOLEAN]
  BY DEF ProvisionTypes, Step

LEMMA MoveBinariesKeeps == ASSUME ProvisionInv, MoveBinaries PROVE ProvisionInv'
  <1>1. /\ UNCHANGED <<db, cfg, cut, changes, used, keys>>
        /\ ProvisionTypes /\ FilesFollow /\ ChoicesFit
        /\ StateMeansReady /\ ConfigFitsDatabase /\ MemoriesKept
    BY DEF MoveBinaries, ProvisionInv
  <1>2. CASE files.moved
    <2>1. setup.at = "download" /\ setup' = NoRun /\ blocked' = TRUE /\ UNCHANGED files
      BY <1>2 DEF MoveBinaries
    <2>2. ProvisionTypes'
      BY <1>1, <2>1 DEF ProvisionTypes, NoRun, SetupSteps, Kinds
    <2>3. FilesFollow' /\ StateMeansReady'
      BY <1>1, <1>2, <2>1 DEF FilesFollow, StateMeansReady, NoRun, InFiles
    <2>4. ChoicesFit'
      BY <1>1, <2>1 DEF ChoicesFit, PastSchema, NoRun
    <2> QED
      BY <1>1, <2>2, <2>3, <2>4 DEF ProvisionInv, ConfigFitsDatabase, MemoriesKept
  <1>3. CASE ~files.moved
    <2>1. /\ Step("download", "initdb") /\ UNCHANGED blocked
          /\ files' = [files EXCEPT !.moved = TRUE]
      BY <1>3 DEF MoveBinaries
    <2>2. /\ setup.at = "download" /\ setup'.at = "initdb" /\ setup'.kind = setup.kind
          /\ setup'.key = setup.key /\ setup'.openai = setup.openai
          /\ setup' \in [at : SetupSteps, kind : Kinds, key : Nat, openai : BOOLEAN]
      BY <1>1, <2>1, StepTaken DEF SetupSteps
    <2>3. ProvisionTypes'
      BY <1>1, <2>1, <2>2 DEF ProvisionTypes
    <2>4. files'.moved /\ files'.state = files.state /\ files'.cluster = files.cluster
      BY <1>1, <2>1 DEF ProvisionTypes
    <2>5. FilesFollow' /\ StateMeansReady'
      BY <1>1, <1>3, <2>1, <2>2, <2>4 DEF FilesFollow, StateMeansReady, InFiles
    <2>6. ChoicesFit'
      BY <1>1, <2>2 DEF ChoicesFit, PastSchema
    <2> QED
      BY <1>1, <2>3, <2>5, <2>6 DEF ProvisionInv, ConfigFitsDatabase, MemoriesKept
  <1> QED
    BY <1>2, <1>3

(* A step of setup up to the schema that changes no database but to create *)
(* it, nor what else the choices speak of.                                 *)
LEMMA EarlyStep ==
  ASSUME ChoicesFit, ConfigFitsDatabase, MemoriesKept,
         UNCHANGED <<cfg, cut, changes, used>>,
         setup.at # "none", setup'.at \in SetupSteps \ {"vault", "save_config"},
         ~PastSchema, setup'.kind = setup.kind, setup'.key = setup.key,
         \A k \in Kinds : /\ db'[k].width = db[k].width /\ db'[k].secret = db[k].secret
                          /\ db'[k].stored = db[k].stored,
         ProvisionTypes
  PROVE  ChoicesFit' /\ ConfigFitsDatabase' /\ MemoriesKept'
  <1>1. ChoicesFit'
    BY DEF ChoicesFit, PastSchema
  <1>2. ConfigFitsDatabase'
    BY DEF ConfigFitsDatabase, ProvisionTypes
  <1>3. MemoriesKept'
    BY DEF MemoriesKept, ProvisionTypes
  <1> QED
    BY <1>1, <1>2, <1>3

LEMMA Creating ==
  ASSUME NEW d, d \in Database, NEW e, e = [d EXCEPT !.created = TRUE]
  PROVE  /\ e \in Database /\ e.created = TRUE
         /\ e.width = d.width /\ e.secret = d.secret /\ e.stored = d.stored
  <1>1. e \in Database
    BY DEF Database
  <1>2. e.created = TRUE
    BY DEF Database
  <1> QED
    BY <1>1, <1>2 DEF Database

LEMMA MadeDatabase ==
  ASSUME ProvisionTypes, NEW x, x \in Kinds, db' = [db EXCEPT ![x].created = TRUE]
  PROVE  /\ db' \in [Kinds -> Database] /\ db'[x].created
         /\ \A k \in Kinds : /\ db'[k].width = db[k].width /\ db'[k].secret = db[k].secret
                             /\ db'[k].stored = db[k].stored
                             /\ db[k].created => db'[k].created
  <1>1. PICK d : d = db[x]
    OBVIOUS
  <1>2. PICK e : e = [d EXCEPT !.created = TRUE]
    OBVIOUS
  <1>3. db \in [Kinds -> Database] /\ d \in Database
    BY <1>1 DEF ProvisionTypes
  <1>4. /\ e \in Database /\ e.created = TRUE
        /\ e.width = d.width /\ e.secret = d.secret /\ e.stored = d.stored
    BY <1>2, <1>3, Creating
  <1>5. db' = [db EXCEPT ![x] = e]
    BY <1>1, <1>2
  <1> HIDE DEF Database
  <1> QED
    BY <1>1, <1>3, <1>4, <1>5

(* The steps that touch the files of the embedded database alone.          *)
LEMMA FileSteps ==
  ASSUME ProvisionInv,
         InitDb \/ StartPostgres \/ CreateDatabase \/ SaveState \/ EnsureUp
  PROVE  ProvisionInv'
  <1>1. /\ ProvisionTypes /\ FilesFollow /\ ChoicesFit
        /\ StateMeansReady /\ ConfigFitsDatabase /\ MemoriesKept
        /\ UNCHANGED <<cfg, cut, changes, used, keys, blocked>>
    BY DEF ProvisionInv, InitDb, StartPostgres, CreateDatabase, SaveState, EnsureUp, Contents,
           Machinery
  <1>2. PICK from \in {"initdb", "initialising", "start", "create_database", "save_state",
                       "saving_state", "ensure_up"},
             to \in {"initialising", "start", "create_database", "save_state",
                     "saving_state", "schema"} :
          /\ Step(from, to)
          /\ \/ from = "initdb" /\ to = "initialising" /\ UNCHANGED db
                /\ files' = [files EXCEPT !.cluster = "begun"]
             \/ from = "initialising" /\ to = "start" /\ UNCHANGED db
                /\ files' = [files EXCEPT !.cluster = "made"]
             \/ from = "start" /\ to = "create_database" /\ UNCHANGED <<db, files>>
             \/ from = "create_database" /\ to = "save_state" /\ UNCHANGED files
                /\ db' = [db EXCEPT !["embedded"].created = TRUE]
             \/ from = "save_state" /\ to = "saving_state" /\ UNCHANGED db
                /\ files' = [files EXCEPT !.state = "torn"]
             \/ from = "saving_state" /\ to = "schema" /\ UNCHANGED db
                /\ files' = [files EXCEPT !.state = "whole"]
             \/ from = "ensure_up" /\ to = "schema" /\ UNCHANGED <<db, files>>
    BY DEF InitDb, StartPostgres, CreateDatabase, SaveState, EnsureUp, Contents, Machinery
  <1>3. /\ setup.at = from /\ setup'.at = to /\ setup'.kind = setup.kind
        /\ setup'.key = setup.key /\ setup'.openai = setup.openai
        /\ setup' \in [at : SetupSteps, kind : Kinds, key : Nat, openai : BOOLEAN]
    BY <1>1, <1>2, StepTaken DEF SetupSteps
  <1>4. /\ db' \in [Kinds -> Database]
        /\ \A k \in Kinds : /\ db'[k].width = db[k].width /\ db'[k].secret = db[k].secret
                            /\ db'[k].stored = db[k].stored
                            /\ db[k].created => db'[k].created
        /\ from = "create_database" => db'["embedded"].created
    <2>1. CASE db' = [db EXCEPT !["embedded"].created = TRUE]
      BY <1>1, <2>1, MadeDatabase DEF Kinds
    <2>2. CASE UNCHANGED db /\ from # "create_database"
      BY <1>1, <2>2 DEF ProvisionTypes
    <2> QED
      BY <1>2, <2>1, <2>2
  <1>5. /\ files' \in [moved : BOOLEAN, cluster : {"none", "begun", "made"},
                       state : {"none", "torn", "whole"}]
        /\ files'.moved = files.moved
        /\ files'.cluster = IF from = "initdb" THEN "begun"
                            ELSE IF from = "initialising" THEN "made" ELSE files.cluster
        /\ files'.state = IF from = "save_state" THEN "torn"
                          ELSE IF from = "saving_state" THEN "whole" ELSE files.state
    BY <1>1, <1>2 DEF ProvisionTypes
  <1>6. ProvisionTypes'
    BY <1>1, <1>3, <1>4, <1>5 DEF ProvisionTypes
  <1>7. FilesFollow' /\ StateMeansReady'
    BY <1>1, <1>2, <1>3, <1>4, <1>5 DEF FilesFollow, StateMeansReady, InFiles, Kinds
  <1>8. /\ setup.at # "none" /\ ~PastSchema
        /\ setup'.at \in SetupSteps \ {"vault", "save_config"}
    BY <1>2, <1>3 DEF PastSchema, SetupSteps
  <1>9. ChoicesFit' /\ ConfigFitsDatabase' /\ MemoriesKept'
    BY <1>1, <1>3, <1>4, <1>8, EarlyStep
  <1> QED
    BY <1>6, <1>7, <1>9 DEF ProvisionInv

(* The container.                                                          *)
LEMMA ContainerSteps ==
  ASSUME ProvisionInv, FindContainer \/ ReuseContainer \/ RunContainer PROVE ProvisionInv'
  <1>1. /\ ProvisionTypes /\ FilesFollow /\ ChoicesFit
        /\ StateMeansReady /\ ConfigFitsDatabase /\ MemoriesKept
        /\ UNCHANGED <<files, cfg, cut, changes, used, keys, blocked>>
    BY DEF ProvisionInv, FindContainer, ReuseContainer, RunContainer, Contents, Machinery
  <1>2. PICK from \in {"find_container", "ask_container", "run_container"},
             to \in {"run_container", "ask_container", "schema"} :
          /\ Step(from, to)
          /\ db' = db \/ db' = [db EXCEPT !["docker"].created = TRUE]
    BY DEF FindContainer, ReuseContainer, RunContainer, Contents, Machinery
  <1>3. /\ setup.at = from /\ setup'.at = to /\ setup'.kind = setup.kind
        /\ setup'.key = setup.key /\ setup'.openai = setup.openai
        /\ setup' \in [at : SetupSteps, kind : Kinds, key : Nat, openai : BOOLEAN]
    BY <1>1, <1>2, StepTaken DEF SetupSteps
  <1>4. /\ db' \in [Kinds -> Database]
        /\ \A k \in Kinds : /\ db'[k].width = db[k].width /\ db'[k].secret = db[k].secret
                            /\ db'[k].stored = db[k].stored
                            /\ db[k].created => db'[k].created
    <2>1. CASE db' = [db EXCEPT !["docker"].created = TRUE]
      BY <1>1, <2>1, MadeDatabase DEF Kinds
    <2>2. CASE db' = db
      BY <1>1, <2>2 DEF ProvisionTypes
    <2> QED
      BY <1>2, <2>1, <2>2
  <1>5. ProvisionTypes'
    BY <1>1, <1>3, <1>4 DEF ProvisionTypes
  <1>6. FilesFollow' /\ StateMeansReady'
    BY <1>1, <1>2, <1>3, <1>4 DEF FilesFollow, StateMeansReady, InFiles, Kinds
  <1>7. /\ setup.at # "none" /\ ~PastSchema
        /\ setup'.at \in SetupSteps \ {"vault", "save_config"}
    BY <1>2, <1>3 DEF PastSchema, SetupSteps
  <1>8. ChoicesFit' /\ ConfigFitsDatabase' /\ MemoriesKept'
    BY <1>1, <1>3, <1>4, <1>7, EarlyStep
  <1> QED
    BY <1>5, <1>6, <1>8 DEF ProvisionInv

LEMMA RecreateContainerKeeps == ASSUME ProvisionInv, RecreateContainer PROVE ProvisionInv'
  <1>1. /\ ProvisionTypes /\ FilesFollow /\ ChoicesFit
        /\ StateMeansReady /\ ConfigFitsDatabase /\ MemoriesKept
        /\ UNCHANGED <<files, cfg, cut, used, keys, blocked>>
        /\ Step("ask_container", "run_container") /\ db' = [db EXCEPT !["docker"] = Fresh]
        /\ changes' = changes \cup {"recreated"}
    BY DEF ProvisionInv, RecreateContainer
  <1>2. /\ setup.at = "ask_container" /\ setup'.at = "run_container"
        /\ setup'.kind = setup.kind
        /\ setup'.key = setup.key /\ setup'.openai = setup.openai
        /\ setup' \in [at : SetupSteps, kind : Kinds, key : Nat, openai : BOOLEAN]
    BY <1>1, StepTaken DEF SetupSteps
  <1>3. /\ db' \in [Kinds -> Database] /\ db'["embedded"] = db["embedded"]
    BY <1>1 DEF ProvisionTypes, Database, Kinds, Fresh, Widths
  <1>4. ProvisionTypes'
    BY <1>1, <1>2, <1>3 DEF ProvisionTypes
  <1>5. FilesFollow' /\ StateMeansReady'
    BY <1>1, <1>2, <1>3 DEF FilesFollow, StateMeansReady, InFiles
  <1>6. changes' # {} /\ "recreated" \in changes'
    BY <1>1
  <1>7. ChoicesFit' /\ ConfigFitsDatabase'
    BY <1>1, <1>2, <1>6 DEF ChoicesFit, ConfigFitsDatabase, PastSchema
  <1>8. MemoriesKept'
    BY <1>1, <1>3, <1>6 DEF MemoriesKept, ProvisionTypes, Kinds
  <1> QED
    BY <1>4, <1>5, <1>7, <1>8 DEF ProvisionInv

LEMMA WidthSet ==
  ASSUME NEW d, d \in Database, NEW w, w \in Widths, NEW e, e = [d EXCEPT !.width = w]
  PROVE  /\ e \in Database /\ e.width = w /\ e.secret = d.secret
         /\ e.stored = d.stored /\ e.created = d.created
  BY DEF Database

LEMMA MakeSchemaKeeps == ASSUME ProvisionInv, MakeSchema PROVE ProvisionInv'
  <1> DEFINE k == setup.kind
             width(openai) == IF db[k].width # 0 THEN db[k].width
                              ELSE IF openai = "no" THEN 384 ELSE 1536
             key == IF setup.key = 0 THEN keys + 1 ELSE setup.key
  <1>1. PICK openai \in {"no", "typed", "environment"} :
          /\ setup' = [setup EXCEPT !.at = "vault", !.openai = (openai = "typed"), !.key = key]
          /\ db' = [db EXCEPT ![k].width = width(openai)]
          /\ changes' = changes
               \cup (IF cfg.kind \notin {"none", k} THEN {"switched"} ELSE {})
               \cup (IF openai = "typed" /\ width(openai) = 384 THEN {"rechosen"} ELSE {})
               \cup (IF openai = "environment" THEN {"environment"} ELSE {})
    BY DEF MakeSchema
  <1> DEFINE wide == width(openai)
  <1>2. /\ db' = [db EXCEPT ![k].width = wide]
        /\ wide = IF db[k].width # 0 THEN db[k].width
                  ELSE IF openai = "no" THEN 384 ELSE 1536
        /\ changes' = changes
             \cup (IF cfg.kind \notin {"none", k} THEN {"switched"} ELSE {})
             \cup (IF openai = "typed" /\ wide = 384 THEN {"rechosen"} ELSE {})
             \cup (IF openai = "environment" THEN {"environment"} ELSE {})
    BY <1>1
  <1>3. /\ ProvisionTypes /\ FilesFollow /\ ChoicesFit
        /\ StateMeansReady /\ ConfigFitsDatabase /\ MemoriesKept
        /\ UNCHANGED <<files, cfg, cut, used, blocked>> /\ setup.at = "schema"
        /\ keys' = IF setup.key = 0 THEN keys + 1 ELSE keys
    BY DEF ProvisionInv, MakeSchema, Machinery
  <1>4. k \in Kinds /\ db \in [Kinds -> Database] /\ db[k] \in Database
    BY <1>1, <1>3 DEF ProvisionTypes
  <1>5. wide \in {384, 1536} /\ (db[k].width # 0 => wide = db[k].width)
    BY <1>2, <1>4 DEF Database, Widths
  <1>6. /\ setup'.at = "vault" /\ setup'.kind = k /\ (setup'.openai <=> openai = "typed")
        /\ setup'.key = key
        /\ setup' \in [at : SetupSteps, kind : Kinds, key : Nat, openai : BOOLEAN]
        /\ key # 0 /\ (setup.key # 0 => key = setup.key) /\ keys' \in Nat
    <2>1. /\ key \in Nat /\ key # 0 /\ (setup.key # 0 => key = setup.key) /\ keys' \in Nat
      BY <1>3 DEF ProvisionTypes
    <2>2. setup \in [at : SetupSteps, kind : Kinds, key : Nat, openai : BOOLEAN]
      BY <1>3 DEF ProvisionTypes
    <2>3. setup' = [setup EXCEPT !.at = "vault", !.openai = (openai = "typed"), !.key = key]
      BY <1>1
    <2> HIDE DEF key
    <2>4. PICK u : u = [setup EXCEPT !.at = "vault"]
      OBVIOUS
    <2>5. PICK v : v = [u EXCEPT !.openai = (openai = "typed")]
      OBVIOUS
    <2>6. setup' = [v EXCEPT !.key = key]
      BY <2>3, <2>4, <2>5
    <2>7. /\ u \in [at : SetupSteps, kind : Kinds, key : Nat, openai : BOOLEAN]
          /\ u.at = "vault" /\ u.kind = k
      BY <2>2, <2>4 DEF SetupSteps
    <2>8. /\ v \in [at : SetupSteps, kind : Kinds, key : Nat, openai : BOOLEAN]
          /\ v.at = "vault" /\ v.kind = k
          /\ v.openai <=> openai = "typed"
      BY <2>5, <2>7
    <2> QED
      BY <2>1, <2>6, <2>8
  <1> HIDE DEF wide, width, key
  <1>7. /\ db' \in [Kinds -> Database] /\ db'[k].width = wide
        /\ \A x \in Kinds : /\ x # k => db'[x].width = db[x].width
                            /\ db'[x].secret = db[x].secret /\ db'[x].stored = db[x].stored
                            /\ db[x].created => db'[x].created
    <2>1. PICK d : d = db[k]
      OBVIOUS
    <2>2. PICK e : e = [d EXCEPT !.width = wide]
      OBVIOUS
    <2>3. /\ e \in Database /\ e.width = wide /\ e.secret = d.secret
          /\ e.stored = d.stored /\ e.created = d.created
      BY <1>4, <1>5, <2>1, <2>2, WidthSet DEF Widths
    <2>4. db' = [db EXCEPT ![k] = e]
      BY <1>2, <2>1, <2>2
    <2> QED
      BY <1>4, <2>1, <2>3, <2>4
  <1>8. ProvisionTypes'
    BY <1>3, <1>6, <1>7 DEF ProvisionTypes
  <1>9. FilesFollow' /\ StateMeansReady'
    BY <1>3, <1>6, <1>7 DEF FilesFollow, StateMeansReady, InFiles, Kinds
  <1>10. ASSUME changes' = {}
         PROVE  /\ changes = {} /\ cfg.kind \in {"none", k}
                /\ openai = "typed" => wide = 1536
                /\ openai # "environment"
    BY <1>2, <1>5, <1>10
  <1>11. ChoicesFit'
    <2>1. cfg.kind # "none" => setup'.key = cfg.key
      BY <1>3, <1>6 DEF ChoicesFit
    <2>2. ASSUME changes' = {}, "schema" \notin cut
          PROVE  /\ setup'.openai => db'[k].width = 1536
                 /\ ~setup'.openai /\ cfg.kind = "none" => db'[k].width = 384
                 /\ \A x \in Kinds : cfg.kind = "none" /\ db'[x].width # 0 => x = k
      <3>1. \A x \in Kinds : cfg.kind = "none" => db[x].width = 0
        BY <1>3, <1>10, <2>2 DEF ChoicesFit, PastSchema
      <3>2. openai = "no" /\ db[k].width = 0 => wide = 384
        BY <1>2
      <3>3. setup'.openai => db'[k].width = 1536
        BY <1>6, <1>7, <1>10, <2>2
      <3>4. ~setup'.openai /\ cfg.kind = "none" => db'[k].width = 384
        <4> SUFFICES ASSUME ~setup'.openai, cfg.kind = "none" PROVE wide = 384
          BY <1>7
        <4>1. openai = "no"
          BY <1>1, <1>6, <1>10, <2>2
        <4>2. db[k].width = 0
          BY <1>4, <3>1
        <4> QED
          BY <3>2, <4>1, <4>2
      <3>5. \A x \in Kinds : cfg.kind = "none" /\ db'[x].width # 0 => x = k
        BY <1>7, <3>1
      <3> QED
        BY <3>3, <3>4, <3>5
    <2> QED
      BY <1>3, <1>6, <1>7, <1>10, <2>1, <2>2 DEF ChoicesFit, PastSchema
  <1>12. ConfigFitsDatabase'
    <2>1. ASSUME cfg.kind # "none", changes' = {}, "schema" \notin cut
          PROVE  /\ cfg.kind = k /\ db'[k].width = db[k].width
                 /\ cfg.openai => db'[k].secret = cfg.key
                 /\ db'[k].width = IF cfg.openai THEN 1536 ELSE 384
      <3>1. cfg.kind = k /\ changes = {}
        BY <1>10, <2>1
      <3>2. /\ cfg.openai => db[k].secret = cfg.key
            /\ db[k].width = IF cfg.openai THEN 1536 ELSE 384
        BY <1>3, <2>1, <3>1 DEF ConfigFitsDatabase
      <3> QED
        BY <1>4, <1>5, <1>7, <3>1, <3>2
    <2> QED
      BY <1>3, <2>1 DEF ConfigFitsDatabase
  <1>13. MemoriesKept'
    BY <1>2, <1>3, <1>7 DEF MemoriesKept, ProvisionTypes
  <1> QED
    BY <1>8, <1>9, <1>11, <1>12, <1>13 DEF ProvisionInv

LEMMA StoreKeyKeeps == ASSUME ProvisionInv, StoreKey PROVE ProvisionInv'
  <1>1. PICK k : k = setup.kind
    OBVIOUS
  <1>2. /\ ProvisionTypes /\ FilesFollow /\ ChoicesFit
        /\ StateMeansReady /\ ConfigFitsDatabase /\ MemoriesKept
        /\ UNCHANGED <<files, cfg, cut, changes, used, keys, blocked>>
        /\ Step("vault", "save_config")
    BY DEF ProvisionInv, StoreKey, Machinery
  <1>3. /\ setup.at = "vault" /\ setup'.at = "save_config" /\ setup'.kind = setup.kind
        /\ setup'.key = setup.key /\ setup'.openai = setup.openai
        /\ setup' \in [at : SetupSteps, kind : Kinds, key : Nat, openai : BOOLEAN]
    BY <1>2, StepTaken DEF SetupSteps
  <1>4. k \in Kinds /\ db \in [Kinds -> Database] /\ db[k] \in Database /\ setup.key \in Nat
    BY <1>1, <1>2 DEF ProvisionTypes
  <1>5. /\ db' \in [Kinds -> Database] /\ (setup.openai => db'[k].secret = setup.key)
        /\ ~setup.openai => db'[k].secret = db[k].secret
        /\ \A x \in Kinds : /\ x # k => db'[x].secret = db[x].secret
                            /\ db'[x].width = db[x].width /\ db'[x].stored = db[x].stored
                            /\ db[x].created => db'[x].created
    <2>1. CASE ~setup.openai
      BY <1>4, <2>1 DEF StoreKey
    <2>2. CASE setup.openai
      <3>1. PICK e : e = [db[k] EXCEPT !.secret = setup.key]
        OBVIOUS
      <3>2. /\ e \in Database /\ e.secret = setup.key /\ e.width = db[k].width
            /\ e.stored = db[k].stored /\ e.created = db[k].created
        BY <1>4, <3>1 DEF Database
      <3>3. db' = [db EXCEPT ![k] = e]
        BY <1>1, <2>2, <3>1 DEF StoreKey
      <3> QED
        BY <1>4, <2>2, <3>2, <3>3
    <2> QED
      BY <2>1, <2>2
  <1>6. ProvisionTypes'
    BY <1>2, <1>3, <1>5 DEF ProvisionTypes
  <1>7. FilesFollow' /\ StateMeansReady'
    BY <1>2, <1>3, <1>5 DEF FilesFollow, StateMeansReady, InFiles, Kinds
  <1>8. ChoicesFit'
    BY <1>1, <1>2, <1>3, <1>4, <1>5 DEF ChoicesFit, PastSchema
  <1>9. ConfigFitsDatabase'
    BY <1>1, <1>2, <1>3, <1>4, <1>5 DEF ConfigFitsDatabase, ChoicesFit, PastSchema,
       ProvisionTypes
  <1>10. MemoriesKept'
    BY <1>2, <1>5 DEF MemoriesKept, ProvisionTypes
  <1> QED
    BY <1>6, <1>7, <1>8, <1>9, <1>10 DEF ProvisionInv

LEMMA SaveSetupKeeps == ASSUME ProvisionInv, SaveSetup PROVE ProvisionInv'
  <1>1. /\ ProvisionTypes /\ FilesFollow /\ ChoicesFit
        /\ StateMeansReady /\ ConfigFitsDatabase /\ MemoriesKept
        /\ UNCHANGED <<files, db, cut, changes, used, keys, blocked>>
        /\ setup.at = "save_config" /\ setup' = NoRun
        /\ cfg' = [kind |-> setup.kind, key |-> setup.key, openai |-> cfg.openai \/ setup.openai]
    BY DEF ProvisionInv, SaveSetup, Machinery
  <1>2. /\ cfg'.kind = setup.kind /\ cfg'.key = setup.key
        /\ cfg'.openai = (cfg.openai \/ setup.openai)
        /\ cfg' \in [kind : Kinds \cup {"none"}, key : Nat, openai : BOOLEAN]
        /\ cfg'.kind \in Kinds /\ cfg'.kind # "none"
        /\ setup'.at = "none" /\ setup'.kind = "embedded"
        /\ setup' \in [at : SetupSteps, kind : Kinds, key : Nat, openai : BOOLEAN]
    BY <1>1 DEF ProvisionTypes, Kinds, NoRun, SetupSteps
  <1>3. ProvisionTypes'
    BY <1>1, <1>2 DEF ProvisionTypes
  <1>4. FilesFollow' /\ StateMeansReady'
    BY <1>1, <1>2 DEF FilesFollow, StateMeansReady, InFiles
  <1>5. ASSUME changes = {}, "schema" \notin cut
        PROVE  /\ cfg.kind \in {"none", setup.kind}
               /\ setup.openai => /\ db[setup.kind].width = 1536
                                  /\ db[setup.kind].secret = setup.key
               /\ ~setup.openai /\ cfg.kind = "none" => db[setup.kind].width = 384
               /\ cfg.kind # "none" => setup.key = cfg.key
               /\ cfg.kind = "none" => ~cfg.openai
    BY <1>1, <1>5 DEF ChoicesFit, PastSchema
  <1>6. setup.key # 0
    BY <1>1 DEF ChoicesFit, PastSchema
  <1>7. ChoicesFit'
    BY <1>1, <1>2, <1>6 DEF ChoicesFit, PastSchema
  <1>8. ConfigFitsDatabase'
    <2>1. ASSUME changes = {}, "schema" \notin cut
          PROVE  /\ cfg'.openai => db[setup.kind].secret = setup.key
                 /\ db[setup.kind].width = IF cfg'.openai THEN 1536 ELSE 384
      <3>1. CASE cfg.kind = "none"
        BY <1>2, <1>5, <2>1, <3>1
      <3>2. CASE cfg.kind # "none"
        <4>1. /\ cfg.kind = setup.kind /\ setup.key = cfg.key
              /\ cfg.openai => db[setup.kind].secret = setup.key
              /\ db[setup.kind].width = IF cfg.openai THEN 1536 ELSE 384
          BY <1>1, <1>5, <2>1, <3>2 DEF ConfigFitsDatabase
        <4> QED
          BY <1>2, <1>5, <2>1, <4>1
      <3> QED
        BY <3>1, <3>2
    <2> QED
      BY <1>1, <1>2, <2>1 DEF ConfigFitsDatabase
  <1> QED
    BY <1>1, <1>3, <1>4, <1>7, <1>8 DEF ProvisionInv, MemoriesKept

LEMMA SetupStopsKeeps == ASSUME ProvisionInv, SetupStops PROVE ProvisionInv'
  <1>1. /\ ProvisionTypes /\ FilesFollow /\ ChoicesFit
        /\ StateMeansReady /\ ConfigFitsDatabase /\ MemoriesKept
        /\ UNCHANGED <<files, db, cfg, changes, used, keys, blocked>> /\ setup' = NoRun
        /\ cut \subseteq cut' /\ (setup.at \in InFiles => "files" \in cut')
        /\ PastSchema => "schema" \in cut'
    BY DEF ProvisionInv, SetupStops, Machinery, InFiles, PastSchema
  <1>2. /\ setup'.at = "none"
        /\ setup' \in [at : SetupSteps, kind : Kinds, key : Nat, openai : BOOLEAN]
    BY <1>1 DEF NoRun, SetupSteps, Kinds
  <1>3. ProvisionTypes'
    BY <1>1, <1>2 DEF ProvisionTypes
  <1>4. FilesFollow' /\ StateMeansReady'
    BY <1>1, <1>2 DEF FilesFollow, StateMeansReady, InFiles
  <1>5. ChoicesFit'
    BY <1>1, <1>2 DEF ChoicesFit, PastSchema
  <1>6. ConfigFitsDatabase' /\ MemoriesKept'
    BY <1>1 DEF ConfigFitsDatabase, MemoriesKept
  <1> QED
    BY <1>1, <1>3, <1>4, <1>5, <1>6 DEF ProvisionInv

LEMMA StoreMemoryKeeps == ASSUME ProvisionInv, StoreMemory PROVE ProvisionInv'
  <1>1. PICK k : k = cfg.kind
    OBVIOUS
  <1>2. /\ ProvisionTypes /\ FilesFollow /\ ChoicesFit
        /\ StateMeansReady /\ ConfigFitsDatabase /\ MemoriesKept
        /\ UNCHANGED <<setup, files, cfg, cut, changes, keys, blocked>>
        /\ k \in Kinds /\ db' = [db EXCEPT ![k].stored = TRUE] /\ used' = used \cup {k}
    BY <1>1 DEF ProvisionInv, StoreMemory, Machinery
  <1>3. PICK d : d = db[k]
    OBVIOUS
  <1>4. PICK e : e = [d EXCEPT !.stored = TRUE]
    OBVIOUS
  <1>5. db \in [Kinds -> Database] /\ d \in Database
    BY <1>2, <1>3 DEF ProvisionTypes
  <1>6. e \in Database
    BY <1>4, <1>5 DEF Database
  <1>7. e.stored = TRUE
    BY <1>4, <1>5 DEF Database
  <1>8. e.width = d.width /\ e.secret = d.secret /\ e.created = d.created
    BY <1>4, <1>5 DEF Database
  <1>9. db' = [db EXCEPT ![k] = e]
    BY <1>2, <1>3, <1>4
  <1>10. /\ db' \in [Kinds -> Database] /\ db'[k].stored
         /\ \A x \in Kinds : /\ db'[x].width = db[x].width /\ db'[x].secret = db[x].secret
                             /\ db[x].created => db'[x].created
                             /\ db[x].stored => db'[x].stored
    BY <1>2, <1>3, <1>5, <1>6, <1>7, <1>8, <1>9
  <1>11. ProvisionTypes'
    BY <1>2, <1>10 DEF ProvisionTypes
  <1>12. FilesFollow' /\ StateMeansReady'
    BY <1>2, <1>10 DEF FilesFollow, StateMeansReady, InFiles, Kinds
  <1>13. setup.kind \in Kinds /\ (cfg.kind # "none" => cfg.kind \in Kinds)
    BY <1>2 DEF ProvisionTypes
  <1>14. ChoicesFit'
    BY <1>2, <1>10, <1>13 DEF ChoicesFit, PastSchema
  <1>15. ConfigFitsDatabase'
    BY <1>2, <1>10, <1>13 DEF ConfigFitsDatabase
  <1>16. MemoriesKept'
    BY <1>2, <1>10 DEF MemoriesKept, ProvisionTypes
  <1> QED
    BY <1>11, <1>12, <1>14, <1>15, <1>16 DEF ProvisionInv

LEMMA ProvisionNextInv ==
  ASSUME ProvisionInv, [ProvisionNext]_provisionVars PROVE ProvisionInv'
  <1>1. CASE InitDb \/ StartPostgres \/ CreateDatabase \/ SaveState \/ EnsureUp
    BY <1>1, FileSteps
  <1>2. CASE FindContainer \/ ReuseContainer \/ RunContainer
    BY <1>2, ContainerSteps
  <1>3. CASE DatabaseStops \/ AutoStart \/ UNCHANGED provisionVars
    <2>1. UNCHANGED <<setup, files, db, cfg, blocked, cut, changes, used, keys>>
      BY <1>3 DEF DatabaseStops, AutoStart, Contents, provisionVars
    <2> QED
      BY <2>1 DEF ProvisionInv, ProvisionTypes, FilesFollow, ChoicesFit, PastSchema, InFiles,
                  StateMeansReady, ConfigFitsDatabase, MemoriesKept
  <1>4. CASE RunSetup \/ MoveBinaries \/ RecreateContainer \/ MakeSchema \/ StoreKey
             \/ SaveSetup \/ SetupStops \/ StoreMemory
    BY <1>4, RunSetupKeeps, MoveBinariesKeeps, RecreateContainerKeeps, MakeSchemaKeeps,
       StoreKeyKeeps, SaveSetupKeeps, SetupStopsKeeps, StoreMemoryKeeps
  <1> QED
    BY <1>1, <1>2, <1>3, <1>4 DEF ProvisionNext

(* However often setup runs, wherever it is killed and whatever is chosen  *)
(* anew: a state file that makes commands skip the first-time setup is     *)
(* there only for a finished cluster, the config fits its database, and no *)
(* memory goes but with a container removed.  A part of KeptThroughChange. *)
THEOREM SetupLeavesOrder ==
  ProvisionSpec => [](StateMeansReady /\ ConfigFitsDatabase /\ MemoriesKept)
  <1>1. ProvisionInv => StateMeansReady /\ ConfigFitsDatabase /\ MemoriesKept
    BY DEF ProvisionInv
  <1> QED
    BY <1>1, ProvisionInitInv, ProvisionNextInv, PTL DEF ProvisionSpec

-----------------------------------------------------------------------------
(* Provision: a run of setup makes at most one key, when it makes the      *)
(* schema, and every key in use was made by some run.                      *)
SetupTallies ==
  /\ setups \in 0..MaxSetups /\ keys \in 0..setups
  /\ setup.at \notin {"none", "vault", "save_config"} => keys < setups
  /\ setup.key <= keys /\ cfg.key <= keys
  /\ \A k \in Kinds : db[k].secret <= keys

ProvisionPlaces ==
  /\ postgres \in {"down", "up"} /\ container \in {"none", "stopped", "running"}
  /\ cut \subseteq {"files", "schema"}
  /\ changes \subseteq {"switched", "recreated", "rechosen", "environment"}

LEMMA SetupTalliesInit == ASSUME ProvisionInit PROVE SetupTallies /\ ProvisionPlaces
  BY ProvisionBounds DEF ProvisionInit, NoRun, Fresh, SetupTallies, ProvisionPlaces

LEMMA PlacesKept == ASSUME ProvisionPlaces, [ProvisionNext]_provisionVars PROVE ProvisionPlaces'
  <1>1. CASE UNCHANGED provisionVars
    BY <1>1 DEF provisionVars, ProvisionPlaces
  <1>2. CASE RunSetup \/ MoveBinaries \/ InitDb \/ StartPostgres \/ CreateDatabase \/ SaveState
    BY <1>2 DEF RunSetup, MoveBinaries, InitDb, StartPostgres, CreateDatabase, SaveState,
                Machinery, Contents, ProvisionPlaces
  <1>3. CASE EnsureUp \/ FindContainer \/ ReuseContainer \/ RecreateContainer \/ RunContainer
    BY <1>3 DEF EnsureUp, FindContainer, ReuseContainer, RecreateContainer, RunContainer,
                Machinery, Contents, ProvisionPlaces
  <1>4. CASE MakeSchema
    <2>1. UNCHANGED <<postgres, container, cut>>
      BY <1>4 DEF MakeSchema, Machinery
    <2>2. changes' \subseteq changes \cup {"switched", "rechosen", "environment"}
      BY <1>4 DEF MakeSchema
    <2> QED
      BY <2>1, <2>2 DEF ProvisionPlaces
  <1>5. CASE StoreKey \/ SaveSetup \/ SetupStops
    BY <1>5 DEF StoreKey, SaveSetup, SetupStops, Machinery, ProvisionPlaces
  <1>6. CASE StoreMemory \/ DatabaseStops \/ AutoStart
    BY <1>6 DEF StoreMemory, DatabaseStops, AutoStart, Machinery, Contents, ProvisionPlaces
  <1> QED
    BY <1>1, <1>2, <1>3, <1>4, <1>5, <1>6 DEF ProvisionNext

(* A step that leaves keys and runs, and only moves setup along, or ends   *)
(* it, and leaves every secret, keeps the count of the keys.               *)
LEMMA KeysCounted ==
  ASSUME ProvisionTypes, SetupTallies, UNCHANGED <<keys, setups, cfg>>,
         setup' = NoRun \/ setup' = setup
           \/ (\E from \in SetupSteps \ {"none", "vault", "save_config"}, to \in SetupSteps : Step(from, to)),
         \A k \in Kinds : db'[k].secret \in {db[k].secret, 0}
  PROVE  SetupTallies'
  <1>1. setup'.key \in {setup.key, 0}
    BY DEF NoRun, Step, ProvisionTypes
  <1>2. setup'.at \notin {"none", "vault", "save_config"} => setup.at \notin {"none", "vault", "save_config"}
    BY DEF NoRun, Step
  <1>3. \A k \in Kinds : db'[k].secret <= keys
    BY DEF SetupTallies
  <1>4. setup'.key <= keys
    BY <1>1 DEF SetupTallies
  <1> QED
    BY <1>2, <1>3, <1>4 DEF SetupTallies

LEMMA SetupTalliesKept ==
  ASSUME ProvisionTypes, SetupTallies, [ProvisionNext]_provisionVars PROVE SetupTallies'
  <1>1. CASE UNCHANGED provisionVars
    BY <1>1 DEF provisionVars, SetupTallies
  <1>2. CASE RunSetup
    <2>1. /\ setups < MaxSetups /\ setups' = setups + 1 /\ UNCHANGED <<db, cfg, keys>>
          /\ setup'.key = cfg.key
      BY <1>2 DEF RunSetup, NoRun
    <2>2. setups' \in 0..MaxSetups /\ keys' \in 0..setups' /\ keys' < setups'
      BY <2>1, ProvisionBounds DEF SetupTallies
    <2>3. setup'.key <= keys' /\ cfg'.key <= keys' /\ \A k \in Kinds : db'[k].secret <= keys'
      BY <2>1 DEF SetupTallies
    <2> QED
      BY <2>2, <2>3 DEF SetupTallies
  <1>3. CASE MoveBinaries
    <2>1. /\ UNCHANGED <<keys, setups, cfg, db>>
          /\ setup' = NoRun \/ Step("download", "initdb")
      BY <1>3 DEF MoveBinaries
    <2> QED
      BY <2>1, KeysCounted DEF SetupSteps
  <1>4. CASE InitDb \/ StartPostgres \/ SaveState \/ EnsureUp \/ ReuseContainer
    <2>1. UNCHANGED <<keys, setups, cfg, db>>
      BY <1>4 DEF InitDb, StartPostgres, SaveState, EnsureUp, ReuseContainer, Contents
    <2>2. \E from \in SetupSteps \ {"none", "vault", "save_config"}, to \in SetupSteps : Step(from, to)
      BY <1>4 DEF InitDb, StartPostgres, SaveState, EnsureUp, ReuseContainer, SetupSteps
    <2> QED
      BY <2>1, <2>2, KeysCounted
  <1>5. CASE CreateDatabase
    <2>1. /\ UNCHANGED <<keys, setups, cfg>> /\ Step("create_database", "save_state")
          /\ db' = [db EXCEPT !["embedded"].created = TRUE]
      BY <1>5 DEF CreateDatabase
    <2>2. \A k \in Kinds : db'[k].secret = db[k].secret
      BY <2>1 DEF ProvisionTypes, Database
    <2> QED
      BY <2>1, <2>2, KeysCounted DEF SetupSteps
  <1>6. CASE FindContainer
    <2>1. UNCHANGED <<keys, setups, cfg, db>>
      BY <1>6 DEF FindContainer, Contents
    <2>2. Step("find_container", "run_container") \/ Step("find_container", "ask_container")
      BY <1>6 DEF FindContainer
    <2>3. \E from \in SetupSteps \ {"none", "vault", "save_config"}, to \in SetupSteps : Step(from, to)
      BY <2>2 DEF SetupSteps
    <2> QED
      BY <2>1, <2>3, KeysCounted
  <1>7. CASE RecreateContainer
    <2>1. /\ UNCHANGED <<keys, setups, cfg>> /\ Step("ask_container", "run_container")
          /\ db' = [db EXCEPT !["docker"] = Fresh]
      BY <1>7 DEF RecreateContainer
    <2>2. \A k \in Kinds : db'[k].secret \in {db[k].secret, 0}
      BY <2>1 DEF ProvisionTypes, Fresh
    <2> QED
      BY <2>1, <2>2, KeysCounted DEF SetupSteps
  <1>8. CASE RunContainer
    <2>1. /\ UNCHANGED <<keys, setups, cfg>> /\ Step("run_container", "schema")
          /\ db' = [db EXCEPT !["docker"].created = TRUE]
      BY <1>8 DEF RunContainer
    <2>2. \A k \in Kinds : db'[k].secret = db[k].secret
      BY <2>1 DEF ProvisionTypes, Database
    <2> QED
      BY <2>1, <2>2, KeysCounted DEF SetupSteps
  <1>9. CASE MakeSchema
    <2> DEFINE k == setup.kind
               width(openai) == IF db[k].width # 0 THEN db[k].width
                                ELSE IF openai = "no" THEN 384 ELSE 1536
               key == IF setup.key = 0 THEN keys + 1 ELSE setup.key
    <2>1. PICK openai \in {"no", "typed", "environment"} :
            /\ setup' = [setup EXCEPT !.at = "vault", !.openai = (openai = "typed"), !.key = key]
            /\ db' = [db EXCEPT ![k].width = width(openai)]
            /\ changes' = changes
                 \cup (IF cfg.kind \notin {"none", k} THEN {"switched"} ELSE {})
                 \cup (IF openai = "typed" /\ width(openai) = 384 THEN {"rechosen"} ELSE {})
                 \cup (IF openai = "environment" THEN {"environment"} ELSE {})
      BY <1>9 DEF MakeSchema
    <2> HIDE DEF width
    <2>2. /\ setup.at = "schema" /\ UNCHANGED <<cfg, setups>>
          /\ keys' = IF setup.key = 0 THEN keys + 1 ELSE keys
      BY <1>9 DEF MakeSchema
    <2>3. setup'.at = "vault" /\ setup'.key = IF setup.key = 0 THEN keys + 1 ELSE setup.key
      BY <2>1 DEF ProvisionTypes
    <2>4. \A j \in Kinds : db'[j].secret = db[j].secret
      BY <2>1 DEF ProvisionTypes, Database
    <2>5. keys \in Nat /\ keys < setups /\ setups \in 0..MaxSetups /\ setup.key <= keys
      BY <2>2 DEF SetupTallies, ProvisionTypes
    <2>6. keys' \in 0..setups' /\ keys <= keys' /\ setup'.key <= keys' /\ keys' \in Nat
      BY <2>2, <2>3, <2>5, ProvisionBounds
    <2>7. cfg'.key <= keys' /\ \A j \in Kinds : db'[j].secret <= keys'
      <3>1. cfg.key \in Nat /\ cfg.key <= keys
        BY DEF SetupTallies, ProvisionTypes
      <3>2. \A j \in Kinds : db[j].secret \in Nat /\ db[j].secret <= keys
        BY DEF SetupTallies, ProvisionTypes, Database
      <3> QED
        BY <2>2, <2>4, <2>5, <2>6, <3>1, <3>2
    <2> QED
      BY <2>2, <2>3, <2>5, <2>6, <2>7 DEF SetupTallies
  <1>10. CASE StoreKey
    <2>1. /\ Step("vault", "save_config") /\ UNCHANGED <<cfg, keys, setups>>
          /\ db' = IF setup.openai THEN [db EXCEPT ![setup.kind].secret = setup.key] ELSE db
      BY <1>10 DEF StoreKey
    <2>2. setup'.at = "save_config" /\ setup'.key = setup.key
      BY <2>1 DEF Step, ProvisionTypes
    <2>3. \A k \in Kinds : db'[k].secret \in {db[k].secret, setup.key}
      BY <2>1 DEF ProvisionTypes, Database
    <2>4. \A k \in Kinds : db'[k].secret <= keys
      BY <2>3 DEF SetupTallies
    <2> QED
      BY <2>1, <2>2, <2>4 DEF SetupTallies
  <1>11. CASE SaveSetup
    <2>1. /\ setup' = NoRun /\ UNCHANGED <<db, keys, setups>> /\ cfg'.key = setup.key
      BY <1>11 DEF SaveSetup
    <2>2. setup'.at = "none" /\ setup'.key = 0
      BY <2>1 DEF NoRun
    <2>3. 0 <= keys
      BY DEF ProvisionTypes
    <2> QED
      BY <2>1, <2>2, <2>3 DEF SetupTallies
  <1>12. CASE SetupStops
    <2>1. setup' = NoRun /\ UNCHANGED <<keys, setups, cfg, db>>
      BY <1>12 DEF SetupStops
    <2> QED
      BY <2>1, KeysCounted
  <1>13. CASE StoreMemory
    <2>1. /\ UNCHANGED <<keys, setups, cfg, setup>> /\ db' = [db EXCEPT ![cfg.kind].stored = TRUE]
      BY <1>13 DEF StoreMemory
    <2>2. \A k \in Kinds : db'[k].secret = db[k].secret
      BY <2>1 DEF ProvisionTypes, Database
    <2> QED
      BY <2>1, <2>2, KeysCounted
  <1>14. CASE DatabaseStops \/ AutoStart
    <2>1. UNCHANGED <<keys, setups, cfg, db, setup>>
      BY <1>14 DEF DatabaseStops, AutoStart, Contents
    <2> QED
      BY <2>1, KeysCounted
  <1> QED
    BY <1>1, <1>2, <1>3, <1>4, <1>5, <1>6, <1>7, <1>8, <1>9, <1>10, <1>11, <1>12, <1>13, <1>14
       DEF ProvisionNext

LEMMA ProvisionTyped == ASSUME ProvisionTypes, SetupTallies, ProvisionPlaces PROVE ProvisionTypeOK
  <1>1. \A n \in Nat : n <= keys => n \in 0..MaxSetups
    BY ProvisionBounds DEF SetupTallies
  <1>2. setup.key \in 0..MaxSetups /\ cfg.key \in 0..MaxSetups
    BY <1>1 DEF ProvisionTypes, SetupTallies
  <1>3. \A k \in Kinds : db[k].secret \in 0..MaxSetups
    BY <1>1 DEF ProvisionTypes, SetupTallies, Database
  <1>4. setup \in [at : SetupSteps, kind : Kinds, key : 0..MaxSetups, openai : BOOLEAN]
    BY <1>2 DEF ProvisionTypes
  <1>5. cfg \in [kind : Kinds \cup {"none"}, key : 0..MaxSetups, openai : BOOLEAN]
    BY <1>2 DEF ProvisionTypes
  <1>6. db \in [Kinds -> [created : BOOLEAN, width : Widths, secret : 0..MaxSetups, stored : BOOLEAN]]
    BY <1>3 DEF ProvisionTypes, Database
  <1> QED
    BY <1>4, <1>5, <1>6 DEF ProvisionTypes, ProvisionPlaces, ProvisionTypeOK, SetupSteps, Widths

=============================================================================
