------------------------------ MODULE MCMemory ------------------------------
(* What keeps the stored memory in order, one to a behaviour: the          *)
(* reconcile walk, the corpus of rules and the documents Tommy sends to    *)
(* it, the sleep pass, episodes, the vault, a migration of the vectors,    *)
(* the calibration of the reranker, the provision of a database and the    *)
(* config file.  They share no variable; part says which one a behaviour   *)
(* runs, the others stay as they began.                                    *)
EXTENDS Reconcile, Corpus, Consolidation, Episodes, Vault, Migration, Rerank,
        ConfigFile, DocIngest, Provision, TLC

CONSTANTS
  valueA, valueB, w1, w2,            \* reconcile
  dl, dp, nl, np, xa, xb, g1, g2,    \* corpus
  su, sa, sb, nightly, asked,        \* consolidation
  p1, p2, ss1, ss2,                  \* episodes
  n1, n2, v1, v2,                    \* vault
  rawTurns, semantic, small, large,  \* migration
  q1, q2,                            \* rerank
  cmd1, cmd2,                        \* config
  pa, pb, t1, t2                     \* documents

MCPlaces       == 1..4
MCValues       == {valueA, valueB}
MCWalkers      == {w1, w2}
MCDocs         == {dl, dp}
MCRules        == {xa, xb}
MCTexts        == {{xb}, {xa, xb}}
MCLineage      == <<nl, np>>
MCNsOf         == dl :> nl @@ dp :> np
MCScore        == xa :> 2 @@ xb :> 1
MCProhibitions == {xa}
MCWindows      == {[since |-> 0, until |-> 2], [since |-> 2, until |-> 0]}
MCHunkHits     == {[add |-> 0, rem |-> 1], [add |-> 2, rem |-> 0], [add |-> 1, rem |-> 3]}
MCIngesters    == {g1, g2}
MCSubjects     == {su}
MCSayings      == {sa, sb}
MCStated       == {sa}
MCPasses       == {nightly, asked}
MCSegmenters   == {p1, p2}
MCSessions     == {ss1, ss2}
MCSecrets      == {n1, n2}
MCPlaintexts   == {v1, v2}
MCVectored     == <<rawTurns, semantic>>
MCDims         == {small, large}
MCAskers       == {q1, q2}
MCCommands     == {cmd1, cmd2}
MCPapers       == {pa, pb}
MCWeight       == [v \in {0, 1, 2} |-> IF v = 0 THEN 0 ELSE 3 - v]
MCDrivers      == {t1, t2}

VARIABLE part

MemoryInit ==
  /\ part \in {"reconcile", "corpus", "sleep", "episodes", "vault", "migration",
               "rerank", "config", "documents", "provision"}
  /\ ReconcileInit /\ CorpusInit /\ SleepInit /\ EpisodesInit /\ VaultInit
  /\ MigrationInit /\ RerankInit /\ ConfigInit /\ DocInit /\ ProvisionInit
  /\ part # "reconcile" => \A p \in Places : axis[p].is = "none"
  /\ part # "migration" => mode = small

MemoryNext ==
  /\ UNCHANGED part
  /\ IF part = "reconcile" THEN ReconcileNext ELSE UNCHANGED reconcileVars
  /\ IF part = "corpus"    THEN CorpusNext    ELSE UNCHANGED corpusVars
  /\ IF part = "sleep"     THEN SleepNext     ELSE UNCHANGED sleepVars
  /\ IF part = "episodes"  THEN EpisodesNext  ELSE UNCHANGED episodeVars
  /\ IF part = "vault"     THEN VaultNext     ELSE UNCHANGED vaultVars
  /\ IF part = "migration" THEN MigrationNext ELSE UNCHANGED migrationVars
  /\ IF part = "rerank"    THEN RerankNext    ELSE UNCHANGED rerankVars
  /\ IF part = "config"    THEN ConfigNext    ELSE UNCHANGED configVars
  /\ IF part = "documents" THEN DocNext       ELSE UNCHANGED docVars
  /\ IF part = "provision" THEN ProvisionNext ELSE UNCHANGED provisionVars

(* The variables of the part that runs: the rest of a state never changes. *)
MemoryView ==
  CASE part = "reconcile" -> <<part, reconcileVars>>
    [] part = "corpus"    -> <<part, corpusVars>>
    [] part = "sleep"     -> <<part, sleepVars>>
    [] part = "episodes"  -> <<part, episodeVars>>
    [] part = "vault"     -> <<part, vaultVars>>
    [] part = "migration" -> <<part, migrationVars>>
    [] part = "rerank"    -> <<part, rerankVars>>
    [] part = "config"    -> <<part, configVars>>
    [] part = "documents" -> <<part, docVars>>
    [] part = "provision" -> <<part, provisionVars>>

MemorySpec ==
  MemoryInit /\ [][MemoryNext]_<<part, reconcileVars, corpusVars, sleepVars,
    episodeVars, vaultVars, migrationVars, rerankVars,
    configVars, docVars, provisionVars>>

-----------------------------------------------------------------------------
(* The variables of the part that runs have their types.                   *)
MemoryTypeOK ==
  CASE part = "reconcile" -> ReconcileTypeOK
    [] part = "corpus"    -> CorpusTypeOK
    [] part = "sleep"     -> SleepTypeOK
    [] part = "episodes"  -> EpisodesTypeOK
    [] part = "vault"     -> VaultTypeOK
    [] part = "migration" -> MigrationTypeOK
    [] part = "rerank"    -> RerankTypeOK
    [] part = "config"    -> ConfigTypeOK
    [] part = "documents" -> DocTypeOK
    [] part = "provision" -> ProvisionTypeOK

(* The corpus holds and checks the rules as they were last ingested, and   *)
(* is sent the documents that changed.                                     *)
CorpusSound ==
  /\ part = "documents" => CorpusFollowsTree /\ DropsAreTold
  /\ part = "corpus" =>
    RulesAsIngested /\ DeviationsStayPut /\ EveryLevelHeard /\ NoHunkHidesAnother

(* What is derived from the turns: conclusions, episodes and their links.  *)
DerivedSound == /\ part = "sleep"    => SleepPassSound
                /\ part = "episodes" => EpisodesSound

(* A change of key loses no secret, a change of mode no vector, a change   *)
(* of settings no setting, a run of setup no memory.                       *)
KeptThroughChange ==
  /\ SecretsSurviveRotation /\ EveryRowEmbedded
  /\ part = "config"    => ConfigKept /\ UpdatesOnlyAsAsked
  /\ part = "provision" => StateMeansReady /\ ConfigFitsDatabase /\ MemoriesKept
=============================================================================
