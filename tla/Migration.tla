------------------------------ MODULE Migration ------------------------------
(***************************************************************************)
(* `memnos migrate-embeddings`: table by table the vector column is given  *)
(* the new dimension (and emptied), the rows are read, and re-embedded one *)
(* by one, each statement committed alone; the new mode is saved last.     *)
(* The command warns of a running server but goes on: the server writes    *)
(* rows at the dimension it was started with.                              *)
(***************************************************************************)
EXTENDS Naturals, Sequences, FiniteSets

CONSTANTS
  Vectored,            \* _EMB_TABLES: the tables, in order, raw_turns first
  Dims,                \* 384 and 1536
  Empty,               \* a NULL vector
  MaxVectors, MaxMigrations

ASSUME MigrationBounds ==
  /\ Vectored \in Seq({Vectored[i] : i \in DOMAIN Vectored}) \ {<<>>}
  /\ Empty \notin Dims /\ MaxVectors \in Nat /\ MaxMigrations \in Nat

VARIABLES
  column,     \* column[t]: the dimension of table t
  vectors,    \* rows: [id, table, vector], the dimension of the vector or Empty
  mode,       \* the embedding mode in config.json
  serverMode, \* the mode of the running server
  migration,  \* stage, target, table (index), rows still to embed
  migrations, killed   \* migrations begun; whether one has died

migrationVars == <<column, vectors, mode, serverMode, migration, migrations, killed>>

Tables == {Vectored[i] : i \in DOMAIN Vectored}
NoMigration == [stage |-> "idle", target |-> Empty, table |-> 0, todo |-> {}]
InTable(t) == {r \in vectors : r.table = t}
ThisTable == Vectored[migration.table]

MigrationInit ==
  /\ \E d \in Dims : /\ column = [t \in Tables |-> d] /\ mode = d /\ serverMode = d
  /\ vectors = {} /\ migration = NoMigration /\ migrations = 0
  /\ killed = FALSE

(* A row of another dimension is refused by the database.                  *)
ServerWrites(t) ==
  /\ Cardinality(vectors) < MaxVectors /\ column[t] = serverMode
  /\ vectors' = vectors \cup {[id |-> Cardinality(vectors) + 1, table |-> t,
                               vector |-> serverMode]}
  /\ UNCHANGED <<column, mode, serverMode, migration, migrations, killed>>

ServerTakesMode ==
  /\ serverMode # mode /\ serverMode' = mode
  /\ UNCHANGED <<column, vectors, mode, migration, migrations, killed>>

-----------------------------------------------------------------------------
Stages == <<"alter", "select", "embed">>
After(stage) == Stages[1 + CHOOSE i \in 1..2 : Stages[i] = stage]

(* Only the first table is asked for its dimension.                        *)
BeginMigration(target) ==
  /\ migration = NoMigration /\ migrations < MaxMigrations
  /\ migrations' = migrations + 1
  /\ migration' = IF column[Vectored[1]] = target THEN NoMigration
                  ELSE [stage |-> Stages[1], target |-> target, table |-> 1, todo |-> {}]
  /\ UNCHANGED <<column, vectors, mode, serverMode, killed>>

AlterColumn ==
  /\ migration.stage = "alter"
  /\ column' = [column EXCEPT ![ThisTable] = migration.target]
  /\ vectors' = {IF r.table = ThisTable THEN [r EXCEPT !.vector = Empty] ELSE r
                 : r \in vectors}
  /\ migration' = [migration EXCEPT !.stage = After("alter")]
  /\ UNCHANGED <<mode, serverMode, migrations, killed>>

SelectRows ==
  /\ migration.stage = "select"
  /\ migration' = [migration EXCEPT !.stage = After("select"),
                                    !.todo = {r.id : r \in InTable(ThisTable)}]
  /\ UNCHANGED <<column, vectors, mode, serverMode, migrations, killed>>

EmbedRow ==
  /\ migration.stage = "embed"
  /\ \E id \in migration.todo :
       /\ vectors' = {IF r.id = id THEN [r EXCEPT !.vector = migration.target] ELSE r
                      : r \in vectors}
       /\ migration' = [migration EXCEPT !.todo = @ \ {id}]
  /\ UNCHANGED <<column, mode, serverMode, migrations, killed>>

NextTable ==
  /\ migration.stage = "embed" /\ migration.todo = {} /\ migration.table < Len(Vectored)
  /\ migration' = [migration EXCEPT !.stage = Stages[1], !.table = @ + 1]
  /\ UNCHANGED <<column, vectors, mode, serverMode, migrations, killed>>

MigrationEnds ==
  /\ migration.stage = "embed" /\ migration.todo = {} /\ migration.table = Len(Vectored)
  /\ mode' = migration.target /\ migration' = NoMigration
  /\ UNCHANGED <<column, vectors, serverMode, migrations, killed>>

MigrationDies ==
  /\ migration # NoMigration /\ migration' = NoMigration /\ killed' = TRUE
  /\ UNCHANGED <<column, vectors, mode, serverMode, migrations>>

MigrationNext ==
  \/ \E t \in Tables : ServerWrites(t)
  \/ \E d \in Dims : BeginMigration(d)
  \/ ServerTakesMode \/ AlterColumn \/ SelectRows \/ EmbedRow \/ NextTable
  \/ MigrationEnds \/ MigrationDies

MigrationSpec == MigrationInit /\ [][MigrationNext]_migrationVars

-----------------------------------------------------------------------------
MigrationTypeOK ==
  /\ column \in [Tables -> Dims] /\ {mode, serverMode} \subseteq Dims
  /\ \A r \in vectors : r.table \in Tables /\ r.vector \in {Empty, column[r.table]}
  /\ migration.stage \in {"idle", "alter", "select", "embed"}
  /\ migration.todo \subseteq {r.id : r \in vectors} /\ killed \in BOOLEAN

Whole(t) == \A r \in InTable(t) : r.vector = column[t]

(* With no migration under way, and none ever killed, every table is of    *)
(* the configured dimension and every row has its vector, though a server  *)
(* was writing all the while.                                              *)
EveryRowEmbedded ==
  migration = NoMigration /\ ~killed => \A t \in Tables : column[t] = mode /\ Whole(t)
=============================================================================
