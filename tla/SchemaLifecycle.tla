-------------------------- MODULE SchemaLifecycle --------------------------
(***************************************************************************)
(* One schema, the public one or a tenant's, under the Alembic commands    *)
(* that the provisioning, the upgrade script, the deployment and the       *)
(* rollback runbook give: upgrade head and downgrade -1.  A command runs   *)
(* its migrations in one transaction (env.py sets no                       *)
(* transaction_per_migration), so one that fails or dies in the middle     *)
(* leaves nothing.  The rows are those whose values the migrations change  *)
(* or check.                                                               *)
(***************************************************************************)
EXTENDS Migrations, DeclaredSchema, Integers

VARIABLES
    chain,     \* "public" or "tenant"
    schema,    \* the schema as it is committed
    revision,  \* alembic_version, as a position in the chain
    work,      \* the schema that the command under way sees
    at,        \* the revision the command has reached
    goal,      \* the revision the command goes to; without a command, revision
    outlived,  \* history: an EVALUATOR was there when users.role became a VARCHAR again
    refused    \* history: a command failed

schemaState == <<chain, schema, revision, work, at, goal, outlived, refused>>

Chain == IF chain = "public" THEN PublicChain ELSE TenantChain
Newest == Len(Chain)

\* What the running code writes into the columns whose values a migration changes.
EvaluatorRow == <<"users", "role", "EVALUATOR">>
CodeRows == {EvaluatorRow, <<"syllabi", "status", "DEAN_APPROVED">>, <<"syllabi", "status", "DEAN_LOCKED">>}
OldRows == {<<"syllabi", "status", "FACULTY_APPROVED">>, <<"syllabi", "status", "ADMIN_LOCKED">>}

SchemaTypeOK ==
    /\ chain \in {"public", "tenant"}
    /\ {revision, at, goal} \subseteq 0..Newest
    /\ schema.ok /\ work.ok
    /\ schema.rows \subseteq CodeRows \cup OldRows
    /\ {r[1] : r \in work.refs} \cup {r[3] : r \in work.refs} \subseteq DOMAIN work.tables
    /\ {outlived, refused} \subseteq BOOLEAN

\* CREATE SCHEMA IF NOT EXISTS comes before the migrations and is committed alone.
SchemaInit ==
    /\ chain \in {"public", "tenant"}
    /\ schema = EmptySchema /\ work = EmptySchema
    /\ revision = 0 /\ at = 0 /\ goal = 0
    /\ outlived = FALSE /\ refused = FALSE

----------------------------------------------------------------------------
AtRest == goal = revision

\* The commands; the runbook forbids "downgrade base", not the steps that lead there.
UpgradeHead == AtRest /\ goal' = Newest /\ UNCHANGED <<chain, schema, revision, work, at, outlived, refused>>

DowngradeOne ==
    /\ AtRest /\ revision > 0
    /\ goal' = revision - 1
    /\ UNCHANGED <<chain, schema, revision, work, at, outlived, refused>>

\* Nothing of the transaction is left.
Rollback == work' = schema /\ at' = revision /\ goal' = revision /\ UNCHANGED <<chain, schema, revision>>

RunMigration ==
    /\ at # goal
    /\ LET result == Run(work, IF goal > at THEN Chain[at + 1].up ELSE Chain[at].down) IN
       IF result.ok
       THEN /\ work' = result
            /\ at' = IF goal > at THEN at + 1 ELSE at - 1
            /\ UNCHANGED <<chain, schema, revision, goal, refused>>
       ELSE Rollback /\ refused' = TRUE
    /\ outlived' = \/ outlived
                   \/ chain = "tenant" /\ at = 2 /\ goal = 1 /\ EvaluatorRow \in work.rows

CommitMigrations ==
    /\ ~AtRest /\ at = goal
    /\ schema' = work /\ revision' = at
    /\ UNCHANGED <<chain, work, at, goal, outlived, refused>>

\* The process dies, or its connection does.
Die == ~AtRest /\ Rollback /\ UNCHANGED <<outlived, refused>>

\* The code runs on a schema at head, and writes what it writes.
Work ==
    /\ AtRest /\ chain = "tenant" /\ revision = Newest
    /\ \E row \in CodeRows \ schema.rows :
          schema' = [schema EXCEPT !.rows = @ \cup {row}] /\ work' = schema'
    /\ UNCHANGED <<chain, revision, at, goal, outlived, refused>>

SchemaNext == UpgradeHead \/ DowngradeOne \/ RunMigration \/ CommitMigrations \/ Die \/ Work

SchemaSpec == SchemaInit /\ [][SchemaNext]_schemaState
----------------------------------------------------------------------------
(* Properties.                                                             *)

\* The tables and columns are those the code declares, and its foreign keys are there.
Serves(s, models, raw) ==
    /\ {m.table : m \in models} \cup {raw.table} = DOMAIN s.tables
    /\ \A m \in models : /\ m.columns = s.tables[m.table] \ {"no_mutate"}
                         /\ {<<m.table, r[1], r[2]>> : r \in m.refs} \subseteq s.refs
    /\ raw.columns \subseteq s.tables[raw.table]

\* A downgrade undoes its upgrade, whatever rows there are, except that a value
\* added to an enum type stays; so a revision describes one schema, however it
\* was reached.
Undone ==
    at < Newest =>
        LET there == Run(work, Chain[at + 1].up) IN
        there.ok => [Run(there, Chain[at + 1].down) EXCEPT !.types = work.types] = work

\* The migrations and the code agree.  At head the schema serves the code, and
\* no row has a value the code does not know; downgrades undo upgrades; and a
\* command fails only when an EVALUATOR outlived the downgrade of the role's
\* enum type, which its upgrade does not know.
SchemaServesCode ==
    /\ revision = Newest =>
          /\ IF chain = "public" THEN Serves(schema, PublicModels, JobColumns)
                                 ELSE Serves(schema, TenantModels, RevertedColumns)
          /\ schema.rows \cap OldRows = {}
    /\ Undone
    /\ refused => outlived
=============================================================================
