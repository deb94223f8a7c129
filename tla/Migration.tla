----------------------------- MODULE Migration -----------------------------
(***************************************************************************)
(* Opening the history database (History::open and migrate).  Every        *)
(* TelegramMCP process opens the same file when it starts: it reads the    *)
(* schema version and, if there is none, creates the tables and the        *)
(* version row in one transaction.  The version is read before that        *)
(* transaction begins, so that two processes may both find a new database. *)
(*                                                                         *)
(* SQLite is modelled by what the code relies on: one write lock, waited   *)
(* for during the busy timeout of the connection; statements of an open    *)
(* transaction are seen by nobody else; a process that ends, or a          *)
(* transaction dropped because of an error, leaves nothing behind.         *)
(***************************************************************************)
EXTENDS Naturals, FiniteSets, SequencesExt

CONSTANTS
  Servers,      \* the processes
  Nobody        \* the write lock is free

ASSUME NobodyAssumption == Nobody \notin Servers

VARIABLES
  stage,      \* where each process is in History::open
  tables,     \* sqlite_master, as committed
  version,    \* schema_version in kv, as committed: 0 when there is no row
  writer,     \* the process that holds the write lock
  draft       \* tables the transaction of `writer' has created

migrationVars == <<stage, tables, version, writer, draft>>

\* SCHEMA_V1, statement by statement; kv, by which a database counts as
\* migrated, comes last.
Batch == <<"chats", "messages", "idx_messages_chat_date", "messages_fts", "kv">>
AllTables == Range(Batch)

Stages == {"down", "reading", "behind", "creating", "stamped", "ready", "lost", "failed"}

\* Where a process is between the opening of the file and an open History.
Opening == {"reading", "behind", "creating", "stamped"}

MigrationInit ==
  /\ stage = [s \in Servers |-> "down"]
  /\ tables = {}
  /\ version = 0
  /\ writer = Nobody
  /\ draft = <<>>

At(s, here, there) == stage[s] = here /\ stage' = [stage EXCEPT ![s] = there]

\* Connection::open and the two pragmas.
OpenFile(s) ==
  /\ At(s, "down", "reading")
  /\ UNCHANGED <<tables, version, writer, draft>>

\* Mutant: current > CURRENT_VERSION.
ReadVersionStrict(s) ==
  /\ At(s, "reading", IF "kv" \in tables /\ version > 1 THEN "ready" ELSE "behind")
  /\ UNCHANGED <<tables, version, writer, draft>>

\* read_version: without kv it is 0.
ReadVersion(s) ==
  /\ At(s, "reading", IF "kv" \in tables /\ version >= 1 THEN "ready" ELSE "behind")
  /\ UNCHANGED <<tables, version, writer, draft>>

\* A failing query of the version row is taken for 0 as well (.ok()).
MisreadVersion(s) ==
  /\ "kv" \in tables
  /\ At(s, "reading", "behind")
  /\ UNCHANGED <<tables, version, writer, draft>>

\* Mutant: no transaction, each statement commits on its own.
CreateAutocommit(s) ==
  /\ stage[s] \in {"behind", "creating"}
  /\ writer = Nobody
  /\ IF stage[s] = "behind" THEN tables = {} ELSE tables # AllTables
  /\ stage' = [stage EXCEPT ![s] = "creating"]
  /\ tables' = tables \cup {Batch[1 + Cardinality(tables)]}
  /\ draft' = IF tables' = AllTables THEN Batch ELSE draft
  /\ writer' = IF tables' = AllTables THEN s ELSE writer
  /\ UNCHANGED version

\* execute_batch: the first statement takes the write lock, which it has to wait
\* for; tables that are there already end the batch at its first statement.
Create(s) ==
  /\ \/ stage[s] = "behind" /\ writer = Nobody /\ tables = {}
     \/ stage[s] = "creating" /\ Len(draft) < Len(Batch)
  /\ stage' = [stage EXCEPT ![s] = "creating"]
  /\ writer' = s
  /\ draft' = Append(draft, Batch[Len(draft) + 1])
  /\ UNCHANGED <<tables, version>>

\* "table chats already exists": HistoryError::Migration, and main returns.
AlreadyThere(s) ==
  /\ writer = Nobody /\ tables # {}
  /\ At(s, "behind", "lost")
  /\ UNCHANGED <<tables, version, writer, draft>>

\* The lock is not released within the busy timeout.
LockTimeout(s) ==
  /\ writer \notin {Nobody, s}
  /\ At(s, "behind", "failed")
  /\ UNCHANGED <<tables, version, writer, draft>>

InsertVersion(s) ==
  /\ draft = Batch /\ writer = s
  /\ At(s, "creating", "stamped")
  /\ UNCHANGED <<tables, version, writer, draft>>

\* Mutant: the version row is forgotten.
CommitUnstamped(s) ==
  /\ At(s, "stamped", "ready")
  /\ tables' = Range(draft)
  /\ writer' = Nobody
  /\ draft' = <<>>
  /\ UNCHANGED version

Commit(s) ==
  /\ At(s, "stamped", "ready")
  /\ tables' = Range(draft)
  /\ version' = 1
  /\ writer' = Nobody
  /\ draft' = <<>>

\* Whatever the process had in its transaction is rolled back.
Rollback(s) ==
  /\ writer' = IF writer = s THEN Nobody ELSE writer
  /\ draft' = IF writer = s THEN <<>> ELSE draft
  /\ UNCHANGED <<tables, version>>

\* Any other error of SQLite: `?' all the way to main.
OpenFails(s) ==
  /\ stage[s] \in Opening
  /\ stage' = [stage EXCEPT ![s] = "failed"]
  /\ Rollback(s)

\* main has returned or is killed; somebody may start it again.
Ends(s) ==
  /\ stage[s] # "down"
  /\ stage' = [stage EXCEPT ![s] = "down"]
  /\ Rollback(s)

\* What History::open does by itself.
Migrate(s) ==
  \/ OpenFile(s) \/ ReadVersion(s) \/ Create(s) \/ AlreadyThere(s)
  \/ InsertVersion(s) \/ Commit(s)

-----------------------------------------------------------------------------
MigrationTypeOK ==
  /\ stage \in [Servers -> Stages]
  /\ tables \subseteq AllTables
  /\ version \in {0, 1}
  /\ writer \in Servers \cup {Nobody}
  /\ draft \in {SubSeq(Batch, 1, n) : n \in 0..Len(Batch)}

\* The database is new or has every table and the version row, whenever a
\* process dies and however many start at once: no half-made schema that would
\* keep every later start from succeeding.
SchemaWhole ==
  \/ tables = {} /\ version = 0
  \/ tables = AllTables /\ version = 1

\* A process that read version 0 and was overtaken fails to start, but only
\* because the schema is there: started again, it finds it.
LoserFindsSchema ==
  \A s \in Servers : stage[s] = "lost" => tables = AllTables /\ version = 1
=============================================================================
