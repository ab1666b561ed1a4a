-------------------------- MODULE StorageProperties --------------------------
(***************************************************************************)
(* What the storage of an authority is meant to guarantee, and what is     *)
(* said of it.                                                             *)
(***************************************************************************)
EXTENDS Storage

Changes == file # Absent /\ file'.rows # file.rows

\* What thread t has written, and nothing else, is what changes.
Whose(t) ==
    \A k \in Keys : file'.rows[k] =
        IF task[t].intended[k] = Absent THEN file.rows[k] ELSE task[t].intended[k]

\* The records of a database change by all that one transaction wrote, never by a part
\* of it, and never if a part of it failed, also when the failure was caught on the
\* way out (sqlite.py, transaction); nobody else reads them before. The exception is a
\* connection that could not end a transaction.
AllOrNothing ==
    [][/\ Changes => writer \in torn \/ \E t \in Threads : Whose(t) /\ ~task[t].failed
       /\ leaked' = {}]_databaseVars

\* The records that t has kept are committed as they were then.
AsScanned(t) == \A k \in Keys : task[t].scanned[k] \in {Absent, file.rows[k]}

\* migrate_legacy_memory_records.py: "record changed concurrently": the repair of records
\* never undoes what another process wrote to them since the scan.
RepairKeepsChanges ==
    [][\A t \in Threads :
          task[t].step = "repair" /\ writer = Here(t) /\ Changes => AsScanned(t)]_databaseVars

\* A database that is there stays, whoever opens it at the same time, and keeps its
\* records; its version goes from the one it has to the one asked for, and no process
\* meets one in between, also when the migration fails on the way.
AuthorityKept ==
    [][file # Absent =>
          /\ file' # Absent /\ Whole(file'.history)
          /\ file'.rows # file.rows => writer \in Procs
          /\ VersionOf(file') # VersionOf(file) => VersionOf(file') = migration.target]_databaseVars

Observed(conversation) == UNION {Messages(o.range) : o \in conversation.observations}

\* The migration to version 7 leaves every message that was not curated in an
\* observation, and none that was, whatever the cursor and the plan of the conversation
\* (v006_to_v007.py); until the database is migrated back, which forgets the cursors.
NothingForgotten ==
    [][file # Absent /\ VersionOf(file) = 6 /\ VersionOf(file') = 7
       /\ (\A b \in backups : b.from # 7) =>
          Observed(file'.conversation) \ Observed(file.conversation)
             = First(file.conversation)..(file.conversation.to - 1)]_databaseVars

-----------------------------------------------------------------------------
(* Said of the code, and not true of it: TLC has a counterexample to each. *)

\* storage-v2.md: an edit "compares the original record again inside the transaction.
\* Concurrent changes fail without overwrite."
EditNeverOverwrites ==
    [][\A t \in Threads :
          task[t].step = "commit" /\ task[t].scanned # Absent /\ writer = Here(t) /\ Changes =>
             AsScanned(t)]_databaseVars

\* A put that failed because of another writer can be repeated when that has ended.
WritesRecover ==
    \A p \in Procs :
       opening[p] = "open" /\ writer = Absent /\ conn[p].holder = Absent => CanWrite(p)

\* What is read is what was committed last.
FreshReads ==
    \A p \in Procs :
       opening[p] = "open" /\ conn[p].holder = Absent /\ file # Absent => Visible(p) = file.rows

\* A write whose commit or rollback failed is not committed by another operation later.
FailedStaysFailed == [][Changes => writer \notin torn]_databaseVars

\* A migration that failed can be run again.
MigrationRepeatable ==
    \A b \in backups :
       migration.step = "none" /\ file.history = b.saved.history => VersionOf(file) = b.to
=============================================================================
