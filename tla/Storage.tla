------------------------------- MODULE Storage -------------------------------
(***************************************************************************)
(* Records in the database of an authority (src/nuself/storage/sqlite.py). *)
(* The threads of a process share one connection and its lock; processes   *)
(* meet in SQLite, where one connection writes at a time and a transaction *)
(* works on a snapshot. A statement that waits too long for the writer     *)
(* fails. A script repairs records in one transaction, and a user edits    *)
(* one record (scripts/migrate_legacy_memory_records.py, cli/commands/     *)
(* data.py).                                                               *)
(***************************************************************************)
EXTENDS Authority

CONSTANTS
    Threads, ProcOf,        \* threads, and the process of each
    Repairers, Editors,     \* threads that run the script, or edit
    MaxWrites               \* bound: values written

ASSUME StorageAssumption ==
    /\ ProcOf \in [Threads -> Procs] /\ Repairers \subseteq Threads /\ Editors \subseteq Threads
    /\ Keys # {} /\ MaxWrites \in Nat /\ Absent \notin Threads \cup Nat \cup [Keys -> Nat]

VARIABLES
    conn,       \* connections: who holds the lock, whether a transaction is open, on what
    task,       \* what each thread does
    made,       \* values written so far: every write has a value of its own
    committed,  \* values that were committed; kept for the properties
    torn,       \* processes whose transaction outlived a failed commit or rollback
    leaked      \* uncommitted values a read has shown to another thread

storageVars == <<conn, task, made, committed, torn, leaked>>
databaseVars == <<authorityVars, storageVars>>

Values == 0..MaxWrites
Rows == [Keys -> Values]
NoIntent == [k \in Keys |-> Absent]

NoConn == [holder |-> Absent, open |-> FALSE, base |-> Absent, view |-> Absent]
Idle == [step |-> "idle", depth |-> 0, rollbackOnly |-> FALSE, failed |-> FALSE, nested |-> FALSE,
         scanned |-> Absent, intended |-> NoIntent]

StorageInit ==
    /\ AuthorityInit
    /\ conn = [p \in Procs |-> NoConn] /\ task = [t \in Threads |-> Idle]
    /\ made = 0 /\ committed = {0} /\ torn = {} /\ leaked = {}

Here(t) == ProcOf[t]
Step(t, step) == opening[Here(t)] = "open" /\ task[t].step = step
Locks(t) == conn[Here(t)].holder = Absent
Visible(p) == IF conn[p].view = Absent THEN file.rows ELSE conn[p].view

\* A transaction that has read keeps what it read.
Reads(p, holder) ==
    conn' = [conn EXCEPT ![p].holder = holder,
                         ![p].base = IF conn[p].open /\ @ = Absent THEN file.rows ELSE @,
                         ![p].view = IF conn[p].open THEN Visible(p) ELSE @]

\* The snapshot must be the newest, and no other connection may write.
CanWrite(p) == writer \in {Absent, p} /\ conn[p].base \in {Absent, file.rows}

Writes(t, k) ==
    LET p == Here(t) IN
    /\ made < MaxWrites /\ made' = made + 1
    /\ conn' = [conn EXCEPT ![p] = [holder |-> t, open |-> TRUE, base |-> file.rows,
                                    view |-> [Visible(p) EXCEPT ![k] = made + 1]]]
    /\ writer' = p

\* What t has read of some records, and whether it has written each of them.
Copies(t, keys) == [k \in Keys |-> IF k \in keys THEN Visible(Here(t))[k] ELSE Absent]
Repaired(t) ==
    \A k \in Keys : task[t].scanned[k] # Absent => task[t].intended[k] # Absent

TaskFinished(t) == task' = [task EXCEPT ![t] = Idle]
Releases(t) == conn' = [conn EXCEPT ![Here(t)].holder = Absent]

\* The connection commits everything written in its transaction.
Commits(t) ==
    LET p == Here(t) IN
    /\ file' = [file EXCEPT !.rows = Visible(p)]
    /\ committed' = committed \cup Range(Visible(p))
    /\ conn' = [conn EXCEPT ![p] = NoConn] /\ writer' = Absent
    /\ TaskFinished(t) /\ torn' = torn \ {p}

\* What it cannot end it leaves open, and gives the lock back.
Tears(t) ==
    /\ Faulty /\ Releases(t) /\ TaskFinished(t) /\ torn' = torn \cup {Here(t)}
    /\ UNCHANGED <<file, writer>>

-----------------------------------------------------------------------------
(* Single operations of a collection *)

\* get, list, find
Read(t, k) ==
    LET p == Here(t)
        value == Visible(p)[k] IN
    /\ opening[p] = "open" /\ conn[p].holder \in {Absent, t}
    /\ Reads(p, conn[p].holder)
    /\ leaked' = IF p \in torn \/ value \in committed \cup Range(task[t].intended) THEN leaked
                 ELSE leaked \cup {value}
    /\ UNCHANGED <<authorityVars, task, made, committed, torn>>

\* put, delete; an edit saves the record it has compared.
Put(t, k) ==
    /\ Step(t, "idle") \/ (Step(t, "save") /\ task[t].scanned[k] # Absent)
    /\ Locks(t) /\ CanWrite(Here(t)) /\ Writes(t, k)
    /\ task' = [task EXCEPT ![t].step = "commit", ![t].intended[k] = made']
    /\ UNCHANGED <<file, lease, opening, migration, backups, faults, committed, torn, leaked>>

\* A writer elsewhere, or a snapshot that is old. The transaction that was begun for the
\* statement stays open.
PutBusy(t) ==
    /\ Step(t, "idle") \/ Step(t, "save")
    /\ Locks(t) /\ ~CanWrite(Here(t))
    /\ conn' = [conn EXCEPT ![Here(t)].open = TRUE] /\ TaskFinished(t)
    /\ UNCHANGED <<authorityVars, made, committed, torn, leaked>>

\* _commit_if_standalone
PutCommit(t) ==
    /\ Step(t, "commit")
    /\ Commits(t)
    /\ UNCHANGED <<lease, opening, migration, backups, faults, made, leaked>>

PutCommitFails(t) ==
    /\ Step(t, "commit") /\ Tears(t)
    /\ UNCHANGED <<lease, opening, migration, backups, made, committed, leaked>>

-----------------------------------------------------------------------------
(* transaction *)

\* It cannot begin in a transaction that was left open, nor beside a writer.
Enter(t) ==
    LET p == Here(t) IN
    /\ Step(t, "idle") \/ Step(t, "scanned")
    /\ Locks(t)
    /\ IF ~conn[p].open /\ writer = Absent
       THEN /\ conn' = [conn EXCEPT ![p] = [holder |-> t, open |-> TRUE, base |-> file.rows,
                                            view |-> file.rows]]
            /\ writer' = p
            /\ task' = [task EXCEPT ![t].step = "in", ![t].depth = 1]
       ELSE TaskFinished(t) /\ UNCHANGED <<conn, writer>>
    /\ UNCHANGED <<file, lease, opening, migration, backups, faults, made, committed, torn, leaked>>

Write(t, k) ==
    /\ Step(t, "in") /\ task[t].scanned = Absent /\ Writes(t, k)
    /\ task' = [task EXCEPT ![t].intended[k] = made']
    /\ UNCHANGED <<file, lease, opening, migration, backups, faults, committed, torn, leaked>>

Nest(t) ==
    /\ Step(t, "in") /\ task[t].depth = 1 /\ ~task[t].nested /\ task[t].scanned = Absent
    /\ task' = [task EXCEPT ![t].depth = 2, ![t].nested = TRUE]
    /\ UNCHANGED <<authorityVars, conn, made, committed, torn, leaked>>

InnerReturns(t) ==
    /\ Step(t, "in") /\ task[t].depth = 2
    /\ task' = [task EXCEPT ![t].depth = 1]
    /\ UNCHANGED <<authorityVars, conn, made, committed, torn, leaked>>

\* Fault: a failure that is caught outside is forgotten.
NestedForgiven(t) ==
    /\ Step(t, "in") /\ task[t].depth = 2
    /\ task' = [task EXCEPT ![t].depth = 1, ![t].failed = TRUE]
    /\ UNCHANGED <<authorityVars, conn, made, committed, torn, leaked>>

\* The inner part raises, and the caller catches it.
InnerRaises(t) ==
    /\ Step(t, "in") /\ task[t].depth = 2
    /\ task' = [task EXCEPT ![t].depth = 1, ![t].failed = TRUE, ![t].rollbackOnly = TRUE]
    /\ UNCHANGED <<authorityVars, conn, made, committed, torn, leaked>>

Return(t) ==
    /\ (Step(t, "in") /\ task[t].scanned = Absent) \/ (Step(t, "repair") /\ Repaired(t))
    /\ task[t].depth = 1 /\ ~task[t].rollbackOnly
    /\ Commits(t)
    /\ UNCHANGED <<lease, opening, migration, backups, faults, made, leaked>>

\* The outermost part raises, or must not commit, or cannot.
RollBack(t) ==
    /\ Step(t, "in") \/ Step(t, "repair")
    /\ conn' = [conn EXCEPT ![Here(t)] = NoConn] /\ writer' = Absent
    /\ TaskFinished(t)
    /\ UNCHANGED <<file, lease, opening, migration, backups, faults, made, committed, torn, leaked>>

RollBackFails(t) ==
    /\ Step(t, "in") \/ Step(t, "repair")
    /\ Tears(t)
    /\ UNCHANGED <<lease, opening, migration, backups, made, committed, leaked>>

-----------------------------------------------------------------------------
(* The repair of records, and the edit of one *)

\* list: the records found to be in need of repair are kept as they are.
Scan(t, keys) ==
    /\ Step(t, "idle") /\ t \in Repairers /\ keys # {} /\ Locks(t)
    /\ Reads(Here(t), Absent)
    /\ task' = [task EXCEPT ![t].step = "scanned", ![t].scanned = Copies(t, keys)]
    /\ UNCHANGED <<authorityVars, made, committed, torn, leaked>>

\* Fault: the records are taken to be as they were scanned.
Assumed(t) == TRUE

\* Only the records that were kept are looked at again.
Unchanged(t) == \A k \in Keys : task[t].scanned[k] \in {Absent, Visible(Here(t))[k]}

\* In its transaction it compares them all, then writes them all; RollBack stands for a
\* record that changed.
Compare(t) ==
    /\ Step(t, "in") /\ task[t].scanned # Absent /\ Unchanged(t)
    /\ task' = [task EXCEPT ![t].step = "repair"]
    /\ UNCHANGED <<authorityVars, conn, made, committed, torn, leaked>>

Repair(t, k) ==
    /\ Step(t, "repair") /\ task[t].scanned[k] # Absent /\ task[t].intended[k] = Absent
    /\ Writes(t, k)
    /\ task' = [task EXCEPT ![t].intended[k] = made']
    /\ UNCHANGED <<file, lease, opening, migration, backups, faults, committed, torn, leaked>>

\* handle_data_edit: read, compare, save.
Load(t, k) ==
    /\ Step(t, "idle") /\ t \in Editors /\ Locks(t)
    /\ Reads(Here(t), Absent)
    /\ task' = [task EXCEPT ![t].step = "edited", ![t].scanned = Copies(t, {k})]
    /\ UNCHANGED <<authorityVars, made, committed, torn, leaked>>

CompareEdit(t) ==
    /\ Step(t, "edited") /\ Locks(t)
    /\ Reads(Here(t), Absent)
    /\ IF Unchanged(t) THEN task' = [task EXCEPT ![t].step = "save"] ELSE TaskFinished(t)
    /\ UNCHANGED <<authorityVars, made, committed, torn, leaked>>

-----------------------------------------------------------------------------
(* The end of a process *)

\* What is not committed is gone.
Disconnect(p) ==
    /\ Goes(p, "closed")
    /\ conn' = [conn EXCEPT ![p] = NoConn]
    /\ writer' = IF writer = p THEN Absent ELSE writer
    /\ lease' = IF lease = p THEN Absent ELSE lease
    /\ task' = [t \in Threads |-> IF Here(t) = p THEN Idle ELSE task[t]]
    /\ torn' = torn \ {p}
    /\ UNCHANGED <<file, migration, backups, made, committed, leaked>>

Close(p) ==
    /\ opening[p] \in {"open", "refused"} /\ conn[p].holder = Absent
    /\ Disconnect(p) /\ UNCHANGED faults

ProcessCrash(p) == opening[p] # "closed" /\ Faulty /\ Disconnect(p)

-----------------------------------------------------------------------------

Transaction(t) ==
    \/ Enter(t) \/ Nest(t) \/ InnerReturns(t) \/ InnerRaises(t) \/ Return(t)
    \/ RollBack(t) \/ RollBackFails(t)
    \/ \E k \in Keys : Write(t, k)

Operation(t) ==
    \/ \E k \in Keys : Read(t, k) \/ Put(t, k) \/ Load(t, k) \/ Repair(t, k)
    \/ PutBusy(t) \/ PutCommit(t) \/ PutCommitFails(t)
    \/ Compare(t) \/ CompareEdit(t)
    \/ \E keys \in SUBSET Keys : Scan(t, keys)

StorageNext ==
    \/ \E t \in Threads : Operation(t) \/ Transaction(t)
    \/ \E p \in Procs : Open(p) /\ UNCHANGED storageVars
    \/ \E p \in Procs : Close(p) \/ ProcessCrash(p)
    \/ (Migrate \/ MigrationFails \/ \E target \in Targets : StartMigration(target))
          /\ UNCHANGED storageVars

StorageSpec == StorageInit /\ [][StorageNext]_databaseVars
=============================================================================
