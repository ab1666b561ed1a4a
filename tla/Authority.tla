------------------------------- MODULE Authority -------------------------------
(***************************************************************************)
(* The database file of an authority (src/nuself/storage/authority.py,     *)
(* scripts/migrate_database.py): processes create it or open it, an        *)
(* operator migrates it, and any of them may die. The lease is a lock on a *)
(* sibling file; SQLite lets one connection write.                         *)
(***************************************************************************)
EXTENDS SchemaMigrations

CONSTANTS
    Procs, Migrator,    \* processes with a connection, and the operator's script
    Keys,
    Conversations,      \* conversations a database of an older version may hold
    Targets,            \* versions the operator asks for
    MaxFaults           \* bound: processes that die, calls that raise, runs of the script

Databases ==
    [history : SUBSET Int, rows : [Keys -> Nat], workspace : Int, conversation : Histories]

ASSUME AuthorityAssumption ==
    /\ Migrator \notin Procs /\ Absent \notin Procs \cup {Migrator} \cup Plans \cup Databases
    /\ Targets \subseteq Nat /\ MaxFaults \in Nat /\ Conversations \subseteq Histories

\* A plan begins behind the cursor or at it, and ends within the conversation; what is in an
\* observation already is behind the cursor.
ASSUME ConversationAssumption ==
    \A c \in Conversations :
       /\ c.plan # Absent => c.plan.start <= First(c) /\ c.plan.end <= c.to
       /\ \A o \in c.observations : o.range.end <= First(c)

VARIABLES
    file,       \* the database: Absent or [history, rows, workspace, conversation]
    lease,      \* who holds sibling lock of the schema
    writer,     \* the connection that writes
    opening,    \* how far each process has come in opening the database
    migration,  \* the script: its step, target, edges to go and its draft of the file
    backups,    \* backups, by the versions they lead from and to
    faults

authorityVars == <<file, lease, writer, opening, migration, backups, faults>>

NoMigration ==
    [step |-> "none", target |-> Current, from |-> Current, todo |-> <<>>, draft |-> Absent]
NoConversation == [from |-> 0, to |-> 0, cursor |-> 0, plan |-> Absent, observations |-> {}]
NoRows == [k \in Keys |-> 0]
NewFile == [history |-> Versions, rows |-> NoRows, workspace |-> 0, conversation |-> NoConversation]

\* No database, or one of the version before the current one.
AuthorityInit ==
    /\ file \in {Absent} \cup
          {[history |-> 1..(Current - 1), rows |-> NoRows, workspace |-> 0, conversation |-> c] :
              c \in Conversations}
    /\ lease = Absent /\ writer = Absent
    /\ opening = [p \in Procs |-> "closed"]
    /\ migration = NoMigration /\ backups = {} /\ faults = 0

Faulty == faults < MaxFaults /\ faults' = faults + 1
Goes(p, step) == opening' = [opening EXCEPT ![p] = step]

-----------------------------------------------------------------------------
(* auto_backend *)

Look(p) ==
    /\ opening[p] = "closed"
    /\ Goes(p, IF file = Absent THEN "lease" ELSE "validate")
    /\ UNCHANGED <<file, lease, writer, migration, backups, faults>>

\* Fault: a process that had to wait for the lease does not look again.
LeaseBlindly(p) ==
    /\ opening[p] = "lease" /\ lease = Absent /\ lease' = p
    /\ Goes(p, "create")
    /\ UNCHANGED <<file, writer, migration, backups, faults>>

\* Under the lease it looks again, and creates the database if it is still missing.
Lease(p) ==
    /\ opening[p] = "lease" /\ lease = Absent
    /\ IF file = Absent THEN lease' = p /\ Goes(p, "create")
       ELSE Goes(p, "validate") /\ UNCHANGED lease
    /\ UNCHANGED <<file, writer, migration, backups, faults>>

\* A whole database is built beside the path and moved there.
Create(p) ==
    /\ opening[p] = "create" /\ Goes(p, "validate")
    /\ file' = NewFile /\ lease' = Absent
    /\ UNCHANGED <<writer, migration, backups, faults>>

\* The file is inspected read-only, then connected and its version read again. Any
\* version but the current one is refused.
Validate(p) ==
    /\ opening[p] = "validate"
    /\ Goes(p, IF file.history = Versions THEN "connect" ELSE "refused")
    /\ UNCHANGED <<file, lease, writer, migration, backups, faults>>

ConnectDatabase(p) ==
    /\ opening[p] = "connect"
    /\ Goes(p, IF VersionOf(file) = Current THEN "open" ELSE "refused")
    /\ UNCHANGED <<file, lease, writer, migration, backups, faults>>

-----------------------------------------------------------------------------
(* migrate_database *)

\* Under the lease the version is read, and the edges are planned. Nothing is done
\* without edges, or if there is no way to the target.
StartMigration(target) ==
    /\ migration.step = "none" /\ file # Absent /\ lease = Absent /\ Faulty
    /\ LET edges == Plan(VersionOf(file), target) IN
       /\ edges \notin {Absent, <<>>}
       /\ migration' = [NoMigration EXCEPT !.step = "backup", !.target = target, !.todo = edges,
                                           !.from = VersionOf(file)]
    /\ lease' = Migrator
    /\ UNCHANGED <<file, writer, opening, backups>>

EndMigration ==
    /\ migration' = NoMigration /\ lease' = Absent
    /\ writer' = IF writer = Migrator THEN Absent ELSE writer

\* The backup gets a name of its own, which must be free.
Backup ==
    LET taken == {b \in backups : b.from = migration.from /\ b.to = migration.target} IN
    /\ migration.step = "backup"
    /\ IF taken = {}
       THEN /\ backups' = backups \cup {[from |-> migration.from, to |-> migration.target,
                                         saved |-> file]}
            /\ migration' = [migration EXCEPT !.step = "begin"]
            /\ UNCHANGED <<lease, writer>>
       ELSE EndMigration /\ UNCHANGED backups
    /\ UNCHANGED <<file, opening, faults>>

\* One transaction for all edges; a writer that does not end is not waited for.
BeginMigration ==
    /\ migration.step = "begin"
    /\ \/ /\ writer = Absent /\ writer' = Migrator
          /\ migration' = [migration EXCEPT !.step = "edges", !.draft = file]
          /\ UNCHANGED lease
       \/ writer # Absent /\ EndMigration
    /\ UNCHANGED <<file, opening, backups, faults>>

\* Fault: every edge is a transaction of its own.
EdgeByEdge ==
    /\ migration.step = "edges" /\ migration.todo # <<>>
    /\ IF Refused(Head(migration.todo), migration.draft) THEN EndMigration /\ UNCHANGED file
       ELSE /\ migration' = [migration EXCEPT !.todo = Tail(@),
                                !.draft = Applied(Head(migration.todo), @)]
            /\ file' = migration'.draft
            /\ UNCHANGED <<lease, writer>>
    /\ UNCHANGED <<opening, backups, faults>>

Edge ==
    /\ migration.step = "edges" /\ migration.todo # <<>>
    /\ IF Refused(Head(migration.todo), migration.draft) THEN EndMigration
       ELSE /\ migration' = [migration EXCEPT !.todo = Tail(@),
                                !.draft = Applied(Head(migration.todo), @)]
            /\ UNCHANGED <<lease, writer>>
    /\ UNCHANGED <<file, opening, backups, faults>>

\* The draft is validated again and must have the version asked for.
CommitMigration ==
    /\ migration.step = "edges" /\ migration.todo = <<>>
    /\ Whole(migration.draft.history) /\ VersionOf(migration.draft) = migration.target
    /\ file' = migration.draft /\ EndMigration
    /\ UNCHANGED <<opening, backups, faults>>

\* An edge, or anything before the commit, raises, or the script dies.
MigrationFails ==
    /\ migration.step # "none" /\ Faulty /\ EndMigration
    /\ UNCHANGED <<file, opening, backups>>

Migrate == Backup \/ BeginMigration \/ Edge \/ CommitMigration
Open(p) == Look(p) \/ Lease(p) \/ Create(p) \/ Validate(p) \/ ConnectDatabase(p)
=============================================================================
