-------------------------- MODULE SharedFilesProofs --------------------------
(***************************************************************************)
(* Proofs about the files that processes of NuSelf share, for any number   *)
(* of processes, threads and records and for every bound. The database of  *)
(* an authority (Storage): transactions are whole, the repair of records   *)
(* keeps what others wrote, a database keeps its records and its version,  *)
(* and the migration to version 7 forgets no message. The socket, the PID  *)
(* file and the lock of the daemon (DaemonInstance): type correctness,     *)
(* that a serving daemon has its files, that only the owner changes them,  *)
(* and that a successful stop is complete. The records in the database and *)
(* the messages through the socket (Records): what was written is read as  *)
(* it was, and a record made of another loses nothing.                     *)
(***************************************************************************)
EXTENDS StorageProperties, DaemonInstanceProperties, Records, FiniteSetTheorems, TLAPS

-----------------------------------------------------------------------------
(* The database: types and the inductive invariant *)

OpeningSteps == {"closed", "lease", "create", "validate", "connect", "open", "refused"}
Snapshots == {Absent} \cup Rows
Edges == [from : Int, to : Int]
TaskSteps == {"idle", "commit", "in", "repair", "scanned", "edited", "save"}
Writing == {"commit", "in", "repair"}

AuthorityTyped ==
    /\ file \in {Absent} \cup Databases
    /\ file # Absent => file.rows \in Rows
    /\ lease \in Procs \cup {Migrator, Absent}
    /\ writer \in Procs \cup {Migrator, Absent}
    /\ opening \in [Procs -> OpeningSteps]
    /\ migration \in [step : {"none", "backup", "begin", "edges"}, target : Int, from : Int,
                      todo : Seq(Edges), draft : {Absent} \cup Databases]

ConnTyped ==
    conn \in [Procs -> [holder : {Absent} \cup Threads, open : BOOLEAN,
                        base : Snapshots, view : Snapshots]]

Task ==
    [step : TaskSteps, depth : 0..2, rollbackOnly : BOOLEAN, failed : BOOLEAN,
     nested : BOOLEAN, scanned : {Absent} \cup [Keys -> {Absent} \cup Values],
     intended : [Keys -> {Absent} \cup Values]]

TaskTyped == task \in [Threads -> Task]

ValuesTyped == made \in Values /\ committed \subseteq Values /\ torn \subseteq Procs

RowsTyped == ConnTyped /\ TaskTyped /\ ValuesTyped

\* A process creates the database, and the script migrates it, under the lease only; and
\* the draft of the script differs from the database in its version and conversation.
AuthorityHeld ==
    /\ file # Absent => Whole(file.history)
    /\ \A p \in Procs :
          /\ opening[p] = "create" => lease = p /\ file = Absent
          /\ opening[p] \in {"validate", "connect", "open", "refused"} => file # Absent
    /\ migration.step # "none" => lease = Migrator /\ file # Absent
    /\ migration.step = "edges" <=> writer = Migrator
    /\ migration.step = "edges" =>
          migration.draft # Absent /\ migration.draft.rows = file.rows

\* Thread t has written something that is not committed.
Working(t) == task[t].step \in Writing

\* Connection p: what it has written stands on the newest rows; who is not the writer
\* has written nothing, and what it has read was committed. Whoever holds the lock is at
\* work, unless the connection could not end a transaction.
ConnOk(p) ==
    /\ opening[p] # "open" => conn[p] = NoConn /\ writer # p
    /\ writer = p => conn[p].open /\ conn[p].base = file.rows
    /\ ~conn[p].open => conn[p] = NoConn
    /\ conn[p].base = Absent <=> conn[p].view = Absent
    /\ writer # p => conn[p].view = conn[p].base
    /\ conn[p].holder # Absent =>
          writer = p /\ ProcOf[conn[p].holder] = p /\ Working(conn[p].holder)
    /\ p \in torn => writer = p
    /\ writer = p /\ p \notin torn => conn[p].holder # Absent
    /\ conn[p].base # Absent => \A k \in Keys : conn[p].base[k] \in committed

\* The records that t has kept are those of the rows.
Same(t, rows) == \A k \in Keys : task[t].scanned[k] \in {Absent, rows[k]}

\* Thread t: what its connection shows is what it stands on and what t intends, and
\* nothing is intended before or after.
TaskOk(t) ==
    /\ opening[Here(t)] # "open" => task[t] = Idle
    /\ Working(t) => conn[Here(t)].holder = t
    /\ task[t].step \in {"in", "repair"} => Here(t) \notin torn
    /\ Working(t) /\ Here(t) \notin torn =>
          \A k \in Keys : conn[Here(t)].view[k] =
             IF task[t].intended[k] = Absent THEN conn[Here(t)].base[k] ELSE task[t].intended[k]
    /\ ~Working(t) => task[t].intended = NoIntent /\ ~task[t].failed /\ ~task[t].rollbackOnly
    /\ task[t].failed => task[t].rollbackOnly
    /\ task[t].step = "commit" => ~task[t].failed
    /\ task[t].step = "in" /\ task[t].scanned # Absent => task[t].intended = NoIntent
    /\ task[t].step = "repair" => Same(t, conn[Here(t)].base)

ConnHeld == \A p \in Procs : ConnOk(p)
TaskHeld == \A t \in Threads : TaskOk(t)

Seen ==
    /\ leaked = {} /\ 0 \in committed
    /\ file # Absent => \A k \in Keys : file.rows[k] \in committed

StorageInv == AuthorityTyped /\ RowsTyped /\ AuthorityHeld /\ ConnHeld /\ TaskHeld /\ Seen

LEMMA AbsentIsOther ==
    /\ Absent \notin Threads /\ Absent \notin Procs /\ Absent # Migrator /\ Migrator \notin Procs
    /\ Absent \notin Rows /\ Absent \notin Values /\ Absent \notin Databases
    /\ Rows \subseteq [Keys -> Nat] /\ Values \subseteq Nat /\ 0 \in Values
<1>1. Values \subseteq Nat /\ 0 \in Values
    BY StorageAssumption DEF Values
<1>2. Rows \subseteq [Keys -> Nat]
    BY <1>1 DEF Rows
<1> QED BY <1>1, <1>2, StorageAssumption, AuthorityAssumption

LEMMA HereIsAProcess == \A t \in Threads : Here(t) \in Procs
    BY StorageAssumption DEF Here

LEMMA InitialDatabase == StorageInit => StorageInv
<1> SUFFICES ASSUME StorageInit PROVE StorageInv
    OBVIOUS
<1> USE DEF StorageInit, AuthorityInit
<1>1. AuthorityTyped
  <2>1. NoRows \in Rows /\ NoRows \in [Keys -> Nat]
    BY AbsentIsOther DEF NoRows, Rows
  <2>2. Conversations \subseteq Histories
    BY AuthorityAssumption
  <2>3. \A c \in Conversations :
           [history |-> 1..(Current - 1), rows |-> NoRows, workspace |-> 0, conversation |-> c]
              \in Databases
    BY <2>1, <2>2, VersionAssumption DEF Databases
  <2>4. file \in {Absent} \cup Databases /\ (file # Absent => file.rows \in Rows)
    BY <2>1, <2>3
  <2>5. migration \in [step : {"none", "backup", "begin", "edges"}, target : Int, from : Int,
                       todo : Seq(Edges), draft : {Absent} \cup Databases]
    BY VersionAssumption DEF NoMigration
  <2> QED BY <2>4, <2>5 DEF AuthorityTyped, OpeningSteps
<1>2. RowsTyped
    BY AbsentIsOther DEF RowsTyped, ConnTyped, TaskTyped, Task, ValuesTyped, NoConn, Idle, NoIntent,
       Snapshots, TaskSteps
<1>3. AuthorityHeld
    BY AbsentIsOther, VersionAssumption
    DEF AuthorityHeld, Whole, NoMigration, Versions, Compact
<1>4. ConnHeld /\ TaskHeld
    BY AbsentIsOther, HereIsAProcess
    DEF ConnHeld, TaskHeld, ConnOk, TaskOk, NoConn, Idle, NoIntent, Working, Writing
<1>5. Seen
    BY DEF Seen, NoRows
<1> QED BY <1>1, <1>2, <1>3, <1>4, <1>5 DEF StorageInv

-----------------------------------------------------------------------------
(* What a step of one thread leaves as it is *)

LEMMA Elsewhere ==
    ASSUME StorageInv, NEW t \in Threads, UNCHANGED opening,
           conn[Here(t)].holder \in {Absent, t},
           \A q \in Procs \ {Here(t)} :
              conn'[q] = conn[q] /\ (q \in torn' <=> q \in torn) /\ (writer' = q <=> writer = q),
           \A u \in Threads \ {t} : task'[u] = task[u],
           file' = file \/ writer \notin Procs \ {Here(t)},
           committed \subseteq committed'
    PROVE  /\ \A q \in Procs \ {Here(t)} : ConnOk(q)'
           /\ \A u \in Threads \ {t} : TaskOk(u)'
<1> USE AbsentIsOther, HereIsAProcess DEF StorageInv
<1>1. ASSUME NEW q \in Procs \ {Here(t)} PROVE ConnOk(q)'
  <2>1. ConnOk(q)
    BY DEF ConnHeld
  <2>2. conn[q].holder # Absent => task'[conn[q].holder] = task[conn[q].holder]
    BY <2>1 DEF ConnOk, RowsTyped, ConnTyped, Here
  <2>3. (conn[q].holder # Absent /\ Working(conn[q].holder)) => Working(conn[q].holder)'
    BY <2>2 DEF Working
  <2> QED BY <2>1, <2>3 DEF ConnOk
<1>2. ASSUME NEW u \in Threads \ {t} PROVE TaskOk(u)'
  <2>1. TaskOk(u) /\ Here(u) \in Procs
    BY DEF TaskHeld
  <2>2. CASE Here(u) = Here(t)
    <3>1. ~Working(u)
      BY <2>1, <2>2 DEF TaskOk
    <3> QED BY <2>1, <2>2, <3>1 DEF TaskOk, Working, Writing, Here
  <2>3. CASE Here(u) # Here(t)
    BY <2>1, <2>3 DEF TaskOk, Same, Working, Writing, Here
  <2> QED BY <2>2, <2>3
<1> QED BY <1>1, <1>2

\* The database stays, and what becomes of its rows is for the process that writes.
LEMMA AuthorityAside ==
    ASSUME StorageInv, UNCHANGED <<lease, opening, migration>>,
           writer' \in Procs \cup {Migrator, Absent}, writer' = Migrator <=> writer = Migrator,
           \/ file' = file
           \/ /\ file # Absent /\ writer # Migrator
              /\ \E rows \in Rows : file' = [file EXCEPT !.rows = rows]
    PROVE  AuthorityTyped' /\ AuthorityHeld'
<1> USE AbsentIsOther DEF StorageInv
<1>1. CASE file' = file
    BY <1>1 DEF AuthorityTyped, AuthorityHeld
<1>2. CASE /\ file # Absent /\ writer # Migrator
           /\ \E rows \in Rows : file' = [file EXCEPT !.rows = rows]
  <2>1. PICK rows \in Rows : file' = [file EXCEPT !.rows = rows]
    BY <1>2
  <2>2. file \in Databases
    BY <1>2 DEF AuthorityTyped
  <2>3. file' \in Databases /\ file'.rows = rows /\ file'.history = file.history
    BY <2>1, <2>2 DEF Databases
  <2>4. file' # Absent /\ (Whole(file.history) => Whole(file'.history))
    BY <2>3
  <2>5. AuthorityTyped'
    BY <2>3, <2>4 DEF AuthorityTyped
  <2>6. AuthorityHeld'
    BY <1>2, <2>4 DEF AuthorityHeld
  <2> QED BY <2>5, <2>6
<1> QED BY <1>1, <1>2

\* The step of thread t, if what it does to its own connection and task is right.
LEMMA OneThread ==
    ASSUME StorageInv, NEW t \in Threads, UNCHANGED <<lease, opening, migration>>,
           conn[Here(t)].holder \in {Absent, t},
           \A q \in Procs \ {Here(t)} : conn'[q] = conn[q] /\ (q \in torn' <=> q \in torn),
           \A u \in Threads \ {t} : task'[u] = task[u],
           committed \subseteq committed',
           \/ writer' = writer
           \/ writer \in {Absent, Here(t)} /\ writer' \in {Absent, Here(t)},
           \/ file' = file
           \/ /\ file # Absent /\ writer = Here(t)
              /\ \E rows \in Rows : file' = [file EXCEPT !.rows = rows],
           RowsTyped', ConnOk(Here(t))', TaskOk(t)', Seen'
    PROVE  StorageInv'
<1>1. writer' = Migrator <=> writer = Migrator
    BY AbsentIsOther, HereIsAProcess
<1>2. writer' \in Procs \cup {Migrator, Absent} /\ writer \in Procs \cup {Migrator, Absent}
    BY HereIsAProcess DEF StorageInv, AuthorityTyped
<1>3. \A q \in Procs \ {Here(t)} : writer' = q <=> writer = q
    BY AbsentIsOther, HereIsAProcess
<1>4. file' = file \/ (writer # Migrator /\ writer \notin Procs \ {Here(t)})
  <2>1. Here(t) # Migrator /\ Here(t) \notin Procs \ {Here(t)}
    BY AbsentIsOther, HereIsAProcess
  <2>2. CASE writer = Here(t)
    BY <2>1, <2>2
  <2> QED BY <2>2
<1>5. AuthorityTyped' /\ AuthorityHeld'
    BY <1>1, <1>2, <1>4, AuthorityAside
<1>6. \A q \in Procs \ {Here(t)} : ConnOk(q)'
    BY <1>3, <1>4, Elsewhere
<1>7. \A u \in Threads \ {t} : TaskOk(u)'
    BY <1>3, <1>4, Elsewhere
<1>8. ConnHeld' /\ TaskHeld'
    BY <1>6, <1>7 DEF ConnHeld, TaskHeld
<1> QED BY <1>5, <1>8 DEF StorageInv

\* What a step of a thread at work may rely on.
LEMMA AtWork ==
    ASSUME StorageInv, NEW t \in Threads, opening[Here(t)] = "open", Working(t)
    PROVE  /\ Here(t) \in Procs /\ writer = Here(t) /\ conn[Here(t)].holder = t
           /\ conn[Here(t)].open /\ conn[Here(t)].base = file.rows
           /\ conn[Here(t)].view \in Rows /\ Visible(Here(t)) = conn[Here(t)].view
           /\ file \in Databases /\ file.rows \in Rows
           /\ ConnOk(Here(t)) /\ TaskOk(t)
<1> USE AbsentIsOther, HereIsAProcess DEF StorageInv
<1>1. ConnOk(Here(t)) /\ TaskOk(t) /\ Here(t) \in Procs
    BY DEF ConnHeld, TaskHeld
<1>2. conn[Here(t)].holder = t /\ writer = Here(t)
    BY <1>1 DEF ConnOk, TaskOk
<1>3. file # Absent
    BY <1>1 DEF AuthorityHeld
<1>4. file \in Databases /\ file.rows \in Rows
    BY <1>3 DEF AuthorityTyped
<1>5. conn[Here(t)].open /\ conn[Here(t)].base = file.rows
    BY <1>1, <1>2 DEF ConnOk
<1>6. conn[Here(t)].view # Absent
    BY <1>1, <1>4, <1>5 DEF ConnOk
<1>7. conn[Here(t)].view \in Rows
    BY <1>1, <1>6 DEF RowsTyped, ConnTyped, Snapshots
<1> QED BY <1>1, <1>2, <1>4, <1>5, <1>6, <1>7 DEF Visible

\* What a thread that is not at work may rely on when it has the lock.
LEMMA AtRest ==
    ASSUME StorageInv, NEW t \in Threads, opening[Here(t)] = "open", Locks(t)
    PROVE  /\ Here(t) \in Procs /\ ~Working(t)
           /\ Visible(Here(t)) \in Rows
           /\ file \in Databases /\ file.rows \in Rows
           /\ Here(t) \notin torn =>
                 /\ writer # Here(t)
                 /\ \A k \in Keys : Visible(Here(t))[k] \in committed
           /\ ConnOk(Here(t)) /\ TaskOk(t)
<1> USE AbsentIsOther, HereIsAProcess DEF StorageInv
<1>1. ConnOk(Here(t)) /\ TaskOk(t) /\ Here(t) \in Procs /\ conn[Here(t)].holder = Absent
    BY DEF ConnHeld, TaskHeld, Locks
<1>2. ~Working(t)
    BY <1>1 DEF TaskOk
<1>3. file # Absent
    BY <1>1 DEF AuthorityHeld
<1>4. file \in Databases /\ file.rows \in Rows
    BY <1>3 DEF AuthorityTyped
<1>5. Visible(Here(t)) \in Rows
    BY <1>1, <1>4 DEF RowsTyped, ConnTyped, Snapshots, Visible
<1>6. ASSUME Here(t) \notin torn
      PROVE  writer # Here(t) /\ \A k \in Keys : Visible(Here(t))[k] \in committed
  <2>1. writer # Here(t)
    BY <1>1, <1>6 DEF ConnOk
  <2>2. conn[Here(t)].view = conn[Here(t)].base
    BY <1>1, <2>1 DEF ConnOk
  <2> QED BY <1>1, <1>3, <2>1, <2>2 DEF ConnOk, Visible, Seen
<1> QED BY <1>1, <1>2, <1>4, <1>5, <1>6

-----------------------------------------------------------------------------
(* The parts actions are made of *)

LEMMA WritesOne ==
    ASSUME StorageInv, NEW t \in Threads, NEW k \in Keys, Writes(t, k),
           Visible(Here(t)) \in Rows, file.rows \in Rows
    PROVE  /\ ConnTyped' /\ made' \in Values /\ writer' = Here(t)
           /\ conn'[Here(t)] = [holder |-> t, open |-> TRUE, base |-> file.rows,
                                view |-> [Visible(Here(t)) EXCEPT ![k] = made']]
           /\ conn'[Here(t)].view \in Rows
           /\ \A q \in Procs \ {Here(t)} : conn'[q] = conn[q]
<1> USE DEF StorageInv, RowsTyped
<1>1. Here(t) \in Procs /\ made' = made + 1 /\ writer' = Here(t)
    BY HereIsAProcess DEF Writes
<1>2. made' \in Values
    BY <1>1, StorageAssumption DEF Writes, ValuesTyped, Values
<1>3. conn' = [conn EXCEPT ![Here(t)] =
                  [holder |-> t, open |-> TRUE, base |-> file.rows,
                   view |-> [Visible(Here(t)) EXCEPT ![k] = made']]]
    BY <1>1 DEF Writes
<1>4. [Visible(Here(t)) EXCEPT ![k] = made'] \in Rows
    BY <1>2 DEF Rows
<1>5. ConnTyped'
    BY <1>1, <1>3, <1>4 DEF ConnTyped, Snapshots
<1> QED BY <1>1, <1>2, <1>3, <1>4, <1>5 DEF ConnTyped

\* Thread t intends one value more.
Intends(t, step, k, v) ==
    \/ task' = [task EXCEPT ![t].step = step, ![t].intended[k] = v]
    \/ task[t].step = step /\ task' = [task EXCEPT ![t].intended[k] = v]

LEMMA IntendsOne ==
    ASSUME TaskTyped, NEW t \in Threads, NEW k \in Keys, NEW v \in Values, NEW step \in TaskSteps,
           Intends(t, step, k, v)
    PROVE  /\ TaskTyped' /\ \A u \in Threads \ {t} : task'[u] = task[u]
           /\ task'[t].step = step /\ task'[t].failed = task[t].failed
           /\ task'[t].rollbackOnly = task[t].rollbackOnly /\ task'[t].scanned = task[t].scanned
           /\ task'[t].intended = [task[t].intended EXCEPT ![k] = v]
<1> DEFINE intends == [task[t].intended EXCEPT ![k] = v]
           next == [task[t] EXCEPT !.step = step, !.intended = intends]
<1>1. task \in [Threads -> Task]
    BY DEF TaskTyped
<1>2. task[t] \in Task /\ intends \in [Keys -> {Absent} \cup Values]
    BY <1>1 DEF Task
<1>3. next \in Task
    BY <1>2 DEF Task
<1>4. task[t].step = step => next = [task[t] EXCEPT !.intended = intends]
    BY <1>2 DEF Task
<1>5. task' = [task EXCEPT ![t] = next]
  <2>1. CASE task' = [task EXCEPT ![t].step = step, ![t].intended[k] = v]
    BY <1>1, <2>1
  <2>2. CASE task[t].step = step /\ task' = [task EXCEPT ![t].intended[k] = v]
    BY <1>1, <1>4, <2>2
  <2> QED BY <2>1, <2>2 DEF Intends
<1>6. TaskTyped'
  <2>1. task' \in [Threads -> Task]
    BY <1>1, <1>3, <1>5
  <2> QED BY <2>1 DEF TaskTyped
<1>7. task'[t] = next /\ \A u \in Threads \ {t} : task'[u] = task[u]
    BY <1>1, <1>5
<1> QED BY <1>2, <1>6, <1>7 DEF Task

LEMMA CommitKeeps ==
    ASSUME StorageInv, NEW t \in Threads, opening[Here(t)] = "open", Working(t), Commits(t),
           UNCHANGED <<lease, opening, migration, made, leaked>>
    PROVE  StorageInv'
<1> USE AbsentIsOther DEF StorageInv, RowsTyped
<1>1. /\ Here(t) \in Procs /\ writer = Here(t) /\ conn[Here(t)].holder = t
      /\ conn[Here(t)].view \in Rows /\ Visible(Here(t)) = conn[Here(t)].view
      /\ file \in Databases /\ ConnOk(Here(t)) /\ TaskOk(t)
    BY AtWork
<1>2. /\ conn' = [conn EXCEPT ![Here(t)] = NoConn] /\ task' = [task EXCEPT ![t] = Idle]
      /\ writer' = Absent /\ torn' = torn \ {Here(t)}
      /\ file' = [file EXCEPT !.rows = conn[Here(t)].view]
      /\ committed' = committed \cup Range(conn[Here(t)].view)
    BY <1>1 DEF Commits, TaskFinished
<1>3. \A k \in Keys : conn[Here(t)].view[k] \in Range(conn[Here(t)].view)
    BY <1>1 DEF Rows, Range
<1>4. Range(conn[Here(t)].view) \subseteq Values
    BY <1>1 DEF Rows, Range
<1>5. RowsTyped'
  <2>1. ConnTyped'
      BY <1>1, <1>2 DEF ConnTyped, NoConn, Snapshots
  <2>2. TaskTyped'
      BY <1>2 DEF TaskTyped, Task, Idle, NoIntent, Snapshots, TaskSteps
  <2> QED BY <1>2, <1>4, <2>1, <2>2 DEF ValuesTyped
<1>6. conn'[Here(t)] = NoConn /\ task'[t] = Idle
    BY <1>1, <1>2 DEF ConnTyped, TaskTyped
<1>7. ConnOk(Here(t))'
    BY <1>1, <1>2, <1>6 DEF ConnOk, NoConn
<1>8. TaskOk(t)'
    BY <1>1, <1>6 DEF TaskOk, Idle, Working, Writing, NoIntent, Here
<1>9. Seen'
  <2>1. file'.rows = conn[Here(t)].view
    BY <1>1, <1>2 DEF Databases
  <2> QED BY <1>2, <1>3, <2>1 DEF Seen
<1>10. /\ \A q \in Procs \ {Here(t)} : conn'[q] = conn[q] /\ (q \in torn' <=> q \in torn)
       /\ \A u \in Threads \ {t} : task'[u] = task[u]
    BY <1>2 DEF ConnTyped, TaskTyped
<1>11. file # Absent /\ \E rows \in Rows : file' = [file EXCEPT !.rows = rows]
    BY <1>1, <1>2
<1> QED BY <1>1, <1>2, <1>5, <1>7, <1>8, <1>9, <1>10, <1>11, OneThread

LEMMA TearKeeps ==
    ASSUME StorageInv, NEW t \in Threads, opening[Here(t)] = "open", Working(t), Tears(t),
           UNCHANGED <<lease, opening, migration, made, committed, leaked>>
    PROVE  StorageInv'
<1> USE AbsentIsOther DEF StorageInv, RowsTyped
<1>1. /\ Here(t) \in Procs /\ writer = Here(t) /\ conn[Here(t)].holder = t
      /\ ConnOk(Here(t)) /\ TaskOk(t)
    BY AtWork
<1>2. /\ conn' = [conn EXCEPT ![Here(t)].holder = Absent] /\ task' = [task EXCEPT ![t] = Idle]
      /\ writer' = writer /\ file' = file /\ torn' = torn \cup {Here(t)}
    BY DEF Tears, Releases, TaskFinished
<1>3. RowsTyped'
  <2>1. ConnTyped'
      BY <1>1, <1>2 DEF ConnTyped
  <2>2. TaskTyped'
      BY <1>2 DEF TaskTyped, Task, Idle, NoIntent, Snapshots, TaskSteps
  <2> QED BY <1>1, <1>2, <2>1, <2>2 DEF ValuesTyped
<1>4. /\ conn'[Here(t)] = [conn[Here(t)] EXCEPT !.holder = Absent] /\ task'[t] = Idle
      /\ conn'[Here(t)].holder = Absent /\ conn'[Here(t)].open = conn[Here(t)].open
      /\ conn'[Here(t)].base = conn[Here(t)].base /\ conn'[Here(t)].view = conn[Here(t)].view
    BY <1>1, <1>2 DEF ConnTyped, TaskTyped
<1>5. ConnOk(Here(t))'
    BY <1>1, <1>2, <1>4 DEF ConnOk
<1>6. TaskOk(t)'
    BY <1>1, <1>4 DEF TaskOk, Idle, Working, Writing, NoIntent, Here
<1>7. Seen'
    BY <1>2 DEF Seen
<1>8. /\ \A q \in Procs \ {Here(t)} : conn'[q] = conn[q] /\ (q \in torn' <=> q \in torn)
      /\ \A u \in Threads \ {t} : task'[u] = task[u]
    BY <1>2 DEF ConnTyped, TaskTyped
<1> QED BY <1>1, <1>2, <1>3, <1>5, <1>6, <1>7, <1>8, OneThread

\* A step that changes only what t does, without leaving or beginning its work.
LEMMA TaskMoves ==
    ASSUME StorageInv, NEW t \in Threads, opening[Here(t)] = "open", Working(t),
           UNCHANGED <<authorityVars, conn, made, committed, torn, leaked>>,
           TaskTyped', \A u \in Threads \ {t} : task'[u] = task[u],
           task'[t].step \in {"in", "repair"}, task[t].step = "in",
           task'[t].step = "repair" => Same(t, conn[Here(t)].base),
           task'[t].intended = task[t].intended, task'[t].scanned = task[t].scanned,
           task'[t].failed => task'[t].rollbackOnly
    PROVE  StorageInv'
<1> USE AbsentIsOther DEF StorageInv, RowsTyped, authorityVars
<1>1. /\ Here(t) \in Procs /\ conn[Here(t)].holder = t /\ ConnOk(Here(t)) /\ TaskOk(t)
    BY AtWork
<1>2. RowsTyped'
    BY DEF ConnTyped, ValuesTyped
<1>3. Working(t)'
    BY DEF Working, Writing
<1>4. ConnOk(Here(t))'
    BY <1>1, <1>3 DEF ConnOk
<1>5. TaskOk(t)'
    BY <1>1, <1>3 DEF TaskOk, Here, Same
<1>6. Seen'
    BY DEF Seen
<1> QED BY <1>1, <1>2, <1>4, <1>5, <1>6, OneThread

\* A step that reads, of a thread that is not at work.
LEMMA ReadsOne ==
    ASSUME StorageInv, NEW t \in Threads, opening[Here(t)] = "open",
           conn[Here(t)].holder \in {Absent, t}, Reads(Here(t), conn[Here(t)].holder),
           UNCHANGED <<writer, file, opening, committed, torn>>
    PROVE  /\ ConnTyped' /\ \A q \in Procs \ {Here(t)} : conn'[q] = conn[q]
           /\ conn'[Here(t)].holder = conn[Here(t)].holder
           /\ conn[Here(t)].base # Absent => conn'[Here(t)] = conn[Here(t)]
           /\ task' = task => ConnOk(Here(t))'
           /\ conn[Here(t)].holder = Absent => ConnOk(Here(t))'
<1> USE AbsentIsOther DEF StorageInv, RowsTyped
<1> DEFINE p == Here(t)
           c == conn[p]
<1>1. /\ p \in Procs /\ ConnOk(p)
      /\ c \in [holder : {Absent} \cup Threads, open : BOOLEAN, base : Snapshots, view : Snapshots]
    BY HereIsAProcess DEF ConnHeld, ConnTyped
<1>2. file # Absent /\ file.rows \in Rows /\ \A k \in Keys : file.rows[k] \in committed
    BY <1>1 DEF AuthorityHeld, AuthorityTyped, Seen
<1>3. conn' = [conn EXCEPT ![p] =
                  [c EXCEPT !.base = IF c.open /\ c.base = Absent THEN file.rows ELSE c.base,
                            !.view = IF c.open THEN Visible(p) ELSE c.view]]
    BY <1>1 DEF Reads, ConnTyped
<1>4. \A q \in Procs \ {p} : conn'[q] = conn[q]
    BY <1>3 DEF ConnTyped
<1>5. CASE c.base # Absent \/ ~c.open
  <2> HIDE DEF c
  <2>1. c.open => Visible(p) = c.view
    BY <1>1, <1>5 DEF ConnOk, Visible, c
  <2>2. (IF c.open /\ c.base = Absent THEN file.rows ELSE c.base) = c.base
        /\ (IF c.open THEN Visible(p) ELSE c.view) = c.view
    BY <1>5, <2>1
  <2>3. [c EXCEPT !.base = c.base, !.view = c.view] = c
    BY <1>1
  <2>4. conn' = [conn EXCEPT ![p] = c]
    BY <1>3, <2>2, <2>3
  <2>5. conn' = conn
    BY <2>4 DEF ConnTyped, c
  <2> USE DEF c
  <2>6. ConnTyped' /\ (task' = task => ConnOk(p)')
    BY <1>1, <2>5 DEF ConnTyped, ConnOk, Working
  <2>7. conn[p].holder = Absent => ConnOk(p)'
    BY <1>1, <2>5 DEF ConnOk
  <2> QED BY <2>5, <2>6, <2>7
<1>6. CASE c.base = Absent /\ c.open
  <2>1. c.view = Absent /\ writer # p /\ c.holder = Absent
    BY <1>1, <1>2, <1>6 DEF ConnOk
  <2>2. conn' = [conn EXCEPT ![p] = [c EXCEPT !.base = file.rows, !.view = file.rows]]
    BY <1>3, <1>6, <2>1 DEF Visible
  <2>3. ConnTyped'
    BY <1>1, <1>2, <2>2 DEF ConnTyped, Snapshots
  <2>4. /\ conn'[p].holder = Absent /\ conn'[p].open
        /\ conn'[p].base = file.rows /\ conn'[p].view = file.rows
    BY <1>1, <1>6, <2>1, <2>2 DEF ConnTyped
  <2>5. ConnOk(p)'
    BY <1>1, <1>2, <2>1, <2>4 DEF ConnOk
  <2> QED BY <1>4, <1>6, <2>1, <2>3, <2>4, <2>5
<1> QED BY <1>5, <1>6

-----------------------------------------------------------------------------
(* Single operations *)

LEMMA ReadKeeps ==
    ASSUME StorageInv, NEW t \in Threads, NEW k \in Keys, Read(t, k)
    PROVE  StorageInv'
<1> USE AbsentIsOther DEF StorageInv, RowsTyped
<1>1. /\ Here(t) \in Procs /\ opening[Here(t)] = "open" /\ conn[Here(t)].holder \in {Absent, t}
      /\ Reads(Here(t), conn[Here(t)].holder)
      /\ UNCHANGED <<authorityVars, task, made, committed, torn>>
      /\ ConnOk(Here(t)) /\ TaskOk(t)
    BY HereIsAProcess DEF Read, ConnHeld, TaskHeld
<1> USE <1>1 DEF authorityVars
<1>2. /\ ConnTyped' /\ \A q \in Procs \ {Here(t)} : conn'[q] = conn[q]
      /\ conn'[Here(t)].holder = conn[Here(t)].holder
      /\ conn[Here(t)].base # Absent => conn'[Here(t)] = conn[Here(t)]
      /\ ConnOk(Here(t))'
    BY ReadsOne
<1>3. RowsTyped'
    BY <1>2 DEF TaskTyped, ValuesTyped
<1>4. TaskOk(t)'
  <2>1. CASE Working(t)
    <3>1. conn'[Here(t)] = conn[Here(t)]
      BY <1>2, <2>1, AtWork
    <3> QED BY <3>1 DEF TaskOk, Same, Working, Here
  <2>2. CASE ~Working(t)
    BY <2>2 DEF TaskOk, Working, Writing, Here
  <2> QED BY <2>1, <2>2
<1>5. leaked' = {}
  <2>1. SUFFICES ASSUME Here(t) \notin torn
                 PROVE  Visible(Here(t))[k] \in committed \cup Range(task[t].intended)
    BY DEF Read, Seen
  <2>2. CASE conn[Here(t)].holder = Absent
    BY <2>1, <2>2, AtRest DEF Locks
  <2>3. CASE conn[Here(t)].holder = t
    <3>1. Working(t)
      BY <2>3 DEF ConnOk
    <3>2. /\ Visible(Here(t)) = conn[Here(t)].view /\ conn[Here(t)].base \in Rows
      BY <3>1, AtWork
    <3>3. conn[Here(t)].base[k] \in committed
      BY <3>2 DEF ConnOk
    <3>4. task[t].intended[k] \in Range(task[t].intended)
      BY DEF TaskTyped, Task, Range
    <3> QED BY <2>1, <3>1, <3>2, <3>3, <3>4 DEF TaskOk
  <2> QED BY <2>2, <2>3
<1>6. Seen'
    BY <1>5 DEF Seen
<1> QED BY <1>2, <1>3, <1>4, <1>6, OneThread

LEMMA PutKeeps ==
    ASSUME StorageInv, NEW t \in Threads, NEW k \in Keys, Put(t, k)
    PROVE  StorageInv'
<1> USE AbsentIsOther DEF StorageInv, RowsTyped
<1>1. /\ opening[Here(t)] = "open" /\ Locks(t) /\ CanWrite(Here(t)) /\ Writes(t, k)
      /\ task[t].step \in {"idle", "save"}
      /\ task' = [task EXCEPT ![t].step = "commit", ![t].intended[k] = made']
      /\ UNCHANGED <<file, lease, opening, migration, backups, faults, committed, torn, leaked>>
    BY DEF Put, Step
<1>2. /\ Here(t) \in Procs /\ ~Working(t) /\ Visible(Here(t)) \in Rows
      /\ file \in Databases /\ file.rows \in Rows
      /\ ConnOk(Here(t)) /\ TaskOk(t)
      /\ Here(t) \notin torn => writer # Here(t)
    BY <1>1, AtRest
<1>3. /\ ConnTyped' /\ made' \in Values /\ writer' = Here(t)
      /\ conn'[Here(t)] = [holder |-> t, open |-> TRUE, base |-> file.rows,
                           view |-> [Visible(Here(t)) EXCEPT ![k] = made']]
      /\ \A q \in Procs \ {Here(t)} : conn'[q] = conn[q]
      /\ conn'[Here(t)].view \in Rows
    BY <1>1, <1>2, WritesOne
<1>4. /\ task'[t].step = "commit" /\ task'[t].failed = task[t].failed
      /\ task'[t].rollbackOnly = task[t].rollbackOnly
      /\ task'[t].intended = [task[t].intended EXCEPT ![k] = made']
      /\ TaskTyped' /\ \A u \in Threads \ {t} : task'[u] = task[u]
  <2>1. TaskTyped /\ "commit" \in TaskSteps /\ made' \in Values
    BY <1>3 DEF TaskSteps
  <2>2. PICK v \in Values : v = made'
    BY <2>1
  <2>3. Intends(t, "commit", k, v)
    BY <1>1, <2>2 DEF Intends
  <2>4. /\ TaskTyped' /\ \A u \in Threads \ {t} : task'[u] = task[u]
        /\ task'[t].step = "commit" /\ task'[t].failed = task[t].failed
        /\ task'[t].rollbackOnly = task[t].rollbackOnly
        /\ task'[t].intended = [task[t].intended EXCEPT ![k] = v]
    BY <2>1, <2>3, IntendsOne
  <2> QED BY <2>2, <2>4
<1>5. RowsTyped'
    BY <1>1, <1>3, <1>4 DEF ValuesTyped
<1>6. Working(t)'
    BY <1>4 DEF Working, Writing
<1>7. file # Absent /\ \A l \in Keys : file.rows[l] \in committed
    BY <1>2 DEF Seen
<1>8. ConnOk(Here(t))'
    BY <1>1, <1>2, <1>3, <1>6, <1>7 DEF ConnOk, Here
<1>9. ASSUME Here(t) \notin torn PROVE Visible(Here(t)) = file.rows
    BY <1>1, <1>2, <1>9 DEF ConnOk, CanWrite, Visible
<1>10. task[t].intended = NoIntent /\ ~task[t].failed /\ ~task[t].rollbackOnly
    BY <1>2 DEF TaskOk
<1>11. ASSUME Here(t) \notin torn, NEW l \in Keys
       PROVE  conn'[Here(t)].view[l] =
                IF task'[t].intended[l] = Absent THEN conn'[Here(t)].base[l]
                ELSE task'[t].intended[l]
  <2>1. Visible(Here(t)) = file.rows
    BY <1>9, <1>11
  <2>2. conn'[Here(t)].view[l] = IF l = k THEN made' ELSE file.rows[l]
    BY <1>2, <1>3, <2>1 DEF Rows
  <2>3. task'[t].intended[l] = IF l = k THEN made' ELSE Absent
    BY <1>4, <1>10 DEF NoIntent
  <2> QED BY <1>3, <2>2, <2>3
<1>12. TaskOk(t)'
  <2>1. ~task'[t].failed /\ conn'[Here(t)].holder = t
    BY <1>3, <1>4, <1>10
  <2> QED BY <1>1, <1>4, <1>6, <1>11, <2>1 DEF TaskOk, Here
<1>13. Seen'
    BY <1>1 DEF Seen
<1>14. writer \in {Absent, Here(t)} /\ conn[Here(t)].holder = Absent
    BY <1>1 DEF CanWrite, Locks
<1> QED BY <1>1, <1>3, <1>4, <1>5, <1>8, <1>12, <1>13, <1>14, OneThread

LEMMA PutBusyKeeps ==
    ASSUME StorageInv, NEW t \in Threads, PutBusy(t)
    PROVE  StorageInv'
<1> USE AbsentIsOther DEF StorageInv, RowsTyped
<1>1. /\ opening[Here(t)] = "open" /\ Locks(t) /\ ~CanWrite(Here(t))
      /\ conn' = [conn EXCEPT ![Here(t)].open = TRUE] /\ task' = [task EXCEPT ![t] = Idle]
      /\ UNCHANGED <<authorityVars, made, committed, torn, leaked>>
    BY DEF PutBusy, Step, TaskFinished
<1> USE <1>1 DEF authorityVars
<1>2. Here(t) \in Procs /\ ConnOk(Here(t)) /\ conn[Here(t)].holder = Absent
    BY AtRest DEF Locks
<1>3. writer # Here(t)
    BY <1>2 DEF ConnOk, CanWrite
<1>4. /\ conn'[Here(t)].holder = Absent /\ conn'[Here(t)].open
      /\ conn'[Here(t)].base = conn[Here(t)].base /\ conn'[Here(t)].view = conn[Here(t)].view
      /\ ConnTyped' /\ \A q \in Procs \ {Here(t)} : conn'[q] = conn[q]
    BY <1>2 DEF ConnTyped
<1>5. ConnOk(Here(t))'
    BY <1>2, <1>3, <1>4 DEF ConnOk
<1>6. task'[t] = Idle /\ TaskTyped' /\ \A u \in Threads \ {t} : task'[u] = task[u]
    BY DEF TaskTyped, Task, Idle, NoIntent, Snapshots, TaskSteps
<1>7. TaskOk(t)'
    BY <1>6 DEF TaskOk, Idle, Working, Writing, NoIntent, Here
<1>8. RowsTyped' /\ Seen'
    BY <1>4, <1>6 DEF ValuesTyped, Seen
<1> QED BY <1>2, <1>4, <1>5, <1>6, <1>7, <1>8, OneThread

LEMMA PutCommitKeeps ==
    ASSUME StorageInv, NEW t \in Threads, PutCommit(t)
    PROVE  StorageInv'
  BY CommitKeeps DEF PutCommit, Step, Working, Writing

LEMMA PutCommitFailsKeeps ==
    ASSUME StorageInv, NEW t \in Threads, PutCommitFails(t)
    PROVE  StorageInv'
  BY TearKeeps DEF PutCommitFails, Step, Working, Writing

-----------------------------------------------------------------------------
(* transaction *)

LEMMA EnterKeeps ==
    ASSUME StorageInv, NEW t \in Threads, Enter(t)
    PROVE  StorageInv'
<1> USE AbsentIsOther DEF StorageInv, RowsTyped
<1>1. /\ opening[Here(t)] = "open" /\ Locks(t) /\ task[t].step \in {"idle", "scanned"}
      /\ UNCHANGED <<file, lease, opening, migration, backups, faults, made, committed, torn, leaked>>
    BY DEF Enter, Step
<1> USE <1>1
<1>2. /\ Here(t) \in Procs /\ ~Working(t) /\ file \in Databases /\ file.rows \in Rows
      /\ ConnOk(Here(t)) /\ TaskOk(t) /\ conn[Here(t)].holder = Absent
    BY AtRest DEF Locks
<1>3. Seen'
    BY DEF Seen
<1>4. CASE ~conn[Here(t)].open /\ writer = Absent
  <2>1. /\ conn' = [conn EXCEPT ![Here(t)] = [holder |-> t, open |-> TRUE, base |-> file.rows,
                                             view |-> file.rows]]
        /\ writer' = Here(t) /\ task' = [task EXCEPT ![t].step = "in", ![t].depth = 1]
    BY <1>4 DEF Enter
  <2>2. /\ ConnTyped' /\ \A q \in Procs \ {Here(t)} : conn'[q] = conn[q]
        /\ conn'[Here(t)] = [holder |-> t, open |-> TRUE, base |-> file.rows, view |-> file.rows]
    BY <1>2, <2>1 DEF ConnTyped, Snapshots
  <2>3. /\ TaskTyped' /\ \A u \in Threads \ {t} : task'[u] = task[u]
        /\ task'[t].step = "in" /\ task'[t].failed = task[t].failed
        /\ task'[t].intended = task[t].intended
    <3>1. task[t] \in Task
      BY DEF TaskTyped
    <3>2. [task[t] EXCEPT !.step = "in", !.depth = 1] \in Task
      <4>1. "in" \in TaskSteps /\ 1 \in 0..2
        BY DEF TaskSteps
      <4> QED BY <3>1, <4>1 DEF Task
    <3>3. task' = [task EXCEPT ![t] = [task[t] EXCEPT !.step = "in", !.depth = 1]]
      BY <2>1 DEF TaskTyped
    <3>4. TaskTyped' /\ \A u \in Threads \ {t} : task'[u] = task[u]
      BY <3>2, <3>3 DEF TaskTyped
    <3>5. task'[t] = [task[t] EXCEPT !.step = "in", !.depth = 1]
      BY <3>3 DEF TaskTyped
    <3> QED BY <3>1, <3>4, <3>5 DEF Task
  <2>4. Working(t)' /\ Here(t) \notin torn
    BY <1>2, <1>4, <2>3 DEF Working, Writing, ConnOk
  <2>5. ConnOk(Here(t))'
    BY <1>2, <2>1, <2>2, <2>4 DEF ConnOk, Here, Seen
  <2>6. task[t].intended = NoIntent /\ ~task[t].failed
    BY <1>2 DEF TaskOk
  <2>7. TaskOk(t)'
    BY <1>2, <2>2, <2>3, <2>4, <2>6 DEF TaskOk, Here, NoIntent
  <2>8. RowsTyped'
    BY <2>2, <2>3 DEF ValuesTyped
  <2> QED BY <1>2, <1>3, <1>4, <2>1, <2>2, <2>3, <2>5, <2>7, <2>8, OneThread
<1>5. CASE ~(~conn[Here(t)].open /\ writer = Absent)
  <2>1. UNCHANGED <<conn, writer>> /\ task' = [task EXCEPT ![t] = Idle]
    BY <1>5 DEF Enter, TaskFinished
  <2>2. task'[t] = Idle /\ TaskTyped' /\ \A u \in Threads \ {t} : task'[u] = task[u]
    BY <2>1 DEF TaskTyped, Task, Idle, NoIntent, Snapshots, TaskSteps
  <2>3. TaskOk(t)'
    BY <2>2 DEF TaskOk, Idle, Working, Writing, NoIntent, Here
  <2>4. ConnOk(Here(t))'
    BY <1>2, <2>1 DEF ConnOk
  <2>5. RowsTyped'
    BY <2>1, <2>2 DEF ConnTyped, ValuesTyped
  <2> QED BY <1>2, <1>3, <2>1, <2>2, <2>3, <2>4, <2>5, OneThread
<1> QED BY <1>4, <1>5

LEMMA WriteKeeps ==
    ASSUME StorageInv, NEW t \in Threads, NEW k \in Keys, Write(t, k)
    PROVE  StorageInv'
<1> USE AbsentIsOther DEF StorageInv, RowsTyped
<1>1. /\ opening[Here(t)] = "open" /\ Writes(t, k) /\ task[t].step = "in"
      /\ task[t].scanned = Absent
      /\ task' = [task EXCEPT ![t].intended[k] = made']
      /\ UNCHANGED <<file, lease, opening, migration, backups, faults, committed, torn, leaked>>
    BY DEF Write, Step
<1>2. Working(t)
    BY <1>1 DEF Working, Writing
<1>3. /\ Here(t) \in Procs /\ writer = Here(t) /\ conn[Here(t)].holder = t
      /\ conn[Here(t)].base = file.rows /\ conn[Here(t)].view \in Rows
      /\ Visible(Here(t)) = conn[Here(t)].view
      /\ file \in Databases /\ file.rows \in Rows /\ ConnOk(Here(t)) /\ TaskOk(t)
    BY <1>1, <1>2, AtWork
<1>4. /\ ConnTyped' /\ made' \in Values /\ writer' = Here(t)
      /\ conn'[Here(t)] = [holder |-> t, open |-> TRUE, base |-> file.rows,
                           view |-> [Visible(Here(t)) EXCEPT ![k] = made']]
      /\ conn'[Here(t)].view \in Rows
      /\ \A q \in Procs \ {Here(t)} : conn'[q] = conn[q]
    BY <1>1, <1>3, WritesOne
<1>5. /\ task'[t].step = "in" /\ task'[t].failed = task[t].failed
      /\ task'[t].rollbackOnly = task[t].rollbackOnly /\ task'[t].scanned = Absent
      /\ task'[t].intended = [task[t].intended EXCEPT ![k] = made']
      /\ TaskTyped' /\ \A u \in Threads \ {t} : task'[u] = task[u]
  <2>1. TaskTyped /\ "in" \in TaskSteps
    BY DEF TaskSteps
  <2>2. PICK v \in Values : v = made'
    BY <1>4
  <2>3. Intends(t, "in", k, v)
    BY <1>1, <2>2 DEF Intends
  <2>4. /\ TaskTyped' /\ \A u \in Threads \ {t} : task'[u] = task[u]
        /\ task'[t].step = "in" /\ task'[t].failed = task[t].failed
        /\ task'[t].rollbackOnly = task[t].rollbackOnly /\ task'[t].scanned = task[t].scanned
        /\ task'[t].intended = [task[t].intended EXCEPT ![k] = v]
    BY <2>1, <2>3, IntendsOne
  <2> QED BY <1>1, <2>2, <2>4
<1>6. RowsTyped'
  <2>1. ValuesTyped'
    BY <1>1, <1>4 DEF ValuesTyped
  <2> QED BY <1>4, <1>5, <2>1
<1>7. Working(t)' /\ Here(t) \notin torn
    BY <1>1, <1>3, <1>5 DEF Working, Writing, TaskOk
<1>8. ConnOk(Here(t))'
    BY <1>1, <1>3, <1>4, <1>7 DEF ConnOk, Here
<1>9. ASSUME NEW l \in Keys
      PROVE  conn'[Here(t)].view[l] =
                IF task'[t].intended[l] = Absent THEN conn'[Here(t)].base[l]
                ELSE task'[t].intended[l]
  <2>1. conn'[Here(t)].view[l] = IF l = k THEN made' ELSE conn[Here(t)].view[l]
    BY <1>3, <1>4 DEF Rows
  <2>2. task'[t].intended[l] = IF l = k THEN made' ELSE task[t].intended[l]
    BY <1>5 DEF TaskTyped, Task
  <2>3. conn[Here(t)].view[l] =
           IF task[t].intended[l] = Absent THEN file.rows[l] ELSE task[t].intended[l]
    BY <1>2, <1>3, <1>7 DEF TaskOk
  <2> QED BY <1>4, <2>1, <2>2, <2>3
<1>10. TaskOk(t)'
  <2>1. conn'[Here(t)].holder = t
    BY <1>4
  <2>2. task'[t].failed => task'[t].rollbackOnly
    BY <1>3, <1>5 DEF TaskOk
  <2> QED BY <1>1, <1>5, <1>7, <1>9, <2>1, <2>2 DEF TaskOk, Here
<1>11. Seen'
    BY <1>1 DEF Seen
<1> QED BY <1>1, <1>3, <1>4, <1>5, <1>6, <1>8, <1>10, <1>11, OneThread

LEMMA NestKeeps ==
    ASSUME StorageInv, NEW t \in Threads, Nest(t) \/ InnerReturns(t) \/ InnerRaises(t)
    PROVE  StorageInv'
<1> USE DEF Nest, InnerReturns, InnerRaises
<1>1. /\ opening[Here(t)] = "open" /\ task[t].step = "in"
      /\ UNCHANGED <<authorityVars, conn, made, committed, torn, leaked>>
    BY DEF Step
<1>2. Working(t)
    BY <1>1 DEF Working, Writing
<1>3. task[t].failed => task[t].rollbackOnly
    BY <1>1, <1>2, AtWork DEF TaskOk
<1>4. /\ TaskTyped' /\ \A u \in Threads \ {t} : task'[u] = task[u]
      /\ task'[t].step = "in" /\ task'[t].intended = task[t].intended
      /\ task'[t].scanned = task[t].scanned
      /\ task'[t].failed => task'[t].rollbackOnly
  <2>1. task \in [Threads -> Task] /\ task[t] \in Task
    BY DEF StorageInv, RowsTyped, TaskTyped
  <2>2. PICK next \in Task :
           /\ task' = [task EXCEPT ![t] = next] /\ next.step = "in"
           /\ next.intended = task[t].intended /\ next.scanned = task[t].scanned
           /\ next.failed => next.rollbackOnly
    <3>1. CASE Nest(t)
      <4> DEFINE new == [task[t] EXCEPT !.depth = 2, !.nested = TRUE]
      <4>1. new \in Task /\ task' = [task EXCEPT ![t] = new]
        BY <2>1, <3>1 DEF Task
      <4> QED BY <1>1, <1>3, <2>1, <4>1 DEF Task
    <3>2. CASE InnerReturns(t)
      <4> DEFINE new == [task[t] EXCEPT !.depth = 1]
      <4>1. new \in Task /\ task' = [task EXCEPT ![t] = new]
        BY <2>1, <3>2 DEF Task
      <4> QED BY <1>1, <1>3, <2>1, <4>1 DEF Task
    <3>3. CASE InnerRaises(t)
      <4> DEFINE new == [task[t] EXCEPT !.depth = 1, !.failed = TRUE, !.rollbackOnly = TRUE]
      <4>1. new \in Task
        <5>1. 1 \in 0..2 /\ TRUE \in BOOLEAN
          OBVIOUS
        <5> QED BY <2>1, <5>1, ZenonT(30) DEF Task
      <4>2. task' = [task EXCEPT ![t] = new]
        BY <2>1, <3>3
      <4>3. /\ new.step = "in" /\ new.intended = task[t].intended
            /\ new.scanned = task[t].scanned /\ new.rollbackOnly
        BY <1>1, <2>1 DEF Task
      <4> QED BY <4>1, <4>2, <4>3
    <3> QED BY <3>1, <3>2, <3>3
  <2>3. /\ task'[t] = next /\ task' \in [Threads -> Task]
        /\ \A u \in Threads \ {t} : task'[u] = task[u]
    BY <2>1, <2>2
  <2> QED BY <2>2, <2>3 DEF TaskTyped
<1> QED BY <1>1, <1>2, <1>4, TaskMoves

LEMMA ReturnKeeps ==
    ASSUME StorageInv, NEW t \in Threads, Return(t)
    PROVE  StorageInv'
  BY CommitKeeps DEF Return, Step, Working, Writing

LEMMA RollBackFailsKeeps ==
    ASSUME StorageInv, NEW t \in Threads, RollBackFails(t)
    PROVE  StorageInv'
  BY TearKeeps DEF RollBackFails, Step, Working, Writing

LEMMA RollBackKeeps ==
    ASSUME StorageInv, NEW t \in Threads, RollBack(t)
    PROVE  StorageInv'
<1> USE AbsentIsOther DEF StorageInv, RowsTyped
<1>1. /\ opening[Here(t)] = "open" /\ task[t].step \in {"in", "repair"}
      /\ conn' = [conn EXCEPT ![Here(t)] = NoConn] /\ writer' = Absent
      /\ task' = [task EXCEPT ![t] = Idle]
      /\ UNCHANGED <<file, lease, opening, migration, backups, faults, made, committed, torn, leaked>>
    BY DEF RollBack, Step, TaskFinished
<1>2. Working(t)
    BY <1>1 DEF Working, Writing
<1>3. /\ Here(t) \in Procs /\ writer = Here(t) /\ conn[Here(t)].holder = t /\ Here(t) \notin torn
    BY <1>1, <1>2, AtWork DEF TaskOk
<1>4. /\ ConnTyped' /\ conn'[Here(t)] = NoConn
      /\ \A q \in Procs \ {Here(t)} : conn'[q] = conn[q]
    BY <1>1, <1>3 DEF ConnTyped, NoConn, Snapshots
<1>5. task'[t] = Idle /\ TaskTyped' /\ \A u \in Threads \ {t} : task'[u] = task[u]
    BY <1>1 DEF TaskTyped, Task, Idle, NoIntent, Snapshots, TaskSteps
<1>6. ConnOk(Here(t))'
    BY <1>1, <1>3, <1>4 DEF ConnOk, NoConn
<1>7. TaskOk(t)'
    BY <1>1, <1>5 DEF TaskOk, Idle, Working, Writing, NoIntent, Here
<1>8. RowsTyped' /\ Seen'
    BY <1>1, <1>4, <1>5 DEF ValuesTyped, Seen
<1> QED BY <1>1, <1>3, <1>4, <1>5, <1>6, <1>7, <1>8, OneThread

-----------------------------------------------------------------------------
(* The repair of records, and the edit of one *)

LEMMA RestingReadKeeps ==
    ASSUME StorageInv, NEW t \in Threads, opening[Here(t)] = "open", Locks(t),
           Reads(Here(t), Absent), UNCHANGED <<authorityVars, made, committed, torn, leaked>>,
           NEW next \in Task, task' = [task EXCEPT ![t] = next], next.step \notin Writing,
           next.intended = NoIntent, ~next.failed, ~next.rollbackOnly
    PROVE  StorageInv'
<1> USE AbsentIsOther DEF StorageInv, RowsTyped, authorityVars
<1>1. conn[Here(t)].holder = Absent
    BY DEF Locks
<1>2. /\ ConnTyped' /\ ConnOk(Here(t))' /\ \A q \in Procs \ {Here(t)} : conn'[q] = conn[q]
    BY <1>1, ReadsOne
<1>3. TaskTyped' /\ task'[t] = next /\ \A u \in Threads \ {t} : task'[u] = task[u]
    BY DEF TaskTyped
<1>4. TaskOk(t)'
    BY <1>3 DEF TaskOk, Working, Writing, Here
<1>5. RowsTyped' /\ Seen'
    BY <1>2, <1>3 DEF ValuesTyped, Seen
<1> QED BY <1>1, <1>2, <1>3, <1>4, <1>5, OneThread

LEMMA ScanKeeps ==
    ASSUME StorageInv, NEW t \in Threads,
           (\E keys \in SUBSET Keys : Scan(t, keys)) \/ \E k \in Keys : Load(t, k)
    PROVE  StorageInv'
<1>1. /\ opening[Here(t)] = "open" /\ task[t].step = "idle" /\ Locks(t)
      /\ Reads(Here(t), Absent) /\ UNCHANGED <<authorityVars, made, committed, torn, leaked>>
    BY DEF Scan, Load, Step
<1>2. /\ ~Working(t) /\ TaskOk(t) /\ Visible(Here(t)) \in Rows
    BY <1>1, AtRest
<1>3. task \in [Threads -> Task] /\ task[t] \in Task
    BY DEF StorageInv, RowsTyped, TaskTyped
<1>4. PICK step \in {"scanned", "edited"}, keys \in SUBSET Keys :
         task' = [task EXCEPT ![t].step = step, ![t].scanned = Copies(t, keys)]
    BY DEF Scan, Load
<1>5. PICK rows \in [Keys -> {Absent} \cup Values] : rows = Copies(t, keys)
    BY <1>2 DEF Copies, Rows
<1> DEFINE next == [task[t] EXCEPT !.step = step, !.scanned = rows]
<1>6. next \in Task
  <2>1. step \in TaskSteps
    BY DEF TaskSteps
  <2> QED BY <1>3, <2>1 DEF Task
<1>7. task' = [task EXCEPT ![t] = next]
    BY <1>3, <1>4, <1>5
<1>8. /\ next.step \notin Writing /\ next.intended = task[t].intended
      /\ next.failed = task[t].failed /\ next.rollbackOnly = task[t].rollbackOnly
    BY <1>3 DEF Task, Writing
<1>9. /\ task[t].intended = NoIntent /\ ~task[t].failed /\ ~task[t].rollbackOnly
    BY <1>2 DEF TaskOk
<1> HIDE DEF next
<1> QED BY <1>1, <1>6, <1>7, <1>8, <1>9, RestingReadKeeps

LEMMA CompareEditKeeps ==
    ASSUME StorageInv, NEW t \in Threads, CompareEdit(t)
    PROVE  StorageInv'
<1>1. /\ opening[Here(t)] = "open" /\ task[t].step = "edited" /\ Locks(t)
      /\ Reads(Here(t), Absent) /\ UNCHANGED <<authorityVars, made, committed, torn, leaked>>
    BY DEF CompareEdit, Step
<1>2. /\ ~Working(t) /\ TaskOk(t)
    BY <1>1, AtRest
<1>3. task \in [Threads -> Task] /\ task[t] \in Task
    BY DEF StorageInv, RowsTyped, TaskTyped
<1>4. CASE Unchanged(t)
  <2> DEFINE next == [task[t] EXCEPT !.step = "save"]
  <2>1. next \in Task /\ task' = [task EXCEPT ![t] = next]
    BY <1>3, <1>4 DEF CompareEdit, Task, TaskSteps
  <2>2. /\ next.step \notin Writing /\ next.intended = task[t].intended
        /\ next.failed = task[t].failed /\ next.rollbackOnly = task[t].rollbackOnly
    BY <1>3 DEF Task, Writing
  <2>3. /\ task[t].intended = NoIntent /\ ~task[t].failed /\ ~task[t].rollbackOnly
    BY <1>2 DEF TaskOk
  <2> HIDE DEF next
  <2> QED BY <1>1, <2>1, <2>2, <2>3, RestingReadKeeps
<1>5. CASE ~Unchanged(t)
  <2>1. task' = [task EXCEPT ![t] = Idle]
    BY <1>5 DEF CompareEdit, TaskFinished
  <2>2. /\ Idle \in Task /\ Idle.step \notin Writing /\ Idle.intended = NoIntent
        /\ ~Idle.failed /\ ~Idle.rollbackOnly
    BY DEF Idle, Task, TaskSteps, Writing, NoIntent, Snapshots
  <2> QED BY <1>1, <2>1, <2>2, RestingReadKeeps
<1> QED BY <1>4, <1>5

LEMMA CompareKeeps ==
    ASSUME StorageInv, NEW t \in Threads, Compare(t)
    PROVE  StorageInv'
<1> USE DEF StorageInv, RowsTyped
<1>1. /\ opening[Here(t)] = "open" /\ task[t].step = "in" /\ task[t].scanned # Absent
      /\ Unchanged(t) /\ task' = [task EXCEPT ![t].step = "repair"]
      /\ UNCHANGED <<authorityVars, conn, made, committed, torn, leaked>>
    BY DEF Compare, Step
<1>2. Working(t)
    BY <1>1 DEF Working, Writing
<1>3. /\ conn[Here(t)].base = file.rows /\ conn[Here(t)].view \in Rows
      /\ Visible(Here(t)) = conn[Here(t)].view /\ file.rows \in Rows /\ TaskOk(t)
    BY <1>1, <1>2, AtWork
<1>4. \A l \in Keys : conn[Here(t)].view[l] = conn[Here(t)].base[l]
    BY <1>1, <1>2, <1>3 DEF TaskOk, NoIntent
<1>5. Same(t, conn[Here(t)].base)
    BY <1>1, <1>3, <1>4 DEF Unchanged, Same
<1>6. /\ TaskTyped' /\ \A u \in Threads \ {t} : task'[u] = task[u]
      /\ task'[t].step = "repair" /\ task'[t].intended = task[t].intended
      /\ task'[t].scanned = task[t].scanned
      /\ task'[t].failed => task'[t].rollbackOnly
  <2> DEFINE next == [task[t] EXCEPT !.step = "repair"]
  <2>1. task \in [Threads -> Task] /\ task[t] \in Task /\ "repair" \in TaskSteps
    BY DEF TaskTyped, TaskSteps
  <2>2. next \in Task
    BY <2>1 DEF Task
  <2>3. task' = [task EXCEPT ![t] = next]
    BY <1>1, <2>1
  <2>4. /\ next.step = "repair" /\ next.intended = task[t].intended
        /\ next.scanned = task[t].scanned /\ next.failed = task[t].failed
        /\ next.rollbackOnly = task[t].rollbackOnly
    BY <2>1 DEF Task
  <2>5. task'[t] = next /\ TaskTyped' /\ \A u \in Threads \ {t} : task'[u] = task[u]
    BY <2>1, <2>2, <2>3 DEF TaskTyped
  <2> QED BY <1>3, <2>4, <2>5 DEF TaskOk
<1> QED BY <1>1, <1>2, <1>5, <1>6, TaskMoves

LEMMA RepairKeeps ==
    ASSUME StorageInv, NEW t \in Threads, NEW k \in Keys, Repair(t, k)
    PROVE  StorageInv'
<1> USE AbsentIsOther DEF StorageInv, RowsTyped
<1>1. /\ opening[Here(t)] = "open" /\ Writes(t, k) /\ task[t].step = "repair"
      /\ task' = [task EXCEPT ![t].intended[k] = made']
      /\ UNCHANGED <<file, lease, opening, migration, backups, faults, committed, torn, leaked>>
    BY DEF Repair, Step
<1>2. Working(t)
    BY <1>1 DEF Working, Writing
<1>3. /\ Here(t) \in Procs /\ writer = Here(t) /\ conn[Here(t)].holder = t
      /\ conn[Here(t)].base = file.rows /\ conn[Here(t)].view \in Rows
      /\ Visible(Here(t)) = conn[Here(t)].view
      /\ file \in Databases /\ file.rows \in Rows /\ ConnOk(Here(t)) /\ TaskOk(t)
    BY <1>1, <1>2, AtWork
<1>4. /\ ConnTyped' /\ made' \in Values /\ writer' = Here(t)
      /\ conn'[Here(t)] = [holder |-> t, open |-> TRUE, base |-> file.rows,
                           view |-> [Visible(Here(t)) EXCEPT ![k] = made']]
      /\ conn'[Here(t)].view \in Rows
      /\ \A q \in Procs \ {Here(t)} : conn'[q] = conn[q]
    BY <1>1, <1>3, WritesOne
<1>5. /\ task'[t].step = "repair" /\ task'[t].failed = task[t].failed
      /\ task'[t].rollbackOnly = task[t].rollbackOnly /\ task'[t].scanned = task[t].scanned
      /\ task'[t].intended = [task[t].intended EXCEPT ![k] = made']
      /\ TaskTyped' /\ \A u \in Threads \ {t} : task'[u] = task[u]
  <2>1. TaskTyped /\ "repair" \in TaskSteps
    BY DEF TaskSteps
  <2>2. PICK v \in Values : v = made'
    BY <1>4
  <2>3. Intends(t, "repair", k, v)
    BY <1>1, <2>2 DEF Intends
  <2>4. /\ TaskTyped' /\ \A u \in Threads \ {t} : task'[u] = task[u]
        /\ task'[t].step = "repair" /\ task'[t].failed = task[t].failed
        /\ task'[t].rollbackOnly = task[t].rollbackOnly /\ task'[t].scanned = task[t].scanned
        /\ task'[t].intended = [task[t].intended EXCEPT ![k] = v]
    BY <2>1, <2>3, IntendsOne
  <2> QED BY <1>1, <2>2, <2>4
<1>6. RowsTyped'
  <2>1. ValuesTyped'
    BY <1>1, <1>4 DEF ValuesTyped
  <2> QED BY <1>4, <1>5, <2>1
<1>7. Working(t)' /\ Here(t) \notin torn
    BY <1>1, <1>3, <1>5 DEF Working, Writing, TaskOk
<1>8. ConnOk(Here(t))'
    BY <1>1, <1>3, <1>4, <1>7 DEF ConnOk, Here
<1>9. ASSUME NEW l \in Keys
      PROVE  conn'[Here(t)].view[l] =
                IF task'[t].intended[l] = Absent THEN conn'[Here(t)].base[l]
                ELSE task'[t].intended[l]
  <2>1. conn'[Here(t)].view[l] = IF l = k THEN made' ELSE conn[Here(t)].view[l]
    BY <1>3, <1>4 DEF Rows
  <2>2. task'[t].intended[l] = IF l = k THEN made' ELSE task[t].intended[l]
    BY <1>5 DEF TaskTyped, Task
  <2>3. conn[Here(t)].view[l] =
           IF task[t].intended[l] = Absent THEN file.rows[l] ELSE task[t].intended[l]
    BY <1>2, <1>3, <1>7 DEF TaskOk
  <2> QED BY <1>4, <2>1, <2>2, <2>3
<1>10. TaskOk(t)'
  <2>1. conn'[Here(t)].holder = t
    BY <1>4
  <2>2. task'[t].failed => task'[t].rollbackOnly
    BY <1>3, <1>5 DEF TaskOk
  <2>3. Same(t, file.rows) /\ conn'[Here(t)].base = file.rows
    BY <1>1, <1>3, <1>4 DEF TaskOk
  <2>4. Same(t, conn[Here(t)].base)'
    BY <1>1, <1>5, <2>3 DEF Same, Here
  <2> QED BY <1>1, <1>5, <1>7, <1>9, <2>1, <2>2, <2>4 DEF TaskOk, Here
<1>11. Seen'
    BY <1>1 DEF Seen
<1> QED BY <1>1, <1>3, <1>4, <1>5, <1>6, <1>8, <1>10, <1>11, OneThread

-----------------------------------------------------------------------------
(* The end of a process *)

LEMMA DisconnectKeeps ==
    ASSUME StorageInv, NEW p \in Procs, Disconnect(p)
    PROVE  StorageInv'
<1> USE AbsentIsOther, HereIsAProcess DEF StorageInv, RowsTyped
<1>1. /\ opening' = [opening EXCEPT ![p] = "closed"]
      /\ conn' = [conn EXCEPT ![p] = NoConn]
      /\ writer' = IF writer = p THEN Absent ELSE writer
      /\ lease' = IF lease = p THEN Absent ELSE lease
      /\ task' = [t \in Threads |-> IF Here(t) = p THEN Idle ELSE task[t]]
      /\ torn' = torn \ {p}
      /\ UNCHANGED <<file, migration, backups, made, committed, leaked>>
    BY DEF Disconnect, Goes
<1>2. AuthorityTyped'
    BY <1>1 DEF AuthorityTyped, OpeningSteps
<1>3. \A q \in Procs : opening'[q] = IF q = p THEN "closed" ELSE opening[q]
    BY <1>1 DEF AuthorityTyped
<1>4. AuthorityHeld'
    BY <1>1, <1>3 DEF AuthorityHeld
<1>5. Idle \in Task
    BY DEF Idle, Task, TaskSteps, NoIntent, Snapshots
<1>6. ConnTyped'
    BY <1>1 DEF ConnTyped, NoConn, Snapshots
<1>7. TaskTyped'
    BY <1>1, <1>5 DEF TaskTyped
<1>8. ValuesTyped' /\ Seen'
    BY <1>1 DEF ValuesTyped, Seen
<1>9. \A q \in Procs : conn'[q] = IF q = p THEN NoConn ELSE conn[q]
    BY <1>1 DEF ConnTyped
<1>10. \A u \in Threads : task'[u] = IF Here(u) = p THEN Idle ELSE task[u]
    BY <1>1 DEF Here
<1>11. ASSUME NEW q \in Procs PROVE ConnOk(q)'
  <2>1. CASE q = p
    <3>1. /\ conn'[q] = NoConn /\ writer' # q /\ q \notin torn'
      BY <1>1, <1>9, <2>1
    <3> QED BY <3>1 DEF ConnOk, NoConn
  <2>2. CASE q # p
    <3>1. ConnOk(q) /\ conn'[q] = conn[q] /\ opening'[q] = opening[q]
      BY <1>3, <1>9, <2>2 DEF ConnHeld
    <3>2. conn[q].holder # Absent => Working(conn[q].holder)'
      <4> SUFFICES ASSUME conn[q].holder # Absent PROVE Working(conn[q].holder)'
        OBVIOUS
      <4>1. conn[q].holder \in Threads /\ Here(conn[q].holder) = q /\ Working(conn[q].holder)
        BY <3>1 DEF ConnOk, ConnTyped, Here
      <4>2. PICK u \in Threads : u = conn[q].holder
        BY <4>1
      <4>3. Here(u) = q
        BY <4>1, <4>2
      <4>4. task'[u] = task[u]
        BY <1>10, <2>2, <4>3
      <4> QED BY <3>1, <4>1, <4>2, <4>4 DEF Working
    <3> QED BY <1>1, <2>2, <3>1, <3>2 DEF ConnOk
  <2> QED BY <2>1, <2>2
<1>12. ASSUME NEW u \in Threads PROVE TaskOk(u)'
  <2>1. CASE Here(u) = p
    <3>1. task'[u] = Idle
      BY <1>10, <2>1
    <3> QED BY <3>1 DEF TaskOk, Idle, Working, Writing, NoIntent
  <2>2. CASE Here(u) # p
    <3>1. TaskOk(u) /\ task'[u] = task[u] /\ conn'[Here(u)] = conn[Here(u)]
          /\ opening'[Here(u)] = opening[Here(u)] /\ (Here(u) \in torn' <=> Here(u) \in torn)
      BY <1>1, <1>3, <1>9, <1>10, <2>2 DEF TaskHeld
    <3> QED BY <3>1 DEF TaskOk, Same, Working, Here
  <2> QED BY <2>1, <2>2
<1> QED BY <1>2, <1>4, <1>6, <1>7, <1>8, <1>11, <1>12 DEF ConnHeld, TaskHeld

-----------------------------------------------------------------------------
(* Opening and migrating *)

\* A step that is of no thread, and leaves the rows of a database as they are.
LEMMA NoThread ==
    ASSUME StorageInv, UNCHANGED storageVars,
           \A p \in Procs : opening[p] = "open" => opening'[p] = "open",
           \A p \in Procs : writer' = p <=> writer = p,
           file # Absent => file'.rows = file.rows,
           file = Absent /\ file' # Absent => file'.rows = NoRows,
           AuthorityTyped', AuthorityHeld'
    PROVE  StorageInv'
<1> USE AbsentIsOther, HereIsAProcess DEF StorageInv, RowsTyped, storageVars
<1>1. RowsTyped'
    BY DEF ConnTyped, TaskTyped, ValuesTyped
<1>2. ASSUME NEW p \in Procs PROVE ConnOk(p)'
  <2>1. ConnOk(p)
    BY DEF ConnHeld
  <2>2. (conn[p].holder # Absent /\ Working(conn[p].holder)) => Working(conn[p].holder)'
    BY DEF Working
  <2>3. writer = p => file # Absent
    BY <2>1 DEF ConnOk, AuthorityHeld
  <2> QED BY <2>1, <2>2, <2>3 DEF ConnOk
<1>3. ASSUME NEW t \in Threads PROVE TaskOk(t)'
  <2>1. TaskOk(t)
    BY DEF TaskHeld
  <2> QED BY <2>1 DEF TaskOk, Same, Working, Here
<1>4. Seen'
    BY DEF Seen, NoRows
<1> QED BY <1>1, <1>2, <1>3, <1>4 DEF ConnHeld, TaskHeld

LEMMA OpenKeeps ==
    ASSUME StorageInv, NEW p \in Procs, Open(p), UNCHANGED storageVars
    PROVE  StorageInv'
<1> USE AbsentIsOther DEF StorageInv
<1>1. \A q \in Procs : opening[q] \in OpeningSteps
    BY DEF AuthorityTyped
<1>2. CASE Create(p)
  <2>1. /\ opening[p] = "create" /\ opening' = [opening EXCEPT ![p] = "validate"]
        /\ file' = NewFile /\ lease' = Absent /\ UNCHANGED <<writer, migration, backups, faults>>
    BY <1>2 DEF Create, Goes
  <2>2. lease = p /\ file = Absent
    BY <2>1 DEF AuthorityHeld
  <2>3. NewFile \in Databases /\ NewFile.rows = NoRows /\ NoRows \in Rows
    <3>1. NoRows \in Rows /\ NoRows \in [Keys -> Nat]
      BY DEF NoRows, Rows
    <3>2. NoConversation \in Histories /\ Versions \in SUBSET Int
      BY VersionAssumption DEF NoConversation, Histories, Versions
    <3> QED BY <3>1, <3>2 DEF NewFile, Databases
  <2>4. Whole(NewFile.history)
    BY VersionAssumption DEF Whole, NewFile, Versions, Compact
  <2>5. AuthorityTyped'
    BY <2>1, <2>3 DEF AuthorityTyped, OpeningSteps
  <2>6. \A q \in Procs : opening'[q] = IF q = p THEN "validate" ELSE opening[q]
    BY <2>1 DEF AuthorityTyped
  <2>7. AuthorityHeld'
    BY <2>1, <2>2, <2>3, <2>4, <2>6 DEF AuthorityHeld
  <2> QED BY <2>1, <2>2, <2>3, <2>5, <2>6, <2>7, NoThread
<1>3. CASE Look(p) \/ Lease(p) \/ Validate(p) \/ ConnectDatabase(p)
  <2>1. /\ UNCHANGED <<file, writer, migration>> /\ opening[p] # "open"
        /\ lease' = lease \/ (lease = Absent /\ lease' = p)
    BY <1>3 DEF Look, Lease, Validate, ConnectDatabase
  <2>2. PICK step \in {"lease", "create", "validate", "connect", "open", "refused"} :
           /\ opening' = [opening EXCEPT ![p] = step]
           /\ step = "create" => lease' = p /\ file = Absent
           /\ step \in {"validate", "connect", "open", "refused"} => file # Absent
    BY <1>3 DEF Look, Lease, Validate, ConnectDatabase, Goes, AuthorityHeld
  <2>3. \A q \in Procs : opening'[q] = IF q = p THEN step ELSE opening[q]
    BY <2>2 DEF AuthorityTyped
  <2>4. AuthorityTyped'
    BY <2>1, <2>2 DEF AuthorityTyped, OpeningSteps
  <2>5. AuthorityHeld'
    BY <2>1, <2>2, <2>3 DEF AuthorityHeld
  <2> QED BY <2>1, <2>3, <2>4, <2>5, NoThread
<1> QED BY <1>2, <1>3 DEF Open

\* The end of the script, before or after its commit.
LEMMA EndKeeps ==
    ASSUME StorageInv, UNCHANGED storageVars, EndMigration, migration.step # "none",
           UNCHANGED opening,
           \/ file' = file
           \/ /\ migration.step = "edges" /\ file' = migration.draft
              /\ Whole(migration.draft.history)
    PROVE  StorageInv'
<1> USE AbsentIsOther DEF StorageInv
<1>1. /\ migration' = NoMigration /\ lease' = Absent
      /\ writer' = IF writer = Migrator THEN Absent ELSE writer
    BY DEF EndMigration
<1>2. lease = Migrator /\ file # Absent
    BY DEF AuthorityHeld
<1>3. file' # Absent /\ file' \in Databases /\ file'.rows = file.rows /\ Whole(file'.history)
    BY <1>2 DEF AuthorityHeld, AuthorityTyped
<1>4. AuthorityTyped'
  <2>1. migration' \in [step : {"none", "backup", "begin", "edges"}, target : Int, from : Int,
                        todo : Seq(Edges), draft : {Absent} \cup Databases]
    BY <1>1, VersionAssumption DEF NoMigration
  <2>2. file.rows \in Rows
    BY <1>2 DEF AuthorityTyped
  <2> QED BY <1>1, <1>3, <2>1, <2>2 DEF AuthorityTyped
<1>5. AuthorityHeld'
    BY <1>1, <1>2, <1>3 DEF AuthorityHeld, NoMigration
<1> QED BY <1>1, <1>2, <1>3, <1>4, <1>5, NoThread

LEMMA VersionOfWhole ==
    ASSUME NEW db, Whole(db.history)
    PROVE  /\ VersionOf(db) \in Versions /\ VersionOf(db) \in Nat
           /\ db.history = 1..VersionOf(db)
<1>1. PICK v \in Versions : db.history = 1..v
    BY DEF Whole
<1>2. v \in Nat /\ v >= 1
    BY <1>1, VersionAssumption DEF Versions
<1>3. Cardinality(1..v) = v
    BY <1>2, FS_Interval
<1> QED BY <1>1, <1>2, <1>3 DEF VersionOf

LEMMA PlanIsSequence ==
    ASSUME NEW m \in Int, NEW n \in Int, Plan(m, n) # Absent
    PROVE  /\ Plan(m, n) \in Seq(Edges)
           /\ \A i \in 1..Len(Plan(m, n)) :
                 Plan(m, n)[i] = IF n >= m THEN Up(m + i - 1) ELSE Down(m - i)
           /\ Len(Plan(m, n)) = IF n >= m THEN n - m ELSE m - n
<1>1. CASE n >= m
  <2>1. Plan(m, n) = [i \in 1..(n - m) |-> Up(m + i - 1)]
    BY <1>1 DEF Plan
  <2>2. n - m \in Nat /\ \A i \in 1..(n - m) : Up(m + i - 1) \in Edges
    BY <1>1 DEF Up, Edges
  <2> QED BY <1>1, <2>1, <2>2
<1>2. CASE n < m
  <2>1. Plan(m, n) = [i \in 1..(m - n) |-> Down(m - i)]
    BY <1>2 DEF Plan
  <2>2. m - n \in Nat /\ \A i \in 1..(m - n) : Down(m - i) \in Edges
    BY <1>2 DEF Down, Edges
  <2> QED BY <1>2, <2>1, <2>2
<1> QED BY <1>1, <1>2

LEMMA MaxOfTwo ==
    ASSUME NEW a \in Int, NEW b \in Int
    PROVE  Max({a, b}) = IF a >= b THEN a ELSE b
<1>1. PICK m \in {a, b} : \A y \in {a, b} : m >= y
    OBVIOUS
<1>2. Max({a, b}) \in {a, b} /\ \A y \in {a, b} : Max({a, b}) >= y
    BY <1>1 DEF Max
<1> QED BY <1>2

LEMMA UncuratedIsPending ==
    ASSUME NEW c \in Histories
    PROVE  Uncurated(c) \subseteq [range : Plans, status : ObservationStatus]
<1>1. First(c) \in Nat /\ c.to \in Nat
    BY MaxOfTwo DEF First, Histories
<1>2. \A a \in Nat, b \in Nat :
         Publish(a, b, "pending") \subseteq [range : Plans, status : ObservationStatus]
  <2> TAKE a \in Nat, b \in Nat
  <2>1. Range2(a, b) \in Plans
    BY DEF Range2, Plans
  <2>2. [range |-> Range2(a, b), status |-> "pending"]
           \in [range : Plans, status : ObservationStatus]
    BY <2>1 DEF ObservationStatus
  <2> QED BY <2>2 DEF Publish
<1>3. CASE c.plan = Absent
    BY <1>1, <1>2, <1>3 DEF Uncurated
<1>4. CASE c.plan # Absent
  <2>1. c.plan.start \in Nat /\ c.plan.end \in Nat
    BY <1>4 DEF Histories, Plans
  <2>2. Max({First(c), c.plan.start}) \in Nat /\ Max({First(c), c.plan.end}) \in Nat
    BY <1>1, <2>1, MaxOfTwo
  <2> QED BY <1>1, <1>2, <1>4, <2>1, <2>2 DEF Uncurated
<1> QED BY <1>3, <1>4

LEMMA AppliedIsDatabase ==
    ASSUME NEW edge \in Edges, NEW db \in Databases
    PROVE  /\ Applied(edge, db) \in Databases /\ Applied(edge, db).rows = db.rows
           /\ Applied(edge, db).conversation =
                 IF edge = Up(6) THEN ToObservations(db.conversation) ELSE db.conversation
<1>1. db.conversation \in Histories /\ db.history \in SUBSET Int
    BY DEF Databases
<1>2. ToObservations(db.conversation) \in Histories
  <2>1. Uncurated(db.conversation) \subseteq [range : Plans, status : ObservationStatus]
    BY <1>1, UncuratedIsPending
  <2> QED BY <1>1, <2>1 DEF ToObservations, Histories
<1>3. PICK history \in SUBSET Int, conversation \in Histories :
         /\ Applied(edge, db) = [db EXCEPT !.history = history, !.conversation = conversation]
         /\ conversation = IF edge = Up(6) THEN ToObservations(db.conversation) ELSE db.conversation
  <2> DEFINE history == IF edge.to > edge.from THEN db.history \cup {edge.to}
                        ELSE db.history \ {edge.from}
             conversation == IF edge = Up(6) THEN ToObservations(db.conversation)
                             ELSE db.conversation
  <2>1. history \in SUBSET Int /\ conversation \in Histories
    BY <1>1, <1>2 DEF Edges
  <2>2. Applied(edge, db) = [db EXCEPT !.history = history, !.conversation = conversation]
    BY DEF Applied
  <2> QED BY <2>1, <2>2
<1> QED BY <1>3 DEF Databases

LEMMA StartMigrationKeeps ==
    ASSUME StorageInv, NEW target \in Targets, StartMigration(target), UNCHANGED storageVars
    PROVE  StorageInv'
<1> USE AbsentIsOther DEF StorageInv
<1>1. /\ migration.step = "none" /\ file # Absent /\ lease = Absent /\ lease' = Migrator
      /\ UNCHANGED <<file, writer, opening, backups>>
      /\ Plan(VersionOf(file), target) # Absent
      /\ migration' = [NoMigration EXCEPT !.step = "backup", !.target = target,
                          !.todo = Plan(VersionOf(file), target), !.from = VersionOf(file)]
    BY DEF StartMigration
<1>2. VersionOf(file) \in Nat /\ target \in Nat
    BY <1>1, VersionOfWhole, AuthorityAssumption DEF AuthorityHeld
<1>3. Plan(VersionOf(file), target) \in Seq(Edges)
    BY <1>1, <1>2, PlanIsSequence
<1>4. AuthorityTyped'
  <2>1. migration' \in [step : {"none", "backup", "begin", "edges"}, target : Int, from : Int,
                        todo : Seq(Edges), draft : {Absent} \cup Databases]
    <3>1. migration' = [step |-> "backup", target |-> target, from |-> VersionOf(file),
                        todo |-> Plan(VersionOf(file), target), draft |-> Absent]
      BY <1>1 DEF NoMigration
    <3> QED BY <1>2, <1>3, <3>1
  <2> QED BY <1>1, <2>1 DEF AuthorityTyped
<1>5. AuthorityHeld'
  <2>1. migration'.step = "backup"
    BY <1>1 DEF NoMigration
  <2> QED BY <1>1, <2>1 DEF AuthorityHeld
<1> QED BY <1>1, <1>4, <1>5, NoThread

LEMMA BackupKeeps ==
    ASSUME StorageInv, Backup, UNCHANGED storageVars
    PROVE  StorageInv'
<1> USE AbsentIsOther DEF StorageInv
<1>1. migration.step = "backup" /\ UNCHANGED <<file, opening>>
    BY DEF Backup
<1>2. CASE EndMigration
    BY <1>1, <1>2, EndKeeps
<1>3. CASE migration' = [migration EXCEPT !.step = "begin"] /\ UNCHANGED <<lease, writer>>
  <2>1. migration'.step = "begin"
    BY <1>3 DEF AuthorityTyped
  <2>2. AuthorityTyped'
    BY <1>1, <1>3 DEF AuthorityTyped
  <2>3. AuthorityHeld'
    BY <1>1, <1>3, <2>1 DEF AuthorityHeld
  <2> QED BY <1>1, <1>3, <2>2, <2>3, NoThread
<1> QED BY <1>2, <1>3 DEF Backup

LEMMA BeginMigrationKeeps ==
    ASSUME StorageInv, BeginMigration, UNCHANGED storageVars
    PROVE  StorageInv'
<1> USE AbsentIsOther DEF StorageInv
<1>1. migration.step = "begin" /\ UNCHANGED <<file, opening>>
    BY DEF BeginMigration
<1>2. CASE EndMigration
    BY <1>1, <1>2, EndKeeps
<1>3. CASE /\ writer = Absent /\ writer' = Migrator /\ UNCHANGED lease
           /\ migration' = [migration EXCEPT !.step = "edges", !.draft = file]
  <2>1. migration'.step = "edges" /\ migration'.draft = file
    BY <1>3 DEF AuthorityTyped
  <2>2. AuthorityTyped'
    BY <1>1, <1>3 DEF AuthorityTyped
  <2>3. AuthorityHeld'
    BY <1>1, <1>3, <2>1 DEF AuthorityHeld
  <2> QED BY <1>1, <1>3, <2>2, <2>3, NoThread
<1> QED BY <1>2, <1>3 DEF BeginMigration

LEMMA EdgeKeeps ==
    ASSUME StorageInv, Edge, UNCHANGED storageVars
    PROVE  StorageInv'
<1> USE AbsentIsOther DEF StorageInv
<1>1. migration.step = "edges" /\ migration.todo # <<>> /\ UNCHANGED <<file, opening>>
    BY DEF Edge
<1>2. CASE EndMigration
    BY <1>1, <1>2, EndKeeps
<1>3. CASE /\ UNCHANGED <<lease, writer>>
           /\ migration' = [migration EXCEPT !.todo = Tail(@),
                               !.draft = Applied(Head(migration.todo), @)]
  <2>1. /\ migration.draft \in Databases /\ migration.draft.rows = file.rows
        /\ migration.todo \in Seq(Edges)
    BY <1>1 DEF AuthorityHeld, AuthorityTyped
  <2>2. Head(migration.todo) \in Edges /\ Tail(migration.todo) \in Seq(Edges)
    BY <1>1, <2>1
  <2>3. PICK draft \in Databases :
           draft = Applied(Head(migration.todo), migration.draft) /\ draft.rows = file.rows
    BY <2>1, <2>2, AppliedIsDatabase
  <2>4. migration' = [migration EXCEPT !.todo = Tail(@), !.draft = draft]
    BY <1>3, <2>3 DEF AuthorityTyped
  <2>5. migration'.step = "edges" /\ migration'.draft = draft
    BY <1>1, <2>4 DEF AuthorityTyped
  <2>6. AuthorityTyped'
    BY <1>1, <1>3, <2>2, <2>4 DEF AuthorityTyped
  <2>7. AuthorityHeld'
    BY <1>1, <1>3, <2>3, <2>5 DEF AuthorityHeld
  <2> QED BY <1>1, <1>3, <2>6, <2>7, NoThread
<1> QED BY <1>2, <1>3 DEF Edge

LEMMA CommitMigrationKeeps ==
    ASSUME StorageInv, CommitMigration, UNCHANGED storageVars
    PROVE  StorageInv'
  BY EndKeeps DEF CommitMigration

LEMMA MigrationFailsKeeps ==
    ASSUME StorageInv, MigrationFails, UNCHANGED storageVars
    PROVE  StorageInv'
  BY EndKeeps DEF MigrationFails

-----------------------------------------------------------------------------
(* Every step *)

LEMMA DatabaseStep ==
    ASSUME StorageInv, [StorageNext]_databaseVars
    PROVE  StorageInv'
<1>1. CASE UNCHANGED databaseVars
  BY <1>1, NoThread DEF databaseVars, authorityVars, storageVars, StorageInv, AuthorityTyped,
     AuthorityHeld
<1>2. ASSUME NEW t \in Threads, Operation(t) PROVE StorageInv'
  BY <1>2, ReadKeeps, PutKeeps, RepairKeeps, PutBusyKeeps, PutCommitKeeps, PutCommitFailsKeeps,
     ScanKeeps, CompareKeeps, CompareEditKeeps DEF Operation
<1>3. ASSUME NEW t \in Threads, Transaction(t) PROVE StorageInv'
  BY <1>3, EnterKeeps, NestKeeps, ReturnKeeps, RollBackKeeps, RollBackFailsKeeps, WriteKeeps
  DEF Transaction
<1>4. ASSUME NEW p \in Procs, Open(p), UNCHANGED storageVars PROVE StorageInv'
  BY <1>4, OpenKeeps
<1>5. ASSUME NEW p \in Procs, Close(p) \/ ProcessCrash(p) PROVE StorageInv'
  BY <1>5, DisconnectKeeps DEF Close, ProcessCrash
<1>6. CASE /\ Migrate \/ MigrationFails \/ \E target \in Targets : StartMigration(target)
           /\ UNCHANGED storageVars
  BY <1>6, BackupKeeps, BeginMigrationKeeps, EdgeKeeps, CommitMigrationKeeps, MigrationFailsKeeps,
     StartMigrationKeeps DEF Migrate
<1> QED BY <1>1, <1>2, <1>3, <1>4, <1>5, <1>6 DEF StorageNext

\* The inductive invariant of the database, its connections and the threads that use them
\* (sqlite.py, authority.py, migrate_database.py).
THEOREM DatabaseSafe == StorageSpec => []StorageInv
<1>1. StorageInit => StorageInv
    BY InitialDatabase
<1>2. StorageInv /\ [StorageNext]_databaseVars => StorageInv'
    BY DatabaseStep
<1> QED BY <1>1, <1>2, PTL DEF StorageSpec

\* The database comes to be in Create, and is replaced in the commits of a thread and of
\* the script; no other step touches it.
LEMMA FileChanges ==
    ASSUME StorageInv, [StorageNext]_databaseVars, file' # file
    PROVE  \/ \E t \in Threads : PutCommit(t) \/ Return(t)
           \/ file = Absent /\ file' = NewFile
           \/ CommitMigration
<1>1. ASSUME NEW t \in Threads, Operation(t) PROVE PutCommit(t)
  BY <1>1 DEF Operation, authorityVars, Read, Put, Repair, PutBusy, PutCommitFails, Tears, Scan,
     Load, Compare, CompareEdit
<1>2. ASSUME NEW t \in Threads, Transaction(t) PROVE Return(t)
  BY <1>2 DEF Transaction, authorityVars, Enter, Nest, InnerReturns, InnerRaises, RollBack,
     RollBackFails, Tears, Write
<1>3. ASSUME NEW p \in Procs, Open(p) PROVE file = Absent /\ file' = NewFile
  BY <1>3 DEF Open, Look, Lease, Create, Validate, ConnectDatabase, StorageInv, AuthorityHeld
<1>4. ASSUME NEW p \in Procs, Close(p) \/ ProcessCrash(p) PROVE FALSE
  BY <1>4 DEF Close, ProcessCrash, Disconnect
<1>5. CASE Migrate \/ MigrationFails \/ \E target \in Targets : StartMigration(target)
  BY <1>5 DEF Migrate, Backup, BeginMigration, Edge, MigrationFails, StartMigration
<1>6. ~UNCHANGED databaseVars
  BY DEF databaseVars, authorityVars
<1> QED BY <1>1, <1>2, <1>3, <1>4, <1>5, <1>6 DEF StorageNext

LEMMA MigratedRows ==
    ASSUME StorageInv, CommitMigration
    PROVE  file # Absent /\ file' # Absent /\ file'.rows = file.rows
  BY DEF CommitMigration, StorageInv, AuthorityHeld

\* A commit of thread t.
LEMMA CommittedRows ==
    ASSUME StorageInv, NEW t \in Threads, PutCommit(t) \/ Return(t)
    PROVE  /\ writer = Here(t) /\ Here(t) \in Procs /\ ~task[t].failed
           /\ file # Absent /\ file' # Absent /\ file'.history = file.history
           /\ file'.conversation = file.conversation
           /\ Here(t) \notin torn => Whose(t)
           /\ task[t].step = "repair" => AsScanned(t)
           /\ leaked' = leaked
<1> USE AbsentIsOther
<1>1. /\ opening[Here(t)] = "open" /\ Working(t) /\ file' = [file EXCEPT !.rows = Visible(Here(t))]
      /\ leaked' = leaked /\ (task[t].step = "commit" \/ ~task[t].rollbackOnly)
    BY DEF PutCommit, Return, Commits, Step, Working, Writing
<1>2. /\ writer = Here(t) /\ Here(t) \in Procs /\ conn[Here(t)].base = file.rows
      /\ Visible(Here(t)) = conn[Here(t)].view /\ conn[Here(t)].view \in Rows
      /\ file \in Databases /\ TaskOk(t)
    BY <1>1, AtWork
<1>3. ~task[t].failed
    BY <1>1, <1>2 DEF TaskOk
<1>4. /\ file' \in Databases /\ file'.rows = conn[Here(t)].view /\ file'.history = file.history
      /\ file'.conversation = file.conversation
    BY <1>1, <1>2 DEF Databases
<1>5. Here(t) \notin torn => Whose(t)
    BY <1>1, <1>2, <1>4 DEF TaskOk, Whose
<1>6. task[t].step = "repair" => AsScanned(t)
    BY <1>2 DEF TaskOk, Same, AsScanned
<1> QED BY <1>1, <1>2, <1>3, <1>4, <1>5, <1>6

\* Transactions are whole: what a commit changes is all that one thread intended and
\* nothing of a transaction that failed (sqlite.py, transaction), for any processes,
\* threads, keys and number of failures.
THEOREM RowsAllOrNothing == StorageSpec => AllOrNothing
<1>1. ASSUME StorageInv, StorageInv', [StorageNext]_databaseVars
      PROVE  [/\ Changes => writer \in torn \/ \E t \in Threads : Whose(t) /\ ~task[t].failed
              /\ leaked' = {}]_databaseVars
  <2>1. leaked' = {}
    BY <1>1 DEF StorageInv, Seen
  <2>2. ASSUME Changes PROVE writer \in torn \/ \E t \in Threads : Whose(t) /\ ~task[t].failed
    <3>1. PICK t \in Threads : PutCommit(t) \/ Return(t)
      BY <1>1, <2>2, FileChanges, MigratedRows DEF Changes
    <3> QED BY <1>1, <3>1, CommittedRows
  <2> QED BY <2>1, <2>2
<1>2. StorageInv /\ StorageInv' /\ [StorageNext]_databaseVars
      => [/\ Changes => writer \in torn \/ \E t \in Threads : Whose(t) /\ ~task[t].failed
          /\ leaked' = {}]_databaseVars
    BY <1>1
<1> QED BY <1>2, DatabaseSafe, PTL DEF StorageSpec, AllOrNothing

\* The records that the repair commits over are as they were when it scanned them
\* (migrate_legacy_memory_records.py, run).
THEOREM RepairsKeepChanges == StorageSpec => RepairKeepsChanges
<1>1. ASSUME StorageInv, [StorageNext]_databaseVars
      PROVE  [\A t \in Threads :
                 task[t].step = "repair" /\ writer = Here(t) /\ Changes =>
                    AsScanned(t)]_databaseVars
  <2> SUFFICES ASSUME NEW t \in Threads, task[t].step = "repair", Changes, writer = Here(t)
               PROVE  AsScanned(t)
    OBVIOUS
  <2>1. TaskOk(t)
    BY <1>1 DEF StorageInv, TaskHeld
  <2>2. Working(t) /\ opening[Here(t)] = "open"
    BY <2>1 DEF TaskOk, Idle, Working, Writing
  <2>3. conn[Here(t)].base = file.rows
    BY <1>1, <2>2, AtWork
  <2> QED BY <2>1, <2>3 DEF TaskOk, Same, AsScanned
<1>2. StorageInv /\ [StorageNext]_databaseVars
      => [\A t \in Threads :
             task[t].step = "repair" /\ writer = Here(t) /\ Changes => AsScanned(t)]_databaseVars
    BY <1>1
<1> QED BY <1>2, DatabaseSafe, PTL DEF StorageSpec, RepairKeepsChanges

\* A database stays, whoever opens it, and has one of the two versions of a migration
\* (authority.py, auto_backend; migrate_database.py, migrate).
THEOREM DatabaseKept == StorageSpec => AuthorityKept
<1> DEFINE Steady ==
       file # Absent =>
          /\ file' # Absent /\ Whole(file'.history)
          /\ file'.rows # file.rows => writer \in Procs
          /\ VersionOf(file') # VersionOf(file) => VersionOf(file') = migration.target
<1>1. ASSUME StorageInv, StorageInv', [StorageNext]_databaseVars PROVE [Steady]_databaseVars
  <2> SUFFICES ASSUME file # Absent
               PROVE  /\ file' # Absent /\ Whole(file'.history)
                      /\ file'.rows # file.rows => writer \in Procs
                      /\ VersionOf(file') # VersionOf(file) => VersionOf(file') = migration.target
    OBVIOUS
  <2>1. file' # Absent => Whole(file'.history)
    BY <1>1 DEF StorageInv, AuthorityHeld
  <2>2. CASE file' = file
    BY <2>1, <2>2
  <2>3. ASSUME NEW t \in Threads, PutCommit(t) \/ Return(t)
        PROVE  file' # Absent /\ writer \in Procs /\ VersionOf(file') = VersionOf(file)
    BY <1>1, <2>3, CommittedRows DEF VersionOf
  <2>4. CASE CommitMigration
    <3>1. file' # Absent /\ file'.rows = file.rows
      BY <1>1, <2>4, MigratedRows
    <3>2. VersionOf(file') = migration.target
      BY <2>4 DEF CommitMigration, VersionOf
    <3> QED BY <2>1, <3>1, <3>2
  <2> QED BY <1>1, <2>1, <2>2, <2>3, <2>4, FileChanges
<1>2. StorageInv /\ StorageInv' /\ [StorageNext]_databaseVars => [Steady]_databaseVars
    BY <1>1
<1> QED BY <1>2, DatabaseSafe, PTL DEF StorageSpec, AuthorityKept

-----------------------------------------------------------------------------
(* The migration to version 7 *)

\* No database was migrated back from version 7.
NoWayBack == \A b \in backups : b.from # 7

\* What is left to do leads from the version that is reached to the target.
Ahead ==
    /\ migration.target >= migration.from =>
          /\ Len(migration.todo) <= migration.target - migration.from
          /\ \A i \in 1..Len(migration.todo) :
                migration.todo[i] = Up(migration.target - Len(migration.todo) + i - 1)
    /\ migration.target < migration.from =>
          \A i \in 1..Len(migration.todo) : migration.todo[i] # Up(6)

\* The script is past the edge to version 7.
PastSix ==
    /\ migration.from <= 6 /\ migration.target >= migration.from
    /\ migration.target - Len(migration.todo) >= 7

\* A migration is of the version the database has and has a backup of it; its draft has
\* been through the edges that are done; and a database that has never had version 7 has
\* the conversation it had at first.
ConversationHeld ==
    /\ migration.step # "none" => VersionOf(file) = migration.from /\ Ahead
    /\ migration.step \in {"backup", "begin"} => ~PastSix
    /\ migration.step \in {"begin", "edges"} => \E b \in backups : b.from = migration.from
    /\ migration.step = "edges" =>
          migration.draft.conversation =
             IF PastSix THEN ToObservations(file.conversation) ELSE file.conversation
    /\ NoWayBack /\ file # Absent /\ VersionOf(file) <= 6 =>
          file.conversation \in Conversations \cup {NoConversation}

LEMMA InitialConversation == StorageInit => ConversationHeld
  BY DEF StorageInit, AuthorityInit, ConversationHeld, NoMigration

\* What a migration did before does not matter once it has ended.
LEMMA EndedHolds ==
    ASSUME ConversationHeld, EndMigration, UNCHANGED file,
           backups \subseteq backups'
    PROVE  ConversationHeld'
<1>1. migration'.step = "none" /\ file' = file /\ (NoWayBack' => NoWayBack)
    BY DEF EndMigration, NoMigration, NoWayBack
<1> QED BY <1>1 DEF ConversationHeld, VersionOf

LEMMA StartHolds ==
    ASSUME StorageInv, ConversationHeld, NEW target \in Targets, StartMigration(target)
    PROVE  ConversationHeld'
<1> DEFINE edges == Plan(VersionOf(file), target)
<1>1. /\ migration.step = "none" /\ file # Absent
      /\ UNCHANGED <<file, backups>> /\ edges # Absent
      /\ migration' = [NoMigration EXCEPT !.step = "backup", !.target = target,
                          !.todo = edges, !.from = VersionOf(file)]
    BY DEF StartMigration
<1>2. VersionOf(file) \in Nat /\ target \in Nat
    BY <1>1, VersionOfWhole, AuthorityAssumption DEF StorageInv, AuthorityHeld
<1>3. /\ migration'.step = "backup" /\ migration'.target = target
      /\ migration'.todo = edges /\ migration'.from = VersionOf(file)
    BY <1>1 DEF NoMigration
<1>4. /\ edges \in Seq(Edges)
      /\ \A i \in 1..Len(edges) :
            edges[i] = IF target >= VersionOf(file) THEN Up(VersionOf(file) + i - 1)
                       ELSE Down(VersionOf(file) - i)
      /\ Len(edges) = IF target >= VersionOf(file) THEN target - VersionOf(file)
                      ELSE VersionOf(file) - target
    BY <1>1, <1>2, PlanIsSequence
<1> HIDE DEF edges
<1>5. Ahead'
  <2>1. CASE target >= VersionOf(file)
    <3>1. target - Len(edges) = VersionOf(file) /\ Len(edges) = target - VersionOf(file)
      BY <1>2, <1>4, <2>1
    <3>2. \A i \in 1..Len(edges) : edges[i] = Up(target - Len(edges) + i - 1)
      BY <1>4, <2>1, <3>1
    <3> QED BY <1>2, <1>3, <2>1, <3>1, <3>2 DEF Ahead
  <2>2. CASE target < VersionOf(file)
    <3>1. \A n \in Int : Down(n) # Up(6)
      <4> SUFFICES ASSUME NEW n \in Int, Down(n) = Up(6) PROVE FALSE
        OBVIOUS
      <4>1. Down(n).from = n + 1 /\ Down(n).to = n /\ Up(6).from = 6 /\ Up(6).to = 7
        BY DEF Down, Up
      <4> QED BY <4>1
    <3>2. \A i \in 1..Len(edges) : edges[i] # Up(6)
      <4> TAKE i \in 1..Len(edges)
      <4>1. edges[i] = Down(VersionOf(file) - i)
        BY <1>2, <1>4, <2>2
      <4>2. i \in Int
        BY <1>4
      <4> QED BY <1>2, <3>1, <4>1, <4>2
    <3> QED BY <1>2, <1>3, <2>2, <3>2 DEF Ahead
  <2> QED BY <1>2, <2>1, <2>2
<1>6. VersionOf(file') = migration'.from
    BY <1>1, <1>3 DEF VersionOf
<1>7. ~PastSix'
    BY <1>2, <1>3, <1>4 DEF PastSix
<1> QED BY <1>1, <1>3, <1>5, <1>6, <1>7 DEF ConversationHeld, NoWayBack

LEMMA BackupHolds ==
    ASSUME StorageInv, ConversationHeld, Backup
    PROVE  ConversationHeld'
<1>1. migration.step = "backup" /\ UNCHANGED file /\ backups \subseteq backups'
    BY DEF Backup
<1>2. CASE EndMigration
    BY <1>1, <1>2, EndedHolds
<1>3. CASE /\ migration' = [migration EXCEPT !.step = "begin"]
           /\ backups' = backups \cup {[from |-> migration.from, to |-> migration.target,
                                        saved |-> file]}
  <2>1. /\ migration'.step = "begin" /\ migration'.from = migration.from
        /\ migration'.todo = migration.todo /\ migration'.target = migration.target
    BY <1>3 DEF StorageInv, AuthorityTyped
  <2>2. VersionOf(file') = migration'.from /\ (Ahead => Ahead')
    BY <1>1, <2>1 DEF ConversationHeld, Ahead, VersionOf
  <2>3. ~PastSix'
    BY <1>1, <2>1 DEF ConversationHeld, PastSix
  <2>4. \E b \in backups' : b.from = migration'.from
    BY <1>3, <2>1
  <2>5. NoWayBack' => NoWayBack
    BY <1>1 DEF NoWayBack
  <2> QED BY <1>1, <2>1, <2>2, <2>3, <2>4, <2>5 DEF ConversationHeld
<1> QED BY <1>2, <1>3 DEF Backup

LEMMA BeginHolds ==
    ASSUME StorageInv, ConversationHeld, BeginMigration
    PROVE  ConversationHeld'
<1>1. migration.step = "begin" /\ UNCHANGED <<file, backups>>
    BY DEF BeginMigration
<1>2. CASE EndMigration
    BY <1>1, <1>2, EndedHolds
<1>3. CASE migration' = [migration EXCEPT !.step = "edges", !.draft = file]
  <2>1. /\ migration'.step = "edges" /\ migration'.from = migration.from
        /\ migration'.todo = migration.todo /\ migration'.target = migration.target
        /\ migration'.draft = file
    BY <1>3 DEF StorageInv, AuthorityTyped
  <2>2. VersionOf(file') = migration'.from /\ Ahead /\ Ahead'
    BY <1>1, <2>1 DEF ConversationHeld, Ahead, VersionOf
  <2>3. ~PastSix'
    BY <1>1, <2>1 DEF ConversationHeld, PastSix
  <2>4. (NoWayBack' => NoWayBack) /\ \E b \in backups' : b.from = migration'.from
    BY <1>1, <2>1 DEF ConversationHeld, NoWayBack
  <2> QED BY <1>1, <2>1, <2>2, <2>3, <2>4 DEF ConversationHeld
<1> QED BY <1>2, <1>3 DEF BeginMigration

LEMMA EdgeHolds ==
    ASSUME StorageInv, ConversationHeld, Edge
    PROVE  ConversationHeld'
<1>1. migration.step = "edges" /\ migration.todo # <<>> /\ UNCHANGED <<file, backups>>
    BY DEF Edge
<1>2. CASE EndMigration
    BY <1>1, <1>2, EndedHolds
<1>3. CASE migration' = [migration EXCEPT !.todo = Tail(@),
                           !.draft = Applied(Head(migration.todo), @)]
  <2>1. /\ migration.draft \in Databases /\ migration.todo \in Seq(Edges)
        /\ migration.from \in Int /\ migration.target \in Int
    BY <1>1, AbsentIsOther DEF StorageInv, AuthorityHeld, AuthorityTyped
  <2>2. PICK n \in Nat : n = Len(migration.todo) /\ n >= 1
    BY <1>1, <2>1
  <2>3. /\ Head(migration.todo) = migration.todo[1] /\ Head(migration.todo) \in Edges
        /\ Len(Tail(migration.todo)) = n - 1
        /\ \A i \in 1..(n - 1) : Tail(migration.todo)[i] = migration.todo[i + 1]
    BY <1>1, <2>1, <2>2
  <2>4. /\ migration'.step = "edges" /\ migration'.from = migration.from
        /\ migration'.todo = Tail(migration.todo) /\ migration'.target = migration.target
        /\ migration'.draft = Applied(Head(migration.todo), migration.draft)
    BY <1>1, <1>3 DEF StorageInv, AuthorityTyped
  <2>5. VersionOf(file') = migration'.from /\ Ahead
    BY <1>1, <2>4 DEF ConversationHeld, VersionOf
  <2>6. Ahead'
    <3>1. CASE migration.target >= migration.from
      <4>1. n <= migration.target - migration.from
        BY <2>2, <2>5, <3>1 DEF Ahead
      <4>2. \A i \in 1..(n - 1) :
               Tail(migration.todo)[i] = Up(migration.target - (n - 1) + i - 1)
        <5> TAKE i \in 1..(n - 1)
        <5>1. migration.todo[i + 1] = Up(migration.target - n + (i + 1) - 1)
          BY <2>2, <2>5, <3>1 DEF Ahead
        <5>2. migration.target - n + (i + 1) - 1 = migration.target - (n - 1) + i - 1
          BY <2>1
        <5> QED BY <2>3, <5>1, <5>2
      <4>3. n - 1 <= migration'.target - migration'.from
        BY <2>1, <2>4, <4>1
      <4>4. \A i \in 1..(n - 1) : migration'.todo[i] = Up(migration'.target - (n - 1) + i - 1)
        BY <2>4, <4>2
      <4>5. Len(migration'.todo) = n - 1 /\ migration'.target >= migration'.from
        BY <2>3, <2>4, <3>1
      <4>6. ~(migration'.target < migration'.from)
        BY <2>1, <2>4, <3>1
      <4> QED BY <4>3, <4>4, <4>5, <4>6 DEF Ahead
    <3>2. CASE migration.target < migration.from
      <4>1. \A i \in 1..(n - 1) : Tail(migration.todo)[i] # Up(6)
        <5> TAKE i \in 1..(n - 1)
        <5>1. i + 1 \in 1..n
          BY <2>2
        <5>2. migration.todo[i + 1] # Up(6)
          BY <2>2, <2>5, <3>2, <5>1 DEF Ahead
        <5> QED BY <2>3, <5>2
      <4>2. Len(migration'.todo) = n - 1 /\ \A i \in 1..(n - 1) : migration'.todo[i] # Up(6)
        BY <2>3, <2>4, <4>1
      <4>3. ~(migration'.target >= migration'.from)
        BY <2>1, <2>4, <3>2
      <4> QED BY <4>2, <4>3 DEF Ahead
    <3> QED BY <2>1, <3>1, <3>2
  <2>7. migration'.draft.conversation =
           IF Head(migration.todo) = Up(6) THEN ToObservations(migration.draft.conversation)
           ELSE migration.draft.conversation
    BY <2>1, <2>3, <2>4, AppliedIsDatabase
  <2>8. Head(migration.todo) = Up(6) <=> (PastSix' /\ ~PastSix)
    <3>1. CASE migration.target >= migration.from
      <4>1. Head(migration.todo) = Up(migration.target - n)
        BY <2>1, <2>2, <2>3, <2>5, <3>1 DEF Ahead
      <4>2. n <= migration.target - migration.from
        BY <2>2, <2>5, <3>1 DEF Ahead
      <4>3. Up(migration.target - n) = Up(6) <=> migration.target - n = 6
        BY DEF Up
      <4>4. PastSix <=> migration.from <= 6 /\ migration.target - n >= 7
        BY <2>2, <3>1 DEF PastSix
      <4>5. PastSix' <=> migration.from <= 6 /\ migration.target - (n - 1) >= 7
        BY <2>3, <2>4, <3>1 DEF PastSix
      <4> QED BY <2>1, <4>1, <4>2, <4>3, <4>4, <4>5
    <3>2. CASE migration.target < migration.from
      <4>1. Head(migration.todo) # Up(6)
        BY <2>1, <2>2, <2>3, <2>5, <3>2 DEF Ahead
      <4>2. ~PastSix'
        BY <2>1, <2>4, <3>2 DEF PastSix
      <4> QED BY <4>1, <4>2
    <3> QED BY <2>1, <3>1, <3>2
  <2>9. PastSix => PastSix'
    BY <2>1, <2>2, <2>3, <2>4 DEF PastSix
  <2>10. migration.draft.conversation =
            IF PastSix THEN ToObservations(file.conversation) ELSE file.conversation
    BY <1>1 DEF ConversationHeld
  <2>11. migration'.draft.conversation =
            IF PastSix' THEN ToObservations(file'.conversation) ELSE file'.conversation
    BY <1>1, <2>7, <2>8, <2>9, <2>10
  <2>12. (NoWayBack' => NoWayBack) /\ \E b \in backups' : b.from = migration'.from
    BY <1>1, <2>4 DEF ConversationHeld, NoWayBack
  <2> QED BY <1>1, <2>4, <2>5, <2>6, <2>11, <2>12 DEF ConversationHeld
<1> QED BY <1>2, <1>3 DEF Edge

LEMMA CommitHolds ==
    ASSUME StorageInv, ConversationHeld, CommitMigration
    PROVE  ConversationHeld'
<1>1. /\ migration.step = "edges" /\ migration.todo = <<>> /\ file' = migration.draft
      /\ VersionOf(migration.draft) = migration.target /\ Whole(migration.draft.history)
      /\ migration'.step = "none" /\ UNCHANGED backups
    BY DEF CommitMigration, EndMigration, NoMigration
<1>2. SUFFICES ASSUME NoWayBack, VersionOf(file') <= 6
               PROVE  file'.conversation \in Conversations \cup {NoConversation}
    BY <1>1 DEF ConversationHeld, NoWayBack
<1>3. VersionOf(file') = migration.target /\ migration.target \in Nat
    BY <1>1, VersionOfWhole DEF VersionOf
<1>4. /\ VersionOf(file) = migration.from /\ file # Absent /\ VersionOf(file) \in Nat
      /\ VersionOf(file) <= 7 /\ migration.from # 7
  <2>1. file # Absent /\ Whole(file.history)
    BY <1>1 DEF StorageInv, AuthorityHeld
  <2>2. VersionOf(file) \in Nat /\ VersionOf(file) <= 7
    BY <2>1, VersionOfWhole, VersionAssumption DEF Versions, Newest
  <2>3. VersionOf(file) = migration.from /\ \E b \in backups : b.from = migration.from
    BY <1>1 DEF ConversationHeld
  <2> QED BY <1>2, <2>1, <2>2, <2>3 DEF NoWayBack
<1>5. ~PastSix
  <2>1. Len(migration.todo) = 0
    BY <1>1
  <2> QED BY <1>2, <1>3, <2>1 DEF PastSix
<1>6. file'.conversation = file.conversation
    BY <1>1, <1>5 DEF ConversationHeld
<1> QED BY <1>2, <1>4, <1>6 DEF ConversationHeld

LEMMA ConversationStep ==
    ASSUME StorageInv, ConversationHeld, [StorageNext]_databaseVars
    PROVE  ConversationHeld'
<1>1. CASE UNCHANGED <<file, migration, backups>>
    BY <1>1 DEF ConversationHeld, Ahead, PastSix, NoWayBack, VersionOf
<1>2. ASSUME NEW t \in Threads, Operation(t) \/ Transaction(t) PROVE ConversationHeld'
  <2>1. UNCHANGED <<migration, backups>>
    BY <1>2 DEF Operation, Transaction, authorityVars, Read, Put, Repair, PutBusy, PutCommit,
       PutCommitFails, Scan, Load, Compare, CompareEdit, Enter, Nest, InnerReturns, InnerRaises, Return,
       RollBack, RollBackFails, Write
  <2>2. CASE file' = file
    BY <1>1, <2>1, <2>2
  <2>3. CASE PutCommit(t) \/ Return(t)
    <3>1. /\ file # Absent /\ file' # Absent /\ VersionOf(file') = VersionOf(file)
          /\ file'.conversation = file.conversation
      BY <2>3, CommittedRows DEF VersionOf
    <3> QED BY <2>1, <3>1 DEF ConversationHeld, Ahead, PastSix, NoWayBack
  <2> QED BY <1>2, <2>2, <2>3 DEF Operation, Transaction, authorityVars, Read, Put, Repair,
        PutBusy, PutCommitFails, Tears, Scan, Load, Compare, CompareEdit, Enter, Nest, InnerReturns,
        InnerRaises, RollBack, RollBackFails, Write
<1>3. ASSUME NEW p \in Procs, Open(p) PROVE ConversationHeld'
  <2>1. UNCHANGED <<migration, backups>>
    BY <1>3 DEF Open, Look, Lease, Create, Validate, ConnectDatabase
  <2>2. CASE file' = file
    BY <1>1, <2>1, <2>2
  <2>3. CASE file = Absent /\ file' = NewFile
    <3>1. migration.step = "none"
      BY <2>3 DEF StorageInv, AuthorityHeld
    <3>2. file'.conversation = NoConversation
      BY <2>3 DEF NewFile
    <3> QED BY <2>1, <3>1, <3>2 DEF ConversationHeld
  <2> QED BY <1>3, <2>2, <2>3 DEF Open, Look, Lease, Create, Validate, ConnectDatabase,
        StorageInv, AuthorityHeld
<1>4. ASSUME NEW p \in Procs, Close(p) \/ ProcessCrash(p) PROVE ConversationHeld'
  BY <1>1, <1>4 DEF Close, ProcessCrash, Disconnect
<1>5. CASE MigrationFails
  BY <1>5, EndedHolds DEF MigrationFails
<1>6. CASE UNCHANGED databaseVars
  BY <1>1, <1>6 DEF databaseVars, authorityVars
<1> QED BY <1>2, <1>3, <1>4, <1>5, <1>6, StartHolds, BackupHolds, BeginHolds, EdgeHolds,
      CommitHolds DEF StorageNext, Migrate

LEMMA IntervalsMeet ==
    ASSUME NEW f \in Nat, NEW s \in Nat, NEW e \in Nat, NEW to \in Nat, s <= f, e <= to
    PROVE  (Max({f, s})..(e - 1)) \cup (Max({f, e})..(to - 1)) = f..(to - 1)
<1>1. Max({f, s}) = f /\ Max({f, e}) = IF f >= e THEN f ELSE e
    BY MaxOfTwo
<1> QED BY <1>1

\* What the edge to version 7 adds to the observations: all that was not curated.
LEMMA ObservedThen ==
    ASSUME NEW c \in Histories,
           c.plan # Absent => c.plan.start <= First(c) /\ c.plan.end <= c.to,
           \A o \in c.observations : o.range.end <= First(c)
    PROVE  Observed(ToObservations(c)) \ Observed(c) = First(c)..(c.to - 1)
<1> DEFINE f == First(c)
           Covers(a, b) == UNION {Messages(o.range) : o \in Publish(a, b, "pending")}
<1>1. /\ f \in Nat /\ c.to \in Nat
      /\ c.observations \subseteq [range : Plans, status : ObservationStatus]
    BY MaxOfTwo DEF First, Histories
<1>2. \A a \in Nat, b \in Nat : Covers(a, b) = a..(b - 1)
  <2> TAKE a \in Nat, b \in Nat
  <2>1. Messages(Range2(a, b)) = a..(b - 1)
    BY DEF Messages, Range2
  <2>2. CASE b > a
    BY <2>1, <2>2 DEF Publish
  <2>3. CASE ~(b > a)
    BY <2>3 DEF Publish
  <2> QED BY <2>2, <2>3
<1>3. UNION {Messages(o.range) : o \in Uncurated(c)} = f..(c.to - 1)
  <2>1. CASE c.plan = Absent
    BY <1>1, <1>2, <2>1 DEF Uncurated
  <2>2. CASE c.plan # Absent
    <3>1. PICK s \in Nat, e \in Nat : s = c.plan.start /\ e = c.plan.end
      BY <2>2 DEF Histories, Plans
    <3>2. s <= f /\ e <= c.to
      BY <2>2, <3>1
    <3>3. Max({f, s}) \in Nat /\ Max({f, e}) \in Nat
      BY <1>1, MaxOfTwo
    <3>4. Uncurated(c) =
             Publish(Max({f, s}), e, "pending") \cup Publish(Max({f, e}), c.to, "pending")
      BY <2>2, <3>1 DEF Uncurated
    <3>5. UNION {Messages(o.range) : o \in Uncurated(c)} =
             Covers(Max({f, s}), e) \cup Covers(Max({f, e}), c.to)
      BY <3>4
    <3>6. /\ Covers(Max({f, s}), e) = Max({f, s})..(e - 1)
          /\ Covers(Max({f, e}), c.to) = Max({f, e})..(c.to - 1)
      BY <1>1, <1>2, <3>3
    <3>7. (Max({f, s})..(e - 1)) \cup (Max({f, e})..(c.to - 1)) = f..(c.to - 1)
      BY <1>1, <3>2, IntervalsMeet
    <3> QED BY <3>5, <3>6, <3>7
  <2> QED BY <2>1, <2>2
<1>4. ToObservations(c).observations = c.observations \cup Uncurated(c)
    BY DEF ToObservations, Histories
<1>5. Observed(ToObservations(c)) = Observed(c) \cup (f..(c.to - 1))
    BY <1>3, <1>4 DEF Observed
<1>6. \A m \in Observed(c) : m \notin f..(c.to - 1)
  <2> SUFFICES ASSUME NEW o \in c.observations, NEW m \in Messages(o.range)
               PROVE  m \notin f..(c.to - 1)
    BY DEF Observed
  <2>1. o.range.start \in Nat /\ o.range.end \in Nat /\ o.range.end <= f
    BY <1>1 DEF Plans
  <2> QED BY <1>1, <2>1 DEF Messages
<1> QED BY <1>5, <1>6

\* The edge to version 7 puts exactly the messages that were not curated into
\* observations (v006_to_v007.py, upgrade), whatever migrations failed or were made before.
THEOREM NothingIsForgotten == StorageSpec => NothingForgotten
<1> DEFINE Steady ==
       file # Absent /\ VersionOf(file) = 6 /\ VersionOf(file') = 7
       /\ (\A b \in backups : b.from # 7) =>
          Observed(file'.conversation) \ Observed(file.conversation)
             = First(file.conversation)..(file.conversation.to - 1)
<1>1. ASSUME StorageInv, ConversationHeld, [StorageNext]_databaseVars PROVE [Steady]_databaseVars
  <2> SUFFICES ASSUME file # Absent, VersionOf(file) = 6, VersionOf(file') = 7, NoWayBack
               PROVE  Observed(file'.conversation) \ Observed(file.conversation)
                         = First(file.conversation)..(file.conversation.to - 1)
    BY DEF NoWayBack
  <2>1. file' # file
    BY DEF VersionOf
  <2>2. ASSUME NEW t \in Threads, PutCommit(t) \/ Return(t) PROVE FALSE
    BY <1>1, <2>2, CommittedRows DEF VersionOf
  <2>3. CommitMigration
    BY <1>1, <2>1, <2>2, FileChanges
  <2>4. /\ migration.step = "edges" /\ file' = migration.draft /\ migration.todo = <<>>
        /\ VersionOf(migration.draft) = migration.target
    BY <2>3 DEF CommitMigration
  <2>5. migration.from = 6 /\ migration.target = 7
    BY <1>1, <2>4 DEF ConversationHeld, VersionOf
  <2>6. PastSix
    <3>1. Len(migration.todo) = 0
      BY <2>4
    <3> QED BY <2>5, <3>1 DEF PastSix
  <2>7. file'.conversation = ToObservations(file.conversation)
    BY <1>1, <2>4, <2>6 DEF ConversationHeld
  <2>8. file.conversation \in Conversations \cup {NoConversation}
    BY <1>1 DEF ConversationHeld
  <2>9. /\ file.conversation \in Histories
        /\ file.conversation.plan # Absent =>
              /\ file.conversation.plan.start <= First(file.conversation)
              /\ file.conversation.plan.end <= file.conversation.to
        /\ \A o \in file.conversation.observations : o.range.end <= First(file.conversation)
    <3>1. CASE file.conversation \in Conversations
      BY <3>1, AuthorityAssumption, ConversationAssumption
    <3>2. CASE file.conversation = NoConversation
      BY <3>2 DEF NoConversation, Histories
    <3> QED BY <2>8, <3>1, <3>2
  <2> QED BY <2>7, <2>9, ObservedThen
<1>2. StorageInv /\ ConversationHeld /\ [StorageNext]_databaseVars => [Steady]_databaseVars
    BY <1>1
<1>3. StorageInit => ConversationHeld
    BY InitialConversation
<1>4. StorageInv /\ ConversationHeld /\ [StorageNext]_databaseVars => ConversationHeld'
    BY ConversationStep
<1> QED BY <1>2, <1>3, <1>4, DatabaseSafe, PTL DEF StorageSpec, NothingForgotten

-----------------------------------------------------------------------------
(* The daemon's files *)

Gone == {"exited", "killed"}

\* The lock says who is between taking it and giving it back.
LockIsHeld ==
    /\ \A d \in Daemons : phase[d] \in Owning <=> lock = d
    /\ \A c \in Clients : pc[c] = "probing" <=> lock = c
    /\ lock # None => lockFile

\* Once bound, and once published, the files are those of the daemon.
FilesAreIts ==
    \A d \in Daemons :
       /\ phase[d] \in Listening => socket = d
       /\ phase[d] \in {"launch", "serve"} => pid = d

\* The daemon a client has asked was an owner then; a client that goes on as
\* if it were gone has seen the lock free since.
AskedIsKnown ==
    \A c \in Clients :
       /\ pc[c] # "idle" => result[c] # "stopped"
       /\ asks[c] # None =>
             /\ phase[asks[c]] \in Owning \cup Gone
             /\ lockFile
             /\ \/ pc[c] \in {"probing", "spawn"}
                \/ pc[c] = "decide" /\ status[c] = "stopped"
                \/ result[c] = "stopped"
                => phase[asks[c]] \in Gone

IInv == TypeOK /\ LockIsHeld /\ FilesAreIts /\ AskedIsKnown

USE DEF Starting, Cleaning, Owning, Listening, Over, Phases, Gone

LEMMA InitialState == Init => IInv
<1> SUFFICES ASSUME Init PROVE IInv
    OBVIOUS
<1>1. TypeOK
  <2>1. /\ operations \in 0..MaxOperations /\ crashes \in 0..MaxCrashes
        /\ failures \in 0..MaxFailures
    BY BoundsAssumption DEF Init
  <2> QED BY <2>1 DEF Init, TypeOK, Results, StatusPhases
<1>2. LockIsHeld /\ FilesAreIts /\ AskedIsKnown
    BY ProcessesAssumption DEF Init, LockIsHeld, FilesAreIts, AskedIsKnown
<1> QED BY <1>1, <1>2 DEF IInv

LEMMA AcquirePreserves ==
    ASSUME IInv, NEW d \in Daemons, Acquire(d)
    PROVE  IInv'
<1> USE DEF IInv, TypeOK, Acquire, clients, bounds, To
<1>1. TypeOK'
    BY ProcessesAssumption, BoundsAssumption DEF Results, StatusPhases
<1>2. LockIsHeld'
    BY ProcessesAssumption DEF LockIsHeld
<1>3. FilesAreIts'
    BY ProcessesAssumption DEF FilesAreIts, LockIsHeld
<1>4. AskedIsKnown'
    BY ProcessesAssumption DEF AskedIsKnown, LockIsHeld
<1> QED BY <1>1, <1>2, <1>3, <1>4

LEMMA UnlinkStaleSocketPreserves ==
    ASSUME IInv, NEW d \in Daemons, UnlinkStaleSocket(d)
    PROVE  IInv'
<1> USE DEF IInv, TypeOK, UnlinkStaleSocket, clients, To, Works, Fails
<1>1. TypeOK'
    BY ProcessesAssumption, BoundsAssumption DEF Results, StatusPhases
<1>2. LockIsHeld'
    BY ProcessesAssumption DEF LockIsHeld
<1>3. FilesAreIts'
    BY ProcessesAssumption DEF FilesAreIts, LockIsHeld
<1>4. AskedIsKnown'
    BY ProcessesAssumption DEF AskedIsKnown, LockIsHeld
<1> QED BY <1>1, <1>2, <1>3, <1>4

LEMMA UnlinkStalePidPreserves ==
    ASSUME IInv, NEW d \in Daemons, UnlinkStalePid(d)
    PROVE  IInv'
<1> USE DEF IInv, TypeOK, UnlinkStalePid, clients, To, Works, Fails
<1>1. TypeOK'
    BY ProcessesAssumption, BoundsAssumption DEF Results, StatusPhases
<1>2. LockIsHeld'
    BY ProcessesAssumption DEF LockIsHeld
<1>3. FilesAreIts'
    BY ProcessesAssumption DEF FilesAreIts, LockIsHeld
<1>4. AskedIsKnown'
    BY ProcessesAssumption DEF AskedIsKnown, LockIsHeld
<1> QED BY <1>1, <1>2, <1>3, <1>4

LEMMA ComposePreserves ==
    ASSUME IInv, NEW d \in Daemons, Compose(d)
    PROVE  IInv'
<1> USE DEF IInv, TypeOK, Compose, files, clients, To, Works, Fails
<1>1. TypeOK'
    BY ProcessesAssumption, BoundsAssumption DEF Results, StatusPhases
<1>2. LockIsHeld'
    BY ProcessesAssumption DEF LockIsHeld
<1>3. FilesAreIts'
    BY ProcessesAssumption DEF FilesAreIts, LockIsHeld
<1>4. AskedIsKnown'
    BY ProcessesAssumption DEF AskedIsKnown, LockIsHeld
<1> QED BY <1>1, <1>2, <1>3, <1>4

LEMMA BindPreserves ==
    ASSUME IInv, NEW d \in Daemons, Bind(d)
    PROVE  IInv'
<1> USE DEF IInv, TypeOK, Bind, clients, To, Works, Fails
<1>1. TypeOK'
    BY ProcessesAssumption, BoundsAssumption DEF Results, StatusPhases
<1>2. LockIsHeld'
    BY ProcessesAssumption DEF LockIsHeld
<1>3. FilesAreIts'
    BY ProcessesAssumption DEF FilesAreIts, LockIsHeld
<1>4. AskedIsKnown'
    BY ProcessesAssumption DEF AskedIsKnown, LockIsHeld
<1> QED BY <1>1, <1>2, <1>3, <1>4

LEMMA PublishPidPreserves ==
    ASSUME IInv, NEW d \in Daemons, PublishPid(d)
    PROVE  IInv'
<1> USE DEF IInv, TypeOK, PublishPid, clients, To, Works, Fails
<1>1. TypeOK'
    BY ProcessesAssumption, BoundsAssumption DEF Results, StatusPhases
<1>2. LockIsHeld'
    BY ProcessesAssumption DEF LockIsHeld
<1>3. FilesAreIts'
    BY ProcessesAssumption DEF FilesAreIts, LockIsHeld
<1>4. AskedIsKnown'
    BY ProcessesAssumption DEF AskedIsKnown, LockIsHeld
<1> QED BY <1>1, <1>2, <1>3, <1>4

LEMMA LaunchPreserves ==
    ASSUME IInv, NEW d \in Daemons, Launch(d)
    PROVE  IInv'
<1> USE DEF IInv, TypeOK, Launch, files, clients, To, Works, Fails
<1>1. TypeOK'
    BY ProcessesAssumption, BoundsAssumption DEF Results, StatusPhases
<1>2. LockIsHeld'
    BY ProcessesAssumption DEF LockIsHeld
<1>3. FilesAreIts'
    BY ProcessesAssumption DEF FilesAreIts, LockIsHeld
<1>4. AskedIsKnown'
    BY ProcessesAssumption DEF AskedIsKnown, LockIsHeld
<1> QED BY <1>1, <1>2, <1>3, <1>4

LEMMA AcceptPingPreserves ==
    ASSUME IInv, NEW d \in Daemons, NEW c \in Clients, AcceptPing(d, c)
    PROVE  IInv'
<1> USE DEF IInv, TypeOK, AcceptPing, daemons, files, bounds
<1>1. TypeOK'
    BY ProcessesAssumption, BoundsAssumption DEF Results, StatusPhases
<1>2. LockIsHeld'
    BY ProcessesAssumption DEF LockIsHeld
<1>3. FilesAreIts'
    BY ProcessesAssumption DEF FilesAreIts, LockIsHeld
<1>4. AskedIsKnown'
    BY ProcessesAssumption DEF AskedIsKnown, LockIsHeld
<1> QED BY <1>1, <1>2, <1>3, <1>4

LEMMA AcceptShutdownPreserves ==
    ASSUME IInv, NEW d \in Daemons, AcceptShutdown(d)
    PROVE  IInv'
<1> USE DEF IInv, TypeOK, AcceptShutdown, files, clients, bounds
<1>1. TypeOK'
    BY ProcessesAssumption, BoundsAssumption DEF Results, StatusPhases
<1>2. LockIsHeld'
    BY ProcessesAssumption DEF LockIsHeld
<1>3. FilesAreIts'
    BY ProcessesAssumption DEF FilesAreIts, LockIsHeld
<1>4. AskedIsKnown'
    BY ProcessesAssumption DEF AskedIsKnown, LockIsHeld
<1> QED BY <1>1, <1>2, <1>3, <1>4

LEMMA SignalPreserves ==
    ASSUME IInv, NEW d \in Daemons, Signal(d)
    PROVE  IInv'
<1> USE DEF IInv, TypeOK, Signal, files, clients
<1>1. TypeOK'
    BY ProcessesAssumption, BoundsAssumption DEF Results, StatusPhases
<1>2. LockIsHeld'
    BY ProcessesAssumption DEF LockIsHeld
<1>3. FilesAreIts'
    BY ProcessesAssumption DEF FilesAreIts, LockIsHeld
<1>4. AskedIsKnown'
    BY ProcessesAssumption DEF AskedIsKnown, LockIsHeld
<1> QED BY <1>1, <1>2, <1>3, <1>4

LEMMA StopServingPreserves ==
    ASSUME IInv, NEW d \in Daemons, StopServing(d)
    PROVE  IInv'
<1> USE DEF IInv, TypeOK, StopServing, files, clients, bounds, To
<1>1. TypeOK'
    BY ProcessesAssumption, BoundsAssumption DEF Results, StatusPhases
<1>2. LockIsHeld'
    BY ProcessesAssumption DEF LockIsHeld
<1>3. FilesAreIts'
    BY ProcessesAssumption DEF FilesAreIts, LockIsHeld
<1>4. AskedIsKnown'
    BY ProcessesAssumption DEF AskedIsKnown, LockIsHeld
<1> QED BY <1>1, <1>2, <1>3, <1>4

LEMMA StopSchedulerPreserves ==
    ASSUME IInv, NEW d \in Daemons, StopScheduler(d)
    PROVE  IInv'
<1> USE DEF IInv, TypeOK, StopScheduler, files, clients, To, Works, Fails
<1>1. TypeOK'
    BY ProcessesAssumption, BoundsAssumption DEF Results, StatusPhases
<1>2. LockIsHeld'
    BY ProcessesAssumption DEF LockIsHeld
<1>3. FilesAreIts'
    BY ProcessesAssumption DEF FilesAreIts, LockIsHeld
<1>4. AskedIsKnown'
    BY ProcessesAssumption DEF AskedIsKnown, LockIsHeld
<1> QED BY <1>1, <1>2, <1>3, <1>4

LEMMA CloseApplicationPreserves ==
    ASSUME IInv, NEW d \in Daemons, CloseApplication(d)
    PROVE  IInv'
<1> USE DEF IInv, TypeOK, CloseApplication, files, clients, To, Works, Fails
<1>1. TypeOK'
    BY ProcessesAssumption, BoundsAssumption DEF Results, StatusPhases
<1>2. LockIsHeld'
    BY ProcessesAssumption DEF LockIsHeld
<1>3. FilesAreIts'
    BY ProcessesAssumption DEF FilesAreIts, LockIsHeld
<1>4. AskedIsKnown'
    BY ProcessesAssumption DEF AskedIsKnown, LockIsHeld
<1> QED BY <1>1, <1>2, <1>3, <1>4

LEMMA DropSocketPreserves ==
    ASSUME IInv, NEW d \in Daemons, DropSocket(d)
    PROVE  IInv'
<1> USE DEF IInv, TypeOK, DropSocket, clients, To, Works, Fails
<1>1. TypeOK'
    BY ProcessesAssumption, BoundsAssumption DEF Results, StatusPhases
<1>2. LockIsHeld'
    BY ProcessesAssumption DEF LockIsHeld
<1>3. FilesAreIts'
    BY ProcessesAssumption DEF FilesAreIts, LockIsHeld
<1>4. AskedIsKnown'
    BY ProcessesAssumption DEF AskedIsKnown, LockIsHeld
<1> QED BY <1>1, <1>2, <1>3, <1>4

LEMMA DropPidPreserves ==
    ASSUME IInv, NEW d \in Daemons, DropPid(d)
    PROVE  IInv'
<1> USE DEF IInv, TypeOK, DropPid, clients, To, Works, Fails
<1>1. TypeOK'
    BY ProcessesAssumption, BoundsAssumption DEF Results, StatusPhases
<1>2. LockIsHeld'
    BY ProcessesAssumption DEF LockIsHeld
<1>3. FilesAreIts'
    BY ProcessesAssumption DEF FilesAreIts, LockIsHeld
<1>4. AskedIsKnown'
    BY ProcessesAssumption DEF AskedIsKnown, LockIsHeld
<1> QED BY <1>1, <1>2, <1>3, <1>4

LEMMA ReleaseLockPreserves ==
    ASSUME IInv, NEW d \in Daemons, ReleaseLock(d)
    PROVE  IInv'
<1> USE DEF IInv, TypeOK, ReleaseLock, clients, bounds, To
<1>1. TypeOK'
    BY ProcessesAssumption, BoundsAssumption DEF Results, StatusPhases
<1>2. LockIsHeld'
    BY ProcessesAssumption DEF LockIsHeld
<1>3. FilesAreIts'
    BY ProcessesAssumption DEF FilesAreIts, LockIsHeld
<1>4. AskedIsKnown'
    BY ProcessesAssumption DEF AskedIsKnown, LockIsHeld
<1> QED BY <1>1, <1>2, <1>3, <1>4

LEMMA CrashPreserves ==
    ASSUME IInv, NEW d \in Daemons, Crash(d)
    PROVE  IInv'
<1> USE DEF IInv, TypeOK, Crash, clients, To
<1>1. TypeOK'
    BY ProcessesAssumption, BoundsAssumption DEF Results, StatusPhases
<1>2. LockIsHeld'
    BY ProcessesAssumption DEF LockIsHeld
<1>3. FilesAreIts'
    BY ProcessesAssumption DEF FilesAreIts, LockIsHeld
<1>4. AskedIsKnown'
    BY ProcessesAssumption DEF AskedIsKnown, LockIsHeld
<1> QED BY <1>1, <1>2, <1>3, <1>4

LEMMA BeginPreserves ==
    ASSUME IInv, NEW c \in Clients, NEW what \in {"start", "stop", "restart", "status"}, Begin(c, what)
    PROVE  IInv'
<1> USE DEF IInv, TypeOK, Begin, daemons, files, At
<1>1. TypeOK'
    BY ProcessesAssumption, BoundsAssumption DEF Results, StatusPhases
<1>2. LockIsHeld'
    BY ProcessesAssumption DEF LockIsHeld
<1>3. FilesAreIts'
    BY ProcessesAssumption DEF FilesAreIts, LockIsHeld
<1>4. AskedIsKnown'
    BY ProcessesAssumption DEF AskedIsKnown, LockIsHeld
<1> QED BY <1>1, <1>2, <1>3, <1>4

LEMMA ConnectPreserves ==
    ASSUME IInv, NEW c \in Clients, Connect(c)
    PROVE  IInv'
<1> USE DEF IInv, TypeOK, Connect, daemons, files, bounds, At
<1>1. TypeOK'
  <2>1. /\ ping' \in [Clients -> Daemons \cup {None}]
        /\ running' \in [Clients -> BOOLEAN]
    OBVIOUS
  <2>2. pc' \in [Clients -> {"idle", "ping", "wait", "probe", "probing", "decide",
                             "request", "spawn"}]
    OBVIOUS
  <2> QED BY <2>1, <2>2
<1>2. LockIsHeld'
    BY ProcessesAssumption DEF LockIsHeld
<1>3. FilesAreIts'
    BY ProcessesAssumption DEF FilesAreIts, LockIsHeld
<1>4. AskedIsKnown'
    BY ProcessesAssumption DEF AskedIsKnown, LockIsHeld
<1> QED BY <1>1, <1>2, <1>3, <1>4

LEMMA AnsweredPreserves ==
    ASSUME IInv, NEW c \in Clients, NEW yes \in BOOLEAN, Answered(c, yes)
    PROVE  IInv'
<1> USE DEF IInv, TypeOK, Answered, daemons, files, bounds, At
<1>1. TypeOK'
    BY ProcessesAssumption, BoundsAssumption DEF Results, StatusPhases
<1>2. LockIsHeld'
    BY ProcessesAssumption DEF LockIsHeld
<1>3. FilesAreIts'
    BY ProcessesAssumption DEF FilesAreIts, LockIsHeld
<1>4. AskedIsKnown'
    BY ProcessesAssumption DEF AskedIsKnown, LockIsHeld
<1> QED BY <1>1, <1>2, <1>3, <1>4

LEMMA ProbePreserves ==
    ASSUME IInv, NEW c \in Clients, Probe(c)
    PROVE  IInv'
<1> USE DEF IInv, TypeOK, Probe, daemons, bounds, At, Observes
<1>1. TypeOK'
  <2>1. CASE lockFile /\ lock = None
      BY <2>1
  <2>2. CASE ~(lockFile /\ lock = None)
    <3>1. status' \in [Clients -> StatusPhases]
        BY <2>2 DEF StatusPhases
    <3>2. running' \in [Clients -> BOOLEAN] /\ lock' = lock
        BY <2>2
    <3> QED BY <2>2, <3>1, <3>2
  <2> QED BY <2>1, <2>2
<1>2. LockIsHeld'
    BY ProcessesAssumption DEF LockIsHeld
<1>3. FilesAreIts'
    BY ProcessesAssumption DEF FilesAreIts, LockIsHeld
<1>4. AskedIsKnown'
    BY ProcessesAssumption DEF AskedIsKnown, LockIsHeld
<1> QED BY <1>1, <1>2, <1>3, <1>4

LEMMA ProbeReleasesPreserves ==
    ASSUME IInv, NEW c \in Clients, ProbeReleases(c)
    PROVE  IInv'
<1> USE DEF IInv, TypeOK, ProbeReleases, daemons, bounds, Observes, At
<1>1. TypeOK'
    BY ProcessesAssumption, BoundsAssumption DEF Results, StatusPhases
<1>2. LockIsHeld'
    BY ProcessesAssumption DEF LockIsHeld
<1>3. FilesAreIts'
    BY ProcessesAssumption DEF FilesAreIts, LockIsHeld
<1>4. AskedIsKnown'
    BY ProcessesAssumption DEF AskedIsKnown, LockIsHeld
<1> QED BY <1>1, <1>2, <1>3, <1>4

LEMMA ProbeFailsPreserves ==
    ASSUME IInv, NEW c \in Clients, ProbeFails(c)
    PROVE  IInv'
<1> USE DEF IInv, TypeOK, ProbeFails, daemons, files, Fails, Ends, At
<1>1. TypeOK'
    BY ProcessesAssumption, BoundsAssumption DEF Results, StatusPhases
<1>2. LockIsHeld'
    BY ProcessesAssumption DEF LockIsHeld
<1>3. FilesAreIts'
    BY ProcessesAssumption DEF FilesAreIts, LockIsHeld
<1>4. AskedIsKnown'
    BY ProcessesAssumption DEF AskedIsKnown, LockIsHeld
<1> QED BY <1>1, <1>2, <1>3, <1>4

LEMMA ReportStatusPreserves ==
    ASSUME IInv, NEW c \in Clients, ReportStatus(c)
    PROVE  IInv'
<1> USE DEF IInv, TypeOK, ReportStatus, daemons, files, bounds, At
<1>1. TypeOK'
    BY ProcessesAssumption, BoundsAssumption DEF Results, StatusPhases
<1>2. LockIsHeld'
    BY ProcessesAssumption DEF LockIsHeld
<1>3. FilesAreIts'
    BY ProcessesAssumption DEF FilesAreIts, LockIsHeld
<1>4. AskedIsKnown'
    BY ProcessesAssumption DEF AskedIsKnown, LockIsHeld
<1> QED BY <1>1, <1>2, <1>3, <1>4

LEMMA DecideStartPreserves ==
    ASSUME IInv, NEW c \in Clients, DecideStart(c)
    PROVE  IInv'
<1> USE DEF IInv, TypeOK, DecideStart, daemons, files, bounds, At, Ends
<1>1. TypeOK'
    BY ProcessesAssumption, BoundsAssumption DEF Results, StatusPhases
<1>2. LockIsHeld'
    BY ProcessesAssumption DEF LockIsHeld
<1>3. FilesAreIts'
    BY ProcessesAssumption DEF FilesAreIts, LockIsHeld
<1>4. AskedIsKnown'
  <2>1. CASE status[c] = "stopped"
    BY <2>1 DEF AskedIsKnown
  <2>2. CASE status[c] # "stopped"
    <3>1. /\ pc' = [pc EXCEPT ![c] = "idle"]
          /\ \E how \in Results \ {"stopped"} : result' = [result EXCEPT ![c] = how]
      BY <2>2 DEF StatusPhases, Results
    <3> QED BY <2>2, <3>1 DEF AskedIsKnown
  <2> QED BY <2>1, <2>2
<1> QED BY <1>1, <1>2, <1>3, <1>4

LEMMA SpawnPreserves ==
    ASSUME IInv, NEW c \in Clients, NEW d \in Daemons, Spawn(c, d)
    PROVE  IInv'
<1> USE DEF IInv, TypeOK, Spawn, files, bounds, To, At
<1>1. TypeOK'
    BY ProcessesAssumption, BoundsAssumption DEF Results, StatusPhases
<1>2. LockIsHeld'
    BY ProcessesAssumption DEF LockIsHeld
<1>3. FilesAreIts'
    BY ProcessesAssumption DEF FilesAreIts, LockIsHeld
<1>4. AskedIsKnown'
    BY ProcessesAssumption DEF AskedIsKnown, LockIsHeld
<1> QED BY <1>1, <1>2, <1>3, <1>4

LEMMA SpawnFailsPreserves ==
    ASSUME IInv, NEW c \in Clients, SpawnFails(c)
    PROVE  IInv'
<1> USE DEF IInv, TypeOK, SpawnFails, daemons, files, Fails, Ends, At
<1>1. TypeOK'
    BY ProcessesAssumption, BoundsAssumption DEF Results, StatusPhases
<1>2. LockIsHeld'
    BY ProcessesAssumption DEF LockIsHeld
<1>3. FilesAreIts'
    BY ProcessesAssumption DEF FilesAreIts, LockIsHeld
<1>4. AskedIsKnown'
    BY ProcessesAssumption DEF AskedIsKnown, LockIsHeld
<1> QED BY <1>1, <1>2, <1>3, <1>4

LEMMA PollStartPreserves ==
    ASSUME IInv, NEW c \in Clients, PollStart(c)
    PROVE  IInv'
<1> USE DEF IInv, TypeOK, PollStart, daemons, files, bounds, At, Ends
<1>1. TypeOK'
    BY ProcessesAssumption, BoundsAssumption DEF Results, StatusPhases
<1>2. LockIsHeld'
    BY ProcessesAssumption DEF LockIsHeld
<1>3. FilesAreIts'
    BY ProcessesAssumption DEF FilesAreIts, LockIsHeld
<1>4. AskedIsKnown'
    BY ProcessesAssumption DEF AskedIsKnown, LockIsHeld
<1> QED BY <1>1, <1>2, <1>3, <1>4

LEMMA DecideStopPreserves ==
    ASSUME IInv, NEW c \in Clients, DecideStop(c)
    PROVE  IInv'
<1> USE DEF IInv, TypeOK, DecideStop, daemons, files, bounds, At, StopEnds,
           Ends
<1>1. TypeOK'
    BY ProcessesAssumption, BoundsAssumption DEF Results, StatusPhases, StopResult
<1>2. LockIsHeld'
    BY ProcessesAssumption DEF LockIsHeld
<1>3. FilesAreIts'
    BY ProcessesAssumption DEF FilesAreIts, LockIsHeld
<1>4. AskedIsKnown'
    BY ProcessesAssumption DEF AskedIsKnown, LockIsHeld, StopResult, Finished
<1> QED BY <1>1, <1>2, <1>3, <1>4

LEMMA RequestShutdownPreserves ==
    ASSUME IInv, NEW c \in Clients, RequestShutdown(c)
    PROVE  IInv'
<1> USE DEF IInv, TypeOK, RequestShutdown, files, bounds, At
<1>1. TypeOK'
    BY ProcessesAssumption, BoundsAssumption DEF Results, StatusPhases
<1>2. LockIsHeld'
    BY ProcessesAssumption DEF LockIsHeld
<1>3. FilesAreIts'
    BY ProcessesAssumption DEF FilesAreIts, LockIsHeld
<1>4. AskedIsKnown'
  <2>1. CASE asks' = [asks EXCEPT ![c] = socket] /\ socket # None /\ phase[socket] \in Listening
    BY <2>1, ProcessesAssumption DEF AskedIsKnown, LockIsHeld
  <2>2. CASE UNCHANGED asks
    BY <2>2 DEF AskedIsKnown
  <2> QED BY <2>1, <2>2
<1> QED BY <1>1, <1>2, <1>3, <1>4

LEMMA PollStopPreserves ==
    ASSUME IInv, NEW c \in Clients, PollStop(c)
    PROVE  IInv'
<1> USE DEF IInv, TypeOK, PollStop, daemons, files, bounds, At, StopEnds, Ends
<1>1. TypeOK'
    BY ProcessesAssumption, BoundsAssumption DEF Results, StatusPhases, StopResult
<1>2. LockIsHeld'
    BY ProcessesAssumption DEF LockIsHeld
<1>3. FilesAreIts'
    BY ProcessesAssumption DEF FilesAreIts, LockIsHeld
<1>4. AskedIsKnown'
    BY ProcessesAssumption DEF AskedIsKnown, LockIsHeld, StopResult, Finished
<1> QED BY <1>1, <1>2, <1>3, <1>4

LEMMA TimeoutPreserves ==
    ASSUME IInv, NEW c \in Clients, Timeout(c)
    PROVE  IInv'
<1> USE DEF IInv, TypeOK, Timeout, daemons, files, bounds, Ends, At
<1>1. TypeOK'
    BY ProcessesAssumption, BoundsAssumption DEF Results, StatusPhases
<1>2. LockIsHeld'
    BY ProcessesAssumption DEF LockIsHeld
<1>3. FilesAreIts'
    BY ProcessesAssumption DEF FilesAreIts, LockIsHeld
<1>4. AskedIsKnown'
    BY ProcessesAssumption DEF AskedIsKnown, LockIsHeld, Finished
<1> QED BY <1>1, <1>2, <1>3, <1>4

\* Every step of the next-state relation preserves the invariant.
LEMMA StepPreserves == IInv /\ [Next]_vars => IInv'
<1> SUFFICES ASSUME IInv, [Next]_vars PROVE IInv'
    OBVIOUS
<1>1. CASE UNCHANGED vars
    BY <1>1 DEF IInv, TypeOK, LockIsHeld, FilesAreIts, AskedIsKnown, vars, daemons,
       files, clients, bounds
<1>2. ASSUME NEW d \in Daemons, Runs(d) \/ Serves(d) \/ Signal(d) \/ Crash(d)
      PROVE  IInv'
    BY <1>2, AcquirePreserves, UnlinkStaleSocketPreserves, UnlinkStalePidPreserves,
       ComposePreserves, BindPreserves, PublishPidPreserves, LaunchPreserves,
       AcceptPingPreserves, AcceptShutdownPreserves, SignalPreserves,
       StopServingPreserves, StopSchedulerPreserves, CloseApplicationPreserves,
       DropSocketPreserves, DropPidPreserves, ReleaseLockPreserves, CrashPreserves
    DEF Runs, Serves
<1>3. ASSUME NEW c \in Clients, NEW what \in {"start", "stop", "restart", "status"},
             Begin(c, what)
      PROVE  IInv'
    BY <1>3, BeginPreserves
<1>4. ASSUME NEW c \in Clients, Looks(c) PROVE IInv'
    BY <1>4, ConnectPreserves, AnsweredPreserves, ProbePreserves,
       ProbeReleasesPreserves, ProbeFailsPreserves DEF Looks
<1>5. ASSUME NEW c \in Clients, Acts(c) PROVE IInv'
    BY <1>5, ReportStatusPreserves, DecideStartPreserves, SpawnPreserves,
       SpawnFailsPreserves, PollStartPreserves, DecideStopPreserves,
       RequestShutdownPreserves, PollStopPreserves, TimeoutPreserves DEF Acts
<1> QED BY <1>1, <1>2, <1>3, <1>4, <1>5 DEF Next

\* The inductive invariant holds throughout.
THEOREM Invariance == Spec => []IInv
<1>1. Init => IInv
    BY InitialState
<1>2. IInv /\ [Next]_vars => IInv'
    BY StepPreserves
<1> QED BY <1>1, <1>2, PTL DEF Spec

\* The type invariant of DaemonInstance, for every instance.
THEOREM TypeCorrect == Spec => []TypeOK
<1>1. IInv => TypeOK
    BY DEF IInv
<1> QED BY <1>1, Invariance, PTL

\* A daemon that serves (handle_request in _run_owned_daemon) is the one the
\* socket and the PID file name, however many daemons compete, crash or raise.
THEOREM ServingDaemonHasFiles == Spec => []ServesItsFiles
<1>1. IInv => ServesItsFiles
    BY DEF IInv, FilesAreIts, ServesItsFiles
<1> QED BY <1>1, Invariance, PTL

\* A stop that ends with "stopped", and a restart that goes on to start, follow
\* the end of the daemon they asked, after its cleanup.
THEOREM StopComplete == Spec => []StopIsComplete
<1>1. IInv => StopIsComplete
    BY DEF IInv, AskedIsKnown, StopIsComplete
<1> QED BY <1>1, Invariance, PTL

\* Steps of clients, and of daemons without the lock, leave the files alone.
LEMMA OwnerStep ==
    ASSUME IInv, [Next]_vars, socket' # socket \/ pid' # pid
    PROVE  lock \in Daemons /\ phase'[lock] # phase[lock]
<1> USE DEF daemons, files, clients, bounds
<1>1. CASE UNCHANGED vars
    BY <1>1 DEF vars
<1>2. ASSUME NEW d \in Daemons, Runs(d) \/ Serves(d) \/ Signal(d) \/ Crash(d)
      PROVE  lock \in Daemons /\ phase'[lock] # phase[lock]
  <2>1. \/ UnlinkStaleSocket(d) \/ UnlinkStalePid(d) \/ Bind(d) \/ PublishPid(d)
        \/ DropSocket(d) \/ DropPid(d)
    BY <1>2 DEF Runs, Serves, Acquire, Compose, Launch, StopServing, StopScheduler,
       CloseApplication, ReleaseLock, AcceptPing, AcceptShutdown, Signal, Crash
  <2>2. phase[d] \in Owning /\ phase'[d] # phase[d]
    BY <2>1 DEF UnlinkStaleSocket, UnlinkStalePid, Bind, PublishPid, DropSocket, DropPid,
       To, IInv, TypeOK
  <2> QED BY <2>2 DEF IInv, LockIsHeld
<1>3. ASSUME NEW c \in Clients, NEW what \in {"start", "stop", "restart", "status"},
             Begin(c, what)
      PROVE  FALSE
    BY <1>3 DEF Begin
<1>4. ASSUME NEW c \in Clients, Looks(c) PROVE FALSE
    BY <1>4 DEF Looks, Connect, Answered, Probe, ProbeReleases, ProbeFails
<1>5. ASSUME NEW c \in Clients, Acts(c) PROVE FALSE
    BY <1>5 DEF Acts, ReportStatus, DecideStart, Spawn, SpawnFails, PollStart,
       DecideStop, RequestShutdown, PollStop, Timeout
<1> QED BY <1>1, <1>2, <1>3, <1>4, <1>5 DEF Next

\* "Only that owner may" remove stale files, publish the PID and remove both at
\* the end: every change of the files is a step of the daemon with the lock.
THEOREM OwnerChangesFiles == Spec => FilesChangedByOwner
<1>1. IInv /\ [Next]_vars =>
        [socket' # socket \/ pid' # pid =>
            lock \in Daemons /\ phase'[lock] # phase[lock]]_vars
    BY OwnerStep
<1> QED BY <1>1, Invariance, PTL DEF Spec, FilesChangedByOwner

-----------------------------------------------------------------------------
(* Records: the kinds of fields are sound *)

\* What is kept of a field is written so that it is read as it was, and there is
\* something to keep.
Sound(kind) ==
    /\ \A v \in Kept(kind) :
          LET w == IF v \in kind.omits THEN "absent" ELSE v
          IN  w \in Accepts(kind) /\ Reading(kind, w) = v
    /\ Kept(kind) # {}

\* Every field of a form.
SoundAll(fields) == \A f \in DOMAIN fields : Sound(fields[f])

\* The parts of a kind.
KindFields == {"accepts", "instead", "omits", "typeErrors", "overflows"}
\* A kind that reads every value as it is and writes it.
Direct(kind) == DOMAIN kind = KindFields /\ kind.instead = {} /\ kind.omits = {}
\* These values are read as that one.
Pairs(values, value) == {<<v, value>> : v \in values}

\* The kinds without values that stand for others: what is accepted is kept.
LEMMA OnlyIsDirect ==
    ASSUME NEW S PROVE Direct(Only(S)) /\ Only(S).accepts = S
BY DEF Only, Direct, KindFields

LEMMA FloatIsDirect == Direct(Float) /\ Float.accepts = Numbers \ {"huge"}
<1> DEFINE k == Only(Numbers \ {"huge"})
<1>1. Direct(k) /\ k.accepts = Numbers \ {"huge"} BY OnlyIsDirect
<1>2. Float = [k EXCEPT !.overflows = {"huge"}] BY DEF Float
<1> HIDE DEF k
<1> QED BY <1>1, <1>2 DEF Direct, KindFields

LEMMA TypedIsDirect ==
    ASSUME NEW k, Direct(k), NEW type PROVE Direct(Typed(k, type)) /\ Typed(k, type).accepts = k.accepts
BY DEF Typed, Direct, KindFields

LEMMA ReadingDirect ==
    ASSUME NEW k, k.instead = {}, NEW x PROVE Reading(k, x) = x
BY DEF Reading

\* What is read for a value, by a kind that reads some values as one.
LEMMA ReadingPairs ==
    ASSUME NEW k, NEW M, NEW w, k.instead = Pairs(M, w), NEW x
    PROVE  Reading(k, x) = IF x \in M THEN w ELSE x
<1>1. CASE x \in M
  <2>1. <<x, w>> \in k.instead /\ <<x, w>>[1] = x BY <1>1 DEF Pairs
  <2>3. (CHOOSE q \in k.instead : q[1] = x) \in k.instead BY <2>1
  <2>4. \A q \in k.instead : q[2] = w BY DEF Pairs
  <2> QED BY <2>1, <2>3, <2>4, <1>1 DEF Reading
<1>2. CASE x \notin M
  <2>1. ~ \E p \in k.instead : p[1] = x BY <1>2 DEF Pairs
  <2> QED BY <2>1, <1>2 DEF Reading
<1> QED BY <1>1, <1>2

\* A direct kind is sound if it accepts anything.
LEMMA DirectIsSound ==
    ASSUME NEW k, Direct(k), k.accepts # {} PROVE Sound(k) /\ Kept(k) = k.accepts
BY ReadingDirect DEF Direct, Sound, Kept, Accepts

\* ReadAs and Omitted say what they seem to say.
LEMMA ReadAsReads ==
    ASSUME NEW k, Direct(k), NEW M, NEW w, NEW r, r = ReadAs(k, M, w)
    PROVE  /\ DOMAIN r = KindFields /\ r.omits = {} /\ r.accepts = k.accepts \cup M
           /\ r.instead = Pairs(M, w)
BY DEF ReadAs, Direct, KindFields, Pairs

LEMMA OmittedReads ==
    ASSUME NEW k, DOMAIN k = KindFields, NEW O, NEW r, r = Omitted(k, O)
    PROVE  /\ DOMAIN r = KindFields /\ r.omits = O /\ r.accepts = k.accepts /\ r.instead = k.instead
BY DEF Omitted, KindFields

\* A kind that reads some values in place of which it has one, which may not be written.
LEMMA OneIsSound ==
    ASSUME NEW k, NEW M, NEW w, k.instead = Pairs(M, w), M # {}, M \subseteq k.accepts,
           k.omits \subseteq {w}, IF k.omits = {} THEN w \in k.accepts ELSE "absent" \in M
    PROVE  Sound(k) /\ Kept(k) = (k.accepts \ M) \cup {w}
<1>1. ASSUME NEW x PROVE Reading(k, x) = IF x \in M THEN w ELSE x BY ReadingPairs
<1>2. Kept(k) = (k.accepts \ M) \cup {w} BY <1>1 DEF Kept, Accepts
<1>3. ASSUME NEW v \in Kept(k)
      PROVE  LET u == IF v \in k.omits THEN "absent" ELSE v IN u \in k.accepts /\ Reading(k, u) = v
  <2>1. CASE v \in k.omits BY <1>1, <2>1
  <2>2. CASE v \notin k.omits BY <1>1, <1>2, <2>2
  <2> QED BY <2>1, <2>2
<1> QED BY <1>2, <1>3 DEF Sound, Accepts

\* A default is read for what is missing, and is itself accepted or in its place.
LEMMA ReadAsIsSound ==
    ASSUME NEW k, Direct(k), NEW M, M # {}, NEW w, w \in k.accepts \cup M
    PROVE  /\ Sound(ReadAs(k, M, w))
           /\ Kept(ReadAs(k, M, w)) = ((k.accepts \cup M) \ M) \cup {w}
<1>1. PICK r : r = ReadAs(k, M, w) OBVIOUS
<1>2. r.omits = {} /\ r.accepts = k.accepts \cup M /\ r.instead = Pairs(M, w) BY <1>1, ReadAsReads
<1>3. /\ M \subseteq r.accepts /\ r.omits \subseteq {w} /\ r.instead = Pairs(M, w)
      /\ IF r.omits = {} THEN w \in r.accepts ELSE "absent" \in M
  BY <1>2
<1>4. Sound(r) /\ Kept(r) = (r.accepts \ M) \cup {w} BY <1>3, OneIsSound
<1> QED BY <1>1, <1>2, <1>4

\* A default that is not written is read again for the field that is missing.
LEMMA OmittedIsSound ==
    ASSUME NEW k, Direct(k), NEW M, NEW w, "absent" \in M
    PROVE  /\ Sound(Omitted(ReadAs(k, M, w), {w}))
           /\ Kept(Omitted(ReadAs(k, M, w), {w})) = ((k.accepts \cup M) \ M) \cup {w}
<1>1. PICK q : q = ReadAs(k, M, w) OBVIOUS
<1>2. PICK r : r = Omitted(q, {w}) OBVIOUS
<1>3. DOMAIN q = KindFields /\ q.accepts = k.accepts \cup M /\ q.instead = Pairs(M, w)
  BY <1>1, ReadAsReads
<1>4. r.omits = {w} /\ r.accepts = q.accepts /\ r.instead = q.instead BY <1>2, <1>3, OmittedReads
<1>5. /\ M \subseteq r.accepts /\ r.omits \subseteq {w} /\ r.instead = Pairs(M, w) /\ M # {}
      /\ IF r.omits = {} THEN w \in r.accepts ELSE "absent" \in M
  BY <1>3, <1>4
<1>6. Sound(r) /\ Kept(r) = (r.accepts \ M) \cup {w} BY <1>5, OneIsSound
<1> QED BY <1>1, <1>2, <1>3, <1>4, <1>6

\* The fields of two records together (a dict or a dataclass built of two).
LEMMA Besides ==
    ASSUME NEW g, NEW h
    PROVE  /\ DOMAIN (g ++ h) = DOMAIN g \cup DOMAIN h
           /\ \A f \in DOMAIN g : (g ++ h)[f] = g[f]
           /\ \A f \in DOMAIN h \ DOMAIN g : (g ++ h)[f] = h[f]
           /\ g ++ h = [f \in DOMAIN (g ++ h) |-> (g ++ h)[f]]
BY DEF ++

LEMMA BesidesAssociates ==
    ASSUME NEW f, NEW g, NEW h
    PROVE  (f ++ g) ++ h = f ++ (g ++ h)
BY DEF ++

\* Sound fields stay sound beside others.
LEMMA BothSound ==
    ASSUME NEW g, NEW h, SoundAll(g), SoundAll(h)
    PROVE  SoundAll(g ++ h)
BY DEF SoundAll, ++

\* A field of older versions is never written, and read as absent.
LEMMA ObsoleteSound == Sound(Obsolete) /\ Kept(Obsolete) = {"absent"}
<1> DEFINE k == Only({"absent"})
<1>1. Direct(k) /\ k.accepts = {"absent"} BY OnlyIsDirect
<1>2. Obsolete = Omitted(k, {"absent"}) BY DEF Obsolete
<1> HIDE DEF k
<1>3. Obsolete.accepts = {"absent"} /\ Obsolete.instead = {} /\ Obsolete.omits = {"absent"}
   BY <1>1, <1>2, OmittedReads DEF Direct
<1> QED BY <1>3, ReadingDirect DEF Sound, Kept, Accepts

\* Booleans are read as numbers.
LEMMA LooseFloatSound == Sound(LooseFloat) /\ Kept(LooseFloat) = Numbers \ {"huge"}
<1> DEFINE k == ReadAs(Float, {"true"}, "one")
<1>1. DOMAIN k = KindFields /\ k.omits = {} /\ k.accepts = (Numbers \ {"huge"}) \cup {"true"}
      /\ k.instead = Pairs({"true"}, "one")
  BY FloatIsDirect, ReadAsReads
<1>2. LooseFloat = ReadAs(k, {"false"}, "zero") BY DEF LooseFloat
<1> HIDE DEF k
<1>3. /\ LooseFloat.omits = {} /\ LooseFloat.accepts = (Numbers \ {"huge"}) \cup {"true", "false"}
      /\ LooseFloat.instead = {<<"true", "one">>, <<"false", "zero">>}
  <2>1. LooseFloat.omits = k.omits /\ LooseFloat.accepts = k.accepts \cup {"false"}
     BY <1>1, <1>2 DEF ReadAs, KindFields
  <2>2. LooseFloat.instead = k.instead \cup {<<v, "zero">> : v \in {"false"}}
     BY <1>1, <1>2 DEF ReadAs, KindFields
  <2> QED BY <1>1, <2>1, <2>2 DEF Pairs
<1>4. ASSUME NEW x
      PROVE  Reading(LooseFloat, x) = IF x = "true" THEN "one" ELSE IF x = "false" THEN "zero" ELSE x
  <2> DEFINE q == CHOOSE p \in LooseFloat.instead : p[1] = x
  <2>1. CASE x \in {"true", "false"}
    <3>1. \E p \in LooseFloat.instead : p[1] = x BY <1>3, <2>1
    <3>2. q \in LooseFloat.instead /\ q[1] = x BY <3>1
    <3>3. q = <<"true", "one">> \/ q = <<"false", "zero">> BY <3>2, <1>3
    <3>4. Reading(LooseFloat, x) = q[2] BY <3>1 DEF Reading
    <3> HIDE DEF q
    <3> QED BY <3>2, <3>3, <3>4
  <2>2. CASE x \notin {"true", "false"} BY <1>3, <2>2 DEF Reading
  <2> QED BY <2>1, <2>2
<1>5. Kept(LooseFloat) = Numbers \ {"huge"}
  BY <1>3, <1>4 DEF Kept, Accepts, Numbers, Ints
<1> QED BY <1>3, <1>4, <1>5 DEF Sound, Accepts, Numbers, Ints

\* Blank strings are dropped from a list, and what is no list is an empty one.
LEMMA CleanedSound == Sound(Cleaned)
<1> DEFINE lists == {"strings", "twice"}
           some == {"mixed", "blanks"}
           others == FieldValues \ (lists \cup some)
           k == ReadAs(Only(lists), some, "strings")
<1>1. DOMAIN k = KindFields /\ k.omits = {} /\ k.accepts = lists \cup some
      /\ k.instead = Pairs(some, "strings")
  BY OnlyIsDirect, ReadAsReads
<1>2. Cleaned = ReadAs(k, others, "none") BY DEF Cleaned
<1>a. "none" \in others BY DEF FieldValues, Lists
<1> HIDE DEF k, others
<1>3. /\ Cleaned.omits = {} /\ Cleaned.accepts = lists \cup some \cup others
      /\ Cleaned.instead = Pairs(some, "strings") \cup Pairs(others, "none")
  <2>1. Cleaned.omits = k.omits /\ Cleaned.accepts = k.accepts \cup others
     BY <1>1, <1>2 DEF ReadAs, KindFields
  <2>2. Cleaned.instead = k.instead \cup {<<v, "none">> : v \in others}
     BY <1>1, <1>2 DEF ReadAs, KindFields
  <2> QED BY <1>1, <2>1, <2>2 DEF Pairs
<1>4. ASSUME NEW x
      PROVE  Reading(Cleaned, x) = IF x \in some THEN "strings" ELSE IF x \in others THEN "none" ELSE x
  <2> DEFINE q == CHOOSE p \in Cleaned.instead : p[1] = x
  <2>1. CASE x \in some \cup others
    <3>1. \E p \in Cleaned.instead : p[1] = x
      <4>1. <<x, "strings">> \in Cleaned.instead \/ <<x, "none">> \in Cleaned.instead
        BY <1>3, <2>1 DEF Pairs
      <4> QED BY <4>1
    <3>2. q \in Cleaned.instead /\ q[1] = x BY <3>1
    <3>3. q \in Pairs(some, "strings") \/ q \in Pairs(others, "none") BY <3>2, <1>3
    <3>4. (x \in some /\ q[2] = "strings") \/ (x \in others /\ q[2] = "none")
      <4> HIDE DEF q
      <4>1. \A M, w : q \in Pairs(M, w) => q[1] \in M /\ q[2] = w BY DEF Pairs
      <4> QED BY <3>2, <3>3, <4>1
    <3>5. Reading(Cleaned, x) = q[2] BY <3>1 DEF Reading
    <3> HIDE DEF q
    <3> QED BY <3>4, <3>5 DEF others
  <2>2. CASE x \notin some \cup others
    <3>1. ~ \E p \in Cleaned.instead : p[1] = x BY <1>3, <2>2 DEF Pairs
    <3> QED BY <3>1, <2>2 DEF Reading
  <2> QED BY <2>1, <2>2
<1>5. Kept(Cleaned) \subseteq lists \cup {"none"} BY <1>3, <1>4 DEF Kept, Accepts
<1>6. "none" \in Kept(Cleaned) BY <1>3, <1>4, <1>a DEF Kept, Accepts, others
<1> QED BY <1>3, <1>4, <1>5, <1>6, <1>a DEF Sound, Accepts, others

-----------------------------------------------------------------------------
(* Records: their forms *)

\* The kinds that most forms are made of.
LEMMA WordsSound ==
    /\ Sound(Str) /\ Kept(Str) = Strings
    /\ Sound(NonEmpty) /\ Sound(NonBlank) /\ Sound(Aware) /\ Sound(Bool)
    /\ Sound(Integer) /\ Sound(Count) /\ Sound(LooseInt)
    /\ Sound(StrList) /\ Sound(NonBlankList) /\ Sound(ItemList) /\ Sound(ObjectList)
    /\ Sound(Object) /\ Sound(Relations) /\ Sound(Context) /\ Sound(Type) /\ Sound(Privacy)
BY OnlyIsDirect, DirectIsSound
   DEF Str, NonEmpty, NonBlank, Aware, Bool, Integer, Count, LooseInt, StrList, NonBlankList, ItemList,
       ObjectList, Object, Relations, Context, Type, Privacy, Word, Strings, Blanks, Bools, Ints, Objects

LEMMA OnlyIsSound == ASSUME NEW S, S # {} PROVE Sound(Only(S)) /\ Kept(Only(S)) = S
BY OnlyIsDirect, DirectIsSound

LEMMA WordIsSound == ASSUME NEW S, S # {} PROVE Sound(Word(S)) /\ Kept(Word(S)) = S
BY OnlyIsDirect, DirectIsSound DEF Word

\* The parts that the forms of memories share.
LEMMA PeriodSound == SoundAll(Period)
<1>1. Sound(Optional(Str)) /\ Sound(Or(Str, "empty"))
  BY ReadAsIsSound, OnlyIsDirect DEF Optional, Or, Nothing, Str, Strings
<1> QED BY <1>1 DEF SoundAll, Period

LEMMA PartsSound ==
    /\ SoundAll(NoLegacyLinks) /\ SoundAll(Links) /\ SoundAll(Written) /\ SoundAll(Statement)
    /\ SoundAll(Weight)
<1>1. SoundAll(NoLegacyLinks) BY ObsoleteSound DEF SoundAll, NoLegacyLinks
<1>2. SoundAll([relations |-> Relations, evidence |-> Evidence])
  <2>1. Sound(Evidence) BY ReadAsIsSound, OnlyIsDirect DEF Evidence, Default, ItemList, Nothing
  <2> QED BY <2>1, WordsSound DEF SoundAll
<1>3. SoundAll(Links) BY <1>1, <1>2, BothSound DEF Links
<1>4. SoundAll(Written) /\ SoundAll(Statement) BY WordsSound DEF SoundAll, Written, Statement
<1>5. SoundAll(Weight)
  <2>1. Sound(Default(Float, "half")) BY ReadAsIsSound, FloatIsDirect DEF Default, Numbers, Nothing
  <2> QED BY <2>1, WordsSound, LooseFloatSound DEF SoundAll, Weight
<1> QED BY <1>1, <1>3, <1>4, <1>5

\* A form has the fields it is given.
LEMMA FieldsOf ==
    ASSUME NEW fields
    PROVE  /\ Form(fields).fields = fields /\ Exact(fields).fields = fields
           /\ Fields(Form(fields)) = DOMAIN fields /\ Fields(Exact(fields)) = DOMAIN fields
BY DEF Form, Exact, Fields

\* Every form of a memory, the payload of an entry included.
LEMMA EntrySound == SoundAll(MemoryEntry.fields)
<1>1. Sound(Optional(Str)) BY ReadAsIsSound, OnlyIsDirect DEF Optional, Nothing, Str, Strings
<1>2. Sound(Omitted(Default(Object, "void"), {"void"}))
  BY OmittedIsSound, OnlyIsDirect DEF Default, Object, Objects, Nothing
<1> DEFINE own == [type |-> Type, review_state |-> ReviewState, revisit_at |-> Optional(Str),
          payload |-> Omitted(Default(Object, "void"), {"void"})]
<1>3. SoundAll(own) BY <1>1, <1>2, WordsSound, WordIsSound DEF SoundAll, ReviewState
<1>4. MemoryEntry.fields = own ++ Statement ++ Weight ++ Period ++ Links ++ Written
  BY FieldsOf DEF MemoryEntry
<1> HIDE DEF own
<1> QED BY <1>3, <1>4, BothSound, PartsSound, PeriodSound

\* Fields that may be missing, null or of another type.
LEMMA OptionsSound ==
    /\ Sound(Optional(Str)) /\ Sound(Or(Str, "empty")) /\ Sound(Or(Str, "text"))
    /\ Sound(Default(StrList, "none")) /\ Sound(Default(Object, "void"))
    /\ Sound(Nullable(Str)) /\ Sound(Nullable(Aware)) /\ Sound(Nullable(Float))
    /\ Sound(Missing(Str, "empty")) /\ Sound(Missing(Str, "text")) /\ Sound(Missing(NonBlank, "text"))
    /\ Sound(Default(Float, "one")) /\ Sound(Default(Float, "half"))
    /\ Sound(ReadAs(Str, FieldValues \ Strings, "empty")) /\ Sound(ReadAs(Bool, FieldValues \ Bools, "false"))
    /\ Sound(ContextId)
<1>1. Direct(Str) /\ Str.accepts = Strings /\ Direct(StrList) /\ "none" \in StrList.accepts
      /\ Direct(Object) /\ Object.accepts = Objects
      /\ Direct(Aware) /\ Direct(NonBlank) /\ NonBlank.accepts = Strings \ Blanks
      /\ Direct(Bool) /\ Bool.accepts = Bools /\ Direct(Float) /\ Float.accepts = Numbers \ {"huge"}
  BY OnlyIsDirect, FloatIsDirect DEF Str, StrList, Object, Aware, NonBlank, Bool
<1>2. /\ Sound(Optional(Str)) /\ Sound(Or(Str, "empty")) /\ Sound(Or(Str, "text"))
      /\ Sound(Default(StrList, "none")) /\ Sound(Default(Object, "void"))
  BY <1>1, ReadAsIsSound DEF Optional, Or, Default, Nothing, Strings, Objects
<1>3. /\ Sound(Nullable(Str)) /\ Sound(Nullable(Aware)) /\ Sound(Nullable(Float))
      /\ Sound(Missing(Str, "empty")) /\ Sound(Missing(Str, "text")) /\ Sound(Missing(NonBlank, "text"))
      /\ Sound(Default(Float, "one")) /\ Sound(Default(Float, "half"))
  BY <1>1, ReadAsIsSound DEF Nullable, Missing, Default, Nothing, Strings, Blanks, Numbers, Ints
<1>4. Sound(ReadAs(Str, FieldValues \ Strings, "empty")) /\ Sound(ReadAs(Bool, FieldValues \ Bools, "false"))
  <2>1. FieldValues \ Strings # {} /\ FieldValues \ Bools # {} BY DEF FieldValues, Nothing, Strings, Bools
  <2>2. "empty" \in Strings /\ "false" \in Bools BY DEF Strings, Bools
  <2> QED BY <1>1, <2>1, <2>2, ReadAsIsSound
<1>5. Sound(ContextId) BY <1>1, OmittedIsSound DEF Missing, ContextId
<1> QED BY <1>2, <1>3, <1>4, <1>5

LEMMA MemoryCandidateSound == SoundAll(MemoryCandidate.fields)
<1> DEFINE own == [type |-> Type, action |-> Word({"create", "update", "merge", "delete"}),
          review_state |-> Word({"pending", "accepted", "rejected"}),
          reason |-> Or(Str, "empty"), reviewed_at |-> Optional(Str),
          target_entry_id |-> Optional(Str)]
<1>1. SoundAll(own) BY OptionsSound, WordsSound, WordIsSound DEF SoundAll
<1>2. MemoryCandidate.fields = own ++ Statement ++ Weight ++ Period ++ Links ++ Written
  BY FieldsOf DEF MemoryCandidate
<1> HIDE DEF own
<1> QED BY <1>1, <1>2, BothSound, PartsSound, PeriodSound

LEMMA ProfileItemSound == SoundAll(ProfileItem.fields)
<1> DEFINE own == [type |-> Type]
<1>1. SoundAll(own) BY OptionsSound, WordsSound, WordIsSound DEF SoundAll
<1>2. ProfileItem.fields = own ++ Statement ++ Weight ++ Period ++ Links ++ Written
  BY FieldsOf DEF ProfileItem
<1> HIDE DEF own
<1> QED BY <1>1, <1>2, BothSound, PartsSound, PeriodSound

LEMMA MemoryObjectSound == SoundAll(MemoryObject.fields)
<1>1. Sound(Omitted(Missing(Only(Objects \ {"titled"}), "void"), {"void"}))
  BY OmittedIsSound, OnlyIsDirect DEF Missing, Objects
<1>2. Sound(Only(EntryTypes)) BY OnlyIsDirect, DirectIsSound DEF EntryTypes
<1> DEFINE own == [type |-> Only(EntryTypes), review_state |-> ReviewState,
          revisit_at |-> Optional(Str), metadata |-> Object,
          payload |-> Omitted(Missing(Only(Objects \ {"titled"}), "void"), {"void"}),
          importance |-> Default(Float, "one"),
          temporal_note |-> ReadAs(Str, FieldValues \ Strings, "empty")]
<1>3. SoundAll(own) BY <1>1, <1>2, OptionsSound, WordsSound, WordIsSound DEF SoundAll, ReviewState
<1>4. MemoryObject.fields = own ++ Statement ++ Weight ++ Period ++ Links ++ Written
  BY FieldsOf DEF MemoryObject
<1> HIDE DEF own
<1> QED BY <1>3, <1>4, BothSound, PartsSound, PeriodSound

\* The other records of the database.
LEMMA SourceDocumentSound == SoundAll(SourceDocument.fields)
<1> DEFINE own == [title |-> Str, path |-> Str, kind |-> Word({"markdown", "text"}),
          origin |-> Or(Str, "text"), privacy |-> Privacy, tags |-> StrList,
          source_date |-> Optional(Str)]
<1>1. SoundAll(own) BY OptionsSound, WordsSound, WordIsSound DEF SoundAll
<1>2. SourceDocument.fields = own ++ Written BY FieldsOf DEF SourceDocument
<1> HIDE DEF own
<1> QED BY <1>1, <1>2, BothSound, PartsSound

LEMMA PersonaPromptSound == SoundAll(PersonaPrompt.fields)
<1> DEFINE own == [name |-> Str, prompt |-> Str,
          disabled |-> ReadAs(Bool, FieldValues \ Bools, "false")]
<1>1. SoundAll(own) BY OptionsSound, WordsSound DEF SoundAll
<1>2. PersonaPrompt.fields = own ++ Written BY FieldsOf DEF PersonaPrompt
<1> HIDE DEF own
<1> QED BY <1>1, <1>2, BothSound, PartsSound

\* Every form of the database has sound fields only.
LEMMA StoredFormsSound ==
    \A form0 \in {MemoryEvidence, MemoryObservation, SourceChunk, ThoughtTrace, TraceLink,
                  TrackedItem, ReasoningThread, ReasoningStep, IdeaCandidate, RelevanceScore,
                  ReasonOutputSection, ReasonOutputChunk} :
          SoundAll(form0.fields)
<1>1. SoundAll(MemoryEvidence.fields)
  BY FieldsOf, OptionsSound, WordsSound, WordIsSound, LooseFloatSound, CleanedSound
     DEF MemoryEvidence, SoundAll
<1>2. SoundAll(MemoryObservation.fields)
  BY FieldsOf, OnlyIsSound, OptionsSound, WordsSound, WordIsSound, LooseFloatSound, CleanedSound
     DEF MemoryObservation, SoundAll
<1>3. SoundAll(SourceChunk.fields)
  BY FieldsOf, OptionsSound, WordsSound, WordIsSound, LooseFloatSound, CleanedSound
     DEF SourceChunk, SoundAll
<1>4. SoundAll(ThoughtTrace.fields)
  BY FieldsOf, OptionsSound, WordsSound, WordIsSound, LooseFloatSound, CleanedSound
     DEF ThoughtTrace, SoundAll, TextList, TraceKinds
<1>5. SoundAll(TraceLink.fields)
  BY FieldsOf, OptionsSound, WordsSound, WordIsSound, LooseFloatSound, CleanedSound
     DEF TraceLink, SoundAll
<1>6. SoundAll(TrackedItem.fields)
  BY FieldsOf, OptionsSound, WordsSound, WordIsSound, LooseFloatSound, CleanedSound
     DEF TrackedItem, SoundAll
<1>7. SoundAll(ReasoningThread.fields)
  BY FieldsOf, OptionsSound, WordsSound, WordIsSound, LooseFloatSound, CleanedSound
     DEF ReasoningThread, SoundAll
<1>8. SoundAll(ReasoningStep.fields)
  BY FieldsOf, OptionsSound, WordsSound, WordIsSound, LooseFloatSound, CleanedSound
     DEF ReasoningStep, SoundAll
<1>9. SoundAll(IdeaCandidate.fields)
  BY FieldsOf, OptionsSound, WordsSound, WordIsSound, LooseFloatSound, CleanedSound
     DEF IdeaCandidate, SoundAll
<1>10. SoundAll(RelevanceScore.fields)
  BY FieldsOf, OptionsSound, WordsSound, WordIsSound, LooseFloatSound, CleanedSound
     DEF RelevanceScore, SoundAll
<1>11. SoundAll(ReasonOutputSection.fields)
  BY FieldsOf, OptionsSound, WordsSound, WordIsSound, LooseFloatSound, CleanedSound
     DEF ReasonOutputSection, SoundAll
<1>12. SoundAll(ReasonOutputChunk.fields)
  BY FieldsOf, OptionsSound, WordsSound, WordIsSound, LooseFloatSound, CleanedSound
     DEF ReasonOutputChunk, SoundAll
<1> QED BY <1>1, <1>2, <1>3, <1>4, <1>5, <1>6, <1>7, <1>8, <1>9, <1>10, <1>11, <1>12

\* A field that is not written when it is null.
LEMMA DirectUnset ==
    ASSUME NEW k, Direct(k), NEW type
    PROVE  Sound(Unset(k, type)) /\ Kept(Unset(k, type)) = (k.accepts \ Nothing) \cup {"null"}
BY TypedIsDirect, OmittedIsSound DEF Unset, Optional, Nothing

\* The kinds that messages and events are made of.
LEMMA PartsOfMessages ==
    /\ Sound(Frame) /\ Sound(Version) /\ Sound(Level) /\ Sound(LogId)
    /\ Sound(Typed(Context, Objects)) /\ Sound(Typed(Object, Objects))
    /\ Sound(Unset(NonBlank, Strings)) /\ Sound(Unset(Version, Ints))
    /\ Sound(Unset(Count, Ints \ {"negative"})) /\ Sound(Unset(Object, Objects))
    /\ Sound(Nullable(Word({"grounded", "inferred", "uncertain", "unsupported"})))
    /\ Sound(Omitted(Missing(Only({"formed"}), "null"), {"null"}))
    /\ Sound(Omitted(Missing(Only({"zero", "half", "one"}), "null"), {"null"}))
    /\ Sound(Missing(Only({"zero", "one", "int"}), "int")) /\ Sound(Missing(Only({"one", "int"}), "int"))
    /\ Sound(Typed(Missing(Word({"debug", "info", "warning", "error"}), "info"), Strings))
<1>1. Direct(Str) /\ Direct(NonBlank) /\ Direct(Count) /\ Direct(Object) /\ Object.accepts # {}
      /\ Direct(Version) /\ Direct(Context) /\ Context.accepts # {}
  BY OnlyIsDirect DEF Str, NonBlank, Count, Object, Version, Context, Objects
<1>2. Sound(Frame) /\ Sound(Version) BY OnlyIsSound, WordIsSound DEF Frame, Version
<1>3. Sound(Level)
  <2> DEFINE k == Word({"debug", "info", "warning", "error"})
  <2>1. Direct(k) /\ k.accepts # {} BY OnlyIsDirect DEF Word
  <2> HIDE DEF k
  <2>2. Level = Typed(k, FieldValues \ (Lists \cup Objects)) BY DEF Level, k
  <2> QED BY <2>1, <2>2, TypedIsDirect, DirectIsSound
<1>4. /\ Sound(LogId) /\ Sound(Unset(NonBlank, Strings)) /\ Sound(Unset(Version, Ints))
      /\ Sound(Unset(Count, Ints \ {"negative"})) /\ Sound(Unset(Object, Objects))
  BY <1>1, DirectUnset DEF LogId
<1>5. Sound(Typed(Context, Objects)) /\ Sound(Typed(Object, Objects))
  BY <1>1, TypedIsDirect, DirectIsSound
<1>6. Sound(Nullable(Word({"grounded", "inferred", "uncertain", "unsupported"})))
  BY OnlyIsDirect, ReadAsIsSound DEF Nullable, Word
<1>7. /\ Sound(Omitted(Missing(Only({"formed"}), "null"), {"null"}))
      /\ Sound(Omitted(Missing(Only({"zero", "half", "one"}), "null"), {"null"}))
  BY OnlyIsDirect, OmittedIsSound DEF Missing
<1>8. Sound(Missing(Only({"zero", "one", "int"}), "int")) /\ Sound(Missing(Only({"one", "int"}), "int"))
  <2>1. /\ Direct(Only({"zero", "one", "int"})) /\ "int" \in Only({"zero", "one", "int"}).accepts
        /\ Direct(Only({"one", "int"})) /\ "int" \in Only({"one", "int"}).accepts
    BY OnlyIsDirect
  <2> QED BY <2>1, ReadAsIsSound DEF Missing
<1>9. Sound(Typed(Missing(Word({"debug", "info", "warning", "error"}), "info"), Strings))
  <2>1. PICK k : k = Word({"debug", "info", "warning", "error"}) OBVIOUS
  <2>2. Direct(k) /\ "info" \in k.accepts BY <2>1, OnlyIsDirect DEF Word
  <2>3. PICK q : q = ReadAs(k, {"absent"}, "info") OBVIOUS
  <2>4. DOMAIN q = KindFields /\ q.omits = {} /\ q.accepts = k.accepts \cup {"absent"}
        /\ q.instead = Pairs({"absent"}, "info")
    BY <2>2, <2>3, ReadAsReads
  <2>5. PICK r : r = Typed(q, Strings) OBVIOUS
  <2>6. r.omits = {} /\ r.accepts = q.accepts /\ r.instead = q.instead
    BY <2>4, <2>5 DEF Typed, KindFields
  <2>7. /\ {"absent"} \subseteq r.accepts /\ r.omits \subseteq {"info"} /\ {"absent"} # {}
        /\ r.instead = Pairs({"absent"}, "info")
        /\ IF r.omits = {} THEN "info" \in r.accepts ELSE "absent" \in {"absent"}
    BY <2>2, <2>4, <2>6
  <2>8. PICK M : M = {"absent"} OBVIOUS
  <2>9. /\ M \subseteq r.accepts /\ r.omits \subseteq {"info"} /\ M # {}
        /\ r.instead = Pairs(M, "info")
        /\ IF r.omits = {} THEN "info" \in r.accepts ELSE "absent" \in M
    BY <2>7, <2>8
  <2>10. Sound(r) BY <2>9, OneIsSound
  <2> QED BY <2>1, <2>3, <2>5, <2>10 DEF Missing
<1> QED BY <1>2, <1>3, <1>4, <1>5, <1>6, <1>7, <1>8, <1>9

\* Every form of the messages has sound fields only.
LEMMA MessageFormsSound ==
    \A form0 \in {DaemonRequest, DaemonResponse, EmptyPayload, DaemonIdentityPayload,
                  ChatRequestPayload, SchedulerHealthPayload, ChatResponsePayload,
                  ChatToolEffectPayload, ActivityOpenRequestPayload, ActivityNextRequestPayload,
                  ActivitySubscriptionPayload, ActivityEventsResponsePayload, ApprovalRequest,
                  ApprovalResolution, RuntimeContext, RuntimeEnvelope, LogEvent,
                  RuntimeLogEventPayload, LLMEndpointState} :
          SoundAll(form0.fields)
<1>1. SoundAll(DaemonRequest.fields)
  BY FieldsOf, OptionsSound, WordsSound, WordIsSound, OnlyIsSound, PartsOfMessages
     DEF DaemonRequest, SoundAll
<1>2. SoundAll(DaemonResponse.fields)
  BY FieldsOf, OptionsSound, WordsSound, WordIsSound, OnlyIsSound, PartsOfMessages
     DEF DaemonResponse, SoundAll, ContextId
<1>3. SoundAll(EmptyPayload.fields)
  BY FieldsOf, OptionsSound, WordsSound, WordIsSound, OnlyIsSound, PartsOfMessages
     DEF EmptyPayload, SoundAll
<1>4. SoundAll(DaemonIdentityPayload.fields)
  BY FieldsOf, OptionsSound, WordsSound, WordIsSound, OnlyIsSound, PartsOfMessages
     DEF DaemonIdentityPayload, SoundAll
<1>5. SoundAll(ChatRequestPayload.fields)
  BY FieldsOf, OptionsSound, WordsSound, WordIsSound, OnlyIsSound, PartsOfMessages
     DEF ChatRequestPayload, SoundAll, ContextId
<1>6. SoundAll(SchedulerHealthPayload.fields)
  BY FieldsOf, OptionsSound, WordsSound, WordIsSound, OnlyIsSound, PartsOfMessages
     DEF SchedulerHealthPayload, SoundAll, Ints
<1>7. SoundAll(ChatResponsePayload.fields)
  BY FieldsOf, OptionsSound, WordsSound, WordIsSound, OnlyIsSound, PartsOfMessages
     DEF ChatResponsePayload, SoundAll
<1>8. SoundAll(ChatToolEffectPayload.fields)
  BY FieldsOf, OptionsSound, WordsSound, WordIsSound, OnlyIsSound, PartsOfMessages
     DEF ChatToolEffectPayload, SoundAll
<1>9. SoundAll(ActivityOpenRequestPayload.fields)
  BY FieldsOf, OptionsSound, WordsSound, WordIsSound, OnlyIsSound, PartsOfMessages
     DEF ActivityOpenRequestPayload, SoundAll
<1>10. SoundAll(ActivityNextRequestPayload.fields)
  BY FieldsOf, OptionsSound, WordsSound, WordIsSound, OnlyIsSound, PartsOfMessages
     DEF ActivityNextRequestPayload, SoundAll
<1>11. SoundAll(ActivitySubscriptionPayload.fields)
  BY FieldsOf, OptionsSound, WordsSound, WordIsSound, OnlyIsSound, PartsOfMessages
     DEF ActivitySubscriptionPayload, SoundAll
<1>12. SoundAll(ActivityEventsResponsePayload.fields)
  BY FieldsOf, OptionsSound, WordsSound, WordIsSound, OnlyIsSound, PartsOfMessages
     DEF ActivityEventsResponsePayload, SoundAll
<1>13. SoundAll(ApprovalRequest.fields)
  BY FieldsOf, OptionsSound, WordsSound, WordIsSound, OnlyIsSound, PartsOfMessages
     DEF ApprovalRequest, SoundAll, Risk
<1>14. SoundAll(ApprovalResolution.fields)
  BY FieldsOf, OptionsSound, WordsSound, WordIsSound, OnlyIsSound, PartsOfMessages
     DEF ApprovalResolution, SoundAll
<1>15. SoundAll(RuntimeContext.fields)
  BY FieldsOf, OptionsSound, WordsSound, WordIsSound, OnlyIsSound, PartsOfMessages
     DEF RuntimeContext, SoundAll
<1>16. SoundAll(RuntimeEnvelope.fields)
  BY FieldsOf, OptionsSound, WordsSound, WordIsSound, OnlyIsSound, PartsOfMessages
     DEF RuntimeEnvelope, SoundAll
<1>17. SoundAll(LogEvent.fields)
  BY FieldsOf, OptionsSound, WordsSound, WordIsSound, OnlyIsSound, PartsOfMessages
     DEF LogEvent, SoundAll
<1>18. SoundAll(RuntimeLogEventPayload.fields)
  BY FieldsOf, OptionsSound, WordsSound, WordIsSound, OnlyIsSound, PartsOfMessages
     DEF RuntimeLogEventPayload, SoundAll
<1>19. SoundAll(LLMEndpointState.fields)
  BY FieldsOf, OptionsSound, WordsSound, WordIsSound, OnlyIsSound, PartsOfMessages
     DEF LLMEndpointState, SoundAll
<1> QED BY <1>1, <1>2, <1>3, <1>4, <1>5, <1>6, <1>7, <1>8, <1>9, <1>10, <1>11, <1>12,
           <1>13, <1>14, <1>15, <1>16, <1>17, <1>18, <1>19

\* Every field of every form is written so that it is read as it was.
LEMMA FormsSound == \A name \in DOMAIN Forms : SoundAll(Forms[name].fields)
BY EntrySound, MemoryCandidateSound, ProfileItemSound, MemoryObjectSound, SourceDocumentSound,
   PersonaPromptSound, StoredFormsSound, MessageFormsSound
   DEF Forms

-----------------------------------------------------------------------------
(* Records: the inductive invariant *)

\* What the program holds is a proper record of its form: it has its fields, each with a
\* value the field keeps, and obeys the rule for several fields, if the form has one.
Proper(name, values) ==
    /\ DOMAIN values = Fields(Forms[name])
    /\ values = [f \in DOMAIN values |-> values[f]]
    /\ \A f \in Fields(Forms[name]) : values[f] \in Kept(Forms[name].fields[f])
    /\ Together(name, values)

\* The inductive invariant: what is held or stored is proper, and what is stored is encoded of it.
RecordInv ==
    /\ form \in Names
    /\ place \in {"held", "stored"} => Proper(form, held)
    /\ place = "stored" => wire = Encode(Forms[form], held) /\ more = FALSE

\* A proper record is accepted when it is read, and is what it was (to_wire, from_wire).
LEMMA EncodedIsRead ==
    ASSUME NEW name \in DOMAIN Forms, NEW values, Proper(name, values),
           NEW w, w = Encode(Forms[name], values)
    PROVE  RefusedWith(name, w, FALSE) = {} /\ Values0(Forms[name], w) = values
<1>1. PICK F : F = Forms[name] OBVIOUS
<1>2. ASSUME NEW f \in Fields(F)
      PROVE  w[f] \in Accepts(F.fields[f]) /\ Reading(F.fields[f], w[f]) = values[f]
  <2>1. w[f] = IF values[f] \in F.fields[f].omits THEN "absent" ELSE values[f] BY <1>1 DEF Encode
  <2>2. Sound(F.fields[f]) BY <1>1, FormsSound DEF SoundAll, Fields
  <2>3. values[f] \in Kept(F.fields[f]) BY <1>1 DEF Proper
  <2> QED BY <2>1, <2>2, <2>3 DEF Sound
<1>3. Wrong(F, w) = {} BY <1>2 DEF Wrong
<1>4. Values0(F, w) = [f \in Fields(F) |-> values[f]] BY <1>2 DEF Values0
<1>5. [f \in Fields(F) |-> values[f]] = values
  <2>1. DOMAIN values = Fields(F) /\ values = [f \in DOMAIN values |-> values[f]] BY <1>1 DEF Proper
  <2> QED BY <2>1
<1>6. Together(name, values) BY DEF Proper
<1>7. ASSUME NEW e \in Refusals(F, w) PROVE FALSE
  <2>1. PICK f \in Wrong(F, w) : TRUE BY DEF Refusals
  <2> QED BY <1>3, <2>1
<1> QED BY <1>1, <1>3, <1>4, <1>5, <1>6, <1>7 DEF RefusedWith

\* What is stored is what was encoded of a proper record.
LEMMA StoredFromInv == NamesAssumption /\ RecordInv => StoredIsRead
BY EncodedIsRead DEF RecordInv, StoredIsRead, NamesAssumption

\* The records a behaviour starts with are proper, those with rules of their own too.
LEMMA OrdinaryIsKept == ASSUME NEW kind, Kept(kind) # {} PROVE Ordinary(kind) \in Kept(kind)
BY DEF Ordinary

LEMMA OrdinariesProper ==
    ASSUME NEW name \in DOMAIN Forms, NEW values \in Ordinaries(name)
    PROVE  Proper(name, values)
<1> DEFINE F == Forms[name]
           base == [f \in Fields(F) |-> Ordinary(F.fields[f])]
<1>1. \A f \in Fields(F) : base[f] \in Kept(F.fields[f])
  BY FormsSound, OrdinaryIsKept DEF SoundAll, Sound, Fields
<1>2. ASSUME NEW own, DOMAIN own \subseteq Fields(F), \A f \in DOMAIN own : own[f] \in Kept(F.fields[f])
      PROVE  /\ DOMAIN (own ++ base) = Fields(F)
             /\ \A f \in Fields(F) : (own ++ base)[f] \in Kept(F.fields[f])
             /\ \A f \in DOMAIN own : (own ++ base)[f] = own[f]
             /\ own ++ base = [f \in DOMAIN (own ++ base) |-> (own ++ base)[f]]
  BY <1>1, <1>2 DEF ++
<1>3. CASE name = "DaemonResponse"
  <2>1. F = DaemonResponse BY <1>3 DEF Forms
  <2>2. {"status", "error"} \subseteq Fields(F) /\ F.fields["status"] = Word({"ok", "error"})
        /\ F.fields["error"] = Omitted(Missing(NonBlank, "null"), {"null"})
    BY <2>1, FieldsOf DEF DaemonResponse
  <2>3. Kept(F.fields["status"]) = {"ok", "error"} BY <2>2, WordIsSound
  <2>4. {"null", "text"} \subseteq Kept(F.fields["error"])
    BY <2>2, OmittedIsSound, OnlyIsDirect DEF NonBlank, Missing, Strings, Blanks
  <2>5. PICK own \in {[status |-> "ok", error |-> "null"], [status |-> "error", error |-> "text"]} :
           values = own ++ base
    BY <1>3 DEF Ordinaries
  <2> HIDE DEF base, F
  <2>6. DOMAIN own = {"status", "error"} /\ own["status"] \in {"ok", "error"} /\ own["error"] \in {"null", "text"}
        /\ (own["status"] = "ok" <=> own["error"] = "null")
    BY <2>5
  <2>7. DOMAIN own \subseteq Fields(F) /\ \A f \in DOMAIN own : own[f] \in Kept(F.fields[f])
    BY <2>2, <2>3, <2>4, <2>6
  <2>8. /\ DOMAIN values = Fields(F) /\ \A f \in Fields(F) : values[f] \in Kept(F.fields[f])
        /\ values = [f \in DOMAIN values |-> values[f]]
        /\ values["status"] = own["status"] /\ values["error"] = own["error"]
    BY <1>2, <2>5, <2>6, <2>7
  <2>9. Together(name, values) BY <1>3, <2>6, <2>8 DEF Together, AnswerOrError
  <2> QED BY <2>8, <2>9 DEF Proper, F
<1>4. CASE name = "ApprovalResolution"
  <2>1. F = ApprovalResolution BY <1>4 DEF Forms
  <2>2. {"approved", "approver", "input_kind"} \subseteq Fields(F) /\ F.fields["approved"] = Bool
        /\ F.fields["approver"] = Nullable(Str)
        /\ F.fields["input_kind"] = Word({"affirmative", "declined", "eof", "interrupt", "unavailable"})
    BY <2>1, FieldsOf DEF ApprovalResolution
  <2>3. {"affirmative", "declined"} \subseteq Kept(F.fields["input_kind"]) BY <2>2, WordIsSound
  <2>4. {"null", "text"} \subseteq Kept(F.fields["approver"])
    BY <2>2, ReadAsIsSound, OnlyIsDirect DEF Str, Nullable, Strings
  <2>a. {"true", "false"} \subseteq Kept(F.fields["approved"]) BY <2>2, OnlyIsSound DEF Bool, Bools
  <2>5. PICK own \in {[approved |-> "true", input_kind |-> "affirmative", approver |-> "text"],
                      [approved |-> "false", input_kind |-> "declined", approver |-> "null"]} :
           values = own ++ base
    BY <1>4 DEF Ordinaries
  <2> HIDE DEF base, F
  <2>6. /\ DOMAIN own = {"approved", "approver", "input_kind"} /\ own["approved"] \in {"true", "false"}
        /\ own["approver"] \in {"null", "text"} /\ own["input_kind"] \in {"affirmative", "declined"}
        /\ (own["approved"] = "true" <=> own["input_kind"] = "affirmative")
        /\ (own["approved"] = "true" => own["approver"] = "text")
    BY <2>5
  <2>7. DOMAIN own \subseteq Fields(F) /\ \A f \in DOMAIN own : own[f] \in Kept(F.fields[f])
    BY <2>2, <2>3, <2>4, <2>a, <2>6
  <2>8. /\ DOMAIN values = Fields(F) /\ \A f \in Fields(F) : values[f] \in Kept(F.fields[f])
        /\ values = [f \in DOMAIN values |-> values[f]]
        /\ \A f \in {"approved", "approver", "input_kind"} : values[f] = own[f]
    BY <1>2, <2>5, <2>6, <2>7
  <2>9. Together(name, values) BY <1>4, <2>6, <2>8 DEF Together, Decided, Blanks
  <2> QED BY <2>8, <2>9 DEF Proper, F
<1>5. CASE name = "LogEvent"
  <2>1. F = LogEvent BY <1>5 DEF Forms
  <2>2. {"event", "event_id", "schema_version"} \subseteq Fields(F)
        /\ F.fields["event"] = Only(Strings \cup {"named"})
        /\ F.fields["event_id"] = Unset(NonBlank, Strings)
        /\ F.fields["schema_version"] = Unset(Version, Ints)
    BY <2>1, FieldsOf DEF LogEvent
  <2>3. {"named", "text"} \subseteq Kept(F.fields["event"]) BY <2>2, OnlyIsSound DEF Strings
  <2>4. {"null", "text"} \subseteq Kept(F.fields["event_id"])
    BY <2>2, DirectUnset, OnlyIsDirect DEF NonBlank, Strings, Blanks, Nothing
  <2>a. {"null", "one"} \subseteq Kept(F.fields["schema_version"])
    BY <2>2, DirectUnset, OnlyIsDirect DEF Version, Nothing
  <2>5. PICK own \in {[event |-> "named", event_id |-> "text", schema_version |-> "one"],
                      [event |-> "text", event_id |-> "null", schema_version |-> "null"]} :
           values = own ++ base
    BY <1>5 DEF Ordinaries
  <2> HIDE DEF base, F
  <2>6. /\ DOMAIN own = {"event", "event_id", "schema_version"} /\ own["event"] \in {"named", "text"}
        /\ own["event_id"] \in {"null", "text"} /\ own["schema_version"] \in {"null", "one"}
        /\ (own["event_id"] = "null" <=> own["schema_version"] = "null")
        /\ (own["schema_version"] # "null" => own["event"] = "named")
    BY <2>5
  <2>7. DOMAIN own \subseteq Fields(F) /\ \A f \in DOMAIN own : own[f] \in Kept(F.fields[f])
    BY <2>2, <2>3, <2>4, <2>a, <2>6
  <2>8. /\ DOMAIN values = Fields(F) /\ \A f \in Fields(F) : values[f] \in Kept(F.fields[f])
        /\ values = [f \in DOMAIN values |-> values[f]]
        /\ \A f \in {"event", "event_id", "schema_version"} : values[f] = own[f]
    BY <1>2, <2>5, <2>6, <2>7
  <2>9. Together(name, values) BY <1>5, <2>6, <2>8 DEF Together, Identified
  <2> QED BY <2>8, <2>9 DEF Proper, F
<1>6. CASE name = "MemoryEntry"
  <2>a. F = MemoryEntry BY <1>6 DEF Forms
  <2> HIDE DEF F
  <2>1. "type" \in Fields(F) /\ F.fields["type"] = Type
    <3> DEFINE own == [type |-> Type, review_state |-> ReviewState, revisit_at |-> Optional(Str),
                       payload |-> Omitted(Default(Object, "void"), {"void"})]
    <3>1. F.fields = own ++ Statement ++ Weight ++ Period ++ Links ++ Written
      BY <2>a, FieldsOf DEF MemoryEntry
    <3>2. "type" \in DOMAIN own /\ own["type"] = Type OBVIOUS
    <3> HIDE DEF own
    <3>3. "type" \in DOMAIN F.fields /\ F.fields["type"] = own["type"] BY <3>1, <3>2 DEF ++
    <3> QED BY <3>2, <3>3 DEF Fields
  <2>2. {"belief", "persona_instruction"} \subseteq Kept(F.fields["type"])
    BY <2>1, OnlyIsSound DEF Type, EntryTypes
  <2>b. PICK t \in {"belief", "persona_instruction"} : values = [type |-> t] ++ base
    BY <1>6 DEF Ordinaries, F
  <2>3. PICK own : own = [type |-> t] /\ values = own ++ base BY <2>b
  <2> HIDE DEF base, F
  <2>4. DOMAIN own = {"type"} /\ own["type"] \in {"belief", "persona_instruction"} BY <2>3
  <2>5. DOMAIN own \subseteq Fields(F) /\ \A f \in DOMAIN own : own[f] \in Kept(F.fields[f])
    BY <2>1, <2>2, <2>4
  <2>6. /\ DOMAIN values = Fields(F) /\ values = [f \in DOMAIN values |-> values[f]]
        /\ \A f \in Fields(F) : values[f] \in Kept(F.fields[f])
    BY <1>2, <2>3, <2>5
  <2>7. Together(name, values) BY <1>6 DEF Together
  <2> QED BY <2>6, <2>7 DEF Proper, F
<1>7. CASE name \notin {"DaemonResponse", "ApprovalResolution", "LogEvent", "MemoryEntry"}
  <2>1. values = base BY <1>7 DEF Ordinaries
  <2>2. Together(name, values) BY <1>7 DEF Together
  <2> QED BY <1>1, <2>1, <2>2 DEF Proper
<1> QED BY <1>3, <1>4, <1>5, <1>6, <1>7

-----------------------------------------------------------------------------
(* Records: one made of another *)

\* The fields that all memories have.
Common == Statement ++ Weight ++ Period ++ Links ++ Written

\* The fields that all memories have.
LEMMA CommonShape ==
    /\ DOMAIN Common =
         {"title", "body", "tags", "source_refs", "confidence", "importance", "privacy", "observed_at",
          "valid_from", "valid_until", "temporal_note", "supersedes", "related_memory_ids", "relations",
          "evidence", "created_at", "updated_at"}
    /\ Common["title"] = Str /\ Common["source_refs"] = StrList /\ Common["tags"] = StrList
    /\ Common["importance"] = Default(Float, "half") /\ Common["temporal_note"] = Or(Str, "empty")
    /\ Common["created_at"] = Str /\ Common["updated_at"] = Str
BY DEF Common, Statement, Weight, Period, Links, NoLegacyLinks, Written, ++

\* The fields of a form of a memory: its own, and those that all have.
Wide(own) == own ++ Statement ++ Weight ++ Period ++ Links ++ Written

LEMMA WithCommon ==
    ASSUME NEW own
    PROVE  /\ DOMAIN Wide(own) = DOMAIN own \cup DOMAIN Common
           /\ \A f \in DOMAIN Wide(own) : Wide(own)[f] = IF f \in DOMAIN own THEN own[f] ELSE Common[f]
<1>1. (own ++ Statement) ++ Weight = own ++ (Statement ++ Weight) BY BesidesAssociates
<1>2. (own ++ (Statement ++ Weight)) ++ Period = own ++ (Statement ++ Weight ++ Period)
  BY BesidesAssociates
<1>3. (own ++ (Statement ++ Weight ++ Period)) ++ Links = own ++ (Statement ++ Weight ++ Period ++ Links)
  BY BesidesAssociates
<1>4. (own ++ (Statement ++ Weight ++ Period ++ Links)) ++ Written = own ++ Common
  BY BesidesAssociates DEF Common
<1>5. Wide(own) = own ++ Common BY <1>1, <1>2, <1>3, <1>4 DEF Wide
<1> QED BY <1>5 DEF ++

\* The fields of the four forms, and the kinds of those that conversions set.
LEMMA EntryShape ==
    /\ Fields(MemoryEntry) = {"type", "review_state", "revisit_at", "payload"} \cup DOMAIN Common
    /\ MemoryEntry.fields["type"] = Type /\ MemoryEntry.fields["review_state"] = ReviewState
    /\ MemoryEntry.fields["revisit_at"] = Optional(Str)
    /\ MemoryEntry.fields["payload"] = Omitted(Default(Object, "void"), {"void"})
    /\ \A f \in DOMAIN Common : MemoryEntry.fields[f] = Common[f]
<1>1. PICK own : own = [type |-> Type, review_state |-> ReviewState, revisit_at |-> Optional(Str),
                        payload |-> Omitted(Default(Object, "void"), {"void"})]
  OBVIOUS
<1>2. /\ DOMAIN own = {"type", "review_state", "revisit_at", "payload"}
      /\ own["type"] = Type /\ own["review_state"] = ReviewState /\ own["revisit_at"] = Optional(Str)
      /\ own["payload"] = Omitted(Default(Object, "void"), {"void"})
  BY <1>1
<1>3. MemoryEntry.fields = own ++ Statement ++ Weight ++ Period ++ Links ++ Written
  BY <1>1, FieldsOf DEF MemoryEntry
<1>4. DOMAIN own \cap DOMAIN Common = {} BY <1>2, CommonShape
<1>5. PICK fields : fields = MemoryEntry.fields OBVIOUS
<1>6. fields = Wide(own) BY <1>3, <1>5 DEF Wide
<1>7. /\ DOMAIN fields = DOMAIN own \cup DOMAIN Common
      /\ \A f \in DOMAIN fields : fields[f] = IF f \in DOMAIN own THEN own[f] ELSE Common[f]
  BY <1>6, WithCommon
<1> QED BY <1>2, <1>4, <1>5, <1>7 DEF Fields

LEMMA CandidateShape ==
    /\ Fields(MemoryCandidate) =
         {"type", "action", "review_state", "reason", "reviewed_at", "target_entry_id"} \cup DOMAIN Common
    /\ MemoryCandidate.fields["type"] = Type /\ MemoryCandidate.fields["reviewed_at"] = Optional(Str)
    /\ MemoryCandidate.fields["review_state"] = Word({"pending", "accepted", "rejected"})
    /\ \A f \in DOMAIN Common : MemoryCandidate.fields[f] = Common[f]
<1>1. PICK own : own = [type |-> Type, action |-> Word({"create", "update", "merge", "delete"}),
          review_state |-> Word({"pending", "accepted", "rejected"}),
          reason |-> Or(Str, "empty"), reviewed_at |-> Optional(Str),
          target_entry_id |-> Optional(Str)]
  OBVIOUS
<1>2. /\ DOMAIN own = {"type", "action", "review_state", "reason", "reviewed_at", "target_entry_id"}
      /\ own["type"] = Type /\ own["review_state"] = Word({"pending", "accepted", "rejected"})
      /\ own["reviewed_at"] = Optional(Str)
  BY <1>1
<1>3. MemoryCandidate.fields = own ++ Statement ++ Weight ++ Period ++ Links ++ Written
  BY <1>1, FieldsOf DEF MemoryCandidate
<1>4. DOMAIN own \cap DOMAIN Common = {} BY <1>2, CommonShape
<1>5. PICK fields : fields = MemoryCandidate.fields OBVIOUS
<1>6. fields = Wide(own) BY <1>3, <1>5 DEF Wide
<1>7. /\ DOMAIN fields = DOMAIN own \cup DOMAIN Common
      /\ \A f \in DOMAIN fields : fields[f] = IF f \in DOMAIN own THEN own[f] ELSE Common[f]
  BY <1>6, WithCommon
<1> QED BY <1>2, <1>4, <1>5, <1>7 DEF Fields

LEMMA ItemShape ==
    /\ Fields(ProfileItem) = {"type"} \cup DOMAIN Common
    /\ ProfileItem.fields["type"] = Type
    /\ \A f \in DOMAIN Common : ProfileItem.fields[f] = Common[f]
<1>1. PICK own : own = [type |-> Type] OBVIOUS
<1>2. DOMAIN own = {"type"} /\ own["type"] = Type BY <1>1
<1>3. ProfileItem.fields = own ++ Statement ++ Weight ++ Period ++ Links ++ Written
  BY <1>1, FieldsOf DEF ProfileItem
<1>4. DOMAIN own \cap DOMAIN Common = {} BY <1>2, CommonShape
<1>5. PICK fields : fields = ProfileItem.fields OBVIOUS
<1>6. fields = Wide(own) BY <1>3, <1>5 DEF Wide
<1>7. /\ DOMAIN fields = DOMAIN own \cup DOMAIN Common
      /\ \A f \in DOMAIN fields : fields[f] = IF f \in DOMAIN own THEN own[f] ELSE Common[f]
  BY <1>6, WithCommon
<1> QED BY <1>2, <1>4, <1>5, <1>7 DEF Fields

LEMMA ObjectShape ==
    /\ Fields(MemoryObject) = {"type", "review_state", "revisit_at", "metadata", "payload"} \cup DOMAIN Common
    /\ MemoryObject.fields["type"] = Only(EntryTypes)
    /\ MemoryObject.fields["review_state"] = ReviewState
    /\ MemoryObject.fields["revisit_at"] = Optional(Str) /\ MemoryObject.fields["metadata"] = Object
    /\ MemoryObject.fields["payload"] =
          Omitted(Missing(Only(Objects \ {"titled"}), "void"), {"void"})
    /\ MemoryObject.fields["importance"] = Default(Float, "one")
    /\ MemoryObject.fields["temporal_note"] = ReadAs(Str, FieldValues \ Strings, "empty")
    /\ \A f \in DOMAIN Common \ {"importance", "temporal_note"} : MemoryObject.fields[f] = Common[f]
<1>1. PICK own : own = [type |-> Only(EntryTypes), review_state |-> ReviewState,
          revisit_at |-> Optional(Str), metadata |-> Object,
          payload |-> Omitted(Missing(Only(Objects \ {"titled"}), "void"), {"void"}),
          importance |-> Default(Float, "one"),
          temporal_note |-> ReadAs(Str, FieldValues \ Strings, "empty")]
  OBVIOUS
<1>2. /\ DOMAIN own = {"type", "review_state", "revisit_at", "metadata", "payload", "importance", "temporal_note"}
      /\ own["type"] = Only(EntryTypes) /\ own["review_state"] = ReviewState
      /\ own["revisit_at"] = Optional(Str) /\ own["metadata"] = Object
      /\ own["payload"] = Omitted(Missing(Only(Objects \ {"titled"}), "void"), {"void"})
      /\ own["importance"] = Default(Float, "one")
      /\ own["temporal_note"] = ReadAs(Str, FieldValues \ Strings, "empty")
  BY <1>1
<1>3. MemoryObject.fields = own ++ Statement ++ Weight ++ Period ++ Links ++ Written
  BY <1>1, FieldsOf DEF MemoryObject
<1>4. DOMAIN own \cap DOMAIN Common = {"importance", "temporal_note"} BY <1>2, CommonShape
<1>5. PICK fields : fields = MemoryObject.fields OBVIOUS
<1>6. fields = Wide(own) BY <1>3, <1>5 DEF Wide
<1>7. /\ DOMAIN fields = DOMAIN own \cup DOMAIN Common
      /\ \A f \in DOMAIN fields : fields[f] = IF f \in DOMAIN own THEN own[f] ELSE Common[f]
  BY <1>6, WithCommon
<1> QED BY <1>2, <1>4, <1>5, <1>7 DEF Fields

\* What is kept of the fields that the two forms of an entry have.
LEMMA KeptOf ==
    /\ Kept(Str) = Strings /\ Kept(StrList) = {"none", "strings", "twice", "blanks"}
    /\ Kept(Type) = Strings \cup EntryTypes /\ Kept(Only(EntryTypes)) = EntryTypes
    /\ Kept(ReviewState) = {"draft", "reviewed", "rejected", "quarantined", "archived"}
    /\ Kept(Optional(Str)) = Strings \cup {"null"}
    /\ Kept(Or(Str, "empty")) = Strings /\ Kept(ReadAs(Str, FieldValues \ Strings, "empty")) = Strings
    /\ Kept(Object) = Objects /\ Kept(Omitted(Default(Object, "void"), {"void"})) = Objects
    /\ Kept(Omitted(Missing(Only(Objects \ {"titled"}), "void"), {"void"})) = Objects \ {"titled"}
    /\ Kept(Default(Float, "half")) = Numbers \ {"huge"} /\ Kept(Default(Float, "one")) = Numbers \ {"huge"}
<1>1. /\ Direct(Str) /\ Str.accepts = Strings /\ Direct(Object) /\ Object.accepts = Objects
      /\ Direct(Float) /\ Float.accepts = Numbers \ {"huge"}
      /\ Direct(Only(Objects \ {"titled"})) /\ Only(Objects \ {"titled"}).accepts = Objects \ {"titled"}
  BY OnlyIsDirect, FloatIsDirect DEF Str, Object
<1>2. /\ Strings \cap Nothing = {} /\ "empty" \in Strings /\ "half" \in Numbers /\ "one" \in Numbers
      /\ "void" \in Objects /\ Objects \cap Nothing = {} /\ Numbers \cap Nothing = {} /\ Nothing # {}
      /\ FieldValues \ Strings # {} /\ EntryTypes # {}
  BY DEF Strings, Nothing, Numbers, Ints, Objects, FieldValues, EntryTypes
<1>3. /\ Kept(Str) = Strings /\ Kept(StrList) = {"none", "strings", "twice", "blanks"}
      /\ Kept(Only(EntryTypes)) = EntryTypes /\ Kept(Object) = Objects
  BY <1>2, OnlyIsSound DEF Str, StrList, Object
<1>4. Kept(Type) = Strings \cup EntryTypes BY <1>2, OnlyIsSound DEF Type
<1>5. Kept(ReviewState) = {"draft", "reviewed", "rejected", "quarantined", "archived"}
  BY WordIsSound DEF ReviewState
<1>6. Kept(Optional(Str)) = Strings \cup {"null"}
  <2>1. "null" \in Nothing BY DEF Nothing
  <2>2. Kept(ReadAs(Str, Nothing, "null")) = ((Strings \cup Nothing) \ Nothing) \cup {"null"}
    BY <1>1, <1>2, <2>1, ReadAsIsSound
  <2> QED BY <1>2, <2>2 DEF Optional
<1>7. Kept(Or(Str, "empty")) = Strings
  <2>1. PICK M : M = Nothing \cup {"empty"} OBVIOUS
  <2>2. Kept(ReadAs(Str, M, "empty")) = ((Strings \cup M) \ M) \cup {"empty"}
    BY <1>1, <1>2, <2>1, ReadAsIsSound
  <2> QED BY <1>2, <2>1, <2>2 DEF Or
<1>8. Kept(ReadAs(Str, FieldValues \ Strings, "empty")) = Strings
  <2>1. PICK M : M = FieldValues \ Strings OBVIOUS
  <2>2. Kept(ReadAs(Str, M, "empty")) = ((Strings \cup M) \ M) \cup {"empty"}
    BY <1>1, <1>2, <2>1, ReadAsIsSound
  <2> QED BY <1>2, <2>1, <2>2
<1>9. Kept(Omitted(Default(Object, "void"), {"void"})) = Objects
  <2>1. "absent" \in Nothing BY DEF Nothing
  <2>2. Kept(Omitted(ReadAs(Object, Nothing, "void"), {"void"})) = ((Objects \cup Nothing) \ Nothing) \cup {"void"}
    BY <1>1, <2>1, OmittedIsSound
  <2> QED BY <1>2, <2>2 DEF Default
<1>10. Kept(Omitted(Missing(Only(Objects \ {"titled"}), "void"), {"void"})) = Objects \ {"titled"}
  <2>1. PICK k : k = Only(Objects \ {"titled"}) OBVIOUS
  <2>2. Kept(Omitted(ReadAs(k, {"absent"}, "void"), {"void"})) =
           ((k.accepts \cup {"absent"}) \ {"absent"}) \cup {"void"}
    BY <1>1, <2>1, OmittedIsSound
  <2>3. "void" \in Objects \ {"titled"} /\ "absent" \notin Objects BY DEF Objects
  <2> QED BY <1>1, <2>1, <2>2, <2>3 DEF Missing
<1>11. Kept(Default(Float, "half")) = Numbers \ {"huge"} /\ Kept(Default(Float, "one")) = Numbers \ {"huge"}
  <2>1. ASSUME NEW w \in {"half", "one"} PROVE Kept(Default(Float, w)) = Numbers \ {"huge"}
    <3>1. w \in Numbers \ {"huge"} BY DEF Numbers, Ints
    <3>2. Kept(ReadAs(Float, Nothing, w)) = (((Numbers \ {"huge"}) \cup Nothing) \ Nothing) \cup {w}
      BY <1>1, <1>2, <3>1, ReadAsIsSound
    <3> QED BY <1>2, <3>1, <3>2 DEF Default
  <2> QED BY <2>1
<1> QED BY <1>3, <1>4, <1>5, <1>6, <1>7, <1>8, <1>9, <1>10, <1>11

\* The forms of a memory.
Memories == {"MemoryEntry", "MemoryCandidate", "ProfileItem", "MemoryObject"}

\* The forms that are made of each other have no rule for several fields.
LEMMA MemoryForms ==
    /\ Memories \subseteq DOMAIN Forms
    /\ Forms["MemoryEntry"] = MemoryEntry /\ Forms["MemoryCandidate"] = MemoryCandidate
    /\ Forms["ProfileItem"] = ProfileItem /\ Forms["MemoryObject"] = MemoryObject
    /\ \A name \in Memories : \A values : Together(name, values)
<1>1. /\ Memories \subseteq DOMAIN Forms
      /\ Forms["MemoryEntry"] = MemoryEntry /\ Forms["MemoryCandidate"] = MemoryCandidate
      /\ Forms["ProfileItem"] = ProfileItem /\ Forms["MemoryObject"] = MemoryObject
  BY DEF Forms, Memories
<1>2. \A name \in Memories : \A values : Together(name, values) BY DEF Together, Memories
<1> QED BY <1>1, <1>2

\* An accepted candidate makes a proper entry, and a proper item of the profile.
LEMMA ToEntryProper ==
    ASSUME NEW values, Proper("MemoryCandidate", values), NEW state \in {"draft", "reviewed"}
    PROVE  Proper("MemoryEntry", ToEntry(values, state))
<1>1. PICK newer : newer = ToEntry(values, state) OBVIOUS
<1>2. newer = [f \in Fields(MemoryEntry) |->
                IF f \in {"review_state", "revisit_at", "payload", "created_at", "updated_at"}
                THEN [review_state |-> state, revisit_at |-> "null", payload |-> "void",
                      created_at |-> "aware", updated_at |-> "aware"][f]
                ELSE values[f]]
  BY <1>1 DEF ToEntry, New
<1>3. ASSUME NEW f \in Fields(MemoryEntry) PROVE newer[f] \in Kept(MemoryEntry.fields[f])
  <2>1. CASE f = "review_state" BY <1>2, <2>1, EntryShape, KeptOf
  <2>2. CASE f = "revisit_at" BY <1>2, <2>2, EntryShape, KeptOf
  <2>3. CASE f = "payload" BY <1>2, <2>3, EntryShape, KeptOf DEF Objects
  <2>4. CASE f \in {"created_at", "updated_at"}
    BY <1>2, <2>4, EntryShape, CommonShape, KeptOf DEF Strings
  <2>5. CASE f \notin {"review_state", "revisit_at", "payload", "created_at", "updated_at"}
    <3>1. newer[f] = values[f] BY <1>2, <2>5
    <3>2. f \in Fields(MemoryCandidate) /\ MemoryCandidate.fields[f] = MemoryEntry.fields[f]
      BY <2>5, EntryShape, CandidateShape
    <3> QED BY <3>1, <3>2, MemoryForms DEF Proper
  <2> QED BY <2>1, <2>2, <2>3, <2>4, <2>5
<1> QED BY <1>1, <1>2, <1>3, MemoryForms DEF Proper, Memories

LEMMA FromCandidateProper ==
    ASSUME NEW values, Proper("MemoryCandidate", values)
    PROVE  Proper("ProfileItem", FromCandidate(values))
<1>1. PICK newer : newer = FromCandidate(values) OBVIOUS
<1>2. newer = [f \in Fields(ProfileItem) |->
                IF f \in {"importance", "created_at", "updated_at"}
                THEN [importance |-> "half", created_at |-> "aware", updated_at |-> "aware"][f]
                ELSE values[f]]
  BY <1>1 DEF FromCandidate, New
<1>3. ASSUME NEW f \in Fields(ProfileItem) PROVE newer[f] \in Kept(ProfileItem.fields[f])
  <2>1. CASE f = "importance" BY <1>2, <2>1, ItemShape, CommonShape, KeptOf DEF Numbers, Ints
  <2>2. CASE f \in {"created_at", "updated_at"}
    BY <1>2, <2>2, ItemShape, CommonShape, KeptOf DEF Strings
  <2>3. CASE f \notin {"importance", "created_at", "updated_at"}
    <3>1. newer[f] = values[f] BY <1>2, <2>3
    <3>2. f \in Fields(MemoryCandidate) /\ MemoryCandidate.fields[f] = ProfileItem.fields[f]
      BY ItemShape, CandidateShape
    <3> QED BY <3>1, <3>2, MemoryForms DEF Proper
  <2> QED BY <2>1, <2>2, <2>3
<1> QED BY <1>1, <1>2, <1>3, MemoryForms DEF Proper, Memories

\* An importance or a note of an entry is one of an object, and the reverse.
LEMMA BothKeep ==
    /\ Kept(MemoryEntry.fields["importance"]) = Kept(MemoryObject.fields["importance"])
    /\ Kept(MemoryEntry.fields["temporal_note"]) = Kept(MemoryObject.fields["temporal_note"])
<1>1. MemoryEntry.fields["importance"] = Default(Float, "half")
      /\ MemoryEntry.fields["temporal_note"] = Or(Str, "empty")
  BY EntryShape, CommonShape
<1>2. MemoryObject.fields["importance"] = Default(Float, "one")
      /\ MemoryObject.fields["temporal_note"] = ReadAs(Str, FieldValues \ Strings, "empty")
  BY ObjectShape
<1> QED BY <1>1, <1>2, KeptOf

\* An entry of a known type makes a proper object: its payload covers its title.
LEMMA ToObjectProper ==
    ASSUME NEW values, Proper("MemoryEntry", values), values.type \in EntryTypes
    PROVE  Proper("MemoryObject", ToMemoryObject(values))
<1>1. PICK newer : newer = ToMemoryObject(values) OBVIOUS
<1>2. newer = [f \in Fields(MemoryObject) |->
                IF f \in {"metadata", "title", "payload"}
                THEN [metadata |-> "object", title |-> Title(values),
                      payload |-> IF values.payload = "titled" THEN "void" ELSE values.payload][f]
                ELSE values[f]]
  BY <1>1 DEF ToMemoryObject, New
<1>0. \A f \in Fields(MemoryEntry) : values[f] \in Kept(MemoryEntry.fields[f]) BY MemoryForms DEF Proper
<1>3. ASSUME NEW f \in Fields(MemoryObject) PROVE newer[f] \in Kept(MemoryObject.fields[f])
  <2>1. CASE f = "metadata" BY <1>2, <2>1, ObjectShape, KeptOf DEF Objects
  <2>2. CASE f = "title"
    <3>1. "title" \in Fields(MemoryEntry) /\ MemoryEntry.fields["title"] = Str
          /\ MemoryObject.fields["title"] = Str
      BY EntryShape, ObjectShape, CommonShape
    <3>2. values["title"] \in Strings BY <1>0, <3>1, KeptOf
    <3>3. newer[f] \in Strings BY <1>2, <2>2, <3>2 DEF Title, Strings
    <3> QED BY <2>2, <3>1, <3>3, KeptOf
  <2>3. CASE f = "payload"
    <3>1. values["payload"] \in Objects BY <1>0, EntryShape, KeptOf
    <3>2. newer[f] \in Objects \ {"titled"} BY <1>2, <2>3, <3>1 DEF Objects
    <3> QED BY <2>3, <3>2, ObjectShape, KeptOf
  <2>4. CASE f = "type" BY <1>2, <2>4, ObjectShape, KeptOf
  <2>5. CASE f \in {"review_state", "revisit_at"} BY <1>0, <1>2, <2>5, ObjectShape, EntryShape
  <2>6. CASE f \in {"importance", "temporal_note"}
    <3>1. newer[f] = values[f] BY <1>2, <2>6
    <3>2. Kept(MemoryEntry.fields[f]) = Kept(MemoryObject.fields[f]) /\ f \in Fields(MemoryEntry)
      BY <2>6, BothKeep, EntryShape, CommonShape
    <3> QED BY <1>0, <3>1, <3>2
  <2>7. CASE f \in DOMAIN Common \ {"title", "importance", "temporal_note"}
    <3>1. f \notin {"metadata", "title", "payload"} BY <2>7, CommonShape
    <3>2. newer[f] = values[f] BY <1>2, <3>1
    <3>3. f \in Fields(MemoryEntry) /\ MemoryEntry.fields[f] = MemoryObject.fields[f]
      BY <2>7, ObjectShape, EntryShape
    <3> QED BY <1>0, <3>2, <3>3
  <2> QED BY <2>1, <2>2, <2>3, <2>4, <2>5, <2>6, <2>7, ObjectShape
<1> QED BY <1>1, <1>2, <1>3, MemoryForms DEF Proper, Memories

\* An object makes a proper entry.
LEMMA FromObjectProper ==
    ASSUME NEW values, Proper("MemoryObject", values)
    PROVE  Proper("MemoryEntry", FromMemoryObject(values))
<1>1. PICK newer : newer = FromMemoryObject(values) OBVIOUS
<1>2. newer = [f \in Fields(MemoryEntry) |-> values[f]]
  BY <1>1 DEF FromMemoryObject, New
<1>0. \A f \in Fields(MemoryObject) : values[f] \in Kept(MemoryObject.fields[f]) BY MemoryForms DEF Proper
<1>3. ASSUME NEW f \in Fields(MemoryEntry) PROVE newer[f] \in Kept(MemoryEntry.fields[f])
  <2>1. newer[f] = values[f] /\ values[f] \in Kept(MemoryObject.fields[f])
    BY <1>0, <1>2, EntryShape, ObjectShape
  <2>2. CASE f = "type" BY <2>1, <2>2, EntryShape, ObjectShape, KeptOf
  <2>3. CASE f = "payload" BY <2>1, <2>3, EntryShape, ObjectShape, KeptOf
  <2>4. CASE f \in {"review_state", "revisit_at"} BY <2>1, <2>4, EntryShape, ObjectShape
  <2>5. CASE f \in {"importance", "temporal_note"}
    <3>1. Kept(MemoryEntry.fields[f]) = Kept(MemoryObject.fields[f]) BY <2>5, BothKeep
    <3> QED BY <2>1, <3>1
  <2>6. CASE f \in DOMAIN Common \ {"importance", "temporal_note"} BY <2>1, <2>6, ObjectShape, EntryShape
  <2> QED BY <2>2, <2>3, <2>4, <2>5, <2>6, EntryShape
<1> QED BY <1>1, <1>2, <1>3, MemoryForms DEF Proper, Memories

\* Some fields of a record get values of their kinds.
LEMMA ExceptProper ==
    ASSUME NEW name \in Memories, NEW values, Proper(name, values),
           NEW other, other = [f \in DOMAIN values |-> other[f]],
           \A f \in DOMAIN values : other[f] = values[f] \/ other[f] \in Kept(Forms[name].fields[f])
    PROVE  Proper(name, other)
BY MemoryForms DEF Proper

\* Two memories make a proper one (merge_memory_objects): what is new is of its kinds.
LEMMA MergedProper ==
    ASSUME NEW existing, Proper("MemoryObject", existing), NEW incoming \in Incoming
    PROVE  Proper("MemoryObject", Merge(existing, incoming))
<1>1. Proper("MemoryObject", incoming)
  <2>a. PICK o \in Ordinaries("MemoryObject"), f \in Fields(MemoryObject) :
           incoming \in {[o EXCEPT ![f] = v] : v \in Kept(MemoryObject.fields[f])}
    BY DEF Incoming
  <2>1. PICK v \in Kept(MemoryObject.fields[f]) : incoming = [o EXCEPT ![f] = v] BY <2>a
  <2>2. Proper("MemoryObject", o) BY OrdinariesProper, MemoryForms DEF Memories
  <2>3. /\ DOMAIN incoming = DOMAIN o /\ incoming = [g \in DOMAIN o |-> incoming[g]]
        /\ \A g \in DOMAIN o : incoming[g] = IF g = f THEN v ELSE o[g]
    BY <2>1, <2>2 DEF Proper
  <2> QED BY <2>2, <2>3, ExceptProper, MemoryForms DEF Memories
<1>2. ASSUME NEW values, Proper("MemoryObject", values)
      PROVE  /\ DOMAIN values = Fields(MemoryObject) /\ values = [f \in DOMAIN values |-> values[f]]
             /\ \A f \in Fields(MemoryObject) : values[f] \in Kept(MemoryObject.fields[f])
  BY <1>2, MemoryForms DEF Proper
<1>3. PICK own : own = [type |-> existing.type, created_at |-> existing.created_at, metadata |-> "object",
                        importance |-> "one",
                        payload |-> IF incoming.payload = "void" THEN existing.payload ELSE incoming.payload,
                        source_refs |-> Joined(incoming.source_refs, existing.source_refs)]
  OBVIOUS
<1>4. PICK merged : merged = own ++ incoming OBVIOUS
<1>5. /\ DOMAIN own = {"type", "created_at", "metadata", "importance", "payload", "source_refs"}
      /\ own["type"] = existing["type"] /\ own["created_at"] = existing["created_at"]
      /\ own["metadata"] = "object" /\ own["importance"] = "one"
      /\ own["payload"] = incoming["payload"] \/ own["payload"] = existing["payload"]
      /\ own["source_refs"] \in {"none", "strings"}
  BY <1>3 DEF Joined
<1>6. DOMAIN own \subseteq Fields(MemoryObject) BY <1>5, ObjectShape, CommonShape
<1>7. /\ "object" \in Kept(MemoryObject.fields["metadata"])
      /\ "one" \in Kept(MemoryObject.fields["importance"])
      /\ {"none", "strings"} \subseteq Kept(MemoryObject.fields["source_refs"])
      /\ {"none", "strings"} \subseteq Kept(MemoryObject.fields["tags"])
  <2>1. MemoryObject.fields["source_refs"] = StrList /\ MemoryObject.fields["tags"] = StrList
    BY ObjectShape, CommonShape
  <2> QED BY <2>1, ObjectShape, KeptOf DEF Objects, Numbers, Ints
<1>8. ASSUME NEW f \in DOMAIN own PROVE own[f] \in Kept(MemoryObject.fields[f])
  BY <1>1, <1>2, <1>5, <1>6, <1>7
<1>9. /\ DOMAIN merged = DOMAIN incoming /\ merged = [f \in DOMAIN incoming |-> merged[f]]
      /\ \A f \in DOMAIN incoming : merged[f] = IF f \in DOMAIN own THEN own[f] ELSE incoming[f]
  BY <1>1, <1>2, <1>4, <1>6 DEF ++
<1>10. Proper("MemoryObject", merged) BY <1>1, <1>8, <1>9, ExceptProper, MemoryForms DEF Memories
<1>11. Merged(existing, incoming) = merged BY <1>3, <1>4 DEF Merged
<1>12. Proper("MemoryObject", EntryMerged(existing, incoming))
  <2>1. PICK tags : tags = [tags |-> Joined(incoming.tags, existing.tags)] OBVIOUS
  <2>2. DOMAIN tags = {"tags"} /\ tags["tags"] \in {"none", "strings"} BY <2>1 DEF Joined
  <2>3. PICK both : both = tags ++ merged OBVIOUS
  <2>4. "tags" \in DOMAIN merged BY <1>2, <1>10, ObjectShape, CommonShape
  <2>5. /\ DOMAIN both = DOMAIN merged /\ both = [f \in DOMAIN merged |-> both[f]]
        /\ \A f \in DOMAIN merged : both[f] = IF f = "tags" THEN tags["tags"] ELSE merged[f]
    BY <2>2, <2>3, <2>4 DEF ++
  <2>6. Proper("MemoryObject", both) BY <1>7, <1>10, <2>2, <2>5, ExceptProper, MemoryForms DEF Memories
  <2> QED BY <1>11, <2>1, <2>3, <2>6 DEF EntryMerged
<1> QED BY <1>10, <1>11, <1>12 DEF Merge

-----------------------------------------------------------------------------
(* Records: every step keeps the invariant *)

\* A record starts as the program makes it.
LEMMA InitRecord == NamesAssumption /\ RecordInit => RecordInv
BY OrdinariesProper DEF RecordInit, RecordInv, NamesAssumption

\* An update of one field, with the times that are set with it.
LEMMA UpdateKeeps ==
    ASSUME NamesAssumption, RecordInv, NEW field, NEW value, UpdateRecord(field, value)
    PROVE  RecordInv'
<1>1. form' = form /\ place = "held" /\ place' = "held" BY DEF UpdateRecord
<1>2. form \in {"MemoryEntry", "MemoryCandidate", "ProfileItem"} /\ field \in Fields(Forms[form])
      /\ value \in Kept(Forms[form].fields[field])
  BY MemoryForms, EntryShape, CandidateShape, ItemShape, CommonShape DEF UpdateRecord, UpdatesOf
<1>3. Proper(form, held) /\ form \in Names BY <1>1 DEF RecordInv
<1>4. DOMAIN held = Fields(Forms[form]) /\ held = [f \in DOMAIN held |-> held[f]] BY <1>3 DEF Proper
<1>5. "updated_at" \in Fields(Forms[form]) /\ "aware" \in Kept(Forms[form].fields["updated_at"])
  <2>1. "updated_at" \in DOMAIN Common /\ Common["updated_at"] = Str BY CommonShape
  <2>2. "aware" \in Kept(Str) BY KeptOf DEF Strings
  <2> QED BY <1>2, <2>1, <2>2, MemoryForms, EntryShape, CandidateShape, ItemShape
<1>6. ASSUME NEW other, other = WithUpdate(held, field, value)
      PROVE  Proper(form, other)
  <2>1. other = [held EXCEPT ![field] = IF value = "null" THEN held[field] ELSE value, !.updated_at = "aware"]
    BY <1>6 DEF WithUpdate
  <2>2. /\ other = [f \in DOMAIN held |-> other[f]]
        /\ \A f \in DOMAIN held : \/ other[f] = held[f]
                                  \/ f = field /\ other[f] = value
                                  \/ f = "updated_at" /\ other[f] = "aware"
    BY <1>4, <2>1
  <2>3. \A f \in DOMAIN held : other[f] = held[f] \/ other[f] \in Kept(Forms[form].fields[f])
    BY <1>2, <1>5, <2>2
  <2> QED BY <1>2, <1>3, <2>2, <2>3, ExceptProper DEF Memories
<1>7. ASSUME form = "MemoryCandidate", field = "review_state", value \in {"accepted", "rejected"},
             NEW other,
             other = [held EXCEPT !.review_state = value, !.updated_at = "aware", !.reviewed_at = "aware"]
      PROVE  Proper(form, other)
  <2>1. "reviewed_at" \in Fields(Forms[form]) /\ "aware" \in Kept(Forms[form].fields["reviewed_at"])
    BY <1>7, MemoryForms, CandidateShape, KeptOf DEF Strings
  <2>2. /\ other = [f \in DOMAIN held |-> other[f]]
        /\ \A f \in DOMAIN held : \/ other[f] = held[f]
                                  \/ f = "review_state" /\ other[f] = value
                                  \/ f \in {"updated_at", "reviewed_at"} /\ other[f] = "aware"
    BY <1>4, <1>7
  <2>3. \A f \in DOMAIN held : other[f] = held[f] \/ other[f] \in Kept(Forms[form].fields[f])
    BY <1>2, <1>5, <1>7, <2>1, <2>2
  <2> QED BY <1>2, <1>3, <2>2, <2>3, ExceptProper DEF Memories
<1>8. Proper(form, held')
  <2>1. CASE form = "MemoryCandidate" /\ field = "review_state" /\ value \in {"accepted", "rejected"}
    <3>1. held' = [held EXCEPT !.review_state = value, !.updated_at = "aware", !.reviewed_at = "aware"]
      BY <2>1 DEF UpdateRecord, Reviewed
    <3> QED BY <1>7, <2>1, <3>1
  <2>2. CASE ~(form = "MemoryCandidate" /\ field = "review_state" /\ value \in {"accepted", "rejected"})
    <3>1. held' = WithUpdate(held, field, value) BY <2>2 DEF UpdateRecord, Reviewed
    <3> QED BY <1>6, <3>1
  <2> QED BY <2>1, <2>2
<1> QED BY <1>1, <1>3, <1>8 DEF RecordInv, Proper, Together

\* A conversion makes a record of another form.
LEMMA ConvertKeeps == ASSUME NamesAssumption, RecordInv, Convert PROVE RecordInv'
<1>1. PICK newer \in MadeOf(form, held) : form' = newer[1] /\ held' = newer[2] BY DEF Convert
<1>2. place = "held" /\ place' = "held" /\ form' \in Names BY DEF Convert
<1>3. Proper(form, held) BY <1>2 DEF RecordInv
<1>4. Proper(form', held')
  <2>1. CASE form = "MemoryCandidate"
    <3>1. \/ newer = <<"ProfileItem", FromCandidate(held)>>
          \/ \E state \in {"draft", "reviewed"} : newer = <<"MemoryEntry", ToEntry(held, state)>>
      BY <1>1, <2>1 DEF MadeOf
    <3>2. CASE newer = <<"ProfileItem", FromCandidate(held)>>
      <4>1. form' = "ProfileItem" /\ held' = FromCandidate(held) BY <1>1, <3>2
      <4> QED BY <1>3, <2>1, <4>1, FromCandidateProper
    <3>3. CASE \E state \in {"draft", "reviewed"} : newer = <<"MemoryEntry", ToEntry(held, state)>>
      <4>1. PICK state \in {"draft", "reviewed"} : form' = "MemoryEntry" /\ held' = ToEntry(held, state)
        BY <1>1, <3>3
      <4> QED BY <1>3, <2>1, <4>1, ToEntryProper
    <3> QED BY <3>1, <3>2, <3>3
  <2>2. CASE form = "MemoryEntry"
    <3>1. held.type \in EntryTypes /\ newer = <<"MemoryObject", ToMemoryObject(held)>>
      BY <1>1, <2>2 DEF MadeOf
    <3>2. form' = "MemoryObject" /\ held' = ToMemoryObject(held) BY <1>1, <3>1
    <3> QED BY <1>3, <2>2, <3>1, <3>2, ToObjectProper
  <2>3. CASE form = "MemoryObject"
    <3>1. newer = <<"MemoryEntry", FromMemoryObject(held)>> BY <1>1, <2>3 DEF MadeOf
    <3>2. form' = "MemoryEntry" /\ held' = FromMemoryObject(held) BY <1>1, <3>1
    <3> QED BY <1>3, <2>3, <3>2, FromObjectProper
  <2>4. CASE form \notin {"MemoryCandidate", "MemoryEntry", "MemoryObject"} BY <1>1, <2>4 DEF MadeOf
  <2> QED BY <2>1, <2>2, <2>3, <2>4
<1> QED BY <1>2, <1>4 DEF RecordInv, Proper, Together

\* A merge makes a record of the same form.
LEMMA MergeKeeps ==
    ASSUME NamesAssumption, RecordInv, form = "MemoryObject", NEW incoming \in Incoming, MergeWith(incoming)
    PROVE  RecordInv'
<1>1. form' = form /\ place = "held" /\ place' = "held" /\ held' = Merge(held, incoming) BY DEF MergeWith
<1>2. Proper("MemoryObject", held) BY <1>1 DEF RecordInv
<1>3. Proper("MemoryObject", held') BY <1>1, <1>2, MergedProper
<1> QED BY <1>1, <1>3 DEF RecordInv, Proper, Together

\* What is put in quarantine is changed before it is written.
LEMMA StoreKeeps == ASSUME NamesAssumption, RecordInv, StoreRecord PROVE RecordInv'
<1>1. form' = form /\ place = "held" /\ more' = FALSE BY DEF StoreRecord
<1>2. Proper(form, held) /\ form \in Names BY <1>1 DEF RecordInv
<1>3. CASE MayStore(form, held)
  <2>1. place' = "stored" /\ held' = Stored(form, held) /\ wire' = Encode(Forms[form], held')
    BY <1>3 DEF StoreRecord
  <2>2. Proper(form, held')
    <3>1. CASE form = "MemoryEntry" /\ Quarantined(held)
      <4>1. held' = [held EXCEPT !.review_state = "quarantined", !.updated_at = "aware"]
        BY <2>1, <3>1 DEF Stored, Admitted
      <4>2. DOMAIN held = Fields(MemoryEntry) /\ held = [f \in DOMAIN held |-> held[f]]
        BY <1>2, <3>1, MemoryForms DEF Proper
      <4>3. /\ held' = [f \in DOMAIN held |-> held'[f]]
            /\ \A f \in DOMAIN held : \/ held'[f] = held[f]
                                      \/ f = "review_state" /\ held'[f] = "quarantined"
                                      \/ f = "updated_at" /\ held'[f] = "aware"
        BY <4>1, <4>2
      <4>4. /\ "quarantined" \in Kept(MemoryEntry.fields["review_state"])
            /\ "aware" \in Kept(MemoryEntry.fields["updated_at"])
        BY EntryShape, CommonShape, KeptOf DEF Strings
      <4>5. \A f \in DOMAIN held : held'[f] = held[f] \/ held'[f] \in Kept(Forms["MemoryEntry"].fields[f])
        BY <4>3, <4>4, MemoryForms
      <4> QED BY <1>2, <3>1, <4>3, <4>5, ExceptProper DEF Memories
    <3>2. CASE ~(form = "MemoryEntry" /\ Quarantined(held))
      <4>1. held' = held BY <2>1, <3>2 DEF Stored, Admitted
      <4> QED BY <1>2, <4>1 DEF Proper, Together
    <3> QED BY <3>1, <3>2
  <2> QED BY <1>1, <1>2, <2>1, <2>2 DEF RecordInv, Proper, Together, Encode
<1>4. CASE ~MayStore(form, held) BY <1>1, <1>2, <1>4 DEF StoreRecord, RecordInv
<1> QED BY <1>3, <1>4

\* What is read without an error holds values its fields keep, after any edit.
LEMMA ReadingKeeps == ASSUME NamesAssumption, RecordInv, ReadRecord PROVE RecordInv'
<1>1. form' = form /\ form \in Names BY DEF ReadRecord, RecordInv
<1>2. CASE refusal' = {}
  <2>1. PICK F : F = Forms[form] OBVIOUS
  <2>2. place' = "held" /\ held' = Values0(F, wire) /\ RefusedWith(form, wire, more) = {}
    BY <1>2, <2>1 DEF ReadRecord
  <2>3. Refusals(F, wire) = {} BY <2>1, <2>2 DEF RefusedWith
  <2>4. Wrong(F, wire) = {}
    <3>1. ASSUME NEW f \in Wrong(F, wire) PROVE Refusals(F, wire) # {} BY DEF Refusals
    <3> QED BY <2>3, <3>1
  <2>5. Together(form, held') BY <2>1, <2>2, <2>4 DEF RefusedWith
  <2>6. /\ DOMAIN held' = Fields(F) /\ held' = [f \in DOMAIN held' |-> held'[f]]
        /\ \A f \in Fields(F) : held'[f] = Reading(F.fields[f], wire[f])
    BY <2>2 DEF Values0
  <2>7. \A f \in Fields(F) : held'[f] \in Kept(F.fields[f]) BY <2>4, <2>6 DEF Wrong, Kept
  <2>8. Proper(form, held') BY <2>1, <2>5, <2>6, <2>7 DEF Proper
  <2> QED BY <1>1, <2>2, <2>8 DEF RecordInv, Proper, Together
<1>3. CASE refusal' # {}
  <2>1. place' = "refused" BY <1>3 DEF ReadRecord
  <2> QED BY <1>1, <2>1 DEF RecordInv
<1> QED BY <1>2, <1>3

\* Every step keeps the invariant; an edit leaves what the program holds.
LEMMA RecordStep == ASSUME NamesAssumption, RecordInv, [RecordNext]_recordVars PROVE RecordInv'
<1>1. ASSUME NEW f \in Fields(Forms[form]), NEW v, UpdateRecord(f, v) PROVE RecordInv'
  BY <1>1, UpdateKeeps
<1>2. ASSUME NEW f, NEW v, EditRecord(f, v) PROVE RecordInv' BY <1>2 DEF EditRecord, RecordInv
<1>3. CASE AddField BY <1>3 DEF AddField, RecordInv
<1>4. ASSUME form = "MemoryObject", NEW incoming \in Incoming, MergeWith(incoming) PROVE RecordInv'
  BY <1>4, MergeKeeps
<1>5. CASE Convert BY <1>5, ConvertKeeps
<1>6. CASE StoreRecord BY <1>6, StoreKeeps
<1>7. CASE ReadRecord BY <1>7, ReadingKeeps
<1>8. CASE UNCHANGED recordVars BY <1>8 DEF recordVars, RecordInv, Proper, Together, Encode
<1> QED BY <1>1, <1>2, <1>3, <1>4, <1>5, <1>6, <1>7, <1>8 DEF RecordNext

\* Whatever the program stored or sent (to_wire of every record, after the checks of
\* save) its decoder accepts, and reads back as it was, for every set of forms and every
\* number of updates, merges, conversions and accepted edits.
THEOREM StoredIsAlwaysRead == RecordSpec => []StoredIsRead
<1>1. RecordInit => RecordInv BY InitRecord, NamesAssumption
<1>2. RecordInv /\ [RecordNext]_recordVars => RecordInv' BY RecordStep, NamesAssumption
<1>3. RecordInv => StoredIsRead BY StoredFromInv, NamesAssumption
<1> QED BY <1>1, <1>2, <1>3, PTL DEF RecordSpec

\* What a conversion keeps of each field that both forms have.
LEMMA ConvertLoses ==
    ASSUME Convert, NEW f, f \in (Fields(Forms[form]) \cap Fields(Forms[form'])) \ Own
    PROVE  \/ held'[f] = held[f]
           \/ f = "importance" /\ form' = "ProfileItem"
           \/ f \in {"title", "payload"} /\ form = "MemoryEntry" /\ held.payload = "titled"
<1>1. PICK newer \in MadeOf(form, held) : form' = newer[1] /\ held' = newer[2] BY DEF Convert
<1>2. CASE form = "MemoryCandidate"
  <2>1. \/ newer = <<"ProfileItem", FromCandidate(held)>>
        \/ \E state \in {"draft", "reviewed"} : newer = <<"MemoryEntry", ToEntry(held, state)>>
    BY <1>1, <1>2 DEF MadeOf
  <2>2. CASE newer = <<"ProfileItem", FromCandidate(held)>>
    <3>1. form' = "ProfileItem" /\ held' = FromCandidate(held) BY <1>1, <2>2
    <3>2. f \in Fields(ProfileItem) /\ f \notin {"created_at", "updated_at"} BY <3>1, MemoryForms DEF Own
    <3>3. CASE f = "importance" BY <3>1, <3>3
    <3>4. CASE f # "importance"
      <4>1. FromCandidate(held)[f] = held[f] BY <3>2, <3>4 DEF FromCandidate, New
      <4> QED BY <3>1, <4>1
    <3> QED BY <3>3, <3>4
  <2>3. CASE \E state \in {"draft", "reviewed"} : newer = <<"MemoryEntry", ToEntry(held, state)>>
    <3>1. PICK state \in {"draft", "reviewed"} : form' = "MemoryEntry" /\ held' = ToEntry(held, state)
      BY <1>1, <2>3
    <3>2. f \in Fields(MemoryEntry) /\ f \notin {"review_state", "revisit_at", "payload", "created_at", "updated_at"}
      BY <1>2, <3>1, MemoryForms, CandidateShape, CommonShape DEF Own
    <3>3. ToEntry(held, state)[f] = held[f] BY <3>2 DEF ToEntry, New
    <3> QED BY <3>1, <3>3
  <2> QED BY <2>1, <2>2, <2>3
<1>3. CASE form = "MemoryEntry"
  <2>1. held.type \in EntryTypes /\ newer = <<"MemoryObject", ToMemoryObject(held)>>
    BY <1>1, <1>3 DEF MadeOf
  <2>2. form' = "MemoryObject" /\ held' = ToMemoryObject(held) BY <1>1, <2>1
  <2>3. f \in Fields(MemoryObject) /\ f # "metadata"
    BY <1>3, <2>2, MemoryForms, EntryShape, CommonShape
  <2>4. CASE f \in {"title", "payload"} /\ held.payload = "titled" BY <1>3, <2>4
  <2>5. CASE f = "title" /\ held.payload # "titled"
    <3>1. ToMemoryObject(held)[f] = held[f] BY <2>3, <2>5 DEF ToMemoryObject, New, Title
    <3> QED BY <2>2, <3>1
  <2>6. CASE f = "payload" /\ held.payload # "titled"
    <3>1. ToMemoryObject(held)[f] = held[f] BY <2>3, <2>6 DEF ToMemoryObject, New
    <3> QED BY <2>2, <3>1
  <2>7. CASE f \notin {"title", "payload"}
    <3>1. ToMemoryObject(held)[f] = held[f] BY <2>3, <2>7 DEF ToMemoryObject, New
    <3> QED BY <2>2, <3>1
  <2> QED BY <2>4, <2>5, <2>6, <2>7
<1>4. CASE form = "MemoryObject"
  <2>1. newer = <<"MemoryEntry", FromMemoryObject(held)>> BY <1>1, <1>4 DEF MadeOf
  <2>2. form' = "MemoryEntry" /\ held' = FromMemoryObject(held) BY <1>1, <2>1
  <2>3. f \in Fields(MemoryEntry) BY <2>2, MemoryForms
  <2>4. FromMemoryObject(held)[f] = held[f] BY <2>3 DEF FromMemoryObject, New
  <2> QED BY <2>2, <2>4
<1>5. CASE form \notin {"MemoryCandidate", "MemoryEntry", "MemoryObject"} BY <1>1, <1>5 DEF MadeOf
<1> QED BY <1>2, <1>3, <1>4, <1>5

\* Only a conversion changes the form.
LEMMA FormIsKept == ASSUME [RecordNext]_recordVars, ~Convert PROVE form' = form
<1>1. ASSUME NEW f, NEW v, UpdateRecord(f, v) \/ EditRecord(f, v) PROVE form' = form
  BY <1>1 DEF UpdateRecord, EditRecord
<1>2. ASSUME NEW incoming, MergeWith(incoming) PROVE form' = form BY <1>2 DEF MergeWith
<1>3. CASE AddField \/ StoreRecord \/ ReadRecord BY <1>3 DEF AddField, StoreRecord, ReadRecord
<1>4. CASE UNCHANGED recordVars BY <1>4 DEF recordVars
<1> QED BY <1>1, <1>2, <1>3, <1>4 DEF RecordNext

\* A record that is made of another (to_entry, from_candidate, to_memory_object,
\* from_memory_object) has all that the two forms share, except the review state and the
\* times, and the importance of an item of the profile.
THEOREM NothingIsLost == RecordSpec => NothingLost
<1>1. [RecordNext]_recordVars =>
        [form' # form =>
           \A f \in (Fields(Forms[form]) \cap Fields(Forms[form'])) \ Own :
             \/ held'[f] = held[f]
             \/ f = "importance" /\ form' = "ProfileItem"
             \/ f \in {"title", "payload"} /\ form = "MemoryEntry" /\ held.payload = "titled"]_recordVars
  BY ConvertLoses, FormIsKept
<1> QED BY <1>1, PTL DEF RecordSpec, NothingLost
==============================================================================
