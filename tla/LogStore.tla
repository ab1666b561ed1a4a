------------------------------- MODULE LogStore -------------------------------
(***************************************************************************)
(* The log of one component (src/nuself/log/store.py, log/reader.py).      *)
(* Processes append records of one line each to a file that is rotated;    *)
(* a cursor follows it by identity and offset, without their lock. Every   *)
(* record is two pieces long, so that a write may stop in the middle: the  *)
(* second piece ends the line.                                             *)
(***************************************************************************)
EXTENDS Integers, Sequences, FiniteSets, SequencesExt, FiniteSetsExt

CONSTANTS
    Writers,        \* processes that append
    Records,        \* what they append
    MaxPieces,      \* LogRetentionPolicy.max_bytes
    Backups,        \* LogRetentionPolicy.backup_count
    None

ASSUME LogRetentionPolicy == MaxPieces \in Nat \ {0} /\ Backups \in Nat \ {0}

VARIABLES
    files,          \* every file there has been, by identity
    exists,         \* whether the active file, the last one, is in place
    backup,         \* the identity under each number, or None
    lock,           \* the writer that has the process lock and the sidecar
    writer,         \* what each writer does: [step, record, boundary]
    outcome         \* of each record: LogPersistenceOutcome, or None

logVars == <<files, exists, backup, lock, writer, outcome>>

Unwritten == [step |-> "idle", record |-> None, boundary |-> 0]
PersistenceOutcomes == {"not_persisted", "persisted", "uncertain"}
ASSUME NoneAssumption ==
    /\ None \notin Records /\ None \notin Writers
    /\ None \notin PersistenceOutcomes /\ None \notin Nat
WriterSteps == {"idle", "lock", "rotate", "write", "half", "sync", "close", "returned", "raised"}

LogTypeOK ==
    /\ files \in Seq(Seq(Records \X {1, 2})) /\ exists \in BOOLEAN
    /\ backup \in [1..Backups -> 1..Len(files) \cup {None}]
    /\ lock \in Writers \cup {None}
    /\ \A w \in Writers : /\ writer[w].step \in WriterSteps
                          /\ writer[w].step \in {"rotate", "write", "half", "sync", "close"} <=> lock = w
                          /\ writer[w].boundary \in Nat
    /\ outcome \in [Records -> PersistenceOutcomes \cup {None}]

LogInit ==
    /\ files = << <<>> >> /\ exists = TRUE
    /\ backup = [i \in 1..Backups |-> None]
    /\ lock = None
    /\ writer = [w \in Writers |-> Unwritten]
    /\ outcome = [r \in Records |-> None]

Active == Len(files)

-----------------------------------------------------------------------------
(* Lines *)

\* Where the last line that is complete ends.
CompleteLength(pieces) == Max({0} \cup {i \in DOMAIN pieces : pieces[i][2] = 2})

\* The records read from pieces: a line that is not exactly one record is read as text
\* of old, a record of nobody.
Parsed(pieces) ==
    {r \in Records :
       \E i \in 2..Len(pieces) :
          /\ pieces[i - 1] = <<r, 1>> /\ pieces[i] = <<r, 2>>
          /\ i = 2 \/ pieces[i - 2][2] = 2}

From(pieces, offset) == SubSeq(pieces, offset + 1, Len(pieces))
Whole(r, id) == r \in Parsed(files[id])
OnDisk == (Range(backup) \ {None}) \cup (IF exists THEN {Active} ELSE {})

-----------------------------------------------------------------------------
(* Appending *)

Step(w, step) == writer' = [writer EXCEPT ![w].step = step]

\* A handler that appends waits in "lock" until the step is "returned" or "raised".
Append_(w, r) == writer' = [writer EXCEPT ![w] = [step |-> "lock", record |-> r, boundary |-> 0]]

LockLog(w) ==
    /\ writer[w].step = "lock" /\ lock = None
    /\ lock' = w /\ Step(w, "rotate")
    /\ UNCHANGED <<files, exists, backup, outcome>>

Full == exists /\ files[Active] # <<>> /\ Len(files[Active]) + 2 > MaxPieces

\* The backups above number i have moved up by one, the oldest is unlinked.
Shifted(i) == [j \in 1..Backups |-> IF j > i + 1 THEN backup[j - 1]
                                   ELSE IF j = i + 1 THEN None ELSE backup[j]]

Rotate(w) ==
    /\ writer[w].step = "rotate"
    /\ Step(w, "write")
    /\ IF Full
       THEN /\ backup' = [Shifted(0) EXCEPT ![1] = Active]
            /\ exists' = FALSE
       ELSE UNCHANGED <<backup, exists>>
    /\ UNCHANGED <<files, lock, outcome>>

\* It fails at some file; the record is appended all the same.
RotateFails(w) ==
    /\ writer[w].step = "rotate" /\ Full
    /\ Step(w, "write")
    /\ \E i \in 0..(Backups - 1) : backup' = Shifted(i)
    /\ UNCHANGED <<files, exists, lock, outcome>>

\* The file is opened, created if need be; the record starts where it ends.
OpenLog(w) ==
    /\ writer[w].step = "write"
    /\ LET opened == IF exists THEN files ELSE Append(files, <<>>) IN
       /\ files' = [opened EXCEPT ![Len(opened)] = Append(@, <<writer[w].record, 1>>)]
       /\ writer' = [writer EXCEPT ![w].step = "half", ![w].boundary = Len(opened[Len(opened)])]
    /\ exists' = TRUE
    /\ UNCHANGED <<backup, lock, outcome>>

WriteRest(w) ==
    /\ writer[w].step = "half"
    /\ files' = [files EXCEPT ![Active] = Append(@, <<writer[w].record, 2>>)]
    /\ Step(w, "sync")
    /\ UNCHANGED <<exists, backup, lock, outcome>>

SyncLog(w) ==
    /\ writer[w].step = "sync"
    /\ outcome' = [outcome EXCEPT ![writer[w].record] = "persisted"]
    /\ Step(w, "close")
    /\ UNCHANGED <<files, exists, backup, lock>>

\* Fault: one piece is taken back.
LastPieceBack(w) == Front(files[Active])

RolledBack(w) == SubSeq(files[Active], 1, writer[w].boundary)

\* The write, or its synchronization, fails; so may the truncation that undoes it. The
\* lock is released and the error goes to the caller.
AppendFails(w) ==
    /\ writer[w].step \in {"half", "sync"}
    /\ \/ /\ files' = [files EXCEPT ![Active] = RolledBack(w)]
          /\ outcome' = [outcome EXCEPT ![writer[w].record] = "not_persisted"]
       \/ /\ outcome' = [outcome EXCEPT ![writer[w].record] = "uncertain"]
          /\ UNCHANGED files
    /\ Step(w, "raised") /\ lock' = None
    /\ UNCHANGED <<exists, backup>>

CloseLog(w) ==
    /\ writer[w].step = "close"
    /\ Step(w, "returned") /\ lock' = None
    /\ UNCHANGED <<files, exists, backup, outcome>>

\* The close fails: the record stays, the caller has an error.
CloseFails(w) ==
    /\ writer[w].step = "close"
    /\ Step(w, "raised") /\ lock' = None
    /\ UNCHANGED <<files, exists, backup, outcome>>

\* The process ends where it is, and its locks with it.
Killed(w) ==
    /\ writer' = [writer EXCEPT ![w] = Unwritten]
    /\ lock' = IF lock = w THEN None ELSE lock
    /\ UNCHANGED <<files, exists, backup, outcome>>

WriterStep(w) == LockLog(w) \/ Rotate(w) \/ OpenLog(w) \/ WriteRest(w) \/ SyncLog(w) \/ CloseLog(w)
WriterFault(w) == RotateFails(w) \/ AppendFails(w) \/ CloseFails(w)

-----------------------------------------------------------------------------
(* Following the log: InteractiveLogCursor *)

\* A cursor: what it has read of which file, the records it has seen, and what stat
\* has found: the file in place and its size.
NoCursor == [identity |-> None, offset |-> 0, seen |-> {}, found |-> None, size |-> 0]
CursorFromProject ==
    [identity |-> IF exists THEN Active ELSE None,
     offset |-> IF exists THEN Len(files[Active]) ELSE 0,
     seen |-> {}, found |-> None, size |-> 0]

\* Fault: what came by another way is not marked.
Unmarked(cursor, records) == cursor
MarkSeen(cursor, records) == [cursor EXCEPT !.seen = @ \cup records]

\* There is no file for a moment: the cursor starts over.
StartOver(cursor) == [cursor EXCEPT !.identity = None, !.offset = 0]
Found(cursor) == [cursor EXCEPT !.found = Active, !.size = Len(files[Active])]

\* The file is another one now: the rest of the old one, wherever its number has gone.
Replaced(cursor) == cursor.identity # None /\ cursor.identity # cursor.found
Rest(cursor) ==
    IF Replaced(cursor) /\ cursor.identity \in Range(backup)
    THEN Parsed(From(files[cursor.identity], cursor.offset)) ELSE {}

\* Fault: the rest of the old file is given up.
NoRest(cursor) == {}

\* The file is read from here; it was shorter than what the cursor had read if an append
\* has been undone.
ReadFrom(cursor) ==
    IF Replaced(cursor) \/ cursor.size < cursor.offset THEN 0 ELSE cursor.offset

\* What is read, of the file that is in place by now.
NewRecords(cursor) ==
    (Rest(cursor) \cup Parsed(From(files[Active], ReadFrom(cursor)))) \ cursor.seen

ReadOn(cursor) ==
    [identity |-> cursor.found, found |-> None, size |-> 0, seen |-> cursor.seen \cup NewRecords(cursor),
     offset |-> ReadFrom(cursor) + CompleteLength(From(files[Active], ReadFrom(cursor)))]

\* What may go past a cursor: the file it was at is not the one before, or is gone, or
\* the file was replaced between stat and open.
Overtaken(cursor) ==
    \/ cursor.found # Active
    \/ Replaced(cursor) /\ (cursor.found # cursor.identity + 1 \/ cursor.identity \notin Range(backup))
=============================================================================
