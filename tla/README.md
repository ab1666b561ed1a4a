# NuSelf: a TLA+ verification project

NuSelf is a local-first assistant: one daemon process per data authority, CLI and
REPL clients that talk to it over a Unix socket, one-shot processes that work on the
same data without it, and a set of durable domains (conversations, memory, reasoning
threads, reflections, inbox, deliveries) kept in SQLite and in files. This directory
holds TLA+ models of its core, translated from `src/nuself`, the TLC configurations
that check them on small instances, and proofs of the most important facts for every
value of the constants. `PROJECT.json` maps every definition to the lines it models.

Paths below are relative to `src/nuself` unless they begin with `docs/` or `scripts/`.

## 1. Inventory

### Components that carry the core logic

| component | state it keeps | operations | talks to |
|---|---|---|---|
| task scheduler, `daemon/scheduler.py` | phase, pending tasks, identities in use, busy resources, completion futures | `start`, `submit`, dispatcher loop, `_run`, `_complete`, `shutdown` | every domain worker; request threads wait on its futures |
| daemon instance, `daemon/instance.py`, `server.py`, `lifecycle.py`, `signals.py`, `socket_server.py` | instance lock, socket, PID file, shutdown request | daemon start, serve, cleanup; client `start`, `stop`, `restart`, `status` | scheduler (stopped in the cleanup), every client |
| conversations, `conversation/store.py`, `agent/chat/*`, chat tasks of `daemon/state.py` | messages with global indexes, summary, turn markers, agent continuations | chat turn, resume after an approval, retry, compression, scan, rename, branch, archive, delete | scheduler lane per conversation, file lock per conversation, memory (observation of a turn) |
| agent runs, `agent/failover.py`, `endpoint.py`, `middleware.py`, `chat/response.py`, `reason/advancer.py`, `runtime/feature/*` | preferred endpoint, captured outcomes of tools, the suspended call | ordered attempts, retries, failover, concurrent tool calls, suspension, resolution | conversations, reasoning threads |
| memory, `memory/curator/*`, `memory/repository.py`, `service.py`, `optimizer.py`, `profile/*` | observations, decision plans, candidates, entries, profile items | observe, decide, stage, accept, mark, discard; user review, merge, edit, delete; optimizer proposals | conversations (source of observations), curator lock per observation |
| delivery and inbox, `delivery/*`, `inbox/*` | inbox items, delivery records with a frozen plan and a result per adapter | `add`, `request`, `deliver`, `recover`, `run_once`, `inbox send` | SMTP and desktop channels, reflection and reason as publishers |
| reasoning threads, `reason/service.py`, `scheduler.py`, `repository.py` | threads, steps, cooldowns, workspaces | start, advance, pause, resume, resolve, archive, delete; the daemon's periodic check | scheduler, reason agent, inbox |
| reason exports, `reason/export.py`, `output.py` | job manifests, chunks and documents in thread workspaces | plan, compose, combine, settle, retry, reconcile, recover | scheduler, workspaces, deletion of threads |
| reflection, `reflection/*`, `persona/discussion.py` | schedule state, entries | gated cycle, forced cycle, discussion, organizer, dismiss, archive, promote | inbox, delivery, personas |
| live activity, `daemon/activity.py`, `cli/repl/*`, `runtime/execution.py` | bounded queue per subscription, cancellation token, closers | subscribe, publish, poll, expire; send, interrupt, `:retry` | log, chat turns |
| log, `log/*` | segments, rotation state, cursors | append, rotate, roll back, follow | everything |
| storage, `storage/*`, `scripts/*` | database, transactions, backups, versions | open, create, migrate, nested transactions, repair and edit of records | every repository |
| records, `*/model.py`, `*/payloads.py`, `runtime/*` | the records themselves | make, read, update, merge, convert, store | storage, the socket |
| audits, `*/audit.py`, `runtime/audit/*` | the contracts of what is told | tell, validate | every operation, after it is done |
| personas, CLI, rendering, configuration, sources, traces, evaluation | see `PROJECT.json` | | |

Everything shares three mechanisms: SQLite transactions (atomic, and gone when the
process dies before the commit), advisory file locks (released by the kernel when the
holder dies) and the scheduler's lanes (in memory, gone with the daemon).

### What is hard here

* **Four kinds of thread in one scheduler.** Dispatcher, workers, submitters and the
  thread that shuts down meet at one condition; the executor is called with the
  condition released, and the done callback runs in whichever thread comes first.
* **Model calls take minutes.** They run with no transaction open; what was read before
  the call is written after it. Conversations protect this by a lock and a comparison,
  reasoning threads and reflections do not.
* **Clients time out and retry** a turn under the same id while the first attempt runs,
  waits for approval or is already summarised away.
* **An agent fails after it acted.** Retry and failover start the run again, on this
  endpoint or the next; the tools it called have acted, some side by side.
* **Processes die between two transactions**: between decision, staging, acceptance and
  mark of an observation; between an e-mail and the record of it; between the step of
  a thread and its notice; between the socket and the PID file; between two chunks of
  an export; between the two saves of a merge.
* **The daemon is not alone**: one-shot processes chat, curate, deliver, reflect and
  advance threads on the same data with no scheduler in between.
* **What a turn shows comes two ways**: by a bounded subscription that may expire, and by
  a log that is rotated under the reader.
* **Telling of an operation can fail it**: audits are validated where they are told, after
  the operation wrote its records.
* **Things that must eventually happen** hang on periodic scans, counted retries and
  delayed reconciliations that make up for dropped or lost requests.

The forty hazards are listed one by one, at their lines, in `PROJECT.json`.

### Properties that make each component correct

* Scheduler: one task per resource and per identity at a time, limits kept, every
  admitted future settled exactly once, no lost wake-up, priority order on a lane, a
  shutdown that returns has left nobody waiting.
* Instance: the daemon that serves owns socket and PID file; a reported stop is a
  finished stop; a daemon asked to stop exits.
* Conversations: updates of one conversation never overlap; an unfinished turn stays
  marked until its reply is stored; indexes are stable; a stored reply is reused; an
  approved call is executed once; clients are answered; long conversations shrink.
* Agent runs: what has changed something is not run again; nothing that asks first acts
  before what it asks was approved; every run ends.
* Memory: a candidate enters memory once; a processed observation has its plan carried
  out; what was accepted stays; every observation is processed.
* Delivery: a channel acts at most once; records tell the truth and are final; requested
  deliveries end.
* Reasoning: nothing is noted or announced that is not stored; the oldest active thread
  is advanced. Exports: a complete job has its whole document, nothing stored is composed
  again, a job is attended to and settled.
* Reflection: spacing and daily cap hold, a merged idea is noted elsewhere, cycles end.
* Live activity: events are shown once or the REPL knows it must read the log; a closer
  runs once; an append is what it reports; a request ends.
* Storage: a transaction is whole or not there; a repair keeps what others wrote; the
  database survives its migrations; every message is observed once by them.
* Records and audits: what is stored can be read and is what was held; conversions lose
  nothing; what an operation tells is accepted.

## 2. Plan

| # | module | status |
|---|---|---|
| 1 | `TaskContract`, `DaemonScheduler` (+ `Properties`) | done, proved in `DaemonWorkProofs`, with the refinement |
| 2 | `Delivery` (+ `Properties`) | done, proved in `DaemonWorkProofs` |
| 3 | `ConversationTurns` (+ `Properties`, `Proofs`) | done, proved |
| 4 | `MemoryCuration` (+ `Properties`, `Proofs`) | done, proved |
| 5 | `DaemonInstance` (+ `Properties`) | done, proved in `SharedFilesProofs` |
| 6 | `ReasonThreads` (+ `Properties`) | done, proved in `ReasoningProofs` |
| 7 | `PersonaDiscussion`, `Reflection` (+ `Proofs`) | done, MergedIsNoted and Paced proved |
| 8 | `ReasonExport` | done, proved in `ReasoningProofs` |
| 9 | `AgentCalls` (+ `Proofs`) | done, proved |
| 10 | `LogStore`, `LiveActivity` (+ `Proofs`) | done, proved |
| 11 | `SchemaMigrations`, `Authority`, `Storage` (+ `Properties`) | done, proved in `SharedFilesProofs` |
| 12 | `RecordKinds`, `StoredRecords`, `DaemonMessages`, `Records` | done, proved in `SharedFilesProofs` |
| 13 | `AuditContracts` | done, proved in `DaemonWorkProofs` |

What is left: thought packs and workspaces of the storage; the reading of whole logs; the import of sources, one transaction a file.

## 3. The modules and the code

Each component has a module (state, Init, one action per critical section, transaction or
external call, Next, Spec), a `...Properties` module where the properties are more than a
few, and, where something is proved, a `...Proofs` module. An `MC...` module instantiates
it for TLC. Operators commented "Fault:" are not part of a specification; they are
mutations that a property is shown to catch.

### DaemonScheduler (`daemon/scheduler.py`)

One action per critical section of the scheduler's condition and one per call made outside
it. `pending`, `active`, `busy`, `sequence`, `phase` are the fields of the same names;
`work` holds the tasks between `_pending.remove` and the end of `_complete`, with the
stage they are at (picked, submitted, running, finished, completing, settling) and the
thread that runs the callback; `outcomes` are the settled futures, by sequence number;
`dispatcher`, `waitUntil` and `closer` are program counters of the dispatcher and of the
thread in `shutdown`. Time is a counter. A handler succeeds or fails; it is assumed to
return. `snapshot` reads and changes nothing.

`TaskContract` is the contract without clock, priorities, dispatcher, executor or
callbacks; `ImplementsContract` maps the scheduler onto it.

### Delivery (`delivery/*`, `inbox/service.py`, publishers)

A record has a status, a plan frozen by the first delivery, and a result and a number of
attempts per adapter. A process goes through request, lock, prepare, recover, lookup, the
loop over adapters (begin, send, finish) and the aggregate; each is one transaction or one
call of a channel. `effects` counts what the channel really did: a send may raise before
or after its effect, and a crash may come at any step. A process may find no channel
(`Mute`: the desktop without osascript, or an adapter told to rehearse); its adapter then
writes that to the log, which is `noted`, and reports success, so that a record is sent of
which the log says that nothing was shown.

### ConversationTurns (`conversation/store.py`, `agent/chat/*`, `daemon/state.py`, `application/projection.py`)

A lane per conversation (the scheduler's guarantee, see ResourceExclusion and
IdentityOwnership), one-shot processes beside it, clients that ask, give up, come back with
a resolution or retry. `ConversationStore.update` is begin (marker), respond (model, no
transaction) and commit (compared with what was read). A message is its role, turn, input
and an answer number; an answer of a model is new each time, the answer without an endpoint
and the failure answer are fixed. The summary is abstracted to the index the kept messages
start at. Compression is one step, its lock keeps other writers out. Continuations live in
the daemon's memory; a call that needs approval is a number and the request it makes
(`RequestOf`), which another call may make as well: a resolution resumes the continuation that
waits with its request, and executes that one's call.

### MemoryCuration (`memory/*`, `profile/*`)

Every database call is a step. A plan is a sequence of actions; a candidate is named by
observation and position, as `candidate_id` does; an entry or profile item is the sequence
of candidates that went into it. Curators (daemon, one-shot) contend for the observation's
lock; reviewers accept, merge, reject, edit and delete; the optimizer stages proposals.
Texts, scores and embeddings are abstracted: a conflict with an existing entry is a choice.

### DaemonInstance (`daemon/instance.py`, `server.py`, `lifecycle.py`, `signals.py`, `socket_server.py`, `client.py`)

Daemon processes step through taking the lock, unlinking stale files, composing, binding,
publishing the PID file, serving and the cleanup; any step may raise where the code lets
it. Clients ping, probe the lock (by taking it, as the code does), decide, send the
shutdown request, spawn, and poll.

### ReasonThreads (`reason/service.py`, `scheduler.py`, `repository.py`)

Every operation reads a thread, works on its copy and saves the whole of it, one database
call per step. A thread is its status, the steps it has taken up and the rest of its
cooldown. The agent makes a step with a recommendation or fails. `erased` is a history
variable.

### ReasonExport (`reason/export.py`, `output.py`)

A job is planned from the thread's steps in windows, each of which may be given new
headings; the tasks compose chunk after chunk, skip those already stored, combine them and
settle the manifest. A failure is counted in the manifest and the retry admitted from the
callback, before the task that failed is gone; a submission that raises leads to a delayed
reconciliation, which may be dropped or joined to the task that submits it. A plan writes its
manifest and then its progress, and either write may raise, before the file was replaced or
after it (`PlanFails`): with the manifest written a job is planned that nobody is woken for. A
manifest may also be unreadable to a task. Such jobs are noted in `stranded`, a history variable.
A daemon that starts takes up what is not settled and skips what it cannot read. The user may
delete the thread at any step. `spent` counts the calls of the agent that composes, over all jobs
and attempts.

### Reflection (`reflection/*`), PersonaDiscussion (`persona/discussion.py`, `graph.py`)

A cycle passes the gates (quiet hours, cooldown, interval with jitter, daily cap), has a
candidate discussed, reads the schedule anew, writes entry, schedule and inbox item one
after the other. A forced cycle of the CLI passes every gate but an unreadable state, and in
quiet hours, which are looked at first, that one too: it then gives up when it reads the
schedule anew. The organizer saves the entries as it listed them, the entry kept first. The discussion is a pure function of what
the personas score: who is heard in a turn, whether it goes on, what the last turn decides.
Hours are a counter, a day is `HoursPerDay` of them. `crossed` and `clobbered` remember
that a cycle wrote the schedule, or a save an entry, behind another's back; `published` what
unforced cycles showed, with the hour each began.

### AgentCalls (`agent/failover.py`, `endpoint.py`, `middleware.py`, `chat/response.py`, `reason/advancer.py`, `runtime/feature/*`)

A caller (a chat turn or an advance) runs the agent on the configured endpoints, the one
preferred last time first. A model call answers, asks for tools or fails in one of the
ways the classifier tells apart; tools run side by side and are cached for the run, and
their outcomes captured; a confirmed tool suspends the run until a decision comes, which
may be late or repeated. A decision is told apart by the request it answers (`RequestOf`), not by
the call: a tool that summarises its arguments for the user (memory_create) makes a request of
its own for each call, the others the same for all (`SummarisedTools`). The preferred endpoint is kept in a file,
which may be unreadable. `acted` holds each action with the run and the endpoint it came
from.

### LogStore (`log/store.py`, `reader.py`), LiveActivity (`cli/repl/*`, `daemon/activity.py`, `runtime/execution.py`)

Appending takes the thread lock and the file lock, rotates when the file is full, writes,
synchronizes, and rolls back when one of them fails. Records are two pieces long, so that a
write may stop in the middle. A cursor follows the file by identity and offset. Over it, a
turn of the daemon publishes events to the log and to the broker; the REPL opens a
subscription, polls it, falls back to the log, sends the request in a thread of its own
that an interrupt cancels (token, closer, join), and may send it again.

### SchemaMigrations (`scripts/database_migrations/*`), Authority (`storage/authority.py`, `scripts/migrate_database.py`), Storage (`storage/sqlite.py`, `scripts/migrate_legacy_memory_records.py`, `cli/commands/data.py`)

`SchemaMigrations` are the edges between versions, when they refuse, and what the edge to
version 7 makes of a conversation's cursor and plan. In `Authority` processes create or
open the file under the lease, and the operator's script backs it up and migrates it in a
transaction; any of them may die. `Storage` adds the records: the threads of a process
share one connection and its reentrant lock. Nested transactions share one: a depth is
counted, and a part that raises marks the whole to be rolled back only. A single write
begins its own transaction, a statement may meet another writer, a commit or rollback may
fail. A connection reads a snapshot. The repair script keeps the records it can migrate as
it scanned them, compares each of these, and no other, inside its transaction, and then
writes each; the generic edit compares its one record outside.

### RecordKinds, StoredRecords, DaemonMessages, Records (`*/model.py`, `*/wire.py`, `daemon/protocol.py`, `payloads.py`, `runtime/*`)

A record is a form: for each field the way the decoder reads it, that is, which of the
values told apart it accepts, what it makes of them, what it leaves out in writing, and
the error it refuses others with. `StoredRecords` has the forms in the database,
`DaemonMessages` those on the socket. `Records` follows one record: made, updated, merged,
converted, stored, edited or sent by another version, and read. `f ++ g` is a record with
the fields of both, as the forms and the conversions are put together.

### AuditContracts (`runtime/audit/*`, `*/audit.py`, `cli/daemon_lifecycle.py`)

The catalog of contracts and, for each operation that tells one, what the audit may hold:
`S ** T` are the metadata of `S` told together with those of `T`.
The audits of `daemon start`, `stop` and `restart` are put together from several probes of
a daemon and are followed step by step.

## 4. Runs

All runs take two workers and less than three minutes each.

| run | instance | properties |
|---|---|---|
| `scheduler` | 3 identities (a chat and a compression on one lane, a recurring scan), 2 workers, room for 2, both shutdown modes, fairness | SchedulerInv, ImplementsContract, FutureSettles, ShutdownDrains |
| `delivery` | a daemon with two adapters, of which it finds one channel, and a client with one, one item, one crash, fairness | DeliveryInv, RequestsFinish |
| `conversation` | 2 conversations, a client, a one-shot process with or without endpoint, 2 turn ids, up to 3 submissions and 1 management operation, 2 calls a run that ask the same, 1 crash | TurnsSafe, ApprovedOnce, ConversationKept |
| `conversation_live` | 1 conversation, a client, a one-shot process, 3 submissions, 1 approval a run, 1 crash, fairness | ClientAnswered, CompressionCatchesUp |
| `memory` | 2 curators and 2 observations, or 1 of each with 2 reviewers and a proposal; 2 actions a plan, 1 crash, 1 deferral, 1 refusal, fairness | CurationSafe, ObservationProcessed |
| `instance` | 2 daemons, 2 clients, 2 operations, 1 kill, 1 raising step, fairness | ServesItsFiles, StopIsComplete, AskedExits |
| `reasoning` | 2 threads, the daemon and a user, 3 operations, 1 failure; or 2 export jobs of 2 chunks, 2 attempts, 2 places, 2 failures (of calls, plans, reads or the daemon), a deletion; fairness | NothingUnstored, OldestServed; WholeOutput, Awaited, FailureCostsOneCall, JobSettles |
| `reflection` | the daemon and a user, 2 entries, days of 3 hours, cap 1, 1 failure, fairness | Paced, MergedIsNoted, CycleEnds |
| `agent_calls` | a chat turn and an advance, 2 endpoints, 4 tools of which 2 ask first, with and without their arguments, 2 rounds, 2 attempts, 2 decisions, fairness | NotReplayed, ApprovedFirst, RunsEnd |
| `advance_replayed` | one advance, 2 endpoints | **violation** of AdvanceNotReplayed |
| `live_activity` | a turn of 2 events, a subscription of 1, files of 3 pieces, 1 backup, 2 attempts, 2 faults, an interrupt, fairness | OutcomeHonest, NothingMissed, NoneRepeated, ClosedOnce, TurnEnds |
| `storage` | 3 threads in 2 processes, 2 records, no database or one of version 6, migrations to 7 and 5, 2 faults; or one record of each of 37 forms; or every audit | AllOrNothing, RepairKeepsChanges, AuthorityKept, NothingForgotten; StoredIsRead, NothingLost; AuditsAccepted |

**Properties that are conjunctions.** Where several invariants are about one state they are
checked as one: `SchedulerInv` (type invariant, ResourceExclusion, ConcurrencyBound,
IdentityOwnership, SettledOnce, NoFutureLost, NoMissedWakeup, NoOvertaking and the three
strengthenings of section 5), `DeliveryInv` (type invariant, AtMostOnce, LockCoversAttempt
and the two shapes), `TurnsSafe` (type invariant, UpdatesSerialized, ReplyReused,
ObservationAccepted), `ConversationKept` (FailClosed, IndexesStable) and `CurationSafe` (type
invariant, AppliedOnce, CarriedOut, AcceptedIsKept). The modules keep a "Fault:" operator for
the parts, and each is caught by the conjunction; only the two faults in the end of the
dispatcher's wait take delayed tasks with different deadlines to show, which the run does
not have and the proofs cover.

**Runs of several parts.** `reasoning` and `storage` check modules side by side that have no
variable in common: a variable `part` says at the start which of them a behaviour is of, and
the others do not move. Every behaviour of every module is there, and fairness is stated
for each part as in its module.

**Bounds.** Every bound is a constant named `Max...` that appears in a guard. Two of a kind
(processes, tasks on a lane, threads, adapters, endpoints, chunks) are what a conflict takes;
one crash at any step covers every gap between two writes; two submissions of one turn and
one for another are what a retry, a join and a compression take (with `Recent = 2` and
`Trigger = 3` the second turn makes a conversation compressible). One shared lane and one
other are enough for the scheduler since resources and identities only exclude by equality;
the concurrency limit, which two lanes never exceed, is left to the proofs. A subscription of
one event and files of three pieces (a record and a half) make dropping and rotation happen in
the middle of a turn of two. A log with one backup loses a file at the second rotation, and
then cursors fall behind. Days of three hours have an hour that is quiet, one before
midnight and one after. Version 6 is the only one whose migration has to look at
conversations. `CHECK_DEADLOCK FALSE` is set where the system comes to rest when its bounded
operations are used up; the scheduler and delivery runs check deadlock.

**Constraints on steps** cut what is alike, or bound what happens together: `BeginsHere` names
the first chat's conversation and turn and bounds submissions and management together;
`JobsInOrder` names the first job and deletes a thread with one job or none; `ChatsFirst` has
the advance run after a chat that changed nothing (they share only the endpoint's file), `InOrder`
names the calls that run side by side, and `FewDecisions` bounds what is decided of one run. These
hold back users and submissions only, for which no fairness is stated, or name what is alike. `UsersOrCurators` names the
curator that dies, bounds faults together, and lets users act only while the second curator
rests; as that one has to list the inbox in the end, ObservationProcessed says nothing of
behaviours in which users act, and the run shows it for the two curators, their deaths and
their agents' failures. The safety of curation is shown for both.

**Fairness** is weak and stated per actor. Scheduler: the dispatcher, the workers, the
callbacks, the closing thread and the clock go on, as threads that hold no lock do; nobody
has to submit, start or shut down. Delivery: the daemon's delivery task recurs and a
delivery under way goes on (SMTP and the desktop call have timeouts); clients and crashes
are free. Conversations: a lane or process in the middle of an update goes on (model calls
have timeouts), an idle lane takes its tasks, the scan recurs; clients may stay away.
Memory: curators go on and list the inbox again (the daemon's scan). Instance: daemons go
on and accept what is in their backlog; clients may stop at any step. Reasoning: the due
check runs and time passes; users may stop at any step. Exports: the tasks of the daemon and
its planning go on, and a daemon that died is started again. Reflection: a process in a
cycle goes on. Agent runs: a run goes on while nobody has to decide. Live activity: the
daemon's turn, the threads of the REPL and a process that appends go on; users, faults,
deadlines and the expiry of a subscription need not come.

**Conditions in properties.** Outside of these the code does not do what one would wish, see
section 6. `ApprovedOnce` speaks of conversations with no compression and no management so
far, `ObservationAccepted` of those with no management, `AppliedOnce` and `CarriedOut` of
histories in which no user has reviewed or discarded, `AcceptedIsKept` of those without an
edit and of the only fact of an observation, `Awaited` and `JobSettles` of jobs whose wake-up
was not given up (a plan that failed with its manifest written, a manifest that could not be read, a
reconciliation or first wake-up that was refused), `Paced` and `MergedIsNoted` of histories in which no process wrote behind
another's back, `NothingMissed` of a REPL that was not disturbed while it read the log: a
cursor that is overtaken, or that began while the file was away between two renames (it has no
identity then, and starts at whatever file it finds first), may lose events;
`AllOrNothing` of connections that could end their transactions, `AuditsAccepted` of all
audits but the three that `Unforeseen` names.

## 5. Proofs

Theorems in eight modules, checked by TLAPS for all values of the constants under the named
assumptions of the modules (positive limits, well-formed submissions, disjoint sets of
processes, bounds that are naturals, a value for what is absent that is none of the records).
A daemon is taken to keep its settings: in `ConversationTurns` a process that may be either
with or without an endpoint is a one-shot process (`ProcsAssumption`), since a daemon that
came back without its endpoint would answer a resolution locally.

* `DaemonWorkProofs`, of the scheduler. The inductive invariant `SchedulerInv` is the conjunction of the
  safety properties with three strengthenings: `FutureOwners` (no two queued or dispatched
  tasks own the same future), `DispatcherShape` (where the dispatcher is, against the tasks it
  dispatched; it runs at most one callback itself) and `CloserShape` (how far the shutdown has
  come, and what is therefore empty). They are needed because exclusion on a resource depends
  on the gap between `_pending.remove` and `_complete`, which no field of the scheduler
  records. One lemma per action. From it: type correctness, ResourceExclusion,
  IdentityOwnership, SettledOnce, NoMissedWakeup, NoOvertaking, StoppedMeansSettled and the
  action property that closed admission stays closed.
  Then `Spec => ImplementsContract`: initial states map to initial states and
  every step to a step of `TaskContract` or a stutter, using `SchedulerInv`.
* `DaemonWorkProofs`, of delivery. `DeliveryInv` adds `DelivererShape` (what a process in the middle of a
  delivery knows of its record) and `RecordShape` (how results, plan and effects of a record
  agree, and that a result `sent` is of an adapter that acted or has noted that it cannot); without them AtMostOnce cannot exclude that a recovered adapter is attempted anew.
* `SharedFilesProofs`, of the daemon's files. `IInv` adds that the lock is held by a daemon exactly while it is
  in an owning phase, that the files of a listening daemon are its own, and that the daemon
  a client asked was an owner then and is gone once the client has seen the lock free.
* `SharedFilesProofs`, of the database. `StorageInv` says of each connection (`ConnOk`) that
  the writer's transaction stands on the newest rows, that who does not write shows what it
  has read, and that the lock is held by a thread at work unless the connection could not end
  a transaction; of each thread (`TaskOk`) that its connection shows what the transaction
  stands on with what the thread intends written over it; and of the file (`AuthorityHeld`)
  that it is created and migrated under the lease only and that the script's draft has its
  rows. `AllOrNothing` is lost without the second: the file changes by what a connection
  shows, not by what a thread intends. From it: AllOrNothing, RepairKeepsChanges (each
  record that was scanned to be repaired is as the transaction stands on it) and AuthorityKept. `Elsewhere` and
  `AuthorityAside` say once what a step of one thread leaves alone, so that a lemma about an
  action is about its own connection and thread. For NothingForgotten, `ConversationHeld`
  adds that a migration is of the version the database has, that its edges lead on from the
  version reached, and that the draft is past the edge to version 7 or not; it rests on
  `ConversationAssumption`: a plan begins at the cursor or behind it and ends within the
  conversation, and what is observed already is behind the cursor.
* `SharedFilesProofs`, of the records. A field is sound if every value its decoder makes of
  something is accepted, and read as itself, after it was written or left out (`Sound`). Every
  kind of field is shown to be sound, and with it every form, so that a record is read as it
  was if it holds what its fields keep (`EncodedIsRead`). `RecordInv` says that it does: what
  the program holds has the fields of its form, with values they keep, and obeys the rule for
  several fields of its form (`Proper`), and what is stored is the encoding of such a record,
  or an edit has been there since. One lemma per action: a value that an update, a merge or
  a conversion takes from one form must be one that the other form keeps, which is not so of
  every pair of them. From it StoredIsRead; and NothingLost, form by form (`ConvertLoses`).
* `DaemonWorkProofs`, of the audits. What any part of the program tells besides is taken event
  by event (`AuditsTaken`): the parts of its metadata each fit the contract, so what is told of
  them together does (`FitsBoth`), and where the contract has a rule for several fields, they
  agree. `AuditInv` is about the lifecycle commands, whose audits are put together from what
  was seen at several times: a restart that has stopped the daemon has a result that ended
  stopped and goes on from that status, without another look; so the two transitions it tells
  of fit together, whatever the daemon does in between. AuditsAccepted follows; the module has no
  constants, and TLC's check of it is as complete.
* `ReasoningProofs`, of threads. `ReasonInv` adds to NothingUnstored what the copies in the hands of
  the processes are: a copy has noted only what is stored, however old it is and whatever the
  thread has become since (`CopiesStored`), a step about to be published is stored
  (`NoticeStored`), and a process that saves has a copy (`ProcessShape`). Without the
  second, NothingUnstored is lost when an older copy is saved over a newer thread, which the
  code allows. The two are so only until the thread is deleted, and a process that sweeps the
  steps of a thread has deleted it before. One lemma per action.
* `AgentCallsProofs`. `AgentInv` says of each chat turn what its run knows. What changed
  something is captured by the run there is, in its endpoint and attempt (`OneRun`), so a
  retry or failover, which needs that nothing mutating was captured, starts from nothing
  done. What a call about to act asks was approved, if it is confirmed, and so was what a
  decision in hand or on its way is about (`Approved`): a late decision does not let a call act
  that asks something else. It may let another call act that asks the same, which the theorem
  does not exclude (section 6). `Asks`: a run that waits has a call to decide about. The advances are left
  out, of which NotReplayed is not true (section 6).
* `ConversationTurnsProofs`. Three invariants, each on the one before.
  `TurnsInv` is about turns and locks: UpdatesSerialized is inductive only with what each
  process has in hand (`ProcTypes`), with the facts that only the last reply of a conversation is
  made without an endpoint (`Tidied`), that a resolution is carried out by a lane with an
  endpoint (`Resolved`), and that a process that runs an agent runs a turn that is not complete
  (`Runs`). From it, with
  lemmas on what a begin, a commit, a compression and a branch do to a sequence of messages
  (`Succeeds`, `Follows`): FailClosed and IndexesStable, for any `Recent` and `Trigger`.
  `ClaimsInv` is about observations: until a conversation is deleted, renamed or branched, a reply
  has its message where nothing was cut (`Paired`), what was observed agrees with what is left
  of the messages it names (`Sound`), and two processes about to publish under one name have the
  same content (`PublishersAgree`). That is
  ObservationAccepted. `ApprovedInv` is about approved calls: a turn whose calls had effects has
  left its marker or the reply of a model, a suspended run waits for a call nobody has executed
  (`Approves`), and who runs an agent has its turn marked and its continuation taken
  (`RunsMarked`); hence ApprovedOnce. One lemma per action in each layer.
* `MemoryCurationProofs`. Two invariants. `MemoryInv` holds whoever reviews: a working curator
  has the lock of its observation (`CuratorAt`), entries are numbered upwards and never anew
  (`Grows`), and every copy of a candidate, stored or in the hands of a process however long
  ago it was read, names an entry that was there when it was accepted, and while nobody edits
  its entry has what it brought (`Copy`): the half of AcceptedIsKept that is about entries.
  `Undisturbed` holds as long as no user reviews or discards. It says what AppliedOnce and
  CarriedOut rest on: a source of an item was accepted for that very item, also in the hands of
  a user that edits it (`Once`); a profile item has the fact it was last given (`Facts`); a
  candidate is of the stored plan until its observation is processed (`StagedFrom`), which a
  curator resuming after a crash relies on; and a curator works on the stored plan and has
  staged and accepted every action it came past (`Undertaken`, `Carrying`). `CarryingKept`
  needs the lock: the other curators are at other observations. `IdentityAssumption` says that
  entries are told apart from observations, as ids of different kinds are in the code. One
  lemma per action in each layer.
* `ReflectionProofs`. `MergeInv` says of each process what the organizer has read: what it
  listed is still stored in some state, and what it is about to archive is noted in another
  entry, unless an older copy was saved over that one (`Mindful`). The entry that keeps a group
  is saved before the others, so MergedIsNoted holds between any two saves. `PaceInv` is what
  Paced needs. It is about what was shown and what the daemon is about to show: all of it is in
  the schedule, which is written first, within its count and not after its time, and keeps cap
  and distance (`Spread`). The cycle that writes next must have counted from the schedule it
  replaces. It counts from one read after its gate, so of every cycle under way it is kept that
  its gate saw a schedule written before the one it counts from, and that one before the
  schedule there is (`Timely`). Schedules only come later, by their time and count: if the one
  replaced is the one the gate saw, all three are the same. A forced cycle that passed its gate
  with an unreadable schedule counts only if another cycle has written one since, which then
  wrote it behind its back.
* `ReasoningProofs`, of exports. `ExportInv` adds to WholeOutput and Awaited that what is behind the
  worker is stored (`Behind`), that a task that runs is one of those admitted and has a copy of
  its manifest (`WorkShape`), that a job has manifest and tasks only after it was planned
  (`PlanShape`), and that no task is a later attempt than its manifest allows (`Attempts`): the
  retry is submitted under a number of its own before the task that failed is gone, and would
  otherwise be joined to it. The sections of every plan, whether the agent's or the
  fixed windows, are shown to partition the thread's steps (`PlansPartition`), so every chunk
  has its headings. A plan that fails with its manifest written leaves a job without a task, which
  `ExportInv` allows only as `stranded`. FailureCostsOneCall compares the calls of the agent with
  the set of all stored chunks; it rests on `SpentInv`, which adds that a chunk in hand is not
  stored yet, so that storing it makes that set larger by one.

* `LiveActivityProofs`. `LogInv` says where every piece of every record is: of a writer that holds
  the lock, the boundary it has noted is the end of the file before its record (`InHand`); a
  record that is not being written is there in neighbouring pieces, or not at all if it was not
  persisted (`Honest`), whatever a fault has left between others. Rotation moves files as they
  are (`LogMoves`), and a rollback takes back what is behind the boundary, which is the writer's own.
  That is OutcomeHonest. `CloserInv` says who has the closer of a request: the list, the
  cancellation that has taken it, or nobody, and then it has run; so ClosedOnce. `ShownInv` is
  about a request and its subscription: what was shown is marked in the cursor, the broker holds
  events in their order that come after all that were shown, and all of them are past in the
  log, so none can come twice, by either way or by both (NoneRepeated). `FollowInv` and `ToldInv`
  give NothingMissed. As long as nothing disturbed the reading, every line of the log is ended
  but the one that is being written at its very end (`Lines`), the cursor stands in a file at a
  place that is there (`Placed`), and an event that was told, or has its line in the log and is
  about to be, is marked in the cursor or begins after it (`FollowInv`): appends only put lines
  behind it, and a read marks every line that is ended (`ReadsOn`), however the files have moved
  to the next number in between. An event that was told is shown or still in a
  subscription that has dropped nothing; without one it is only the log that has it, and the read
  before the request ends shows it, since a line that is not ended is of an event that nobody
  was told of (`ToldInv`, `Unended`).

Facts about numbers that need induction (a least element of a set of naturals, the number of
chunks, the last of a sequence of steps) are proved by a least counterexample, from the
library's `NatLessThanWellFounded` and `WFMin`, which take no operator.

**Only model-checked**: every liveness property (FutureSettles, ShutdownDrains,
RequestsFinish, ClientAnswered, CompressionCatchesUp, ObservationProcessed, AskedExits,
OldestServed, JobSettles, CycleEnds, RunsEnd, TurnEnds), which is out of the prover's reach.
Every other property of a passing run is stated by a theorem.

## 6. Where the code and what is said of it disagree

One run exhibits a disagreement (it is the finding of `PROJECT.json`): in `advance_replayed`
an advance whose endpoint becomes unavailable after a tool has acted goes on with the next
endpoint, and the tools act again, although `docs/spec/reason.md:489` says that the advancer
"must not switch endpoints". The error it raises to stop the failover is chained from the
endpoint's failure (`reason/advancer.py:301`), and the classifier follows the chain
(`agent/endpoint.py:211`).

The modules state further sentences of the documentation that TLC refutes on the same models,
without a run of their own:

| definition | what the code does | what is said |
|---|---|---|
| CompletedTurnIdempotent | a completed turn is recognised only by its messages (`conversation/store.py:70`), which a compression removes; a later retry runs the turn and its approved call again | a completed `turn_id` is idempotent (`docs/spec/cli.md:329`) |
| DeletedStaysDeleted | a compression queued by a turn and run after the deletion stores the conversation again (`agent/chat/engine.py:500`) | "Permanently delete a conversation." (`conversation/store.py:253`) |
| SentIsShown | without osascript the desktop adapter logs `macos_unavailable` and returns success, and the record is sent (`delivery/macos.py:29`) | adapters "return only delivery success" (`docs/spec/delivery.md:37`) |
| EachCallApproved | a decision is matched by its request, without arguments for reflection_dismiss, reason_propose and reason_export (`runtime/feature/approval.py:140`, `agent/chat/response.py:154`): one that is delivered again approves the run's next call of that tool | "Suspend the active graph and resume with an exact resolution." (`agent/effect.py:19`) |
| AnswersItsInput | a submission of an active turn id joins the task whatever its message, and gets the other message's answer (`daemon/state.py:229`) | a reuse "with different input fails with an explicit turn conflict" (`docs/spec/errors.md:768`) |
| ObservationAccepted, after a deletion or rename | indexes start over, so `observe` raises an identity collision after the reply was committed (`application/projection.py:29`) | the turn is durably observed after the commit (`docs/spec/memory.md:94`) |
| HalfTurnsAnswered | with an odd `recent_messages` the kept slice begins with a reply whose message is summarised: no marker is left and the turn is run again (`agent/chat/state.py:64`) | "the retry must return the already-persisted assistant reply" (`docs/spec/errors.md:778`) |
| AcceptedByOne | `accept` tests that a candidate is pending outside of its transaction (`memory/repository.py:476`); a curator and a user both accept it | "an accepted candidate is not staged or accepted again" (`docs/spec/memory.md:124`) |
| DecisionsFinal | `reject` tests no state, a late `edit` writes the old one back (`memory/repository.py:509`) | accepted and rejected are final (`docs/spec/memory.md:337-341`) |
| PlansRemoved | after a crash between `mark_processed` and `complete` nobody looks at the plan again (`memory/curator/worker.py:256`) | "its plan is removed" (`docs/spec/memory.md:128-129`) |
| CarriedOut, after a discard | the new decision finds the candidates of the discarded one under the same ids (`memory/curator/plan.py:35`) | discarding makes the observation eligible for a new decision (`docs/spec/memory.md:145-146`) |
| FactsKept | two profile facts of one observation have the id of their source (`profile/model.py:92`), the second replaces the first (`memory/repository.py:577`) | "Converts to `MemoryEntry` (or `ProfileItem`)" (`docs/spec/memory.md:345`) |
| AcceptedIsKept, with an edit | `archive`, `update_importance`, `unquarantine` and `memory edit` save what they read earlier (`memory/service.py:307`) | sources of an accepted update are concatenated (`docs/spec/memory.md:348`) |
| GivesUpForDaemon | a client's probe takes the lock, and a daemon tries it once (`daemon/instance.py:106`) | "another daemon owns this project runtime" (`daemon/instance.py:50`) |
| StopEndsStopped | the phase `inconsistent` ends the wait, and the result raises ValueError (`daemon/lifecycle.py:535`); the command is then not told of either (CommandsTold) | "a successful daemon stop must end stopped" (`daemon/lifecycle.py:177`) |
| OwnedByDaemon | the lock may be held by another client's probe (`daemon/instance.py:113`) | "startup, cleanup, or an unresponsive owner" (`docs/spec/runtime-infrastructure.md:1105`) |
| EveryThreadServed | the oldest thread is eligible at every check (`reason/scheduler.py:39`), so younger active threads are never advanced | the scheduler is invoked "to advance eligible threads" (`docs/spec/reason.md:587`) |
| StatusAlongTable, DeletedForGood, NotesComplete | threads are saved whole as they were read: a status is undone, a deleted thread restored, findings dropped (`reason/service.py:211`, `334`, `227`) | `docs/spec/reason.md:269-274`, `831-837`; `reason/advancer.py:132` |
| EveryStepTold | the notice is added after the transaction and never repeated (`reason/service.py:244`) | "Every non-`no_change` Reason step creates one" item (`docs/spec/inbox.md:29`) |
| ActiveCap | no thread is counted (`reason/service.py:114`) | "Default cap: 5 active threads" (`docs/spec/reason.md:436`) |
| NeverStranded | a reconciliation whose submission raises is dropped or joined to the task that submits it (`reason/export.py:410`); a plan that raises between manifest and progress (`reason/output.py:120-121`) wakes nobody, and a manifest that cannot be read once is not asked for again (`reason/export.py:290`, `431`): the job rests until the daemon is started again | the worker "must schedule a delayed reconciliation" (`docs/spec/reason.md:254`) |
| CompleteForGood | a step that raises after the manifest was written complete is counted on it as a failure | a complete job is settled |
| CapAlways | a forced cycle beside the daemon's writes the schedule back with its own count (`reflection/scheduler.py:147`) | "Maximum published reflections per local-system-date" (`docs/spec/reflection.md:169`) |
| EveryReflectionTold | the inbox item comes after the entry and is not made up for | "Every published reflection creates an `InboxItem`" (`docs/spec/reflection.md:223`) |
| DismissedForGood | the organizer writes entries as it listed them (`reflection/organizer.py:37`) | dismissed: "User explicitly dismissed" (`docs/spec/reflection.md:46`) |
| CyclesTold | a candidate may be a `share_bundle` (`reflection/model.py:8`), which the audit of the cycle refuses (`reflection/audit.py:65`) after entry, schedule and inbox item are written | the candidate types without it (`docs/spec/reflection.md:28`) |
| ChunksTold | the duration is a difference of wall clocks (`reason/output.py:226`); a negative one is refused after the chunk was written | |
| ShownOnce | an event read from the log before the broker has it comes again by the subscription of the next request (`cli/repl/activity.py:147`) | old events must not be replayed (`docs/spec/logs.md:297`) |
| Reaped | a second Ctrl-C while the closers run goes past the join (`cli/repl/activity.py:247`) | |
| AcknowledgedReadable | after a failed rollback or a kill in a write the next record joins the broken line (`log/store.py:482`) | |
| NeverGone | a cursor's file is away between its stat and its open, and the error ends the REPL (`log/reader.py:285`) | |
| EditNeverOverwrites | the record is compared before the transaction begins (`cli/commands/data.py:242`) | the edit "compares the original record again inside the transaction" (`docs/spec/storage-v2.md:205`) |
| WritesRecover, FreshReads, FailedStaysFailed | a single write that meets another writer leaves its transaction open (`storage/sqlite.py:272`): later reads are of an old snapshot, later writes fail, or are committed with what failed | |
| MigrationRepeatable | the backup of a failed migration is in the way of the next; and going back to version 6 and on to 7 again forgets the cursors | |
| ReadCanBeSaved | a memory with a confidence out of range, or reviewed and of an unknown type, is read and refused when it is saved (`memory/model.py:241`) | |
| ImportanceKept | an item made of a candidate, and a merge of items, have the importance of a new one (`profile/model.py:234`) | |
| RefusedAsExpected, EventsRefused | a huge integer raises OverflowError, which readers do not expect (`runtime/observability.py:38`); a log event raises a TypeError the payload's reader does not turn into a bad answer (`daemon/payloads.py:493`) | |

Smaller ones, met while modelling: a blank title of a payload is dropped
when it is written; `ReflectionEntry.from_wire` casts a status it does not check; a thread's
tracked items may lack a label, and a step its time; `ChatRequestPayload` can be made with a
blank conversation id that its reader refuses; a memory of an empty type, which only an edit
of the data can make, has its curation refused by the audit; four contracts
(`export_queue_drained`, `export_worker_get_error`, `export_retry_callback_failed`,
`post_chat_curation_failed`) are defined and never told.

## 7. Not modelled

* Terminal rendering, configuration, the conversation service and its history, the evaluation
  suite, the codecs of features, the agent's tools, and the parsing and formatting of CLI
  commands: they format, read once, or call one operation that a module has as an action; see
  `PROJECT.json` for each with its reason.
* Of the scheduler: that low priorities may starve under a stream of high ones (the code
  promises nothing), handlers that never return, the snapshot for `daemon status`.
* Of the daemon: rotation of the process log, the failure of a shutdown request itself,
  signals delivered during the cleanup beyond setting the request, the reads and writes of
  the socket.
* Of the domains: the text of messages, prompts, summaries, evidence and scores; trace
  records; the search in memory and its relation graph; the import of sources.
* Of the personas: those a chat activates and the commands that manage them.
* Of the log: the reading of whole logs and its sorting; of the storage: thought packs,
  private workspaces, file modes, and what the edges before version 7 do to a record's form.
* Storage below a transaction: SQLite and the kernel's locks are taken to do what they
  promise.
