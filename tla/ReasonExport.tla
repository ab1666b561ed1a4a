----------------------------- MODULE ReasonExport -----------------------------
(***************************************************************************)
(* Export jobs of a reasoning thread (src/nuself/reason/export.py and      *)
(* output.py). A chat tool plans a job; tasks of the daemon compose its    *)
(* chunks, combine them and settle the manifest; failures are counted and  *)
(* retried, and a daemon that starts takes up what is not settled. Tasks   *)
(* about one thread run one at a time; a user may delete the thread.       *)
(***************************************************************************)
EXTENDS Integers, Sequences, FiniteSets, SequencesExt

CONSTANTS
    Jobs,           \* jobs that may be planned, all of one thread
    StepCount,      \* steps selected for a job
    SegmentSize,    \* steps of a chunk
    WindowSize,     \* steps of a section, when the planner gives no plan
    MaxAttempts,    \* failures until a job is given up
    Capacity,       \* tasks the scheduler admits
    MaxRaised,      \* bound: calls that raise and daemons that die
    Absent

ASSUME ExportAssumption ==
    /\ StepCount \in Nat \ {0} /\ SegmentSize \in Nat \ {0} /\ WindowSize \in Nat \ {0}
    /\ MaxAttempts \in Nat \ {0} /\ Capacity \in Nat /\ MaxRaised \in Nat
    /\ Absent \notin Jobs

VARIABLES
    manifest,   \* of each job: Absent, or its status, failures and sections
    progress,   \* of each job: Absent, or the status of its document and PDF
    chunks,     \* of each job, the chunks stored
    combined,   \* of each job: Absent, or the chunks the document was made of
    thread,     \* the thread: "stored", "deleting" or "deleted"
    tasks,      \* tasks admitted and not completed, by job and attempt
    worker,     \* the task that runs
    plan,       \* the job a chat tool is planning
    up,         \* the daemon runs
    raised,     \* calls that have raised and daemons that have died
    used,       \* jobs planned so far: every job has a name of its own
    spent,      \* calls of the agent that composes; kept for the properties
    stranded    \* jobs with a manifest whose wake-up was given up, or never asked for

files == <<manifest, progress, chunks, combined>>
exportVars == <<files, thread, tasks, worker, plan, up, raised, used, spent, stranded>>

-----------------------------------------------------------------------------
(* The plan of a job: which steps make a chunk, and which a section *)

Positions == 0..(StepCount - 1)
Smaller(a, b) == IF a < b THEN a ELSE b

ChunkCount == (StepCount + SegmentSize - 1) \div SegmentSize
Chunks == 1..ChunkCount
FirstStep(chunk) == (chunk - 1) * SegmentSize

Section == [start : Positions, end : Positions]

\* plan_sections: windows of one size, the last of them shorter.
PlanSections ==
    LET window == Smaller(StepCount, WindowSize) IN
    [k \in 1..((StepCount + window - 1) \div window) |->
        [start |-> (k - 1) * window, end |-> Smaller(k * window, StepCount) - 1]]

\* What the agent may answer: up to StepCount ordered ranges, which may end
\* behind the last step.
Answers ==
    BoundedSeq({s \in [start : 0..StepCount, end : 0..StepCount] : s.start <= s.end}, StepCount)
       \ {<<>>}

\* Fault: that the last step is covered is not asked.
UpToTheLast(answer) ==
    /\ answer[1].start = 0
    /\ \A k \in 1..(Len(answer) - 1) : answer[k + 1].start = answer[k].end + 1
    /\ \A k \in 1..Len(answer) : answer[k].end < StepCount

\* _materialize_section_plan
IsPartition(answer) ==
    /\ answer[1].start = 0
    /\ \A k \in 1..(Len(answer) - 1) : answer[k + 1].start = answer[k].end + 1
    /\ \A k \in 1..Len(answer) : answer[k].end < StepCount
    /\ answer[Len(answer)].end + 1 = StepCount

\* An answer that is no partition, and an agent that fails, leave it to the windows.
SectionPlans == {answer \in Answers : IsPartition(answer)} \cup {PlanSections}

\* _section_for_position: the first section that holds the step, or the last one.
SectionFor(sections, position) ==
    LET holding == {k \in 1..Len(sections) :
                       sections[k].start <= position /\ position <= sections[k].end} IN
    IF holding = {} THEN Len(sections) ELSE CHOOSE k \in holding : \A l \in holding : k <= l

-----------------------------------------------------------------------------

JobStatuses == {"planned", "complete", "failed"}
Manifest == [status : JobStatuses, attempts : 0..MaxAttempts, sections : SectionPlans]
Task == [job : Jobs, attempt : 0..(MaxAttempts + 1)]

ASSUME AbsentAssumption == Absent \notin Manifest /\ Absent \notin Task

\* The task that runs: its step, the manifest it read and the chunk it has come to.
NoWork == [task |-> Absent, step |-> "idle", copy |-> Absent, chunk |-> 1]
NoPlan == [job |-> Absent, step |-> "none"]

ExportTypeOK ==
    /\ manifest \in [Jobs -> Manifest \cup {Absent}]
    /\ progress \in [Jobs -> {Absent, "planned", "composed", "generated", "pdf_failed"}]
    /\ chunks \in [Jobs -> SUBSET Chunks]
    /\ combined \in [Jobs -> {Absent} \cup SUBSET Chunks]
    /\ thread \in {"stored", "deleting", "deleted"}
    /\ tasks \subseteq Task /\ Cardinality(tasks) <= Capacity
    /\ worker.task \in {Absent} \cup tasks /\ worker.copy \in Manifest \cup {Absent}
    /\ worker.step \in {"idle", "read", "chunk", "write", "settle", "report", "pdf",
                        "count", "retry", "reconcile"}
    /\ worker.chunk \in 1..(ChunkCount + 1)
    /\ plan.job \in Jobs \cup {Absent} /\ plan.step \in {"none", "manifest", "progress", "wake"}
    /\ up \in BOOLEAN /\ raised \in 0..MaxRaised
    /\ used \subseteq Jobs /\ spent \in Nat /\ stranded \subseteq Jobs

ExportInit ==
    /\ manifest = [j \in Jobs |-> Absent] /\ progress = [j \in Jobs |-> Absent]
    /\ chunks = [j \in Jobs |-> {}] /\ combined = [j \in Jobs |-> Absent]
    /\ thread = "stored" /\ tasks = {} /\ worker = NoWork
    /\ plan = NoPlan
    /\ up = TRUE /\ raised = 0
    /\ used = {} /\ spent = 0 /\ stranded = {}

CallFails == raised < MaxRaised /\ raised' = raised + 1
Unsettled(j) == manifest[j] # Absent /\ manifest[j].status = "planned"
Job == worker.task.job
WorkerTo(step) == worker' = [worker EXCEPT !.step = step]
TaskEnds == worker' = NoWork /\ tasks' = tasks \ {worker.task}

-----------------------------------------------------------------------------
(* plan_job: the manifest, the progress, the wake-up *)

PlanRead(j) ==
    /\ up /\ plan.job = Absent /\ thread # "deleted" /\ j \notin used
    /\ used' = used \cup {j} /\ plan' = [job |-> j, step |-> "manifest"]
    /\ UNCHANGED <<files, thread, tasks, worker, up, raised, spent, stranded>>

NewManifest ==
    \E sections \in SectionPlans :
       manifest' = [manifest EXCEPT ![plan.job] =
                       [status |-> "planned", attempts |-> 0, sections |-> sections]]

PlanManifest ==
    /\ up /\ plan.step = "manifest" /\ NewManifest
    /\ plan' = [plan EXCEPT !.step = "progress"]
    /\ UNCHANGED <<progress, chunks, combined, thread, tasks, worker, up, raised, used, spent,
                   stranded>>

PlanProgress ==
    /\ up /\ plan.step = "progress"
    /\ progress' = [progress EXCEPT ![plan.job] = "planned"]
    /\ plan' = [plan EXCEPT !.step = "wake"]
    /\ UNCHANGED <<manifest, chunks, combined, thread, tasks, worker, up, raised, used, spent,
                   stranded>>

\* write_json_atomic raises, before the file was replaced or after it, and so does
\* plan_job: a manifest that was written is that of a planned job nobody is woken for.
PlanFails ==
    /\ up /\ CallFails /\ plan' = NoPlan
    /\ \/ plan.step = "manifest" /\ UNCHANGED <<files, stranded>>
       \/ /\ plan.step = "manifest" /\ NewManifest
          /\ stranded' = stranded \cup {plan.job} /\ UNCHANGED <<progress, chunks, combined>>
       \/ /\ plan.step = "progress"
          /\ progress' \in {progress, [progress EXCEPT ![plan.job] = "planned"]}
          /\ stranded' = stranded \cup {plan.job} /\ UNCHANGED <<manifest, chunks, combined>>
    /\ UNCHANGED <<thread, tasks, worker, up, used, spent>>

\* A wake-up that is refused leaves the manifest to the next start of the daemon.
PlanWake ==
    /\ up /\ plan.step = "wake" /\ plan' = NoPlan
    /\ LET woken == [job |-> plan.job, attempt |-> 0] IN
       \/ /\ Cardinality(tasks \cup {woken}) <= Capacity
          /\ tasks' = tasks \cup {woken} /\ UNCHANGED <<raised, stranded>>
       \/ /\ IF woken \notin tasks /\ Cardinality(tasks) >= Capacity
             THEN UNCHANGED raised ELSE CallFails
          /\ stranded' = stranded \cup {plan.job} /\ UNCHANGED tasks
    /\ UNCHANGED <<files, thread, worker, up, used, spent>>

-----------------------------------------------------------------------------
(* process: one task *)

StartTask(task) ==
    /\ up /\ worker.task = Absent /\ task \in tasks
    /\ worker' = [NoWork EXCEPT !.task = task, !.step = "read"]
    /\ UNCHANGED <<files, thread, tasks, plan, up, raised, used, spent, stranded>>

\* The manifest is inspected, then read with the thread and its steps. A job that
\* is settled, or has no manifest, is left alone.
Read ==
    /\ up /\ worker.step = "read"
    /\ CASE ~Unsettled(Job)    -> TaskEnds
         [] Unsettled(Job) /\ thread = "deleted" -> WorkerTo("count") /\ UNCHANGED tasks
         [] OTHER -> /\ worker' = [worker EXCEPT !.step = "chunk", !.copy = manifest[Job]]
                     /\ UNCHANGED tasks
    /\ UNCHANGED <<files, thread, plan, up, raised, used, spent, stranded>>

\* A manifest that cannot be read is left alone, too: nothing asks for the job again.
Unreadable ==
    /\ up /\ worker.step = "read" /\ CallFails /\ TaskEnds
    /\ stranded' = stranded \cup {Job}
    /\ UNCHANGED <<files, thread, plan, up, used, spent>>

AtChunk(c) == up /\ worker.step = "chunk" /\ worker.chunk = c

\* Fault: chunks that are stored are composed again.
Afresh(c) ==
    /\ AtChunk(c) /\ WorkerTo("write")
    /\ spent' = spent + 1
    /\ UNCHANGED <<files, thread, tasks, plan, up, raised, used, stranded>>

\* A chunk that is stored is passed over, any other is composed.
Compose(c) ==
    /\ AtChunk(c)
    /\ IF c \in chunks[Job]
       THEN worker' = [worker EXCEPT !.chunk = c + 1] /\ UNCHANGED spent
       ELSE WorkerTo("write") /\ spent' = spent + 1
    /\ UNCHANGED <<files, thread, tasks, plan, up, raised, used, stranded>>

WriteChunk ==
    /\ up /\ worker.step = "write"
    /\ worker' = [worker EXCEPT !.step = "chunk", !.chunk = @ + 1]
    /\ chunks' = [chunks EXCEPT ![Job] = @ \cup {worker.chunk}]
    /\ UNCHANGED <<manifest, progress, combined, thread, tasks, plan, up, raised, used, spent,
                   stranded>>

\* _finalize_job: the document, the manifest, the progress, the PDF. A chunk that is
\* not there any more is left out of the document.
Combine ==
    /\ AtChunk(ChunkCount + 1) /\ WorkerTo("settle")
    /\ combined' = [combined EXCEPT ![Job] = chunks[Job]]
    /\ UNCHANGED <<manifest, progress, chunks, thread, tasks, plan, up, raised, used, spent,
                   stranded>>

Settle ==
    /\ up /\ worker.step = "settle" /\ WorkerTo("report")
    /\ manifest' = [manifest EXCEPT ![Job] = [worker.copy EXCEPT !.status = "complete"]]
    /\ UNCHANGED <<progress, chunks, combined, thread, tasks, plan, up, raised, used, spent,
                   stranded>>

Report ==
    /\ up /\ worker.step = "report" /\ WorkerTo("pdf")
    /\ progress' = [progress EXCEPT ![Job] = "composed"]
    /\ UNCHANGED <<manifest, chunks, combined, thread, tasks, plan, up, raised, used, spent,
                   stranded>>

\* The PDF is made by a script that may fail or run out of time.
MakePdf ==
    /\ up /\ worker.step = "pdf" /\ TaskEnds
    /\ \E outcome \in {"generated", "pdf_failed"} :
          progress' = [progress EXCEPT ![Job] = outcome]
    /\ UNCHANGED <<manifest, chunks, combined, thread, plan, up, raised, used, spent, stranded>>

-----------------------------------------------------------------------------
(* Failures and retries *)

\* The agent fails, and the call was made, or a file cannot be read or written.
ComposeFails ==
    /\ up /\ worker.step \in {"chunk", "write", "settle", "report", "pdf"} /\ CallFails
    /\ WorkerTo("count")
    /\ spent' = IF worker.step = "chunk" /\ worker.chunk \in Chunks \ chunks[Job]
                THEN spent + 1 ELSE spent
    /\ UNCHANGED <<files, thread, tasks, plan, up, used, stranded>>

\* Fault: a job that has failed too often starts anew.
Patient(read) == [read EXCEPT !.attempts = (@ + 1) % MaxAttempts]

\* _persist_export_failure: the last failure settles the job.
Counted(read) ==
    [read EXCEPT !.attempts = Smaller(@ + 1, MaxAttempts),
                 !.status = IF read.attempts + 1 >= MaxAttempts THEN "failed" ELSE @]

CountFailure ==
    /\ up /\ worker.step = "count" /\ manifest[Job] # Absent
    /\ manifest' = [manifest EXCEPT ![Job] = Counted(@)]
    /\ IF manifest'[Job].attempts >= MaxAttempts THEN TaskEnds
       ELSE /\ worker' = [worker EXCEPT !.step = "retry", !.copy = manifest'[Job]]
            /\ UNCHANGED tasks
    /\ UNCHANGED <<progress, chunks, combined, thread, plan, up, raised, used, spent, stranded>>

\* The manifest cannot be read, or its write raises, before it was replaced or after.
CountFails ==
    /\ up /\ worker.step = "count" /\ WorkerTo("reconcile")
    /\ \/ manifest[Job] = Absent /\ UNCHANGED <<manifest, raised>>
       \/ /\ manifest[Job] # Absent /\ CallFails
          /\ manifest' \in {manifest, [manifest EXCEPT ![Job] = Counted(@)]}
    /\ UNCHANGED <<progress, chunks, combined, thread, tasks, plan, up, used, spent, stranded>>

\* Fault: a retry has the identity of the first task.
SameAttempt(counted) == 0

RetryAttempt(counted) == counted.attempts + 1

\* The next attempt is admitted while the task that failed still runs.
Retry ==
    /\ up /\ worker.step = "retry"
    /\ LET after == tasks \cup {[job |-> Job, attempt |-> RetryAttempt(worker.copy)]} IN
       IF Cardinality(after) <= Capacity
       THEN tasks' = after \ {worker.task} /\ worker' = NoWork
       ELSE WorkerTo("reconcile") /\ UNCHANGED tasks
    /\ UNCHANGED <<files, thread, plan, up, raised, used, spent, stranded>>

\* _schedule_delayed_reconciliation: it has the identity of the first task. One
\* that is refused is given up, one that is joined to the task that asks for it
\* goes with it.
Reconcile ==
    /\ up /\ worker.step = "reconcile"
    /\ LET again == [job |-> Job, attempt |-> 0] IN
       /\ worker' = NoWork
       /\ IF again # worker.task /\ Cardinality(tasks \cup {again}) <= Capacity
          THEN tasks' = (tasks \cup {again}) \ {worker.task} /\ UNCHANGED stranded
          ELSE tasks' = tasks \ {worker.task} /\ stranded' = stranded \cup {Job}
    /\ UNCHANGED <<files, thread, plan, up, raised, used, spent>>

-----------------------------------------------------------------------------
(* The daemon dies and starts; the thread is deleted *)

DaemonDies ==
    /\ up /\ CallFails
    /\ up' = FALSE /\ tasks' = {} /\ worker' = NoWork
    /\ plan' = NoPlan
    /\ UNCHANGED <<files, thread, used, spent, stranded>>

\* recover: every manifest that is not settled gets a task, as far as they are
\* admitted. One that cannot be read is skipped.
Recover ==
    /\ ~up /\ up' = TRUE
    /\ \E readable \in SUBSET {j \in Jobs : Unsettled(j)}, woken \in SUBSET Jobs :
          /\ woken \subseteq readable
          /\ Cardinality(woken) = Smaller(Capacity, Cardinality(readable))
          /\ raised' = raised + Cardinality({j \in Jobs : Unsettled(j)} \ readable)
          /\ raised' \in raised..MaxRaised
          /\ tasks' = {[job |-> j, attempt |-> 0] : j \in woken}
          /\ stranded' = {j \in Jobs : Unsettled(j)} \ woken
    /\ UNCHANGED <<files, thread, worker, plan, used, spent>>

\* A user deletes the thread: first the files of its jobs, then its records.
DeleteOutput ==
    /\ thread = "stored" /\ thread' = "deleting"
    /\ manifest' = [j \in Jobs |-> Absent] /\ progress' = [j \in Jobs |-> Absent]
    /\ chunks' = [j \in Jobs |-> {}] /\ combined' = [j \in Jobs |-> Absent]
    /\ UNCHANGED <<tasks, worker, plan, up, raised, used, spent, stranded>>

DeleteRecords ==
    /\ thread = "deleting" /\ thread' = "deleted"
    /\ UNCHANGED <<files, tasks, worker, plan, up, raised, used, spent, stranded>>

-----------------------------------------------------------------------------

Process ==
    \/ \E task \in tasks : StartTask(task)
    \/ \E c \in Chunks : Compose(c)
    \/ Read \/ WriteChunk \/ Combine \/ Settle \/ Report \/ MakePdf
    \/ CountFailure \/ CountFails \/ Retry \/ Reconcile

Planning == PlanManifest \/ PlanProgress \/ PlanWake

ExportNext ==
    \/ \E j \in Jobs : PlanRead(j)
    \/ Planning \/ PlanFails \/ Process \/ Unreadable \/ ComposeFails \/ DaemonDies \/ Recover
    \/ DeleteOutput \/ DeleteRecords

ExportSpec == ExportInit /\ [][ExportNext]_exportVars

\* The daemon runs the tasks it has admitted, and is started again.
ExportFairSpec ==
    /\ ExportSpec
    /\ WF_exportVars(Process) /\ WF_exportVars(Planning) /\ WF_exportVars(Recover)

-----------------------------------------------------------------------------
(* Properties *)

Served(j) == \E task \in tasks : task.job = j

\* A job whose manifest says complete has its whole document, whatever failed or
\* was interrupted on the way; every step it was planned for is under exactly one
\* heading, and the headings follow each other (output.py, export.py). Only the
\* deletion of the thread takes parts away.
WholeOutput ==
    \A j \in Jobs : thread = "stored" /\ manifest[j] # Absent =>
       /\ manifest[j].status = "complete" => combined[j] = Chunks
       /\ \A position \in Positions :
             Cardinality({k \in 1..Len(manifest[j].sections) :
                manifest[j].sections[k].start <= position
                /\ position <= manifest[j].sections[k].end}) = 1
       /\ \A c \in Chunks \ {1} :
             SectionFor(manifest[j].sections, FirstStep(c - 1))
                <= SectionFor(manifest[j].sections, FirstStep(c))

\* output.py: "Skip already-written chunks so a mid-export failure doesn't waste
\* LLM calls on retry". Over all jobs and attempts, retries, reconciliations and
\* restarts together, the agent is called once for each chunk that is stored, and at
\* most once more for each call that failed or daemon that died, and for the chunk in
\* hand: what was paid for is not lost again later.
Stored == {place \in Jobs \X Chunks : place[2] \in chunks[place[1]]}
FailureCostsOneCall ==
    thread = "stored" =>
       spent <= Cardinality(Stored) + raised + (IF worker.step = "write" THEN 1 ELSE 0)

\* A job that is not settled has a task that will see to it, at every moment the
\* daemon runs: the retry is admitted before the task that failed is gone. The
\* exceptions are the wake-ups the code gives up: a plan that fails with its manifest
\* written, a manifest that could not be read, a reconciliation that was refused.
Awaited ==
    \A j \in Jobs :
       up /\ Unsettled(j) /\ j \notin stranded /\ plan.job # j => Served(j)

\* A planned job is settled in the end, also when its thread was deleted and when
\* the daemon dies, unless its wake-up was given up, as after a failure between the two
\* files of its plan (output.py:120, 121): that job is left to the next start.
JobSettles == \A j \in Jobs : Unsettled(j) ~> ~Unsettled(j) \/ j \in stranded

-----------------------------------------------------------------------------
(* Said of the code, and not true of it: TLC has a counterexample to each. *)

\* reason.md, Export Worker Online Recovery: the worker "must schedule a delayed
\* reconciliation request rather than waiting for daemon restart".
\* A job that was planned may also lack its first wake-up.
NeverStranded == \A j \in Jobs : up /\ Unsettled(j) /\ plan.job # j => Served(j)

\* A job that is complete stays complete.
CompleteForGood ==
    [][\A j \in Jobs : manifest[j] # Absent /\ manifest[j].status = "complete" =>
          manifest'[j] = Absent \/ manifest'[j].status = "complete"]_exportVars
=============================================================================
