---------------------------- MODULE ReasonThreads ----------------------------
(***************************************************************************)
(* Reasoning threads (src/nuself/reason: service, scheduler, repository).  *)
(* The daemon's scheduler advances one thread at every check; users        *)
(* advance, pause, resume, resolve, archive and delete threads from other  *)
(* processes. Every operation reads a thread, works on its copy and saves  *)
(* the whole of it.                                                        *)
(***************************************************************************)
EXTENDS Naturals, FiniteSets

CONSTANTS
    MaxThreads,     \* bound: threads ever started, numbered as they are created
    Users,          \* processes other than the daemon
    Daemon,
    Verbs,          \* operations the users perform
    Interval,       \* time between checks, and the cooldown
    MaxSteps,       \* bound: steps told apart; later ones are not tracked
    MaxOperations,  \* bound: operations of users
    MaxFailures,    \* bound: agents that fail and processes that die
    None

Threads == 1..MaxThreads
Steps == 1..MaxSteps
Procs == Users \cup {Daemon}
Statuses == {"active", "paused", "resolved", "archived"}
Transitions == {"pause", "resume", "resolve", "archive"}
Recommendations == {"continue", "suggest_resolved", "suggest_paused"}

ASSUME BoundsAssumption ==
    /\ MaxThreads \in Nat /\ MaxSteps \in Nat /\ MaxOperations \in Nat
    /\ MaxFailures \in Nat /\ Interval \in Nat \ {0}
ASSUME ProcsAssumption ==
    /\ Daemon \notin Users
    /\ Verbs \subseteq Transitions \cup {"start", "advance", "delete"}
    /\ None \notin [status : Statuses, notes : SUBSET Steps, wait : 0..Interval]

VARIABLES
    threads,    \* the threads stored, None where there is none
    steps,      \* the steps stored of each thread
    telling,    \* steps that are not of the kind no_change
    inbox,      \* steps published to the inbox
    workspace,  \* threads with files in their workspace
    at,         \* what each process is doing
    due,        \* time until the next check
    started,    \* threads started so far
    made,       \* steps generated so far
    erased,     \* threads deleted so far, kept for the properties
    operations, failures

stored == <<threads, steps, telling, inbox, workspace>>
history == <<started, made, erased>>
vars == <<stored, at, due, history, operations, failures>>

Thread == [status : Statuses, notes : SUBSET Steps, wait : 0..Interval]

\* A process: its operation and step, the thread it is about, the copy of it,
\* the reasoning step it has (0 for none that is tracked), what the step recommends and the
\* steps it has yet to delete.
Rest == [op |-> "none", step |-> "idle", thread |-> 0, copy |-> None,
         new |-> 0, ends |-> "continue", gone |-> {}]

TypeOK ==
    /\ threads \in [Threads -> Thread \cup {None}]
    /\ steps \in [Threads -> SUBSET Steps]
    /\ telling \subseteq Steps /\ inbox \subseteq Steps /\ workspace \subseteq Threads
    /\ at \in [Procs ->
          [op : Verbs \cup {"none", "check"},
           step : {"idle", "load", "think", "save", "notify", "cool", "coolSave",
                   "files", "thread", "find", "sweep"},
           thread : 0..MaxThreads, copy : Thread \cup {None}, new : 0..MaxSteps,
           ends : Recommendations, gone : SUBSET Steps]]
    /\ due \in 0..Interval
    /\ started \in 0..MaxThreads /\ made \in 0..MaxSteps /\ erased \subseteq Threads
    /\ operations \in 0..MaxOperations /\ failures \in 0..MaxFailures

Init ==
    /\ threads = [t \in Threads |-> None] /\ steps = [t \in Threads |-> {}]
    /\ telling = {} /\ inbox = {} /\ workspace = {}
    /\ at = [p \in Procs |-> Rest]
    /\ due = Interval
    /\ started = 0 /\ made = 0 /\ erased = {} /\ operations = 0 /\ failures = 0

Exists(t) == threads[t] # None
Tracked(new) == {new} \ {0}
To(p, step) == at' = [at EXCEPT ![p].step = step]
Fails == failures < MaxFailures /\ failures' = failures + 1

\* An operation ends, or raises. A check is due again one interval later.
Ends(p) ==
    /\ at' = [at EXCEPT ![p] = Rest]
    /\ due' = IF p = Daemon THEN Interval ELSE due

-----------------------------------------------------------------------------
(* What begins an operation *)

\* start_thread
Start(u) ==
    /\ "start" \in Verbs /\ at[u].step = "idle" /\ operations < MaxOperations
    /\ started < MaxThreads
    /\ started' = started + 1 /\ operations' = operations + 1
    /\ threads' = [threads EXCEPT ![started'] =
                      [status |-> "active", notes |-> {}, wait |-> 0]]
    /\ UNCHANGED <<steps, telling, inbox, workspace, at, due, made, erased, failures>>

Begin(u, verb, t) ==
    /\ verb # "start" /\ at[u].step = "idle" /\ operations < MaxOperations
    /\ t <= started
    /\ operations' = operations + 1
    /\ at' = [at EXCEPT ![u] = [Rest EXCEPT !.op = verb, !.thread = t, !.step = "load"]]
    /\ UNCHANGED <<stored, due, history, failures>>

Eligible == {t \in Threads : Exists(t) /\ threads[t].status = "active" /\ threads[t].wait = 0}

\* Fault: the newest thread goes first.
Newest(t) == \A other \in Eligible : other <= t

First(t) == \A other \in Eligible : t <= other

\* run_once: the first active thread that is not on cooldown is advanced.
Check ==
    /\ at[Daemon].step = "idle" /\ due = 0
    /\ \/ Eligible = {} /\ Ends(Daemon)
       \/ \E t \in Eligible :
             /\ First(t)
             /\ at' = [at EXCEPT ![Daemon] =
                          [Rest EXCEPT !.op = "check", !.thread = t, !.step = "think"]]
             /\ UNCHANGED due
    /\ UNCHANGED <<stored, history, operations, failures>>

-----------------------------------------------------------------------------
(* Advancing *)

\* The agent thinks, and may write to the workspace. Its step is then saved: by
\* the scheduler from a fresh copy, by a user from the copy read before.
Think(p) ==
    /\ at[p].step = "think"
    /\ made' = IF made < MaxSteps THEN made + 1 ELSE made
    /\ LET new == IF made < MaxSteps THEN made + 1 ELSE 0 IN
       /\ telling' \in {telling, telling \cup Tracked(new)}
       /\ \E ends \in Recommendations :
             at' = [at EXCEPT ![p].new = new, ![p].ends = ends,
                              ![p].step = IF p = Daemon THEN "load" ELSE "save"]
    /\ workspace' \in {workspace, workspace \cup {at[p].thread}}
    /\ UNCHANGED <<threads, steps, inbox, due, started, erased, operations, failures>>

\* The agent fails, or returns no step: the scheduler cools the thread down, a user sees an error.
ThinkFails(p) ==
    /\ at[p].step = "think" /\ Fails
    /\ IF p = Daemon THEN To(p, "cool") /\ UNCHANGED due ELSE Ends(p)
    /\ UNCHANGED <<stored, history, operations>>

Allowed(verb, status) ==
    CASE verb = "pause"   -> status = "active"
      [] verb = "resume"  -> status = "paused"
      [] verb = "resolve" -> status \in {"active", "paused"}
      [] verb = "archive" -> status \in {"active", "paused", "resolved"}
      [] verb = "delete"  -> TRUE
      [] OTHER            -> status = "active"

AfterLoad(p) ==
    CASE at[p].op = "advance" -> "think"
      [] at[p].op = "delete"  -> "files"
      [] OTHER                -> "save"

\* resolve_thread and the test of its status.
Load(p) ==
    /\ at[p].step = "load"
    /\ LET t == at[p].thread IN
       IF Exists(t) /\ Allowed(at[p].op, threads[t].status)
       THEN /\ at' = [at EXCEPT ![p].copy = threads[t], ![p].step = AfterLoad(p)]
            /\ UNCHANGED due
       ELSE Ends(p)
    /\ UNCHANGED <<stored, history, operations, failures>>

\* Fault: a recommendation is taken for a status.
Verbatim(ends, status) == IF ends = "continue" THEN status ELSE ends

FinalStatus(ends, status) ==
    CASE ends = "suggest_resolved" -> "resolved"
      [] ends = "suggest_paused"   -> "paused"
      [] OTHER                     -> status

\* Fault: the step and the thread are saved in two transactions.
StepLater(p) ==
    /\ at[p].step = "save" /\ at[p].op \in {"advance", "check"}
    /\ LET mine == at[p] IN
       /\ threads' = [threads EXCEPT ![mine.thread] =
             [mine.copy EXCEPT !.notes = @ \cup Tracked(mine.new),
                               !.status = FinalStatus(mine.ends, @)]]
       /\ UNCHANGED steps
    /\ To(p, "notify")
    /\ UNCHANGED <<telling, inbox, workspace, due, history, operations, failures>>

\* The step and the thread are saved in one transaction.
SaveStep(p) ==
    /\ at[p].step = "save" /\ at[p].op \in {"advance", "check"}
    /\ LET mine == at[p] IN
       /\ threads' = [threads EXCEPT ![mine.thread] =
             [mine.copy EXCEPT !.notes = @ \cup Tracked(mine.new),
                               !.status = FinalStatus(mine.ends, @)]]
       /\ steps' = [steps EXCEPT ![mine.thread] = @ \cup Tracked(mine.new)]
    /\ To(p, "notify")
    /\ UNCHANGED <<telling, inbox, workspace, due, history, operations, failures>>

\* A step that says something goes to the inbox.
Notify(p) ==
    /\ at[p].step = "notify"
    /\ inbox' = inbox \cup (Tracked(at[p].new) \cap telling)
    /\ IF p = Daemon THEN To(p, "cool") /\ UNCHANGED due ELSE Ends(p)
    /\ UNCHANGED <<threads, steps, telling, workspace, history, operations, failures>>

\* defer_advancement reads the thread and saves it with its cooldown.
Cool ==
    /\ at[Daemon].step = "cool"
    /\ LET t == at[Daemon].thread IN
       IF Exists(t)
       THEN at' = [at EXCEPT ![Daemon].copy = threads[t], ![Daemon].step = "coolSave"]
            /\ UNCHANGED due
       ELSE Ends(Daemon)
    /\ UNCHANGED <<stored, history, operations, failures>>

CoolSave ==
    /\ at[Daemon].step = "coolSave"
    /\ threads' = [threads EXCEPT ![at[Daemon].thread] =
                      [at[Daemon].copy EXCEPT !.wait = Interval]]
    /\ Ends(Daemon)
    /\ UNCHANGED <<steps, telling, inbox, workspace, history, operations, failures>>

-----------------------------------------------------------------------------
(* Transitions and deletion *)

Target(verb) ==
    CASE verb = "pause"   -> "paused"
      [] verb = "resume"  -> "active"
      [] verb = "resolve" -> "resolved"
      [] OTHER            -> "archived"

SaveStatus(u) ==
    /\ at[u].step = "save" /\ at[u].op \in Transitions
    /\ threads' = [threads EXCEPT ![at[u].thread] =
                      [at[u].copy EXCEPT !.status = Target(at[u].op)]]
    /\ Ends(u)
    /\ UNCHANGED <<steps, telling, inbox, workspace, history, operations, failures>>

DeleteFiles(u) ==
    /\ at[u].step = "files" /\ To(u, "thread")
    /\ workspace' = workspace \ {at[u].thread}
    /\ UNCHANGED <<threads, steps, telling, inbox, due, history, operations, failures>>

DeleteThread(u) ==
    /\ at[u].step = "thread"
    /\ threads' = [threads EXCEPT ![at[u].thread] = None]
    /\ erased' = erased \cup {at[u].thread}
    /\ To(u, "find")
    /\ UNCHANGED <<steps, telling, inbox, workspace, due, started, made, operations,
                   failures>>

FindSteps(u) ==
    /\ at[u].step = "find"
    /\ at' = [at EXCEPT ![u].step = "sweep", ![u].gone = steps[at[u].thread]]
    /\ UNCHANGED <<stored, due, history, operations, failures>>

\* The steps found are deleted one by one.
Sweep(u) ==
    /\ at[u].step = "sweep"
    /\ \/ at[u].gone = {} /\ Ends(u) /\ UNCHANGED steps
       \/ \E s \in at[u].gone :
             /\ at' = [at EXCEPT ![u].gone = @ \ {s}]
             /\ steps' = [steps EXCEPT ![at[u].thread] = @ \ {s}]
             /\ UNCHANGED due
    /\ UNCHANGED <<threads, telling, inbox, workspace, history, operations, failures>>

\* A process dies in the middle of an operation, or a call in it raises; a
\* daemon is started again.
Crash(p) ==
    /\ at[p].step # "idle" /\ Fails
    /\ Ends(p)
    /\ UNCHANGED <<stored, history, operations>>

-----------------------------------------------------------------------------

Less(n) == IF n = 0 THEN 0 ELSE n - 1
Passed(thread) == IF thread = None THEN None ELSE [thread EXCEPT !.wait = Less(@)]

\* Times are kept as what remains of them.
Tick ==
    /\ due > 0 \/ \E t \in Threads : Exists(t) /\ threads[t].wait > 0
    /\ due' = Less(due)
    /\ threads' = [t \in Threads |-> Passed(threads[t])]
    /\ at' = [p \in Procs |-> [at[p] EXCEPT !.copy = Passed(@)]]
    /\ UNCHANGED <<steps, telling, inbox, workspace, history, operations, failures>>

Works(p) == Think(p) \/ Load(p) \/ SaveStep(p) \/ Notify(p) \/ ThinkFails(p)

Checks == Check \/ Works(Daemon) \/ Cool \/ CoolSave

Uses(u) ==
    \/ Start(u) \/ Works(u) \/ SaveStatus(u)
    \/ DeleteFiles(u) \/ DeleteThread(u) \/ FindSteps(u) \/ Sweep(u)
    \/ \E verb \in Verbs, t \in Threads : Begin(u, verb, t)

Next ==
    \/ Checks \/ Tick
    \/ \E u \in Users : Uses(u)
    \/ \E p \in Procs : Crash(p)

Spec == Init /\ [][Next]_vars

\* The daemon's scheduler runs the checks that are due, and time passes.
FairSpec == Spec /\ WF_vars(Checks) /\ WF_vars(Tick)
=============================================================================
