--------------------------- MODULE DaemonScheduler ---------------------------
(***************************************************************************)
(* The one task scheduler of the daemon (src/nuself/daemon/scheduler.py).  *)
(*                                                                         *)
(* Four kinds of thread meet in it:                                        *)
(*   - any thread that submits a task (socket request threads, handlers    *)
(*     that admit follow-up work, start-up);                               *)
(*   - the dispatcher, which picks a runnable task under the condition and *)
(*     hands it to the executor with the condition released;               *)
(*   - the executor's workers, which run the handler and, as the done      *)
(*     callback, _complete;                                                *)
(*   - the thread that shuts the scheduler down.                           *)
(* A step of this module is either one critical section of the condition   *)
(* or one call made outside it, so every interleaving the lock allows is a *)
(* behaviour.                                                              *)
(***************************************************************************)
EXTENDS Integers, FiniteSets

CONSTANTS
    Identities,      \* task identities
    Resources,       \* primary resource keys
    Submissions,     \* the calls of submit: [task, delay, interval]
    MaxConcurrency,  \* max_concurrency, also the number of workers
    QueueCapacity,   \* queue_capacity
    CancelModes,     \* values of shutdown's cancel_pending that callers pass
    MaxSequence,     \* bound: submit is not called past this sequence number
    MaxTime          \* bound: the clock stops here

Task == [id : Identities, res : Resources, prio : Int]

\* A submission's interval, or a queued task's, is 0 when it does not recur.
OneShot == 0

ASSUME ConcurrencyAssumption == MaxConcurrency \in Nat \ {0}
ASSUME CapacityAssumption == QueueCapacity \in Nat \ {0}
ASSUME SubmissionAssumption ==
    Submissions \subseteq [task : Task, delay : Nat, interval : Nat]
ASSUME CancelAssumption == CancelModes \subseteq BOOLEAN
ASSUME BoundAssumption == MaxSequence \in Nat /\ MaxTime \in Nat

VARIABLES
    phase,       \* _phase
    pending,     \* _pending: the queued tasks not yet dispatched
    active,      \* _active: the queued task of every identity in use
    busy,        \* _busy_resources
    sequence,    \* _sequence
    degraded,    \* _last_error is not None
    now,         \* the monotonic clock
    work,        \* tasks between _pending.remove and the end of _complete
    outcomes,    \* settled completion futures, by sequence number
    dispatcher,  \* where the dispatcher thread is
    waitUntil,   \* when its timed wait ends
    closer       \* where the thread that called shutdown is

queueVars == <<pending, active, busy, sequence, degraded>>
vars == <<phase, pending, active, busy, sequence, degraded, now, work,
          outcomes, dispatcher, waitUntil, closer>>

\* The dispatcher waits with no timeout.
Never == -1

\* _QueuedTask. Its completion future is named by its sequence number, which
\* no other queued task shares.
QueuedTask == [task : Task, runAt : Nat, seq : Nat, interval : Nat]

\* A dispatched task. "picked": chosen, not yet given to the executor;
\* "submitted": in the executor's queue; "running": its handler executes;
\* "finished": the handler ended before the done callback was attached;
\* "completing": _complete is about to take the condition; "settling":
\* _complete has released it and is about to settle the completion future.
\* cb names the thread that runs the callback once it is attached.
Stages == {"picked", "submitted", "running", "finished", "completing",
           "settling"}
Dispatched == [item : QueuedTask, at : Stages, ok : BOOLEAN,
               cb : {"none", "worker", "dispatcher"}]

Outcome == [seq : Nat, how : {"result", "error", "cancelled"}]

Phases == {"created", "running", "stopping", "stopped"}
DispatcherStates == {"none", "loop", "waiting", "submit", "attach",
                     "callback", "exited"}
CloserStates == {"idle", "joining", "draining", "timedout", "returned"}

TypeOK ==
    /\ phase \in Phases
    /\ pending \subseteq QueuedTask /\ IsFiniteSet(pending)
    /\ active \subseteq QueuedTask /\ IsFiniteSet(active)
    /\ busy \subseteq Resources /\ IsFiniteSet(busy)
    /\ sequence \in Nat
    /\ degraded \in BOOLEAN
    /\ now \in Nat
    /\ work \subseteq Dispatched
    /\ outcomes \subseteq Outcome
    /\ dispatcher \in DispatcherStates
    /\ waitUntil \in Nat \cup {Never}
    /\ closer \in CloserStates

Init ==
    /\ phase = "created"
    /\ pending = {}
    /\ active = {}
    /\ busy = {}
    /\ sequence = 0
    /\ degraded = FALSE
    /\ now = 0
    /\ work = {}
    /\ outcomes = {}
    /\ dispatcher = "none"
    /\ waitUntil = Never
    /\ closer = "idle"

-----------------------------------------------------------------------------
(* Helpers *)

\* Fault: the wake-up of a waiting dispatcher is lost.
NotifyNobody == UNCHANGED <<dispatcher, waitUntil>>

\* notify() and notify_all(): the dispatcher is the only thread that waits.
\* Once notified it re-evaluates the queue, as at the top of its loop.
Notify ==
    /\ dispatcher' = IF dispatcher = "waiting" THEN "loop" ELSE dispatcher
    /\ waitUntil' = Never

\* Fault: the identity stays in _active.
PopNothing(identity) == active

\* _active without the entry of this identity.
Pop(identity) == {q \in active : q.task.id # identity}

\* Fault: the resource is not looked at.
UnblockedByAny == pending

\* The pending tasks whose resource is free.
Unblocked == {q \in pending : q.task.res \notin busy}

SlotFree == Cardinality(busy) < MaxConcurrency

\* The tasks _next_runnable_locked takes the minimum of.
Eligible == {q \in Unblocked : SlotFree /\ q.runAt <= now}

\* Fault: the newest task first.
PrecedesLastInFirstOut(a, b) == a.seq > b.seq

\* The order of the sort key (priority, run_at, sequence).
Precedes(a, b) ==
    \/ a.task.prio < b.task.prio
    \/ a.task.prio = b.task.prio /\ a.runAt < b.runAt
    \/ a.task.prio = b.task.prio /\ a.runAt = b.runAt /\ a.seq < b.seq

IsNextRunnable(q) ==
    /\ q \in Eligible
    /\ \A r \in Eligible : r # q => Precedes(q, r)

\* Faults: the wait lasts until the last task is due, or has no timeout.
IsLatestDeadline(t) ==
    IF SlotFree /\ Unblocked # {}
    THEN /\ \E q \in Unblocked : t = q.runAt
         /\ \A q \in Unblocked : t >= q.runAt
    ELSE t = Never
IsNeverDeadline(t) == t = Never

\* _wait_timeout_locked, as the instant at which the wait ends.
IsWaitDeadline(t) ==
    IF SlotFree /\ Unblocked # {}
    THEN /\ \E q \in Unblocked : t = q.runAt
         /\ \A q \in Unblocked : t <= q.runAt
    ELSE t = Never

\* Fault: the delay with the wrong sign.
RunAtReversed(delay) == now - delay

\* When a task admitted now with this delay may run.
RunAt(delay) == now + delay

\* Fault: _active may grow one past its capacity.
HasRoomForOneMore == Cardinality(active) <= QueueCapacity

HasRoom == Cardinality(active) < QueueCapacity

\* Dispatched tasks that still hold their resource and identity.
InFlight == {w \in work : w.at # "settling"}

Move(w, w2) == work' = (work \ {w}) \cup {w2}

\* Workers of the executor that are executing a task or its callback.
OccupiedWorkers ==
    {w \in work : \/ w.at = "running"
                  \/ w.at \in {"completing", "settling"} /\ w.cb = "worker"}

-----------------------------------------------------------------------------
(* start and submit, by any thread *)

Start ==
    /\ phase = "created"
    /\ phase' = "running"
    /\ dispatcher' = "loop"
    /\ UNCHANGED <<queueVars, now, work, outcomes, waitUntil, closer>>

\* A submission that is admitted: the identity is not in use and there is
\* room. One that coalesces, or is refused, changes nothing.
Submit(s) ==
    /\ phase \in {"created", "running"}
    /\ \A q \in active : q.task.id # s.task.id
    /\ HasRoom
    /\ sequence < MaxSequence
    /\ LET queued == [task |-> s.task, runAt |-> RunAt(s.delay),
                      seq |-> sequence, interval |-> s.interval]
       IN  /\ pending' = pending \cup {queued}
           /\ active' = active \cup {queued}
    /\ sequence' = sequence + 1
    /\ Notify
    /\ UNCHANGED <<phase, busy, degraded, now, work, outcomes, closer>>

-----------------------------------------------------------------------------
(* The dispatcher *)

\* The dispatcher holds the condition and looks at the queue: it is at the
\* top of its loop, or its timed wait has ended.
DispatcherLooks ==
    \/ dispatcher = "loop"
    \/ dispatcher = "waiting" /\ waitUntil # Never /\ waitUntil <= now

Pick(q) ==
    /\ DispatcherLooks
    /\ IsNextRunnable(q)
    /\ pending' = pending \ {q}
    /\ busy' = busy \cup {q.task.res}
    /\ work' = work \cup
         {[item |-> q, at |-> "picked", ok |-> FALSE, cb |-> "none"]}
    /\ dispatcher' = "submit"
    /\ waitUntil' = Never
    /\ UNCHANGED <<phase, active, sequence, degraded, now, outcomes, closer>>

Wait ==
    /\ DispatcherLooks
    /\ Eligible = {}
    /\ ~(phase = "stopping" /\ busy = {})
    /\ \E t \in {q.runAt : q \in pending} \cup {Never} :
          /\ IsWaitDeadline(t)
          /\ waitUntil' = t
    /\ dispatcher' = "waiting"
    /\ UNCHANGED <<phase, queueVars, now, work, outcomes, closer>>

Exit ==
    /\ DispatcherLooks
    /\ Eligible = {}
    /\ phase = "stopping" /\ busy = {}
    /\ dispatcher' = "exited"
    /\ waitUntil' = Never
    /\ UNCHANGED <<phase, queueVars, now, work, outcomes, closer>>

\* executor.submit, with the condition released.
ExecutorSubmit(w) ==
    /\ dispatcher = "submit"
    /\ w.at = "picked"
    /\ Move(w, [w EXCEPT !.at = "submitted"])
    /\ dispatcher' = "attach"
    /\ UNCHANGED <<phase, queueVars, now, outcomes, waitUntil, closer>>

\* future.add_done_callback: it runs the callback at once, in the dispatcher,
\* when the future is already done.
AttachCallback(w) ==
    /\ dispatcher = "attach"
    /\ w.cb = "none"
    /\ IF w.at = "finished"
       THEN /\ Move(w, [w EXCEPT !.at = "completing", !.cb = "dispatcher"])
            /\ dispatcher' = "callback"
       ELSE /\ Move(w, [w EXCEPT !.cb = "worker"])
            /\ dispatcher' = "loop"
    /\ UNCHANGED <<phase, queueVars, now, outcomes, waitUntil, closer>>

-----------------------------------------------------------------------------
(* The workers *)

\* A worker takes the task from the executor's queue and enters _run.
Run(w) ==
    /\ w.at = "submitted"
    /\ Cardinality(OccupiedWorkers) < MaxConcurrency
    /\ Move(w, [w EXCEPT !.at = "running"])
    /\ UNCHANGED <<phase, queueVars, now, outcomes, dispatcher, waitUntil,
                   closer>>

\* The handler returns or raises; the executor's future is done.
HandlerEnds(w, ok) ==
    /\ w.at = "running"
    /\ Move(w, [w EXCEPT
                  !.at = IF w.cb = "none" THEN "finished" ELSE "completing",
                  !.ok = ok])
    /\ UNCHANGED <<phase, queueVars, now, outcomes, dispatcher, waitUntil,
                   closer>>

Recurs(w) == w.item.interval # OneShot /\ phase = "running"

\* Fault: the next occurrence reuses the completion future.
SameFuture(w) == [w.item EXCEPT !.runAt = RunAt(w.item.interval)]

\* The next occurrence, with a completion future of its own.
Repeated(w) ==
    [w.item EXCEPT !.runAt = RunAt(w.item.interval), !.seq = sequence]

\* The critical section of _complete: release the resource and the identity,
\* and queue the next occurrence of a recurring task.
Complete(w) ==
    /\ w.at = "completing"
    /\ busy' = busy \ {w.item.task.res}
    /\ degraded' = ~w.ok
    /\ IF Recurs(w)
       THEN /\ sequence' = sequence + 1
            /\ pending' = pending \cup {Repeated(w)}
            /\ active' = Pop(w.item.task.id) \cup {Repeated(w)}
       ELSE /\ active' = Pop(w.item.task.id)
            /\ UNCHANGED <<sequence, pending>>
    /\ Notify
    /\ Move(w, [w EXCEPT !.at = "settling"])
    /\ UNCHANGED <<phase, now, outcomes, closer>>

\* The end of _complete, with the condition released: set_result or
\* set_exception on the completion future.
Settle(w) ==
    /\ w.at = "settling"
    /\ outcomes' = outcomes \cup
         {[seq |-> w.item.seq, how |-> IF w.ok THEN "result" ELSE "error"]}
    /\ work' = work \ {w}
    /\ dispatcher' = IF w.cb = "dispatcher" THEN "loop" ELSE dispatcher
    /\ UNCHANGED <<phase, queueVars, now, waitUntil, closer>>

-----------------------------------------------------------------------------
(* shutdown *)

\* Fault: the queue is cleared and its futures are left as they are.
NothingCancelled == {}

\* completion.cancel() of every queued task.
Cancelled == {[seq |-> q.seq, how |-> "cancelled"] : q \in pending}

\* The critical section of shutdown. When it is called on a scheduler that
\* has already stopped it changes nothing.
Shutdown(cancelPending) ==
    /\ closer \in {"idle", "timedout"}
    /\ phase # "stopped"
    /\ phase' = "stopping"
    /\ IF cancelPending
       THEN /\ pending' = {}
            /\ active' = {q \in active :
                            \A p \in pending : p.task.id # q.task.id}
            /\ outcomes' = outcomes \cup Cancelled
       ELSE UNCHANGED <<pending, active, outcomes>>
    /\ Notify
    /\ closer' = IF dispatcher = "none" THEN "draining" ELSE "joining"
    /\ UNCHANGED <<busy, sequence, degraded, now, work>>

\* dispatcher.join returns because the dispatcher has ended.
JoinReturns ==
    /\ closer = "joining"
    /\ dispatcher = "exited"
    /\ closer' = "draining"
    /\ UNCHANGED <<phase, queueVars, now, work, outcomes, dispatcher,
                   waitUntil>>

\* The graceful deadline passes first: TimeoutError. The caller may try again.
JoinTimesOut ==
    /\ closer = "joining"
    /\ dispatcher # "exited"
    /\ closer' = "timedout"
    /\ UNCHANGED <<phase, queueVars, now, work, outcomes, dispatcher,
                   waitUntil>>

\* Fault: the callbacks of the last tasks are not waited for.
ResourcesReleased == InFlight = {}

WorkersIdle == work = {}

\* executor.shutdown(wait=True) returns once every worker is idle.
ExecutorShutdown ==
    /\ closer = "draining"
    /\ WorkersIdle
    /\ phase' = "stopped"
    /\ closer' = "returned"
    /\ UNCHANGED <<queueVars, now, work, outcomes, dispatcher, waitUntil>>

-----------------------------------------------------------------------------

\* The clock, which no thread can hold back.
Tick ==
    /\ now < MaxTime
    /\ now' = now + 1
    /\ UNCHANGED <<phase, queueVars, work, outcomes, dispatcher, waitUntil,
                   closer>>

\* The process ends after shutdown has returned.
Terminated ==
    /\ phase = "stopped"
    /\ UNCHANGED vars

DispatcherStep ==
    \/ \E q \in pending : Pick(q)
    \/ Wait
    \/ Exit
    \/ \E w \in work : ExecutorSubmit(w)
    \/ \E w \in work : AttachCallback(w)

WorkerStep(w) ==
    \/ Run(w)
    \/ \E ok \in BOOLEAN : HandlerEnds(w, ok)
    \/ Complete(w)
    \/ Settle(w)

CloserStep ==
    \/ JoinReturns
    \/ JoinTimesOut
    \/ ExecutorShutdown

Next ==
    \/ Start
    \/ \E s \in Submissions : Submit(s)
    \/ DispatcherStep
    \/ \E w \in work : WorkerStep(w)
    \/ \E cancelPending \in CancelModes : Shutdown(cancelPending)
    \/ CloserStep
    \/ Tick
    \/ Terminated

Spec == Init /\ [][Next]_vars

\* No thread stops while it can take a step, handlers return, and the clock
\* goes on. Nothing obliges a caller to start, submit or shut down.
Fairness ==
    /\ WF_vars(DispatcherStep)
    /\ WF_vars(\E w \in work : WorkerStep(w))
    /\ WF_vars(JoinReturns \/ ExecutorShutdown)
    /\ WF_vars(Tick)

FairSpec == Spec /\ Fairness
=============================================================================
