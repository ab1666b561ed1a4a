---------------------- MODULE DaemonSchedulerProperties ----------------------
(***************************************************************************)
(* What makes the daemon scheduler correct: invariants, action properties, *)
(* liveness, the inductive invariant that carries the safety proofs, and   *)
(* the contract the scheduler implements.                                  *)
(***************************************************************************)
EXTENDS DaemonScheduler

(* Safety *)

Held(s) == \E q \in pending : q.seq = s
Executing(s) == \E w \in work : w.item.seq = s
Settled(s) == \E o \in outcomes : o.seq = s

\* Two dispatched tasks never hold the same resource, and the busy set names
\* exactly the resources held: snapshot() and the concurrency limit count the
\* resources in place of the tasks (_dispatch and _complete).
ResourceExclusion ==
    /\ \A v, w \in InFlight : v.item.task.res = w.item.task.res => v = w
    /\ busy = {w.item.task.res : w \in InFlight}

\* No more than max_concurrency tasks are dispatched at a time, whatever the
\* done callbacks that still run (_next_runnable_locked).
ConcurrencyBound == Cardinality(busy) <= MaxConcurrency

\* An identity is in use exactly while its task is queued or dispatched, by
\* one task, and the identities in use stay within queue_capacity: neither
\* completion, recurrence nor shutdown leaks one (submit, _complete, shutdown).
IdentityOwnership ==
    /\ active = pending \cup {w.item : w \in InFlight}
    /\ \A a, b \in active : a.task.id = b.task.id => a = b
    /\ Cardinality(active) <= QueueCapacity

\* A future is settled by one thread only: whatever is queued, dispatched or
\* about to be settled has an unsettled future. So cancel, set_result and
\* set_exception never find one that is done, and a submission that coalesces
\* never returns the outcome of an earlier execution.
SettledOnce ==
    \A q \in active \cup {w.item : w \in work} : ~Settled(q.seq)

\* Every future ever returned by submit is settled or is still owned by a
\* queued or dispatched task: no interleaving drops one.
NoFutureLost ==
    \A s \in 0..(sequence - 1) : Settled(s) \/ Held(s) \/ Executing(s)

\* While the dispatcher waits and nobody has notified it, it has nothing to
\* do: its timed wait ends no later than the first task it could pick, and it
\* is not the one the shutdown is waiting for (_wait_timeout_locked, and every
\* notify of submit, _complete and shutdown).
NoMissedWakeup ==
    dispatcher = "waiting" =>
        /\ SlotFree => \A q \in Unblocked :
                          waitUntil # Never /\ waitUntil <= q.runAt
        /\ ~(phase = "stopping" /\ busy = {})

\* A dispatched task has not overtaken one admitted before it on the same
\* resource with no lower priority and no later start time.
NoOvertaking ==
    \A w \in InFlight, q \in pending :
        ~ /\ q.task.res = w.item.task.res
          /\ q.task.prio <= w.item.task.prio
          /\ q.runAt <= w.item.runAt
          /\ q.seq < w.item.seq

\* Once shutdown has returned no handler runs and no client is left waiting on
\* a future, except for the delayed tasks of a shutdown that was told not to
\* cancel them.
StoppedMeansSettled ==
    phase = "stopped" =>
        /\ work = {} /\ busy = {}
        /\ \A s \in 0..(sequence - 1) : Settled(s) \/ Held(s)
        /\ FALSE \notin CancelModes => pending = {} /\ active = {}

\* From the moment shutdown closes admission no task is queued any more, not
\* even the next occurrence of a recurring one, so the drain ends.
AdmissionStaysClosed ==
    [][(phase \in {"stopping", "stopped"}) =>
          /\ phase' \in {"stopping", "stopped"}
          /\ pending' \subseteq pending
      ]_vars

-----------------------------------------------------------------------------
(* The rest of the inductive invariant *)

\* No two queued or dispatched tasks own the same future.
FutureOwners ==
    /\ \A q \in pending : q.seq < sequence
    /\ \A w \in work : w.item.seq < sequence
    /\ \A o \in outcomes : o.seq < sequence
    /\ \A p, q \in pending : p.seq = q.seq => p = q
    /\ \A v, w \in work : v.item.seq = w.item.seq => v = w
    /\ \A q \in pending, w \in work : q.seq # w.item.seq

\* Where the dispatcher is, against the tasks it dispatched. It runs at most
\* one callback itself, and does nothing else meanwhile.
DispatcherShape ==
    /\ dispatcher = "none" => work = {}
    /\ dispatcher = "exited" => InFlight = {}
    /\ \A w \in work : w.cb = "none" => w.at \notin {"completing", "settling"}
    /\ \A w \in work : w.cb = "dispatcher" => dispatcher = "callback"
    /\ \A v, w \in work : v.cb = "dispatcher" /\ w.cb = "dispatcher" => v = w

\* Where the thread that shuts down is, against the phase.
CloserShape ==
    /\ phase = "created" => dispatcher = "none"
    /\ phase \in {"created", "running"} => closer = "idle"
    /\ closer \in {"draining", "returned"} => dispatcher \in {"none", "exited"}
    /\ phase = "stopped" => closer = "returned" /\ work = {}
    /\ phase \in {"stopping", "stopped"} /\ FALSE \notin CancelModes
          => pending = {}

SchedulerInv ==
    /\ TypeOK
    /\ ResourceExclusion
    /\ ConcurrencyBound
    /\ IdentityOwnership
    /\ SettledOnce
    /\ NoFutureLost
    /\ NoMissedWakeup
    /\ NoOvertaking
    /\ FutureOwners
    /\ DispatcherShape
    /\ CloserShape

-----------------------------------------------------------------------------
(* Liveness, under FairSpec *)

\* A client that waits for its future without a timeout, as run_chat does, is
\* answered once the scheduler is started or shut down: no wake-up is lost. Only
\* a shutdown that was told not to cancel leaves it queued for good.
FutureSettles ==
    \A s \in 0..MaxSequence :
        (phase # "created" /\ \E q \in pending : q.seq = s /\ q.runAt <= MaxTime)
            ~> (Settled(s) \/ (phase \in {"stopping", "stopped"} /\ Held(s)))

\* Shutdown drains: the dispatcher ends and every dispatched task with it.
ShutdownDrains ==
    phase = "stopping" ~> (dispatcher \in {"none", "exited"} /\ work = {})

-----------------------------------------------------------------------------
(* The scheduler implements its contract. *)

TicketOf(q) == [id |-> q.task.id, res |-> q.task.res, seq |-> q.seq]

Contract == INSTANCE TaskContract WITH
    open <- phase \in {"created", "running"},
    issued <- sequence,
    waiting <- {TicketOf(q) : q \in pending},
    started <- {TicketOf(w.item) : w \in InFlight},
    released <- {TicketOf(w.item) : w \in work \ InFlight},
    settled <- outcomes

\* Every step of the scheduler is a step of TaskContract or leaves its view
\* unchanged.
ImplementsContract == Contract!ContractSpec
=============================================================================
