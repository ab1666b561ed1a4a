--------------------------- MODULE DaemonWorkProofs ---------------------------
(***************************************************************************)
(* Proofs about the work of the daemon and what is told of it: of          *)
(* DaemonScheduler for every set of submissions and every value of the     *)
(* limits and bounds; of Delivery for any number of processes, items,      *)
(* adapters and crashes; of AuditContracts that every audit fits the       *)
(* contract of its event, but for three that are named.                    *)
(***************************************************************************)
EXTENDS DaemonSchedulerProperties, DeliveryProperties, AuditContracts, TLAPS, FiniteSetTheorems,
        FunctionTheorems

-----------------------------------------------------------------------------
(* Type correctness *)

\* The initial state is well typed.
LEMMA InitTypeOK == Init => TypeOK
<1>1. IsFiniteSet({})
  BY FS_EmptySet
<1>2. Init => degraded \in BOOLEAN
  BY DEF Init
<1> QED
  BY <1>1, <1>2 DEF Init, TypeOK, Phases, DispatcherStates, CloserStates

\* Every step keeps the state well typed.
LEMMA NextTypeOK == TypeOK /\ [Next]_vars => TypeOK'
<1> SUFFICES ASSUME TypeOK, [Next]_vars PROVE TypeOK'
  OBVIOUS
<1> USE DEF TypeOK, Phases, DispatcherStates, CloserStates
<1>1. CASE UNCHANGED vars
  BY <1>1 DEF vars
<1>2. CASE Start
  BY <1>2 DEF Start, queueVars
<1>3. ASSUME NEW s \in Submissions, Submit(s) PROVE TypeOK'
  <2> DEFINE queued == [task |-> s.task, runAt |-> RunAt(s.delay),
                        seq |-> sequence, interval |-> s.interval]
  <2>1. queued \in QueuedTask
    BY SubmissionAssumption DEF QueuedTask, RunAt
  <2>2. IsFiniteSet(pending \cup {queued}) /\ IsFiniteSet(active \cup {queued})
    BY FS_AddElement
  <2> QED
    BY <1>3, <2>1, <2>2 DEF Submit, Notify
<1>4. ASSUME NEW q \in pending, Pick(q) PROVE TypeOK'
  <2>1. IsFiniteSet(pending \ {q}) /\ IsFiniteSet(busy \cup {q.task.res})
    BY FS_AddElement, FS_RemoveElement
  <2>2. q.task.res \in Resources
    BY DEF QueuedTask, Task
  <2>3. [item |-> q, at |-> "picked", ok |-> FALSE, cb |-> "none"]
          \in Dispatched
    BY DEF Dispatched, Stages
  <2> QED
    BY <1>4, <2>1, <2>2, <2>3 DEF Pick
<1>5. CASE Wait
  <2>1. \A t \in {q.runAt : q \in pending} \cup {Never} :
           t \in Nat \cup {Never}
    BY DEF QueuedTask
  <2> QED
    BY <1>5, <2>1 DEF Wait, queueVars
<1>6. CASE Exit
  BY <1>6 DEF Exit, queueVars
<1>7. ASSUME NEW w \in work, NEW w2 \in Dispatched, Move(w, w2)
      PROVE  work' \subseteq Dispatched
  BY <1>7 DEF Move
<1>8. ASSUME NEW w \in work, ExecutorSubmit(w) PROVE TypeOK'
  <2>1. [w EXCEPT !.at = "submitted"] \in Dispatched
    BY DEF Dispatched, Stages
  <2> QED
    BY <1>7, <1>8, <2>1 DEF ExecutorSubmit, queueVars
<1>9. ASSUME NEW w \in work, AttachCallback(w) PROVE TypeOK'
  <2>1. /\ [w EXCEPT !.at = "completing", !.cb = "dispatcher"] \in Dispatched
        /\ [w EXCEPT !.cb = "worker"] \in Dispatched
    BY DEF Dispatched, Stages
  <2> QED
    BY <1>7, <1>9, <2>1 DEF AttachCallback, queueVars
<1>10. ASSUME NEW w \in work, Run(w) PROVE TypeOK'
  <2>1. [w EXCEPT !.at = "running"] \in Dispatched
    BY DEF Dispatched, Stages
  <2> QED
    BY <1>7, <1>10, <2>1 DEF Run, queueVars
<1>11. ASSUME NEW w \in work, NEW ok \in BOOLEAN, HandlerEnds(w, ok)
       PROVE  TypeOK'
  <2>1. [w EXCEPT !.at = IF w.cb = "none" THEN "finished" ELSE "completing",
                  !.ok = ok] \in Dispatched
    BY DEF Dispatched, Stages
  <2> QED
    BY <1>7, <1>11, <2>1 DEF HandlerEnds, queueVars
<1>12. ASSUME NEW w \in work, Complete(w) PROVE TypeOK'
  <2> w.item \in QueuedTask /\ [w EXCEPT !.at = "settling"] \in Dispatched
    BY DEF Dispatched, Stages
  <2>1. Repeated(w) \in QueuedTask
    <3>1. w.item.interval \in Nat /\ now + w.item.interval \in Nat
      BY DEF QueuedTask
    <3> QED
      BY <3>1 DEF Repeated, RunAt, QueuedTask
  <2>2. Pop(w.item.task.id) \subseteq active
    BY DEF Pop
  <2>3. /\ IsFiniteSet(pending \cup {Repeated(w)})
        /\ IsFiniteSet(Pop(w.item.task.id))
        /\ IsFiniteSet(Pop(w.item.task.id) \cup {Repeated(w)})
        /\ IsFiniteSet(busy \ {w.item.task.res})
    <3>1. IsFiniteSet(Pop(w.item.task.id))
      BY <2>2, FS_Subset
    <3>2. IsFiniteSet(busy \ {w.item.task.res})
      BY FS_RemoveElement
    <3> QED BY <3>1, <3>2, FS_AddElement
  <2>4. work' \subseteq Dispatched
    BY <1>7, <1>12, <2>1 DEF Complete
  <2>5. degraded' \in BOOLEAN
    BY <1>12 DEF Complete, Dispatched
  <2>6. /\ pending' \subseteq QueuedTask /\ IsFiniteSet(pending')
        /\ active' \subseteq QueuedTask /\ IsFiniteSet(active')
        /\ sequence' \in Nat
    <3>1. CASE Recurs(w)
      <4>1. /\ sequence' = sequence + 1
            /\ pending' = pending \cup {Repeated(w)}
            /\ active' = Pop(w.item.task.id) \cup {Repeated(w)}
        BY <1>12, <3>1 DEF Complete
      <4>2. sequence' \in Nat
        BY <4>1
      <4> QED
        BY <2>1, <2>2, <2>3, <4>1, <4>2
    <3>2. CASE ~Recurs(w)
      BY <1>12, <2>2, <2>3, <3>2 DEF Complete
    <3> QED
      BY <3>1, <3>2
  <2>7. busy' \subseteq Resources /\ IsFiniteSet(busy')
    BY <1>12, <2>3 DEF Complete
  <2>8. /\ dispatcher' \in DispatcherStates /\ waitUntil' \in Nat \cup {Never}
        /\ UNCHANGED <<phase, now, outcomes, closer>>
    BY <1>12 DEF Complete, Notify
  <2> QED
    BY <2>4, <2>5, <2>6, <2>7, <2>8
<1>13. ASSUME NEW w \in work, Settle(w) PROVE TypeOK'
  <2>1. [seq |-> w.item.seq, how |-> IF w.ok THEN "result" ELSE "error"]
          \in Outcome
    BY DEF Outcome, Dispatched, QueuedTask
  <2> QED
    BY <1>13, <2>1 DEF Settle, queueVars
<1>14. ASSUME NEW c \in CancelModes, Shutdown(c) PROVE TypeOK'
  <2>1. Cancelled \subseteq Outcome
    BY DEF Cancelled, Outcome, QueuedTask
  <2>2. IsFiniteSet({q \in active :
                       \A p \in pending : p.task.id # q.task.id})
    BY FS_Subset
  <2> QED
    BY <1>14, <2>1, <2>2, FS_EmptySet DEF Shutdown, Notify
<1>15. CASE JoinReturns
  BY <1>15 DEF JoinReturns, queueVars
<1>16. CASE JoinTimesOut
  BY <1>16 DEF JoinTimesOut, queueVars
<1>17. CASE ExecutorShutdown
  BY <1>17 DEF ExecutorShutdown, queueVars
<1>18. CASE Tick
  BY <1>18 DEF Tick, queueVars
<1> QED
  BY <1>1, <1>2, <1>3, <1>4, <1>5, <1>6, <1>8, <1>9, <1>10, <1>11, <1>12,
     <1>13, <1>14, <1>15, <1>16, <1>17, <1>18
  DEF Next, DispatcherStep, WorkerStep, CloserStep, Terminated

\* The state of scheduler.py stays well formed, whatever the threads do.
THEOREM TypeCorrect == Spec => []TypeOK
  BY InitTypeOK, NextTypeOK, PTL DEF Spec

-----------------------------------------------------------------------------
(* What a step does to the queue. Most steps leave it alone, and those of a   *)
(* dispatched task before _complete only move it to its next stage.           *)

Quiet == UNCHANGED <<pending, active, busy, sequence, work, outcomes>>

Advance ==
    \E w \in work, w2 \in Dispatched :
        /\ Move(w, w2)
        /\ w2.item = w.item
        /\ w.at # "settling" /\ w2.at # "settling"
        /\ UNCHANGED <<pending, active, busy, sequence, outcomes>>

QueueStep ==
    \/ Quiet
    \/ Advance
    \/ \E s \in Submissions : Submit(s)
    \/ \E q \in pending : Pick(q)
    \/ \E w \in work : Complete(w)
    \/ \E w \in work : Settle(w)
    \/ \E c \in CancelModes : Shutdown(c)

\* Every step of the scheduler is one of these, as far as the queue goes.
LEMMA QueueSteps == SchedulerInv /\ [Next]_vars => QueueStep
<1> SUFFICES ASSUME TypeOK, DispatcherShape, [Next]_vars PROVE QueueStep
  BY DEF SchedulerInv
<1>1. ASSUME NEW w \in work, ExecutorSubmit(w) PROVE Advance
  <2> DEFINE w2 == [w EXCEPT !.at = "submitted"]
  <2>1. w2 \in Dispatched /\ w2.item = w.item /\ w2.at = "submitted"
    BY DEF TypeOK, Dispatched, Stages
  <2> QED
    BY <1>1, <2>1 DEF ExecutorSubmit, Advance, queueVars
<1>2. ASSUME NEW w \in work, Run(w) PROVE Advance
  <2> DEFINE w2 == [w EXCEPT !.at = "running"]
  <2>1. w2 \in Dispatched /\ w2.item = w.item /\ w2.at = "running"
    BY DEF TypeOK, Dispatched, Stages
  <2> QED
    BY <1>2, <2>1 DEF Run, Advance, queueVars
<1>3. ASSUME NEW w \in work, NEW ok \in BOOLEAN, HandlerEnds(w, ok)
      PROVE  Advance
  <2> DEFINE w2 == [w EXCEPT
                      !.at = IF w.cb = "none" THEN "finished" ELSE "completing",
                      !.ok = ok]
  <2>1. w2 \in Dispatched /\ w2.item = w.item /\ w2.at # "settling"
    BY DEF TypeOK, Dispatched, Stages
  <2> QED
    BY <1>3, <2>1 DEF HandlerEnds, Advance, queueVars
<1>4. ASSUME NEW w \in work, AttachCallback(w) PROVE Advance
  <2>1. CASE w.at = "finished"
    <3> DEFINE w2 == [w EXCEPT !.at = "completing", !.cb = "dispatcher"]
    <3>1. w2 \in Dispatched /\ w2.item = w.item /\ w2.at = "completing"
      BY DEF TypeOK, Dispatched, Stages
    <3> QED
      BY <1>4, <2>1, <3>1 DEF AttachCallback, Advance, queueVars
  <2>2. CASE w.at # "finished"
    <3> DEFINE w2 == [w EXCEPT !.cb = "worker"]
    <3>1. w2 \in Dispatched /\ w2.item = w.item /\ w2.at = w.at
      BY DEF TypeOK, Dispatched, Stages
    <3>2. w.at # "settling"
      BY <1>4 DEF AttachCallback, DispatcherShape
    <3> QED
      BY <1>4, <2>2, <3>1, <3>2 DEF AttachCallback, Advance, queueVars
  <2> QED
    BY <2>1, <2>2
<1> QED
  BY <1>1, <1>2, <1>3, <1>4
  DEF Next, DispatcherStep, WorkerStep, CloserStep, QueueStep, Quiet,
      Terminated, vars, queueVars, Start, Wait, Exit, JoinReturns,
      JoinTimesOut, ExecutorShutdown, Tick

\* The task submit queues.
LEMMA SubmittedTask ==
  ASSUME TypeOK, NEW s \in Submissions, Submit(s)
  PROVE  \E new \in QueuedTask :
           /\ new.task = s.task /\ new.seq = sequence
           /\ pending' = pending \cup {new}
           /\ active' = active \cup {new}
<1> DEFINE new == [task |-> s.task, runAt |-> RunAt(s.delay),
                   seq |-> sequence, interval |-> s.interval]
<1>1. new \in QueuedTask
  BY SubmissionAssumption DEF QueuedTask, RunAt, TypeOK
<1>2. pending' = pending \cup {new} /\ active' = active \cup {new}
  BY DEF Submit
<1> QED
  BY <1>1, <1>2

\* The entry _dispatch makes for the task it picks.
LEMMA PickedTask ==
  ASSUME TypeOK, NEW q \in pending, Pick(q)
  PROVE  \E w \in Dispatched :
           /\ w.item = q /\ w.at = "picked" /\ w.cb = "none"
           /\ work' = work \cup {w}
<1> DEFINE w == [item |-> q, at |-> "picked", ok |-> FALSE, cb |-> "none"]
<1>1. w \in Dispatched
  BY DEF TypeOK, Dispatched, Stages
<1> QED
  BY <1>1 DEF Pick

\* The next occurrence of a recurring task.
LEMMA RepeatedTask ==
  ASSUME TypeOK, NEW w \in work
  PROVE  /\ Repeated(w) \in QueuedTask
         /\ Repeated(w).task = w.item.task /\ Repeated(w).seq = sequence
<1>1. w.item \in QueuedTask
  BY DEF TypeOK, Dispatched
<1>2. w.item.interval \in Nat /\ now + w.item.interval \in Nat
  BY <1>1 DEF TypeOK, QueuedTask
<1> QED
  BY <1>1, <1>2 DEF Repeated, RunAt, QueuedTask, TypeOK

\* _complete leaves the task it releases waiting to be settled.
LEMMA ReleasedTask ==
  ASSUME TypeOK, NEW w \in work, Complete(w)
  PROVE  \E w2 \in Dispatched :
           /\ w2.item = w.item /\ w2.cb = w.cb /\ w2.at = "settling"
           /\ work' = (work \ {w}) \cup {w2}
<1> DEFINE w2 == [w EXCEPT !.at = "settling"]
<1>1. w2 \in Dispatched /\ w2.item = w.item /\ w2.cb = w.cb /\ w2.at = "settling"
  BY DEF TypeOK, Dispatched, Stages
<1> QED
  BY <1>1 DEF Complete, Move

-----------------------------------------------------------------------------
(* Futures: ownership, settlement, accounting *)

\* A step keeps futures owned by one task at a time.
LEMMA FutureOwnersStep ==
  SchedulerInv /\ [Next]_vars => FutureOwners'
<1> SUFFICES ASSUME SchedulerInv, QueueStep PROVE FutureOwners'
  BY QueueSteps
<1> USE DEF SchedulerInv, FutureOwners
<1>1. CASE Quiet
  BY <1>1 DEF Quiet
<1>2. CASE Advance
  BY <1>2 DEF Advance, Move
<1>3. ASSUME NEW s \in Submissions, Submit(s) PROVE FutureOwners'
  <2>1. PICK new \in QueuedTask :
          new.seq = sequence /\ pending' = pending \cup {new}
    BY <1>3, SubmittedTask DEF Submit
  <2>2. sequence \in Nat /\ sequence' = sequence + 1
        /\ UNCHANGED <<work, outcomes>>
    BY <1>3 DEF Submit, TypeOK
  <2> QED
    BY <2>1, <2>2 DEF TypeOK, QueuedTask, Dispatched, Outcome
<1>4. ASSUME NEW q \in pending, Pick(q) PROVE FutureOwners'
  <2>1. PICK w \in Dispatched : w.item = q /\ work' = work \cup {w}
    BY <1>4, PickedTask
  <2>2. pending' = pending \ {q} /\ UNCHANGED <<sequence, outcomes>>
    BY <1>4 DEF Pick
  <2> QED
    BY <2>1, <2>2
<1>5. ASSUME NEW w \in work, Complete(w) PROVE FutureOwners'
  <2>1. CASE Recurs(w)
    <3>1. PICK new \in QueuedTask :
            new.seq = sequence /\ pending' = pending \cup {new}
      BY <1>5, <2>1, RepeatedTask DEF Complete
    <3>2. PICK w2 \in Dispatched :
            w2.item = w.item /\ work' = (work \ {w}) \cup {w2}
      BY <1>5, ReleasedTask DEF Complete
    <3>3. sequence \in Nat /\ sequence' = sequence + 1 /\ outcomes' = outcomes
      BY <1>5, <2>1 DEF Complete, TypeOK
    <3> QED
      BY <3>1, <3>2, <3>3 DEF TypeOK, QueuedTask, Dispatched, Outcome
  <2>2. CASE ~Recurs(w)
    BY <1>5, <2>2 DEF Complete, Move, TypeOK, Dispatched
  <2> QED
    BY <2>1, <2>2
<1>6. ASSUME NEW w \in work, Settle(w) PROVE FutureOwners'
  BY <1>6 DEF Settle, queueVars
<1>7. ASSUME NEW c \in CancelModes, Shutdown(c) PROVE FutureOwners'
  BY <1>7 DEF Shutdown, Cancelled
<1> QED
  BY <1>1, <1>2, <1>3, <1>4, <1>5, <1>6, <1>7 DEF QueueStep

\* A step never settles a future that a task still owns.
LEMMA SettledOnceStep ==
  SchedulerInv /\ [Next]_vars => SettledOnce'
<1> SUFFICES ASSUME SchedulerInv, QueueStep PROVE SettledOnce'
  BY QueueSteps
<1>1. \A q \in active \cup {w.item : w \in work} : q.seq < sequence
  BY DEF SchedulerInv, IdentityOwnership, FutureOwners, InFlight
<1>2. sequence \in Nat /\ \A o \in outcomes : o.seq \in Nat /\ o.seq < sequence
  BY DEF SchedulerInv, TypeOK, FutureOwners, Outcome
<1> USE DEF SchedulerInv, SettledOnce, Settled
<1>3. CASE Quiet
  BY <1>3 DEF Quiet
<1>4. CASE Advance
  BY <1>4 DEF Advance, Move
<1>5. ASSUME NEW s \in Submissions, Submit(s) PROVE SettledOnce'
  <2>1. PICK new \in QueuedTask :
          new.seq = sequence /\ active' = active \cup {new}
    BY <1>5, SubmittedTask
  <2>2. UNCHANGED <<work, outcomes>>
    BY <1>5 DEF Submit
  <2> QED
    BY <1>2, <2>1, <2>2
<1>6. ASSUME NEW q \in pending, Pick(q) PROVE SettledOnce'
  <2>1. PICK w \in Dispatched : w.item = q /\ work' = work \cup {w}
    BY <1>6, PickedTask
  <2>2. UNCHANGED <<active, outcomes>> /\ q \in active
    BY <1>6 DEF Pick, IdentityOwnership
  <2> QED
    BY <2>1, <2>2
<1>7. ASSUME NEW w \in work, Complete(w) PROVE SettledOnce'
  <2>1. PICK w2 \in Dispatched :
          w2.item = w.item /\ work' = (work \ {w}) \cup {w2}
    BY <1>7, ReleasedTask
  <2>2. \A q \in active' : q \in active \/ q.seq = sequence
    BY <1>7, RepeatedTask DEF Complete, Pop
  <2>3. outcomes' = outcomes
    BY <1>7 DEF Complete
  <2> QED
    BY <1>2, <2>1, <2>2, <2>3
<1>8. ASSUME NEW w \in work, Settle(w) PROVE SettledOnce'
  <2>1. /\ active' = active /\ work' = work \ {w}
        /\ \A o \in outcomes' : o \in outcomes \/ o.seq = w.item.seq
    BY <1>8 DEF Settle, queueVars
  <2>2. \A q \in active' \cup {v.item : v \in work'} : q.seq # w.item.seq
    BY <1>8, <2>1 DEF Settle, IdentityOwnership, FutureOwners, InFlight
  <2> QED
    BY <2>1, <2>2
<1>9. ASSUME NEW c \in CancelModes, Shutdown(c) PROVE SettledOnce'
  <2>1. CASE c
    <3>1. /\ work' = work
          /\ active' = {q \in active : \A p \in pending : p.task.id # q.task.id}
          /\ \A o \in outcomes' :
                o \in outcomes \/ \E p \in pending : o.seq = p.seq
      BY <1>9, <2>1 DEF Shutdown, Cancelled
    <3>2. \A q \in active' : \E w \in work : q = w.item
      BY <3>1 DEF IdentityOwnership, InFlight
    <3> QED
      BY <3>1, <3>2 DEF FutureOwners
  <2>2. CASE ~c
    BY <1>9, <2>2 DEF Shutdown
  <2> QED
    BY <2>1, <2>2
<1> QED
  BY <1>3, <1>4, <1>5, <1>6, <1>7, <1>8, <1>9 DEF QueueStep

\* A step never drops an unsettled future.
LEMMA NoFutureLostStep ==
  SchedulerInv /\ [Next]_vars => NoFutureLost'
<1> SUFFICES ASSUME SchedulerInv, QueueStep PROVE NoFutureLost'
  BY QueueSteps
<1> USE DEF SchedulerInv, NoFutureLost, Settled, Held, Executing
<1>1. CASE Quiet
  BY <1>1 DEF Quiet
<1>2. CASE Advance
  BY <1>2 DEF Advance, Move
<1>3. ASSUME NEW s \in Submissions, Submit(s) PROVE NoFutureLost'
  <2>1. PICK new \in QueuedTask :
          new.seq = sequence /\ pending' = pending \cup {new}
    BY <1>3, SubmittedTask
  <2>2. sequence' = sequence + 1 /\ UNCHANGED <<work, outcomes>>
    BY <1>3 DEF Submit
  <2>3. \A n \in 0..(sequence' - 1) : n \in 0..(sequence - 1) \/ n = new.seq
    BY <2>1, <2>2 DEF TypeOK
  <2> QED
    BY <2>1, <2>2, <2>3
<1>4. ASSUME NEW q \in pending, Pick(q) PROVE NoFutureLost'
  <2>1. PICK w \in Dispatched : w.item = q /\ work' = work \cup {w}
    BY <1>4, PickedTask
  <2>2. pending' = pending \ {q} /\ UNCHANGED <<sequence, outcomes>>
    BY <1>4 DEF Pick
  <2> QED
    BY <2>1, <2>2
<1>5. ASSUME NEW w \in work, Complete(w) PROVE NoFutureLost'
  <2>1. PICK w2 \in Dispatched :
          w2.item = w.item /\ work' = (work \ {w}) \cup {w2}
    BY <1>5, ReleasedTask
  <2>2. outcomes' = outcomes
    BY <1>5 DEF Complete
  <2>3. CASE Recurs(w)
    <3>1. /\ sequence' = sequence + 1
          /\ pending' = pending \cup {Repeated(w)} /\ Repeated(w).seq = sequence
      BY <1>5, <2>3, RepeatedTask DEF Complete
    <3>2. \A n \in 0..(sequence' - 1) :
             n \in 0..(sequence - 1) \/ n = Repeated(w).seq
      BY <3>1 DEF TypeOK
    <3> QED
      BY <2>1, <2>2, <3>1, <3>2
  <2>4. CASE ~Recurs(w)
    BY <1>5, <2>1, <2>2, <2>4 DEF Complete
  <2> QED
    BY <2>3, <2>4
<1>6. ASSUME NEW w \in work, Settle(w) PROVE NoFutureLost'
  <2>1. /\ UNCHANGED <<pending, sequence>> /\ work' = work \ {w}
        /\ \E o \in outcomes' : o.seq = w.item.seq
        /\ outcomes \subseteq outcomes'
    BY <1>6 DEF Settle, queueVars
  <2> QED
    BY <2>1
<1>7. ASSUME NEW c \in CancelModes, Shutdown(c) PROVE NoFutureLost'
  <2>1. CASE c
    <3>1. ASSUME NEW p \in pending PROVE \E o \in Cancelled : o.seq = p.seq
      <4>1. [seq |-> p.seq, how |-> "cancelled"] \in Cancelled
        BY DEF Cancelled
      <4> QED
        BY <4>1
    <3>2. outcomes' = outcomes \cup Cancelled /\ UNCHANGED <<work, sequence>>
      BY <1>7, <2>1 DEF Shutdown
    <3> QED
      BY <3>1, <3>2
  <2>2. CASE ~c
    BY <1>7, <2>2 DEF Shutdown
  <2> QED
    BY <2>1, <2>2
<1> QED
  BY <1>1, <1>2, <1>3, <1>4, <1>5, <1>6, <1>7 DEF QueueStep

-----------------------------------------------------------------------------
(* Identities and resources *)

\* Adding an element to a finite set makes it at most one larger.
LEMMA CardinalityAdd ==
  ASSUME NEW S, IsFiniteSet(S), NEW x
  PROVE  /\ Cardinality(S) \in Nat /\ Cardinality(S \cup {x}) \in Nat
         /\ Cardinality(S \cup {x}) <= Cardinality(S) + 1
<1>1. /\ IsFiniteSet(S \cup {x})
      /\ Cardinality(S \cup {x}) =
           IF x \in S THEN Cardinality(S) ELSE Cardinality(S) + 1
  BY FS_AddElement
<1>2. Cardinality(S) \in Nat /\ Cardinality(S \cup {x}) \in Nat
  BY <1>1, FS_CardinalityType
<1> QED
  BY <1>1, <1>2

\* Removing an element from a finite set makes it one smaller.
LEMMA CardinalityRemove ==
  ASSUME NEW S, IsFiniteSet(S), NEW x \in S
  PROVE  /\ Cardinality(S) \in Nat /\ Cardinality(S \ {x}) \in Nat
         /\ IsFiniteSet(S \ {x})
         /\ Cardinality(S \ {x}) + 1 = Cardinality(S)
<1>1. /\ IsFiniteSet(S \ {x})
      /\ Cardinality(S \ {x}) = Cardinality(S) - 1
  BY FS_RemoveElement
<1>2. Cardinality(S) \in Nat /\ Cardinality(S \ {x}) \in Nat
  BY <1>1, FS_CardinalityType
<1> QED
  BY <1>1, <1>2

\* A step never leaks an identity, nor lets two tasks share one.
LEMMA IdentityOwnershipStep ==
  SchedulerInv /\ [Next]_vars => IdentityOwnership'
<1> SUFFICES ASSUME SchedulerInv, QueueStep PROVE IdentityOwnership'
  BY QueueSteps
<1> USE DEF SchedulerInv, IdentityOwnership, InFlight
<1>1. CASE Quiet
  BY <1>1 DEF Quiet
<1>2. CASE Advance
  <2>1. PICK w \in work, w2 \in Dispatched :
          /\ work' = (work \ {w}) \cup {w2} /\ w2.item = w.item
          /\ w.at # "settling" /\ w2.at # "settling"
          /\ UNCHANGED <<pending, active>>
    BY <1>2 DEF Advance, Move
  <2>2. {v.item : v \in InFlight'} = {v.item : v \in InFlight}
    BY <2>1
  <2> QED
    BY <2>1, <2>2
<1>3. ASSUME NEW s \in Submissions, Submit(s) PROVE IdentityOwnership'
  <2>1. PICK new \in QueuedTask :
          /\ new.task = s.task
          /\ pending' = pending \cup {new} /\ active' = active \cup {new}
    BY <1>3, SubmittedTask
  <2>2. work' = work /\ HasRoom /\ \A q \in active : q.task.id # s.task.id
    BY <1>3 DEF Submit
  <2>3. Cardinality(active') <= QueueCapacity
    <3>1. /\ Cardinality(active) \in Nat /\ Cardinality(active \cup {new}) \in Nat
          /\ Cardinality(active \cup {new}) <= Cardinality(active) + 1
      BY CardinalityAdd DEF TypeOK
    <3> QED
      BY <2>1, <2>2, <3>1, CapacityAssumption DEF HasRoom
  <2> QED
    BY <2>1, <2>2, <2>3
<1>4. ASSUME NEW q \in pending, Pick(q) PROVE IdentityOwnership'
  <2>1. PICK w \in Dispatched :
          w.item = q /\ w.at = "picked" /\ work' = work \cup {w}
    BY <1>4, PickedTask
  <2>2. pending' = pending \ {q} /\ active' = active
    BY <1>4 DEF Pick
  <2>3. {v.item : v \in InFlight'} = {v.item : v \in InFlight} \cup {q}
    BY <2>1
  <2> QED
    BY <2>1, <2>2, <2>3
<1>5. ASSUME NEW w \in work, Complete(w) PROVE IdentityOwnership'
  <2>1. PICK w2 \in Dispatched :
          /\ w2.item = w.item /\ w2.at = "settling"
          /\ work' = (work \ {w}) \cup {w2}
    BY <1>5, ReleasedTask
  <2>2. {v.item : v \in InFlight'} = {v.item : v \in InFlight} \ {w.item}
    BY <1>5, <2>1 DEF FutureOwners
  <2>3. w.item \in active /\ w.item \notin pending
    BY <1>5 DEF Complete, FutureOwners
  <2>4. Pop(w.item.task.id) = active \ {w.item}
    BY <2>3 DEF Pop
  <2>5. /\ IsFiniteSet(active \ {w.item})
        /\ Cardinality(active) \in Nat
        /\ Cardinality(active \ {w.item}) \in Nat
        /\ Cardinality(active \ {w.item}) + 1 = Cardinality(active)
    BY <2>3, CardinalityRemove DEF TypeOK
  <2>6. CASE Recurs(w)
    <3> DEFINE new == Repeated(w)
    <3>1. /\ pending' = pending \cup {new}
          /\ active' = (active \ {w.item}) \cup {new}
          /\ new.task = w.item.task
      BY <1>5, <2>4, <2>6, RepeatedTask DEF Complete
    <3>2. Cardinality(active') <= QueueCapacity
      <4>1. /\ Cardinality((active \ {w.item}) \cup {new}) \in Nat
            /\ Cardinality((active \ {w.item}) \cup {new})
                 <= Cardinality(active \ {w.item}) + 1
        BY <2>5, CardinalityAdd
      <4> QED
        BY <2>5, <3>1, <4>1, CapacityAssumption
    <3>3. active' = pending' \cup {v.item : v \in InFlight'}
      BY <2>2, <2>3, <3>1
    <3>4. \A a, b \in active' : a.task.id = b.task.id => a = b
      BY <2>3, <3>1
    <3> QED
      BY <3>2, <3>3, <3>4
  <2>7. CASE ~Recurs(w)
    <3>1. pending' = pending /\ active' = active \ {w.item}
      BY <1>5, <2>4, <2>7 DEF Complete
    <3>2. Cardinality(active') <= QueueCapacity
      BY <2>5, <3>1, CapacityAssumption
    <3>3. active' = pending' \cup {v.item : v \in InFlight'}
      BY <2>2, <2>3, <3>1
    <3>4. \A a, b \in active' : a.task.id = b.task.id => a = b
      BY <3>1
    <3> QED
      BY <3>2, <3>3, <3>4
  <2> QED
    BY <2>6, <2>7
<1>6. ASSUME NEW w \in work, Settle(w) PROVE IdentityOwnership'
  <2>1. UNCHANGED <<pending, active>> /\ InFlight' = InFlight
    BY <1>6 DEF Settle, queueVars
  <2> QED
    BY <2>1
<1>7. ASSUME NEW c \in CancelModes, Shutdown(c) PROVE IdentityOwnership'
  <2>1. CASE c
    <3>1. /\ work' = work /\ pending' = {}
          /\ active' = {q \in active : \A p \in pending : p.task.id # q.task.id}
      BY <1>7, <2>1 DEF Shutdown
    <3>2. active' = {w.item : w \in InFlight}
      BY <3>1 DEF FutureOwners
    <3>3. Cardinality(active') <= Cardinality(active)
          /\ Cardinality(active) \in Nat /\ Cardinality(active') \in Nat
      BY <3>1, FS_Subset, FS_CardinalityType DEF TypeOK
    <3>4. Cardinality(active') <= QueueCapacity
      BY <3>3, CapacityAssumption
    <3> QED
      BY <3>1, <3>2, <3>4
  <2>2. CASE ~c
    BY <1>7, <2>2 DEF Shutdown
  <2> QED
    BY <2>1, <2>2
<1> QED
  BY <1>1, <1>2, <1>3, <1>4, <1>5, <1>6, <1>7 DEF QueueStep

\* A step never lets two tasks hold one resource, nor the busy set drift from
\* the tasks that hold it.
LEMMA ResourceExclusionStep ==
  SchedulerInv /\ [Next]_vars => ResourceExclusion' /\ ConcurrencyBound'
<1> SUFFICES ASSUME SchedulerInv, QueueStep
             PROVE  ResourceExclusion' /\ ConcurrencyBound'
  BY QueueSteps
<1> USE DEF SchedulerInv, ResourceExclusion, ConcurrencyBound, InFlight
<1>1. CASE Quiet
  BY <1>1 DEF Quiet
<1>2. CASE Advance
  <2>1. PICK w \in work, w2 \in Dispatched :
          /\ work' = (work \ {w}) \cup {w2} /\ w2.item = w.item
          /\ w.at # "settling" /\ w2.at # "settling"
          /\ busy' = busy
    BY <1>2 DEF Advance, Move
  <2> QED
    BY <2>1
<1>3. ASSUME NEW s \in Submissions, Submit(s)
      PROVE  ResourceExclusion' /\ ConcurrencyBound'
  BY <1>3 DEF Submit
<1>4. ASSUME NEW q \in pending, Pick(q)
      PROVE  ResourceExclusion' /\ ConcurrencyBound'
  <2>1. PICK w \in Dispatched :
          w.item = q /\ w.at = "picked" /\ work' = work \cup {w}
    BY <1>4, PickedTask
  <2>2. busy' = busy \cup {q.task.res} /\ q.task.res \notin busy /\ SlotFree
    BY <1>4 DEF Pick, IsNextRunnable, Eligible, Unblocked
  <2>3. Cardinality(busy') <= MaxConcurrency
    <3>1. /\ Cardinality(busy) \in Nat
          /\ Cardinality(busy \cup {q.task.res}) \in Nat
          /\ Cardinality(busy \cup {q.task.res}) <= Cardinality(busy) + 1
      BY CardinalityAdd DEF TypeOK
    <3> QED
      BY <2>2, <3>1, ConcurrencyAssumption DEF SlotFree
  <2> QED
    BY <2>1, <2>2, <2>3
<1>5. ASSUME NEW w \in work, Complete(w)
      PROVE  ResourceExclusion' /\ ConcurrencyBound'
  <2>1. PICK w2 \in Dispatched :
          /\ w2.item = w.item /\ w2.at = "settling"
          /\ work' = (work \ {w}) \cup {w2}
    BY <1>5, ReleasedTask
  <2>2. busy' = busy \ {w.item.task.res} /\ w \in InFlight
    BY <1>5 DEF Complete
  <2>3. InFlight' = InFlight \ {w}
    BY <2>1, <2>2
  <2>4. Cardinality(busy') <= MaxConcurrency
    <3>1. w.item.task.res \in busy
      BY <2>2
    <3>2. /\ Cardinality(busy) \in Nat
          /\ Cardinality(busy \ {w.item.task.res}) \in Nat
          /\ Cardinality(busy \ {w.item.task.res}) + 1 = Cardinality(busy)
      BY <3>1, CardinalityRemove DEF TypeOK
    <3> QED
      BY <2>2, <3>2, ConcurrencyAssumption
  <2> QED
    BY <2>2, <2>3, <2>4
<1>6. ASSUME NEW w \in work, Settle(w)
      PROVE  ResourceExclusion' /\ ConcurrencyBound'
  <2>1. busy' = busy /\ InFlight' = InFlight
    BY <1>6 DEF Settle, queueVars
  <2> QED
    BY <2>1
<1>7. ASSUME NEW c \in CancelModes, Shutdown(c)
      PROVE  ResourceExclusion' /\ ConcurrencyBound'
  BY <1>7 DEF Shutdown
<1> QED
  BY <1>1, <1>2, <1>3, <1>4, <1>5, <1>6, <1>7 DEF QueueStep

\* A step never lets a task overtake an earlier one on its resource.
LEMMA NoOvertakingStep ==
  SchedulerInv /\ [Next]_vars => NoOvertaking'
<1> SUFFICES ASSUME SchedulerInv, QueueStep PROVE NoOvertaking'
  BY QueueSteps
<1> USE DEF SchedulerInv, NoOvertaking, InFlight
<1>1. CASE Quiet
  BY <1>1 DEF Quiet
<1>2. CASE Advance
  <2>1. PICK w \in work, w2 \in Dispatched :
          /\ work' = (work \ {w}) \cup {w2} /\ w2.item = w.item
          /\ w.at # "settling" /\ w2.at # "settling"
          /\ pending' = pending
    BY <1>2 DEF Advance, Move
  <2> QED
    BY <2>1
<1>3. ASSUME NEW s \in Submissions, Submit(s) PROVE NoOvertaking'
  <2>1. PICK new \in QueuedTask :
          new.seq = sequence /\ pending' = pending \cup {new}
    BY <1>3, SubmittedTask
  <2>2. work' = work /\ \A w \in work : ~(new.seq < w.item.seq)
    BY <1>3, <2>1 DEF Submit, FutureOwners, TypeOK, Dispatched, QueuedTask
  <2> QED
    BY <2>1, <2>2
<1>4. ASSUME NEW q \in pending, Pick(q) PROVE NoOvertaking'
  <2>1. PICK w \in Dispatched :
          w.item = q /\ w.at = "picked" /\ work' = work \cup {w}
    BY <1>4, PickedTask
  <2>2. /\ pending' = pending \ {q}
        /\ q \in Eligible /\ \A r \in Eligible : r # q => Precedes(q, r)
    BY <1>4 DEF Pick, IsNextRunnable
  <2>3. ASSUME NEW r \in pending', r.task.res = q.task.res,
               r.task.prio <= q.task.prio, r.runAt <= q.runAt, r.seq < q.seq
        PROVE  FALSE
    <3>1. r \in QueuedTask /\ q \in QueuedTask /\ now \in Nat
      BY <2>2 DEF TypeOK
    <3>2. r.task.prio \in Int /\ q.task.prio \in Int
          /\ r.runAt \in Nat /\ q.runAt \in Nat /\ r.seq \in Nat /\ q.seq \in Nat
      BY <3>1 DEF QueuedTask, Task
    <3>3. r \in Eligible
      BY <2>2, <2>3, <3>1, <3>2 DEF Eligible, Unblocked
    <3> QED
      BY <2>2, <2>3, <3>2, <3>3 DEF Precedes
  <2> QED
    BY <2>1, <2>2, <2>3
<1>5. ASSUME NEW w \in work, Complete(w) PROVE NoOvertaking'
  <2>1. InFlight' \subseteq work
    BY <1>5, ReleasedTask
  <2>2. \A q \in pending' : q \in pending \/ q.seq = sequence
    BY <1>5, RepeatedTask DEF Complete
  <2>3. InFlight' \subseteq InFlight
    BY <2>1
  <2>4. sequence \in Nat /\ \A v \in work : v.item.seq \in Nat
    BY DEF TypeOK, Dispatched, QueuedTask
  <2> QED
    BY <2>2, <2>3, <2>4 DEF FutureOwners
<1>6. ASSUME NEW w \in work, Settle(w) PROVE NoOvertaking'
  BY <1>6 DEF Settle, queueVars
<1>7. ASSUME NEW c \in CancelModes, Shutdown(c) PROVE NoOvertaking'
  BY <1>7 DEF Shutdown
<1> QED
  BY <1>1, <1>2, <1>3, <1>4, <1>5, <1>6, <1>7 DEF QueueStep

-----------------------------------------------------------------------------
(* The dispatcher's wait, and where the threads are *)

\* A step never leaves the dispatcher asleep over work it should do: whatever
\* makes a task runnable, or shutdown drain, notifies it, and it computes the
\* end of its wait from everything it could pick.
LEMMA NoMissedWakeupStep ==
  SchedulerInv /\ [Next]_vars => NoMissedWakeup'
<1> SUFFICES ASSUME SchedulerInv, [Next]_vars, dispatcher' = "waiting"
             PROVE  NoMissedWakeup'
  BY DEF NoMissedWakeup
<1> USE DEF SchedulerInv, NoMissedWakeup, SlotFree, Unblocked
<1>1. ASSUME UNCHANGED <<dispatcher, waitUntil, busy, pending>>,
             phase' = "stopping" => phase = "stopping"
      PROVE  NoMissedWakeup'
  BY <1>1
<1>2. CASE UNCHANGED vars
  BY <1>1, <1>2 DEF vars
<1>3. ASSUME Start \/ Exit PROVE FALSE
  BY <1>3 DEF Start, Exit
<1>4. ASSUME Notify PROVE FALSE
  BY <1>4 DEF Notify
<1>5. ASSUME NEW q \in pending, Pick(q) PROVE FALSE
  BY <1>5 DEF Pick
<1>6. CASE Wait
  <2>1. /\ IsWaitDeadline(waitUntil') /\ UNCHANGED <<phase, busy, pending>>
        /\ ~(phase = "stopping" /\ busy = {})
    BY <1>6 DEF Wait, queueVars
  <2>2. \A q \in pending : q.runAt # Never
    BY DEF TypeOK, QueuedTask, Never
  <2> QED
    BY <2>1, <2>2 DEF IsWaitDeadline
<1>7. ASSUME NEW w \in work, ExecutorSubmit(w) PROVE FALSE
  BY <1>7 DEF ExecutorSubmit
<1>8. ASSUME NEW w \in work, AttachCallback(w) PROVE FALSE
  BY <1>8 DEF AttachCallback
<1>9. ASSUME NEW w \in work, Run(w) PROVE NoMissedWakeup'
  BY <1>1, <1>9 DEF Run, queueVars
<1>10. ASSUME NEW w \in work, NEW ok \in BOOLEAN, HandlerEnds(w, ok)
       PROVE  NoMissedWakeup'
  BY <1>1, <1>10 DEF HandlerEnds, queueVars
<1>11. ASSUME NEW w \in work, Settle(w) PROVE NoMissedWakeup'
  BY <1>1, <1>11 DEF Settle, queueVars
<1>12. CASE JoinReturns \/ JoinTimesOut \/ ExecutorShutdown \/ Tick
  BY <1>1, <1>12 DEF JoinReturns, JoinTimesOut, ExecutorShutdown, Tick,
                     queueVars
<1> QED
  BY <1>2, <1>3, <1>4, <1>5, <1>6, <1>7, <1>8, <1>9, <1>10, <1>11, <1>12
  DEF Next, DispatcherStep, WorkerStep, CloserStep, Terminated, Submit,
      Complete, Shutdown

\* A step keeps the dispatcher's state in accord with the dispatched tasks.
LEMMA DispatcherShapeStep ==
  SchedulerInv /\ [Next]_vars => DispatcherShape'
<1> SUFFICES ASSUME SchedulerInv, [Next]_vars PROVE DispatcherShape'
  OBVIOUS
<1> USE DEF SchedulerInv, DispatcherShape, InFlight
<1>1. CASE UNCHANGED <<work, dispatcher>>
  BY <1>1
<1>2. CASE Start
  BY <1>2 DEF Start, CloserShape
<1>3. ASSUME work' = work, Notify PROVE DispatcherShape'
  BY <1>3 DEF Notify
<1>4. ASSUME NEW q \in pending, Pick(q) PROVE DispatcherShape'
  <2>1. PICK w \in Dispatched :
          /\ w.at = "picked" /\ w.cb = "none" /\ work' = work \cup {w}
          /\ dispatcher' = "submit"
    BY <1>4, PickedTask DEF Pick
  <2>2. dispatcher # "callback"
    BY <1>4 DEF Pick, DispatcherLooks
  <2> QED
    BY <2>1, <2>2
<1>5. CASE Wait
  BY <1>5 DEF Wait, DispatcherLooks
<1>6. CASE Exit
  <2>1. dispatcher' = "exited" /\ work' = work /\ busy = {}
        /\ dispatcher # "callback"
    BY <1>6 DEF Exit, DispatcherLooks
  <2>2. \A w \in InFlight : w.item.task.res \in busy
    BY DEF ResourceExclusion
  <2> QED
    BY <2>1, <2>2
<1>7. ASSUME NEW w \in work, ExecutorSubmit(w) PROVE DispatcherShape'
  <2>1. PICK w2 \in Dispatched :
          /\ w2.at = "submitted" /\ w2.cb = w.cb
          /\ work' = (work \ {w}) \cup {w2}
    BY <1>7 DEF ExecutorSubmit, Move, TypeOK, Dispatched, Stages
  <2>2. dispatcher = "submit" /\ dispatcher' = "attach"
    BY <1>7 DEF ExecutorSubmit
  <2> QED
    BY <2>1, <2>2
<1>8. ASSUME NEW w \in work, AttachCallback(w) PROVE DispatcherShape'
  <2>1. dispatcher = "attach" /\ \A v \in work : v.cb # "dispatcher"
    BY <1>8 DEF AttachCallback
  <2>2. CASE w.at = "finished"
    <3> DEFINE w2 == [w EXCEPT !.at = "completing", !.cb = "dispatcher"]
    <3>1. w2.at = "completing" /\ w2.cb = "dispatcher"
      BY DEF TypeOK, Dispatched
    <3>2. work' = (work \ {w}) \cup {w2} /\ dispatcher' = "callback"
      BY <1>8, <2>2 DEF AttachCallback, Move
    <3> HIDE DEF w2
    <3> QED
      BY <2>1, <3>1, <3>2
  <2>3. CASE w.at # "finished"
    <3> DEFINE w2 == [w EXCEPT !.cb = "worker"]
    <3>1. w2.at = w.at /\ w2.cb = "worker"
      BY DEF TypeOK, Dispatched
    <3>2. work' = (work \ {w}) \cup {w2} /\ dispatcher' = "loop"
      BY <1>8, <2>3 DEF AttachCallback, Move
    <3> HIDE DEF w2
    <3> QED
      BY <2>1, <3>1, <3>2
  <2> QED
    BY <2>2, <2>3
<1>9. ASSUME NEW w \in work, w.at # "settling",
             NEW w2 \in Dispatched, work' = (work \ {w}) \cup {w2},
             w2.cb = w.cb,
             w2.cb = "none" => w2.at \notin {"completing", "settling"},
             \/ dispatcher' = dispatcher
             \/ dispatcher = "waiting" /\ dispatcher' = "loop"
      PROVE  DispatcherShape'
  BY <1>9
<1>10. ASSUME NEW w \in work, Run(w) PROVE DispatcherShape'
  <2> DEFINE w2 == [w EXCEPT !.at = "running"]
  <2>1. w2 \in Dispatched /\ w2.cb = w.cb /\ w2.at = "running"
    BY DEF TypeOK, Dispatched, Stages
  <2>2. /\ w.at = "submitted"
        /\ work' = (work \ {w}) \cup {w2} /\ dispatcher' = dispatcher
    BY <1>10 DEF Run, Move
  <2> HIDE DEF w2
  <2> QED
    BY <1>9, <2>1, <2>2
<1>11. ASSUME NEW w \in work, NEW ok \in BOOLEAN, HandlerEnds(w, ok)
       PROVE  DispatcherShape'
  <2> DEFINE w2 == [w EXCEPT
                      !.at = IF w.cb = "none" THEN "finished" ELSE "completing",
                      !.ok = ok]
  <2>1. /\ w2 \in Dispatched /\ w2.cb = w.cb
        /\ w2.at = IF w.cb = "none" THEN "finished" ELSE "completing"
    BY DEF TypeOK, Dispatched, Stages
  <2>2. /\ w.at = "running"
        /\ work' = (work \ {w}) \cup {w2} /\ dispatcher' = dispatcher
    BY <1>11 DEF HandlerEnds, Move
  <2> HIDE DEF w2
  <2> QED
    BY <1>9, <2>1, <2>2
<1>12. ASSUME NEW w \in work, Complete(w) PROVE DispatcherShape'
  <2>1. PICK w2 \in Dispatched :
          w2.cb = w.cb /\ work' = (work \ {w}) \cup {w2}
    BY <1>12, ReleasedTask
  <2>2. /\ w.at = "completing"
        /\ \/ dispatcher' = dispatcher
           \/ dispatcher = "waiting" /\ dispatcher' = "loop"
    BY <1>12 DEF Complete, Notify
  <2> QED
    BY <1>9, <2>1, <2>2
<1>13. ASSUME NEW w \in work, Settle(w) PROVE DispatcherShape'
  BY <1>13 DEF Settle
<1> QED
  BY <1>1, <1>2, <1>3, <1>4, <1>5, <1>6, <1>7, <1>8, <1>10, <1>11, <1>12, <1>13
  DEF Next, DispatcherStep, WorkerStep, CloserStep, Terminated, Submit, vars,
      Shutdown, JoinReturns, JoinTimesOut, ExecutorShutdown, Tick

\* A step keeps the thread that shuts down in accord with the phase.
LEMMA CloserShapeStep ==
  SchedulerInv /\ [Next]_vars => CloserShape'
<1> SUFFICES ASSUME SchedulerInv, [Next]_vars PROVE CloserShape'
  OBVIOUS
<1> USE DEF SchedulerInv, CloserShape
<1>1. CASE UNCHANGED <<phase, pending, work, dispatcher, closer>>
  BY <1>1
<1>2. CASE Start
  BY <1>2 DEF Start
<1>3. ASSUME NEW s \in Submissions, Submit(s) PROVE CloserShape'
  BY <1>3 DEF Submit, Notify
<1>4. ASSUME NEW q \in pending, Pick(q) PROVE CloserShape'
  BY <1>4 DEF Pick, DispatcherLooks
<1>5. CASE Wait
  BY <1>5 DEF Wait, DispatcherLooks, queueVars
<1>6. CASE Exit
  BY <1>6 DEF Exit, DispatcherLooks, queueVars
<1>7. ASSUME NEW w \in work, ExecutorSubmit(w) PROVE CloserShape'
  BY <1>7 DEF ExecutorSubmit, queueVars
<1>8. ASSUME NEW w \in work, AttachCallback(w) PROVE CloserShape'
  BY <1>8 DEF AttachCallback, queueVars
<1>9. ASSUME NEW w \in work, Run(w) PROVE CloserShape'
  BY <1>9 DEF Run, queueVars
<1>10. ASSUME NEW w \in work, NEW ok \in BOOLEAN, HandlerEnds(w, ok)
       PROVE  CloserShape'
  BY <1>10 DEF HandlerEnds, queueVars
<1>11. ASSUME NEW w \in work, Complete(w) PROVE CloserShape'
  BY <1>11 DEF Complete, Notify, Recurs
<1>12. ASSUME NEW w \in work, Settle(w) PROVE CloserShape'
  BY <1>12 DEF Settle, queueVars, DispatcherShape
<1>13. ASSUME NEW c \in CancelModes, Shutdown(c) PROVE CloserShape'
  <2>1. /\ phase' = "stopping" /\ work' = work
        /\ dispatcher = "none" => closer' = "draining" /\ dispatcher' = "none"
        /\ dispatcher # "none" => closer' = "joining"
    BY <1>13 DEF Shutdown, Notify
  <2>2. c => pending' = {}
    BY <1>13 DEF Shutdown
  <2>3. FALSE \notin CancelModes => c
    BY CancelAssumption
  <2> QED
    BY <2>1, <2>2, <2>3
<1>14. CASE JoinReturns
  BY <1>14 DEF JoinReturns, queueVars, TypeOK
<1>15. CASE JoinTimesOut
  BY <1>15 DEF JoinTimesOut, queueVars
<1>16. CASE ExecutorShutdown
  BY <1>16 DEF ExecutorShutdown, queueVars, WorkersIdle, TypeOK, Phases
<1> QED
  BY <1>1, <1>2, <1>3, <1>4, <1>5, <1>6, <1>7, <1>8, <1>9, <1>10, <1>11, <1>12,
     <1>13, <1>14, <1>15, <1>16
  DEF Next, DispatcherStep, WorkerStep, CloserStep, Terminated, vars, Tick,
      queueVars

-----------------------------------------------------------------------------
(* The theorems *)

\* The inductive invariant holds of the fresh scheduler.
LEMMA InitInv == Init => SchedulerInv
<1> SUFFICES ASSUME Init PROVE SchedulerInv
  OBVIOUS
<1>1. TypeOK
  BY InitTypeOK
<1>2. Cardinality({}) = 0 /\ 0 <= MaxConcurrency /\ 0 <= QueueCapacity
  BY FS_EmptySet, ConcurrencyAssumption, CapacityAssumption
<1>3. ResourceExclusion /\ ConcurrencyBound /\ IdentityOwnership
  BY <1>2 DEF Init, ResourceExclusion, ConcurrencyBound, IdentityOwnership,
              InFlight
<1>4. NoFutureLost
  BY DEF Init, NoFutureLost
<1>5. SettledOnce /\ NoMissedWakeup /\ NoOvertaking /\ FutureOwners
  BY DEF Init, SettledOnce, NoMissedWakeup, NoOvertaking, FutureOwners, InFlight
<1>6. DispatcherShape /\ CloserShape
  BY DEF Init, DispatcherShape, CloserShape
<1> QED
  BY <1>1, <1>3, <1>4, <1>5, <1>6 DEF SchedulerInv

\* Every step keeps the inductive invariant.
LEMMA NextInv == SchedulerInv /\ [Next]_vars => SchedulerInv'
  BY NextTypeOK, ResourceExclusionStep, IdentityOwnershipStep, SettledOnceStep,
     NoFutureLostStep, NoMissedWakeupStep, NoOvertakingStep, FutureOwnersStep,
     DispatcherShapeStep, CloserShapeStep DEF SchedulerInv

\* The inductive invariant holds in every reachable state.
THEOREM Invariance == Spec => []SchedulerInv
  BY InitInv, NextInv, PTL DEF Spec

\* Work on one resource never overlaps, within the concurrency limit, for any
\* number of threads that submit, complete and shut down.
THEOREM SerialLanes == Spec => [](ResourceExclusion /\ ConcurrencyBound)
<1>1. SchedulerInv => ResourceExclusion /\ ConcurrencyBound
  BY DEF SchedulerInv
<1> QED
  BY <1>1, Invariance, PTL

\* Identities are neither leaked nor shared, and admission stays within
\* queue_capacity.
THEOREM IdentitiesOwned == Spec => []IdentityOwnership
<1>1. SchedulerInv => IdentityOwnership
  BY DEF SchedulerInv
<1> QED
  BY <1>1, Invariance, PTL

\* Each future is settled by one thread, once, and none is dropped.
THEOREM FuturesSettledOnce == Spec => [](SettledOnce /\ NoFutureLost)
<1>1. SchedulerInv => SettledOnce /\ NoFutureLost
  BY DEF SchedulerInv
<1> QED
  BY <1>1, Invariance, PTL

\* The dispatcher never sleeps over work it should do.
THEOREM WakeupsKept == Spec => []NoMissedWakeup
<1>1. SchedulerInv => NoMissedWakeup
  BY DEF SchedulerInv
<1> QED
  BY <1>1, Invariance, PTL

\* Tasks of one resource start in the order of their priority, start time and
\* admission.
THEOREM LaneOrder == Spec => []NoOvertaking
<1>1. SchedulerInv => NoOvertaking
  BY DEF SchedulerInv
<1> QED
  BY <1>1, Invariance, PTL

\* When shutdown returns no handler runs and no client still waits.
THEOREM ShutdownSettles == Spec => []StoppedMeansSettled
<1>1. SchedulerInv => StoppedMeansSettled
  <2> SUFFICES ASSUME SchedulerInv, phase = "stopped" PROVE StoppedMeansSettled
    BY DEF StoppedMeansSettled
  <2>1. work = {} /\ InFlight = {}
    BY DEF SchedulerInv, CloserShape, InFlight
  <2>2. busy = {}
    BY <2>1 DEF SchedulerInv, ResourceExclusion
  <2>3. \A s \in 0..(sequence - 1) : Settled(s) \/ Held(s)
    BY <2>1 DEF SchedulerInv, NoFutureLost, Executing
  <2>4. FALSE \notin CancelModes => pending = {} /\ active = {}
    BY <2>1 DEF SchedulerInv, CloserShape, IdentityOwnership
  <2> QED
    BY <2>1, <2>2, <2>3, <2>4 DEF StoppedMeansSettled
<1> QED
  BY <1>1, Invariance, PTL

\* Closed admission stays closed: nothing joins the queue any more.
THEOREM AdmissionClosed == Spec => AdmissionStaysClosed
<1>1. SchedulerInv /\ [Next]_vars =>
        ((phase \in {"stopping", "stopped"}) =>
            /\ phase' \in {"stopping", "stopped"}
            /\ pending' \subseteq pending)
  BY DEF Next, DispatcherStep, WorkerStep, CloserStep, Terminated, vars,
         queueVars, Start, Submit, Pick, Wait, Exit, ExecutorSubmit,
         AttachCallback, Run, HandlerEnds, Complete, Recurs, Settle, Shutdown,
         JoinReturns, JoinTimesOut, ExecutorShutdown, Tick
<1> QED
  BY <1>1, Invariance, PTL DEF Spec, AdmissionStaysClosed

-----------------------------------------------------------------------------
(* The daemon scheduler implements TaskContract: admission goes to Admit, the *)
(* dispatcher's pick to Begin, the critical section of _complete to Release,   *)
(* its end to Settle, shutdown to Close, and every other step leaves the       *)
(* contract's view unchanged.                                                  *)

Waiting == {TicketOf(q) : q \in pending}
Started == {TicketOf(w.item) : w \in InFlight}
Released == {TicketOf(w.item) : w \in work \ InFlight}
Open == phase \in {"created", "running"}

\* Queued tasks with different futures have different tickets.
LEMMA TicketsDiffer ==
  ASSUME NEW a, NEW b, TicketOf(a) = TicketOf(b)
  PROVE  a.seq = b.seq /\ a.task.id = b.task.id /\ a.task.res = b.task.res
  BY DEF TicketOf

\* The tickets that hold their identity are as many as the entries of _active.
LEMMA HeldTickets ==
  ASSUME SchedulerInv
  PROVE  /\ Waiting \cup Started = {TicketOf(q) : q \in active}
         /\ Cardinality(Waiting \cup Started) \in Nat
         /\ Cardinality(Waiting \cup Started) <= Cardinality(active)
<1>1. Waiting \cup Started = {TicketOf(q) : q \in active}
  BY DEF SchedulerInv, IdentityOwnership, Waiting, Started
<1> DEFINE T == {TicketOf(q) : q \in active}
           f == [q \in active |-> TicketOf(q)]
<1>2. f \in Surjection(active, T)
  BY DEF Surjection
<1>3. IsFiniteSet(active)
  BY DEF SchedulerInv, TypeOK
<1>4. IsFiniteSet(T) /\ Cardinality(T) <= Cardinality(active)
  <2> HIDE DEF T, f
  <2> QED
    BY <1>2, <1>3, FS_Surjection
<1> QED
  BY <1>1, <1>4, FS_CardinalityType

\* The started tickets are as many as the busy resources.
LEMMA StartedTickets ==
  ASSUME SchedulerInv
  PROVE  /\ Cardinality(Started) \in Nat
         /\ Cardinality(Started) <= Cardinality(busy)
<1> DEFINE f == [k \in Started |-> k.res]
<1>1. \A k \in Started : k.res \in busy
  BY DEF SchedulerInv, ResourceExclusion, Started, TicketOf
<1>2. \A k, l \in Started : k.res = l.res => k = l
  BY DEF SchedulerInv, ResourceExclusion, Started, TicketOf
<1>3. f \in Injection(Started, busy)
  BY <1>1, <1>2 DEF Injection, IsInjective
<1>4. IsFiniteSet(busy)
  BY DEF SchedulerInv, TypeOK
<1> QED
  <2> HIDE DEF f
  <2>1. IsFiniteSet(Started) /\ Cardinality(Started) <= Cardinality(busy)
    BY <1>3, <1>4, FS_Injection
  <2> QED
    BY <2>1, FS_CardinalityType

\* A step that leaves the contract's view unchanged.
LEMMA ViewUnchanged ==
  ASSUME UNCHANGED <<Open, sequence, Waiting, Started, Released, outcomes>>
  PROVE  UNCHANGED Contract!contractVars
  BY DEF Contract!contractVars, Open, Waiting, Started, Released

\* The contract counts as the scheduler does.
LEMMA SameCardinality ==
  ASSUME NEW S PROVE Contract!Cardinality(S) = Cardinality(S)
  BY DEF Contract!Cardinality, Cardinality

\* An admission.
LEMMA SubmitAdmits ==
  ASSUME SchedulerInv, NEW s \in Submissions, Submit(s)
  PROVE  Contract!Admit(s.task.id, s.task.res)
<1>1. PICK new \in QueuedTask :
        /\ new.task = s.task /\ new.seq = sequence
        /\ pending' = pending \cup {new}
  BY SubmittedTask DEF SchedulerInv
<1>2. Waiting' = Waiting \cup
        {[id |-> s.task.id, res |-> s.task.res, seq |-> sequence]}
  BY <1>1 DEF Waiting, TicketOf
<1>3. UNCHANGED <<phase, Started, Released, outcomes>> /\ Open
      /\ sequence' = sequence + 1
  BY DEF Submit, Open, Started, Released, InFlight
<1>4. \A k \in Waiting \cup Started : k.id # s.task.id
  BY HeldTickets DEF Submit, TicketOf
<1>5. Cardinality(Waiting \cup Started) < QueueCapacity
  <2>1. Cardinality(active) \in Nat /\ Cardinality(active) < QueueCapacity
    BY FS_CardinalityType DEF SchedulerInv, TypeOK, Submit, HasRoom
  <2> QED
    BY <2>1, HeldTickets, CapacityAssumption
<1> QED
  BY <1>2, <1>3, <1>4, <1>5, SameCardinality
  DEF Contract!Admit, Contract!Held, Waiting, Started, Released, Open

\* A dispatch.
LEMMA PickBegins ==
  ASSUME SchedulerInv, NEW q \in pending, Pick(q)
  PROVE  Contract!Begin(TicketOf(q))
<1>1. PICK w \in Dispatched :
        w.item = q /\ w.at = "picked" /\ work' = work \cup {w}
  BY PickedTask DEF SchedulerInv
<1>2. /\ pending' = pending \ {q} /\ q.task.res \notin busy /\ SlotFree
      /\ UNCHANGED <<phase, sequence, outcomes>>
  BY DEF Pick, IsNextRunnable, Eligible, Unblocked
<1>3. TicketOf(q) \in Waiting /\ Waiting' = Waiting \ {TicketOf(q)}
  BY <1>2, TicketsDiffer DEF Waiting, SchedulerInv, FutureOwners
<1>4. Started' = Started \cup {TicketOf(q)} /\ Released' = Released
  BY <1>1 DEF Started, Released, InFlight
<1>5. \A r \in Started : r.res # q.task.res
  BY <1>2 DEF SchedulerInv, ResourceExclusion, Started, TicketOf
<1>6. Cardinality(Started) < MaxConcurrency
  <2>1. Cardinality(busy) \in Nat /\ Cardinality(busy) < MaxConcurrency
    BY <1>2, FS_CardinalityType DEF SchedulerInv, TypeOK, SlotFree
  <2> QED
    BY <2>1, StartedTickets, ConcurrencyAssumption
<1>7. TicketOf(q).res = q.task.res
  BY DEF TicketOf
<1> QED
  BY <1>2, <1>3, <1>4, <1>5, <1>6, <1>7, SameCardinality
  DEF Contract!Begin, Waiting, Started, Released

\* The critical section of _complete.
LEMMA CompleteReleases ==
  ASSUME SchedulerInv, NEW w \in work, Complete(w)
  PROVE  Contract!Release(TicketOf(w.item))
<1> DEFINE k == TicketOf(w.item)
<1>1. PICK w2 \in Dispatched :
        /\ w2.item = w.item /\ w2.at = "settling"
        /\ work' = (work \ {w}) \cup {w2}
  BY ReleasedTask DEF SchedulerInv
<1>2. w.at = "completing" /\ w \in InFlight /\ UNCHANGED <<phase, outcomes>>
  BY DEF Complete, InFlight
<1>3. InFlight' = InFlight \ {w}
      /\ work' \ InFlight' = (work \ InFlight) \cup {w2}
  BY <1>1, <1>2 DEF InFlight
<1>4. k \in Started /\ Started' = Started \ {k}
  BY <1>2, <1>3, TicketsDiffer
  DEF Started, SchedulerInv, FutureOwners, InFlight
<1>5. Released' = Released \cup {k}
  BY <1>1, <1>3 DEF Released
<1>6. \/ UNCHANGED <<sequence, Waiting>>
      \/ /\ Open
         /\ Waiting' = Waiting \cup
              {[id |-> k.id, res |-> k.res, seq |-> sequence]}
         /\ sequence' = sequence + 1
  <2>1. CASE Recurs(w)
    <3>1. /\ Repeated(w).task = w.item.task /\ Repeated(w).seq = sequence
          /\ pending' = pending \cup {Repeated(w)}
          /\ sequence' = sequence + 1
      BY <2>1, RepeatedTask DEF Complete, SchedulerInv
    <3> QED
      BY <2>1, <3>1 DEF Waiting, TicketOf, Recurs, Open
  <2>2. CASE ~Recurs(w)
    BY <2>2 DEF Complete, Waiting
  <2> QED
    BY <2>1, <2>2
<1> QED
  BY <1>2, <1>4, <1>5, <1>6
  DEF Contract!Release, Waiting, Started, Released, Open

\* The end of _complete.
LEMMA SettleReports ==
  ASSUME SchedulerInv, NEW w \in work, Settle(w)
  PROVE  /\ TicketOf(w.item) \in Released
         /\ \E how \in {"result", "error"} :
               Contract!Settle(TicketOf(w.item), how)
<1> DEFINE k == TicketOf(w.item)
           how == IF w.ok THEN "result" ELSE "error"
<1>1. /\ w \in work \ InFlight /\ work' = work \ {w}
      /\ UNCHANGED <<phase, sequence, pending>>
      /\ outcomes' = outcomes \cup {[seq |-> w.item.seq, how |-> how]}
  BY DEF Settle, InFlight, queueVars
<1>2. InFlight' = InFlight /\ work' \ InFlight' = (work \ InFlight) \ {w}
  BY <1>1 DEF InFlight
<1>3. k \in Released /\ Released' = Released \ {k}
  BY <1>1, <1>2, TicketsDiffer DEF Released, SchedulerInv, FutureOwners
<1>4. \A r \in outcomes : r.seq # k.seq
  BY DEF SchedulerInv, SettledOnce, Settled, TicketOf
<1>5. k.seq = w.item.seq
  BY DEF TicketOf
<1> HIDE DEF k
<1>6. Contract!Settle(k, how)
  BY <1>1, <1>2, <1>3, <1>4, <1>5
  DEF Contract!Settle, Released
<1> QED
  BY <1>3, <1>6 DEF k

\* The critical section of shutdown.
LEMMA ShutdownCloses ==
  ASSUME SchedulerInv, NEW c \in CancelModes, Shutdown(c)
  PROVE  Contract!Close
<1>1. phase' = "stopping" /\ UNCHANGED <<sequence, work>>
  BY DEF Shutdown
<1>2. UNCHANGED <<Started, Released>>
  BY <1>1 DEF Started, Released, InFlight
<1>3. CASE c
  <2>1. pending' = {} /\ outcomes' = outcomes \cup Cancelled
    BY <1>3 DEF Shutdown
  <2>2. Cancelled = {[seq |-> k.seq, how |-> "cancelled"] : k \in Waiting}
    <3>1. \A q \in pending : TicketOf(q).seq = q.seq
      BY DEF TicketOf
    <3> QED
      BY <3>1 DEF Cancelled, Waiting
  <2>3. \A k \in Waiting : \A r \in outcomes : r.seq # k.seq
    BY DEF SchedulerInv, SettledOnce, Settled, IdentityOwnership, Waiting,
           TicketOf
  <2>4. Waiting' = {}
    BY <2>1 DEF Waiting
  <2> QED
    BY <1>1, <1>2, <2>1, <2>2, <2>3, <2>4
    DEF Contract!Close, Waiting, Started, Released
<1>4. CASE ~c
  <2>1. UNCHANGED <<pending, outcomes>>
    BY <1>4 DEF Shutdown
  <2> QED
    BY <1>1, <1>2, <2>1 DEF Contract!Close, Started, Released
<1> QED
  BY <1>3, <1>4

\* Only shutdown closes admission, and nothing opens it again.
LEMMA OpenKept ==
  ASSUME SchedulerInv, [Next]_vars
  PROVE  Open' = Open \/ \E c \in CancelModes : Shutdown(c)
<1>1. CASE phase' = phase
  BY <1>1 DEF Open
<1>2. CASE Start
  BY <1>2 DEF Start, Open
<1>3. CASE ExecutorShutdown
  <2>1. phase \notin {"created", "running"} /\ phase' = "stopped"
    BY <1>3 DEF ExecutorShutdown, SchedulerInv, CloserShape
  <2> QED
    BY <2>1 DEF Open
<1> QED
  BY <1>1, <1>2, <1>3
  DEF Next, DispatcherStep, WorkerStep, CloserStep, Terminated, vars, Submit,
      Pick, Wait, Exit, ExecutorSubmit, AttachCallback, Run, HandlerEnds,
      Complete, Settle, JoinReturns, JoinTimesOut, Tick

\* Every step of the scheduler is a step of the contract, or none.
LEMMA StepImplements ==
  SchedulerInv /\ [Next]_vars =>
    [Contract!ContractNext]_(Contract!contractVars)
<1> SUFFICES ASSUME SchedulerInv, [Next]_vars
             PROVE  Contract!ContractNext \/ UNCHANGED Contract!contractVars
  OBVIOUS
<1>1. ASSUME NEW c \in CancelModes, Shutdown(c) PROVE Contract!ContractNext
  BY <1>1, ShutdownCloses DEF Contract!ContractNext
<1>2. ASSUME NEW s \in Submissions, Submit(s) PROVE Contract!ContractNext
  <2>1. s.task.id \in Identities /\ s.task.res \in Resources
    BY SubmissionAssumption DEF Task
  <2> QED
    BY <1>2, <2>1, SubmitAdmits DEF Contract!ContractNext
<1>3. ASSUME NEW q \in pending, Pick(q) PROVE Contract!ContractNext
  BY <1>3, PickBegins DEF Contract!ContractNext
<1>4. ASSUME NEW w \in work, Complete(w) PROVE Contract!ContractNext
  <2>1. w \in InFlight
    BY <1>4 DEF Complete, InFlight
  <2> QED
    BY <1>4, <2>1, CompleteReleases DEF Contract!ContractNext
<1>5. ASSUME NEW w \in work, Settle(w) PROVE Contract!ContractNext
  BY <1>5, SettleReports DEF Contract!ContractNext, Released
<1>6. ASSUME Open' = Open, Quiet PROVE UNCHANGED Contract!contractVars
  <2>1. UNCHANGED <<sequence, Waiting, Started, Released, outcomes>>
    BY <1>6 DEF Quiet, Waiting, Started, Released, InFlight
  <2> QED
    BY <1>6, <2>1, ViewUnchanged
<1>7. ASSUME Open' = Open, Advance PROVE UNCHANGED Contract!contractVars
  <2>1. PICK w \in work, w2 \in Dispatched :
          /\ work' = (work \ {w}) \cup {w2} /\ w2.item = w.item
          /\ w.at # "settling" /\ w2.at # "settling"
          /\ UNCHANGED <<pending, sequence, outcomes>>
    BY <1>7 DEF Advance, Move
  <2>2. work' \ InFlight' = work \ InFlight
    BY <2>1 DEF InFlight
  <2>3. Started' = Started
    BY <2>1 DEF Started, InFlight
  <2>4. UNCHANGED <<sequence, Waiting, Released, outcomes>>
    BY <2>1, <2>2 DEF Waiting, Released
  <2> QED
    BY <1>7, <2>3, <2>4, ViewUnchanged
<1> QED
  BY <1>1, <1>2, <1>3, <1>4, <1>5, <1>6, <1>7, QueueSteps, OpenKept
  DEF QueueStep

\* The scheduler implements its contract: bounded and exclusive admission,
\* bounded and serial execution, and one report per admitted task.
THEOREM ContractImplemented == Spec => ImplementsContract
<1>1. Init => Contract!ContractInit
  BY DEF Init, Contract!ContractInit, InFlight
<1> QED
  BY <1>1, StepImplements, Invariance, PTL
  DEF Spec, ImplementsContract, Contract!ContractSpec

-----------------------------------------------------------------------------
(* Deliveries. The argument is one of ownership: the lock makes the process*)
(* in the middle of a delivery the only one to write to its record, and    *)
(* begin records an attempt before the channel is reached, so that         *)
(* whatever interrupts it leaves a result that is not tried again.         *)


LEMMA InitialState == DeliveryInit => DeliveryInv
<1> SUFFICES ASSUME DeliveryInit PROVE DeliveryInv
    OBVIOUS
<1>1. /\ (CHOOSE i \in Items : TRUE) \in Items
      /\ (CHOOSE a \in Adapters : TRUE) \in Adapters
    BY NonEmptyAssumption
<1>2. DeliveryTypeOK
    BY <1>1, NobodyAssumption DEF DeliveryInit, DeliveryTypeOK, InboxStatuses,
       AdapterStatuses, Steps, Covered
<1>3. AtMostOnce /\ LockCoversAttempt /\ DelivererShape /\ RecordShape
    BY DEF Untouched, DeliveryInit, AtMostOnce, LockCoversAttempt, DelivererShape, RecordShape,
       Covered
<1> QED BY <1>2, <1>3 DEF DeliveryInv

LEMMA PublishPreserves ==
    ASSUME DeliveryInv, NEW i \in Items, NEW deliver \in BOOLEAN,
           Publish(i, deliver)
    PROVE  DeliveryInv'
<1> USE DEF Reached, Untouched, DeliveryInv, Publish, recordVars, procVars, outside, Covered
<1>1. DeliveryTypeOK'
    BY NobodyAssumption DEF DeliveryTypeOK, InboxStatuses, AdapterStatuses, Steps
<1>2. AtMostOnce'
    BY DEF DeliveryTypeOK, AtMostOnce, DelivererShape
<1>3. LockCoversAttempt'
    BY NobodyAssumption DEF DeliveryTypeOK, LockCoversAttempt
<1>4. DelivererShape'
    BY NobodyAssumption DEF DeliveryTypeOK, DelivererShape, LockCoversAttempt, RecordShape
<1>5. RecordShape'
    BY DEF DeliveryTypeOK, RecordShape, DelivererShape, LockCoversAttempt,
       AtMostOnce, AdapterStatuses
<1> QED BY <1>1, <1>2, <1>3, <1>4, <1>5

LEMMA PublisherRequestsPreserves ==
    ASSUME DeliveryInv, NEW i \in Items,
           PublisherRequests(i)
    PROVE  DeliveryInv'
<1> USE DEF Reached, Untouched, DeliveryInv, PublisherRequests, recordVars, procVars, outside, Covered,
           NewRecord
<1>1. DeliveryTypeOK'
    BY NobodyAssumption DEF DeliveryTypeOK, InboxStatuses, AdapterStatuses, Steps
<1>2. AtMostOnce'
    BY DEF DeliveryTypeOK, AtMostOnce, DelivererShape
<1>3. LockCoversAttempt'
    BY NobodyAssumption DEF DeliveryTypeOK, LockCoversAttempt
<1>4. DelivererShape'
    BY NobodyAssumption DEF DeliveryTypeOK, DelivererShape, LockCoversAttempt, RecordShape
<1>5. RecordShape'
    BY DEF DeliveryTypeOK, RecordShape, DelivererShape, LockCoversAttempt,
       AtMostOnce, AdapterStatuses
<1> QED BY <1>1, <1>2, <1>3, <1>4, <1>5

LEMMA TransitionPreserves ==
    ASSUME DeliveryInv, NEW i \in Items,
           NEW s \in {"read", "dismissed", "resolved"},
           Transition(i, s)
    PROVE  DeliveryInv'
<1> USE DEF Reached, Untouched, DeliveryInv, Transition, recordVars, procVars, outside, Covered
<1>1. DeliveryTypeOK'
    BY NobodyAssumption DEF DeliveryTypeOK, InboxStatuses, AdapterStatuses, Steps
<1>2. AtMostOnce'
    BY DEF DeliveryTypeOK, AtMostOnce, DelivererShape
<1>3. LockCoversAttempt'
    BY NobodyAssumption DEF DeliveryTypeOK, LockCoversAttempt
<1>4. DelivererShape'
    BY NobodyAssumption DEF DeliveryTypeOK, DelivererShape, LockCoversAttempt, RecordShape
<1>5. RecordShape'
    BY DEF DeliveryTypeOK, RecordShape, DelivererShape, LockCoversAttempt,
       AtMostOnce, AdapterStatuses
<1> QED BY <1>1, <1>2, <1>3, <1>4, <1>5

LEMMA ClearPreserves ==
    ASSUME DeliveryInv, NEW selected,
           Clear(selected)
    PROVE  DeliveryInv'
<1> USE DEF Reached, Untouched, DeliveryInv, Clear, recordVars, procVars, outside, Covered
<1>1. DeliveryTypeOK'
    BY NobodyAssumption DEF DeliveryTypeOK, InboxStatuses, AdapterStatuses, Steps
<1>2. AtMostOnce'
    BY DEF DeliveryTypeOK, AtMostOnce, DelivererShape
<1>3. LockCoversAttempt'
    BY NobodyAssumption DEF DeliveryTypeOK, LockCoversAttempt
<1>4. DelivererShape'
    BY NobodyAssumption DEF DeliveryTypeOK, DelivererShape, LockCoversAttempt, RecordShape
<1>5. RecordShape'
    BY DEF DeliveryTypeOK, RecordShape, DelivererShape, LockCoversAttempt,
       AtMostOnce, AdapterStatuses
<1> QED BY <1>1, <1>2, <1>3, <1>4, <1>5

LEMMA RunOncePreserves ==
    ASSUME DeliveryInv, NEW p \in Procs,
           RunOnce(p)
    PROVE  DeliveryInv'
<1> USE DEF Reached, Untouched, DeliveryInv, RunOnce, recordVars, procVars, outside, Covered
<1>1. DeliveryTypeOK'
    BY NobodyAssumption DEF DeliveryTypeOK, InboxStatuses, AdapterStatuses, Steps
<1>2. AtMostOnce'
    BY DEF DeliveryTypeOK, AtMostOnce, DelivererShape
<1>3. LockCoversAttempt'
    BY NobodyAssumption DEF DeliveryTypeOK, LockCoversAttempt
<1>4. DelivererShape'
    BY NobodyAssumption DEF DeliveryTypeOK, DelivererShape, LockCoversAttempt, RecordShape
<1>5. RecordShape'
    BY DEF DeliveryTypeOK, RecordShape, DelivererShape, LockCoversAttempt,
       AtMostOnce, AdapterStatuses
<1> QED BY <1>1, <1>2, <1>3, <1>4, <1>5

LEMMA NextOfQueuePreserves ==
    ASSUME DeliveryInv, NEW p \in Procs, NEW i \in Items,
           NextOfQueue(p, i)
    PROVE  DeliveryInv'
<1> USE DEF Reached, Untouched, DeliveryInv, NextOfQueue, recordVars, procVars, outside, Covered,
           Goto
<1>1. DeliveryTypeOK'
    BY NobodyAssumption DEF DeliveryTypeOK, InboxStatuses, AdapterStatuses, Steps
<1>2. AtMostOnce'
    BY DEF DeliveryTypeOK, AtMostOnce, DelivererShape
<1>3. LockCoversAttempt'
    BY NobodyAssumption DEF DeliveryTypeOK, LockCoversAttempt
<1>4. DelivererShape'
    BY NobodyAssumption DEF DeliveryTypeOK, DelivererShape, LockCoversAttempt, RecordShape
<1>5. RecordShape'
    BY DEF DeliveryTypeOK, RecordShape, DelivererShape, LockCoversAttempt,
       AtMostOnce, AdapterStatuses
<1> QED BY <1>1, <1>2, <1>3, <1>4, <1>5

LEMMA ClientSendPreserves ==
    ASSUME DeliveryInv, NEW p \in Procs, NEW i \in Items,
           ClientSend(p, i)
    PROVE  DeliveryInv'
<1> USE DEF Reached, Untouched, DeliveryInv, ClientSend, Does, recordVars, procVars, outside, Covered,
           Goto
<1>1. DeliveryTypeOK'
    BY NobodyAssumption DEF DeliveryTypeOK, InboxStatuses, AdapterStatuses, Steps
<1>2. AtMostOnce'
    BY DEF DeliveryTypeOK, AtMostOnce, DelivererShape
<1>3. LockCoversAttempt'
    BY NobodyAssumption DEF DeliveryTypeOK, LockCoversAttempt
<1>4. DelivererShape'
    BY NobodyAssumption DEF DeliveryTypeOK, DelivererShape, LockCoversAttempt, RecordShape
<1>5. RecordShape'
    BY DEF DeliveryTypeOK, RecordShape, DelivererShape, LockCoversAttempt,
       AtMostOnce, AdapterStatuses
<1> QED BY <1>1, <1>2, <1>3, <1>4, <1>5

LEMMA ClientRequestsPreserves ==
    ASSUME DeliveryInv, NEW p \in Procs,
           ClientRequests(p)
    PROVE  DeliveryInv'
<1> USE DEF Reached, Untouched, DeliveryInv, ClientRequests, recordVars, procVars, outside, Covered,
           Goto, NewRecord
<1>1. DeliveryTypeOK'
    BY NobodyAssumption DEF DeliveryTypeOK, InboxStatuses, AdapterStatuses, Steps
<1>2. AtMostOnce'
    BY DEF DeliveryTypeOK, AtMostOnce, DelivererShape
<1>3. LockCoversAttempt'
    BY NobodyAssumption DEF DeliveryTypeOK, LockCoversAttempt
<1>4. DelivererShape'
    BY NobodyAssumption DEF DeliveryTypeOK, DelivererShape, LockCoversAttempt, RecordShape
<1>5. RecordShape'
    BY DEF DeliveryTypeOK, RecordShape, DelivererShape, LockCoversAttempt,
       AtMostOnce, AdapterStatuses
<1> QED BY <1>1, <1>2, <1>3, <1>4, <1>5

\* The lock is taken only when free: nobody else is in the middle of the record.
LEMMA AcquirePreserves ==
    ASSUME DeliveryInv, NEW p \in Procs,
           Acquire(p)
    PROVE  DeliveryInv'
<1> USE DEF Reached, Untouched, DeliveryInv, Acquire, recordVars, procVars, outside, Covered,
           Goto, LockFree, StillPending
<1>1. DeliveryTypeOK'
    <2>1. p \in Procs \cup {Nobody}
        OBVIOUS
    <2>2. lock' \in [Items -> Procs \cup {Nobody}] /\ pc' \in [Procs -> Steps]
        <3>1. CASE StillPending(item[p])
            BY <2>1, <3>1 DEF DeliveryTypeOK, Steps
        <3>2. CASE ~StillPending(item[p])
            BY <3>2 DEF DeliveryTypeOK, Steps
        <3> QED BY <3>1, <3>2
    <2> QED BY <2>2 DEF DeliveryTypeOK
<1>2. AtMostOnce'
    BY DEF DeliveryTypeOK, AtMostOnce, DelivererShape
<1>3. LockCoversAttempt'
    <2>1. item[p] \in Items /\ item' = item /\ result' = result /\ adapter' = adapter
        BY DEF DeliveryTypeOK
    <2>2. CASE StillPending(item[p])
        <3>1. lock' = [lock EXCEPT ![item[p]] = p] /\ pc' = [pc EXCEPT ![p] = "prepare"]
            BY <2>2
        <3> QED BY <2>1, <3>1, NobodyAssumption DEF DeliveryTypeOK, LockCoversAttempt
    <2>3. CASE ~StillPending(item[p])
        <3>1. lock' = lock /\ pc' = [pc EXCEPT ![p] = "idle"]
            BY <2>3
        <3> QED BY <2>1, <3>1 DEF DeliveryTypeOK, LockCoversAttempt
    <2> QED BY <2>2, <2>3
<1>4. DelivererShape'
    BY NobodyAssumption DEF DeliveryTypeOK, DelivererShape, LockCoversAttempt, RecordShape
<1>5. RecordShape'
    BY DEF DeliveryTypeOK, RecordShape, DelivererShape, LockCoversAttempt,
       AtMostOnce, AdapterStatuses
<1> QED BY <1>1, <1>2, <1>3, <1>4, <1>5

\* A plan is frozen before any of its adapters is attempted.
LEMMA PreparePreserves ==
    ASSUME DeliveryInv, NEW p \in Procs,
           Prepare(p)
    PROVE  DeliveryInv'
<1> USE DEF Reached, Untouched, DeliveryInv, Prepare, recordVars, procVars, outside, Covered,
           Goto, NotPlanned
<1>1. DeliveryTypeOK'
    <2>1. Configured[p] \subseteq Adapters
        BY ConfiguredAssumption
    <2>2. pc' \in [Procs -> Steps]
        BY DEF DeliveryTypeOK, Steps
    <2>3. plan' \in [Items -> SUBSET Adapters]
        <3>1. plan' = plan \/ plan' = [plan EXCEPT ![item[p]] = Configured[p]]
            OBVIOUS
        <3>2. Configured[p] \in SUBSET Adapters
            BY <2>1
        <3> QED BY <3>1, <3>2 DEF DeliveryTypeOK
    <2>4. result' \in [Items -> [Adapters -> AdapterStatuses]]
        <3>1. [a \in Adapters |->
                  IF a \in Configured[p] THEN "pending" ELSE "none"]
                 \in [Adapters -> AdapterStatuses]
            BY DEF AdapterStatuses
        <3> QED BY <3>1 DEF DeliveryTypeOK
    <2> QED BY <2>2, <2>3, <2>4 DEF DeliveryTypeOK
<1>2. AtMostOnce'
    BY DEF DeliveryTypeOK, AtMostOnce, DelivererShape
<1>3. LockCoversAttempt'
    BY NobodyAssumption DEF DeliveryTypeOK, LockCoversAttempt
<1>4. DelivererShape'
    <2>1. \A q \in Procs \ {p} : pc[q] \in Covered => item[q] # item[p]
        BY DEF LockCoversAttempt
    <2>2. \A q \in Procs \ {p} : pc[q] \in Covered => plan'[item[q]] = plan[item[q]]
        BY <2>1 DEF DeliveryTypeOK
    <2>3. pc[p] = "prepare" /\ pc' = [pc EXCEPT ![p] = "recover"]
        OBVIOUS
    <2>4. UNCHANGED <<status, effects, noted, item, todo, adapter, success>>
        OBVIOUS
    <2> HIDE DEF Prepare, NotPlanned
    <2> QED BY <2>2, <2>3, <2>4 DEF DeliveryTypeOK, DelivererShape
<1>5. RecordShape'
    <2>1. CASE ~NotPlanned(item[p], p)
        BY <2>1 DEF RecordShape
    <2>2. CASE NotPlanned(item[p], p)
        <3>1. Configured[p] \subseteq Adapters /\ item[p] \in Items
            BY ConfiguredAssumption DEF DeliveryTypeOK
        <3>2. \A a \in Adapters : Untouched(item[p], a)
            BY <2>2, <3>1 DEF RecordShape
        <3>3. status[item[p]] = "pending"
            BY DEF DelivererShape
        <3>4. /\ plan'[item[p]] = Configured[p]
              /\ \A a \in Adapters : result'[item[p]][a] =
                    IF a \in Configured[p] THEN "pending" ELSE "none"
              /\ \A i \in Items \ {item[p]} :
                    plan'[i] = plan[i] /\ result'[i] = result[i]
            BY <2>2, <3>1 DEF DeliveryTypeOK
        <3>5. status' = status /\ effects' = effects /\ noted' = noted
            OBVIOUS
        <3> QED BY <3>1, <3>2, <3>3, <3>4, <3>5 DEF RecordShape
    <2> QED BY <2>1, <2>2
<1> QED BY <1>1, <1>2, <1>3, <1>4, <1>5

\* No adapter becomes pending again.
LEMMA RecoverPreserves ==
    ASSUME DeliveryInv, NEW p \in Procs,
           Recover(p)
    PROVE  DeliveryInv'
<1> USE DEF Reached, Untouched, DeliveryInv, Recover, recordVars, procVars, outside, Covered,
           Goto, Recovered
<1>1. DeliveryTypeOK'
    BY NobodyAssumption DEF DeliveryTypeOK, InboxStatuses, AdapterStatuses, Steps
<1>2. AtMostOnce'
    BY DEF DeliveryTypeOK, AtMostOnce, DelivererShape
<1>3. LockCoversAttempt'
    BY NobodyAssumption DEF DeliveryTypeOK, LockCoversAttempt
<1>4. DelivererShape'
    BY NobodyAssumption DEF DeliveryTypeOK, DelivererShape, LockCoversAttempt, RecordShape
<1>5. RecordShape'
    BY DEF DeliveryTypeOK, RecordShape, DelivererShape, LockCoversAttempt,
       AtMostOnce, AdapterStatuses
<1> QED BY <1>1, <1>2, <1>3, <1>4, <1>5

LEMMA LookupPreserves ==
    ASSUME DeliveryInv, NEW p \in Procs,
           Lookup(p)
    PROVE  DeliveryInv'
<1> USE DEF Reached, Untouched, DeliveryInv, Lookup, recordVars, procVars, outside, Covered,
           Goto
<1>1. DeliveryTypeOK'
    BY NobodyAssumption DEF DeliveryTypeOK, InboxStatuses, AdapterStatuses, Steps
<1>2. AtMostOnce'
    BY DEF DeliveryTypeOK, AtMostOnce, DelivererShape
<1>3. LockCoversAttempt'
    BY NobodyAssumption DEF DeliveryTypeOK, LockCoversAttempt
<1>4. DelivererShape'
    BY NobodyAssumption DEF DeliveryTypeOK, DelivererShape, LockCoversAttempt, RecordShape
<1>5. RecordShape'
    BY DEF DeliveryTypeOK, RecordShape, DelivererShape, LockCoversAttempt,
       AtMostOnce, AdapterStatuses
<1> QED BY <1>1, <1>2, <1>3, <1>4, <1>5

LEMMA SkipPreserves ==
    ASSUME DeliveryInv, NEW p \in Procs, NEW a \in Adapters,
           Skip(p, a)
    PROVE  DeliveryInv'
<1> USE DEF Reached, Untouched, DeliveryInv, Skip, recordVars, procVars, outside, Covered
<1>1. DeliveryTypeOK'
    BY NobodyAssumption DEF DeliveryTypeOK, InboxStatuses, AdapterStatuses, Steps
<1>2. AtMostOnce'
    BY DEF DeliveryTypeOK, AtMostOnce, DelivererShape
<1>3. LockCoversAttempt'
    BY NobodyAssumption DEF DeliveryTypeOK, LockCoversAttempt
<1>4. DelivererShape'
    BY NobodyAssumption DEF DeliveryTypeOK, DelivererShape, LockCoversAttempt, RecordShape
<1>5. RecordShape'
    BY DEF DeliveryTypeOK, RecordShape, DelivererShape, LockCoversAttempt,
       AtMostOnce, AdapterStatuses
<1> QED BY <1>1, <1>2, <1>3, <1>4, <1>5

\* An adapter that is begun has never acted: it was pending until now.
LEMMA BeginPreserves ==
    ASSUME DeliveryInv, NEW p \in Procs, NEW a \in Adapters,
           Begin(p, a)
    PROVE  DeliveryInv'
<1> USE DEF Reached, Untouched, DeliveryInv, Begin, recordVars, procVars, outside, Covered,
           Goto
<1>1. DeliveryTypeOK'
    BY NobodyAssumption DEF DeliveryTypeOK, InboxStatuses, AdapterStatuses, Steps
<1>2. AtMostOnce'
    BY DEF DeliveryTypeOK, AtMostOnce, DelivererShape
<1>3. LockCoversAttempt'
    BY NobodyAssumption DEF DeliveryTypeOK, LockCoversAttempt
<1>4. DelivererShape'
    BY NobodyAssumption DEF DeliveryTypeOK, DelivererShape, LockCoversAttempt, RecordShape
<1>5. RecordShape'
    BY DEF DeliveryTypeOK, RecordShape, DelivererShape, LockCoversAttempt,
       AtMostOnce, AdapterStatuses
<1> QED BY <1>1, <1>2, <1>3, <1>4, <1>5

\* A pair that is put into a set leaves the other pairs as they are.
LEMMA OtherPairs ==
    ASSUME NEW S, NEW T, NEW a, NEW b, NEW c, NEW d,
           T = S \/ T = S \cup {<<c, d>>}, a # c \/ b # d
    PROVE  <<a, b>> \in T <=> <<a, b>> \in S
OBVIOUS

\* The channel acts, or is looked for in vain, while the result reads delivering, once.
LEMMA SendPreserves ==
    ASSUME DeliveryInv, NEW p \in Procs, NEW done \in BOOLEAN, NEW ok \in BOOLEAN,
           Send(p, done, ok)
    PROVE  DeliveryInv'
<1> USE DEF Reached, Untouched, DeliveryInv, Send, Does, recordVars, procVars, outside, Covered,
           Goto
<1>1. DeliveryTypeOK'
    BY NobodyAssumption DEF DeliveryTypeOK, InboxStatuses, AdapterStatuses, Steps
<1>2. AtMostOnce'
    <2>1. item[p] \in Items /\ adapter[p] \in Adapters /\ Untouched(item[p], adapter[p])
        BY DEF DeliveryTypeOK, DelivererShape
    <2>2. /\ effects'[item[p]][adapter[p]] \in {0, 1}
          /\ <<item[p], adapter[p]>> \in noted' => effects'[item[p]][adapter[p]] = 0
        BY <2>1 DEF DeliveryTypeOK
    <2>3. \A i \in Items, a \in Adapters : i # item[p] \/ a # adapter[p] =>
             effects'[i][a] = effects[i][a] /\ (<<i, a>> \in noted' <=> <<i, a>> \in noted)
        <3> SUFFICES ASSUME NEW i \in Items, NEW a \in Adapters, i # item[p] \/ a # adapter[p]
                     PROVE  /\ effects'[i][a] = effects[i][a]
                            /\ <<i, a>> \in noted' <=> <<i, a>> \in noted
            OBVIOUS
        <3>1. effects'[i][a] = effects[i][a]
            BY <2>1 DEF DeliveryTypeOK
        <3>2. noted' = noted \/ noted' = noted \cup {<<item[p], adapter[p]>>}
            BY <2>1
        <3>3. <<i, a>> \in noted' <=> <<i, a>> \in noted
            <4> HIDE DEF Send, SendRaises, Does, DeliveryInv, outside
            <4> QED BY <3>2, OtherPairs
        <3> HIDE DEF Send, SendRaises, Does, DeliveryInv, outside
        <3> QED BY <3>1, <3>3
    <2>4. \A i \in Items, a \in Adapters :
             effects[i][a] <= 1 /\ (<<i, a>> \in noted => effects[i][a] = 0)
        BY DEF AtMostOnce
    <2> HIDE DEF Send, SendRaises, Does, DeliveryInv, outside
    <2> SUFFICES ASSUME NEW i \in Items, NEW a \in Adapters
                 PROVE  /\ effects'[i][a] <= 1
                        /\ <<i, a>> \in noted' => effects'[i][a] = 0
        BY DEF AtMostOnce
    <2>5. CASE i = item[p] /\ a = adapter[p]
        BY <2>2, <2>5
    <2>6. CASE i # item[p] \/ a # adapter[p]
        BY <2>3, <2>4, <2>6
    <2> QED BY <2>5, <2>6
<1>3. LockCoversAttempt'
    BY NobodyAssumption DEF DeliveryTypeOK, LockCoversAttempt
<1>4. DelivererShape'
    BY NobodyAssumption DEF DeliveryTypeOK, DelivererShape, LockCoversAttempt, RecordShape
<1>5. RecordShape'
    BY DEF DeliveryTypeOK, RecordShape, DelivererShape, LockCoversAttempt,
       AtMostOnce, AdapterStatuses
<1> QED BY <1>1, <1>2, <1>3, <1>4, <1>5

\* A raised exception leaves the result at delivering, acted or not.
LEMMA SendRaisesPreserves ==
    ASSUME DeliveryInv, NEW p \in Procs, NEW done \in BOOLEAN,
           SendRaises(p, done)
    PROVE  DeliveryInv'
<1> USE DEF Reached, Untouched, DeliveryInv, SendRaises, Does, recordVars, procVars, outside, Covered,
           Goto, Leave
<1>1. DeliveryTypeOK'
    BY NobodyAssumption DEF DeliveryTypeOK, InboxStatuses, AdapterStatuses, Steps
<1>2. AtMostOnce'
    <2>1. item[p] \in Items /\ adapter[p] \in Adapters /\ Untouched(item[p], adapter[p])
        BY DEF DeliveryTypeOK, DelivererShape
    <2>2. /\ effects'[item[p]][adapter[p]] \in {0, 1}
          /\ <<item[p], adapter[p]>> \in noted' => effects'[item[p]][adapter[p]] = 0
        BY <2>1 DEF DeliveryTypeOK
    <2>3. \A i \in Items, a \in Adapters : i # item[p] \/ a # adapter[p] =>
             effects'[i][a] = effects[i][a] /\ (<<i, a>> \in noted' <=> <<i, a>> \in noted)
        <3> SUFFICES ASSUME NEW i \in Items, NEW a \in Adapters, i # item[p] \/ a # adapter[p]
                     PROVE  /\ effects'[i][a] = effects[i][a]
                            /\ <<i, a>> \in noted' <=> <<i, a>> \in noted
            OBVIOUS
        <3>1. effects'[i][a] = effects[i][a]
            BY <2>1 DEF DeliveryTypeOK
        <3>2. noted' = noted \/ noted' = noted \cup {<<item[p], adapter[p]>>}
            BY <2>1
        <3>3. <<i, a>> \in noted' <=> <<i, a>> \in noted
            <4> HIDE DEF Send, SendRaises, Does, DeliveryInv, outside
            <4> QED BY <3>2, OtherPairs
        <3> HIDE DEF Send, SendRaises, Does, DeliveryInv, outside
        <3> QED BY <3>1, <3>3
    <2>4. \A i \in Items, a \in Adapters :
             effects[i][a] <= 1 /\ (<<i, a>> \in noted => effects[i][a] = 0)
        BY DEF AtMostOnce
    <2> HIDE DEF Send, SendRaises, Does, DeliveryInv, outside
    <2> SUFFICES ASSUME NEW i \in Items, NEW a \in Adapters
                 PROVE  /\ effects'[i][a] <= 1
                        /\ <<i, a>> \in noted' => effects'[i][a] = 0
        BY DEF AtMostOnce
    <2>5. CASE i = item[p] /\ a = adapter[p]
        BY <2>2, <2>5
    <2>6. CASE i # item[p] \/ a # adapter[p]
        BY <2>3, <2>4, <2>6
    <2> QED BY <2>5, <2>6
<1>3. LockCoversAttempt'
    BY NobodyAssumption DEF DeliveryTypeOK, LockCoversAttempt
<1>4. DelivererShape'
    BY NobodyAssumption DEF DeliveryTypeOK, DelivererShape, LockCoversAttempt, RecordShape
<1>5. RecordShape'
    BY DEF DeliveryTypeOK, RecordShape, DelivererShape, LockCoversAttempt,
       AtMostOnce, AdapterStatuses
<1> QED BY <1>1, <1>2, <1>3, <1>4, <1>5

\* A success is recorded only for an adapter that acted.
LEMMA FinishPreserves ==
    ASSUME DeliveryInv, NEW p \in Procs,
           Finish(p)
    PROVE  DeliveryInv'
<1> USE DEF Reached, Untouched, DeliveryInv, Finish, recordVars, procVars, outside, Covered,
           Goto, Reported
<1>1. DeliveryTypeOK'
    BY NobodyAssumption DEF DeliveryTypeOK, InboxStatuses, AdapterStatuses, Steps
<1>2. AtMostOnce'
    BY DEF DeliveryTypeOK, AtMostOnce, DelivererShape
<1>3. LockCoversAttempt'
    BY NobodyAssumption DEF DeliveryTypeOK, LockCoversAttempt
<1>4. DelivererShape'
    BY NobodyAssumption DEF DeliveryTypeOK, DelivererShape, LockCoversAttempt, RecordShape
<1>5. RecordShape'
    BY DEF DeliveryTypeOK, RecordShape, DelivererShape, LockCoversAttempt,
       AtMostOnce, AdapterStatuses
<1> QED BY <1>1, <1>2, <1>3, <1>4, <1>5

LEMMA FinalizePreserves ==
    ASSUME DeliveryInv, NEW p \in Procs,
           Finalize(p)
    PROVE  DeliveryInv'
<1> USE DEF Reached, Untouched, DeliveryInv, Finalize, recordVars, procVars, outside, Covered,
           Goto, Leave
<1>1. DeliveryTypeOK'
    BY NobodyAssumption DEF DeliveryTypeOK, Steps, Aggregate
<1>2. AtMostOnce'
    BY DEF DeliveryTypeOK, AtMostOnce, DelivererShape
<1>3. LockCoversAttempt'
    BY NobodyAssumption DEF DeliveryTypeOK, LockCoversAttempt
<1>4. DelivererShape'
    BY NobodyAssumption DEF DeliveryTypeOK, DelivererShape, LockCoversAttempt, RecordShape
<1>5. RecordShape'
    <2>1. ASSUME Aggregate(item[p]) = "sent"
          PROVE  /\ plan[item[p]] # {}
                 /\ \A a \in plan[item[p]] : result[item[p]][a] = "sent"
        <3> DEFINE states == {result[item[p]][a] : a \in plan[item[p]]}
        <3>1. states = {"sent"}
            BY <2>1 DEF Aggregate
        <3> QED BY <3>1
    <2>2. /\ status' = [status EXCEPT ![item[p]] = Aggregate(item[p])]
          /\ plan' = plan /\ result' = result /\ effects' = effects
          /\ noted' = noted
        OBVIOUS
    <2> QED BY <2>1, <2>2 DEF DeliveryTypeOK, RecordShape
<1> QED BY <1>1, <1>2, <1>3, <1>4, <1>5

\* A crash frees the locks of the process and nothing else.
LEMMA CrashPreserves ==
    ASSUME DeliveryInv, NEW p \in Procs,
           Crash(p)
    PROVE  DeliveryInv'
<1> USE DEF Reached, Untouched, DeliveryInv, Crash, recordVars, procVars, outside, Covered,
           Goto
<1>1. DeliveryTypeOK'
    BY NobodyAssumption DEF DeliveryTypeOK, InboxStatuses, AdapterStatuses, Steps
<1>2. AtMostOnce'
    BY DEF DeliveryTypeOK, AtMostOnce, DelivererShape
<1>3. LockCoversAttempt'
    BY NobodyAssumption DEF DeliveryTypeOK, LockCoversAttempt
<1>4. DelivererShape'
    BY NobodyAssumption DEF DeliveryTypeOK, DelivererShape, LockCoversAttempt, RecordShape
<1>5. RecordShape'
    BY DEF DeliveryTypeOK, RecordShape, DelivererShape, LockCoversAttempt,
       AtMostOnce, AdapterStatuses
<1> QED BY <1>1, <1>2, <1>3, <1>4, <1>5

LEMMA StepPreserves == DeliveryInv /\ [DeliveryNext]_deliveryVars => DeliveryInv'
<1> SUFFICES ASSUME DeliveryInv, [DeliveryNext]_deliveryVars PROVE DeliveryInv'
    OBVIOUS
<1>1. CASE UNCHANGED deliveryVars
    <2> USE <1>1 DEF deliveryVars, recordVars, procVars, outside
    <2>1. DeliveryTypeOK' BY DEF DeliveryInv, DeliveryTypeOK
    <2>2. AtMostOnce' BY DEF DeliveryInv, AtMostOnce
    <2>3. LockCoversAttempt' BY DEF DeliveryInv, LockCoversAttempt
    <2>4. DelivererShape' BY DEF DeliveryInv, DelivererShape, Reached, Untouched
    <2>5. RecordShape' BY DEF DeliveryInv, RecordShape, Reached, Untouched
    <2> QED BY <2>1, <2>2, <2>3, <2>4, <2>5 DEF DeliveryInv
<1>2. ASSUME NEW p \in Procs, Deliver(p) PROVE DeliveryInv'
    BY <1>2, NextOfQueuePreserves, ClientRequestsPreserves, AcquirePreserves,
       PreparePreserves, RecoverPreserves, LookupPreserves, SkipPreserves,
       BeginPreserves, SendPreserves, SendRaisesPreserves, FinishPreserves,
       FinalizePreserves DEF Deliver
<1>3. CASE DeliveryNext
    BY <1>2, <1>3, PublishPreserves, PublisherRequestsPreserves,
       TransitionPreserves, ClearPreserves, RunOncePreserves,
       ClientSendPreserves, CrashPreserves DEF DeliveryNext, Procs
<1> QED BY <1>1, <1>3

\* The inductive invariant holds in every reachable state.
THEOREM DeliveryIsSafe == DeliverySpec => []DeliveryInv
BY InitialState, StepPreserves, PTL DEF DeliverySpec

\* The records and the processes stay well formed, with any number of
\* processes and crashes (DeliveryRecord, AdapterResult).
THEOREM DeliveryTypes == DeliverySpec => []DeliveryTypeOK
<1>1. DeliveryInv => DeliveryTypeOK
    BY DEF DeliveryInv
<1> QED BY <1>1, DeliveryIsSafe, PTL

\* No channel acts twice for one adapter of one record
\* (DeliveryStore.begin, recover; the lock of DeliveryLoop.deliver).
THEOREM ActsAtMostOnce == DeliverySpec => []AtMostOnce
<1>1. DeliveryInv => AtMostOnce
    BY DEF DeliveryInv
<1> QED BY <1>1, DeliveryIsSafe, PTL

\* What the records claim was sent was sent, or the log has that there was no channel
\* for it (finish_adapter, finalize, macos.py).
THEOREM RecordsHonest == DeliverySpec => []HonestRecords
<1>1. DeliveryInv => HonestRecords
    <2> SUFFICES ASSUME DeliveryInv PROVE HonestRecords
        OBVIOUS
    <2>1. \A i \in Items, a \in Adapters :
             result[i][a] = "sent" => Reached(i, a)
        BY DEF DeliveryInv, RecordShape
    <2>2. \A i \in Items, a \in Adapters :
             ~Untouched(i, a) => a \in plan[i]
        BY DEF DeliveryInv, RecordShape, DeliveryTypeOK
    <2>3. \A i \in Items : status[i] = "sent" =>
             plan[i] # {} /\ \A a \in plan[i] : Reached(i, a)
        BY DEF DeliveryInv, RecordShape, DeliveryTypeOK
    <2> QED BY <2>1, <2>2, <2>3 DEF HonestRecords
<1> QED BY <1>1, DeliveryIsSafe, PTL

\* The lock covers a delivery from the status test to finalize
\* (DeliveryLoop.deliver).
THEOREM LockCovers == DeliverySpec => []LockCoversAttempt
<1>1. DeliveryInv => LockCoversAttempt
    BY DEF DeliveryInv
<1> QED BY <1>1, DeliveryIsSafe, PTL

\* A finished record never changes and a plan is never replaced
\* (DeliveryLoop.deliver's early return, DeliveryStore.prepare).
THEOREM RecordsFinal == DeliverySpec => FinalRecords
<1> DEFINE Stays(i) ==
        /\ status[i] \in {"sent", "failed"} =>
              /\ status'[i] = status[i]
              /\ plan'[i] = plan[i] /\ result'[i] = result[i]
              /\ effects'[i] = effects[i]
              /\ \A a \in Adapters : <<i, a>> \in noted' <=> <<i, a>> \in noted
        /\ plan[i] # {} => plan'[i] = plan[i]
<1>1. ASSUME DeliveryInv, [DeliveryNext]_deliveryVars, NEW i \in Items PROVE Stays(i)
    <2> USE DEF DeliveryInv, recordVars, procVars, outside, NewRecord
    <2>1. CASE UNCHANGED deliveryVars
        BY <2>1 DEF deliveryVars
    <2>2. ASSUME NEW p \in Procs, Deliver(p) PROVE Stays(i)
        <3>1. pc[p] \in Covered => item[p] \in Items /\ status[item[p]] = "pending"
            BY <1>1 DEF DeliveryTypeOK, DelivererShape
        <3>2. CASE (\E j \in Items : NextOfQueue(p, j)) \/ ClientRequests(p)
                   \/ Acquire(p) \/ Lookup(p) \/ (\E a \in Adapters : Skip(p, a))
            BY <1>1, <3>2 DEF NextOfQueue, ClientRequests, Acquire, Lookup, Skip, DeliveryTypeOK
        <3>3. CASE Prepare(p)
            BY <1>1, <3>1, <3>3 DEF Prepare, NotPlanned, DeliveryTypeOK, Covered
        <3>4. CASE Recover(p) \/ Finish(p) \/ Finalize(p)
            BY <1>1, <3>1, <3>4 DEF Recover, Finish, Finalize, DeliveryTypeOK, Covered
        <3>5. CASE \E a \in Adapters : Begin(p, a)
            BY <1>1, <3>1, <3>5 DEF Begin, DeliveryTypeOK, Covered
        <3>6. CASE (\E done, ok \in BOOLEAN : Send(p, done, ok))
                   \/ (\E done \in BOOLEAN : SendRaises(p, done))
            BY <1>1, <3>1, <3>6 DEF Send, SendRaises, Does, DeliveryTypeOK, Covered
        <3> QED BY <2>2, <3>2, <3>3, <3>4, <3>5, <3>6 DEF Deliver
    <2>3. ASSUME DeliveryNext PROVE Stays(i)
        <3>1. CASE \E p \in Procs : Deliver(p)
            BY <2>2, <3>1
        <3>2. CASE ~\E p \in Procs : Deliver(p)
            BY <1>1, <2>3, <3>2 DEF DeliveryNext, Publish, PublisherRequests, Transition,
               Clear, RunOnce, ClientSend, Crash, DeliveryTypeOK
        <3> QED BY <3>1, <3>2
    <2> QED BY <1>1, <2>1, <2>3
<1>2. DeliveryInv /\ [DeliveryNext]_deliveryVars => [\A i \in Items : Stays(i)]_deliveryVars
    BY <1>1
<1> QED BY <1>2, DeliveryIsSafe, PTL DEF DeliverySpec, FinalRecords

-----------------------------------------------------------------------------
(* Audits: what is told fits its contract *)

\* The type of a memory was left empty by hand.
Odd(d) == "memory_type" \in DOMAIN d /\ d["memory_type"] = "empty"

\* Every record of S has the fields N, each with a value its kind accepts.
FitsOn(S, N, kinds) ==
    \A d \in S : DOMAIN d = N /\ (Odd(d) \/ \A f \in N : d[f] \in Accepts(kinds[f]))
Fits(S, kinds) == FitsOn(S, DOMAIN kinds, kinds) /\ DOMAIN kinds \cap {"error", "duration"} = {}

\* Every audit of S is one the contract takes field by field.
Shaped(S, contract) ==
    \A data \in S : Odd(data) \/ (DOMAIN data = Fields(contract) /\ Wrong(contract, data) = {})

\* Every audit of S is one that the contract of the event takes.
Taken(event, S, contract) ==
    \A data \in S :
       \/ Strange(event, data)
       \/ DOMAIN data = Fields(contract) /\ Wrong(contract, data) = {} /\ AgreeWithin(event, data)

\* Every event of one part of a catalog.
AllTaken(tells, contracts) ==
    \A e \in DOMAIN tells : e \in DOMAIN contracts /\ Taken(e, tells[e], contracts[e])

\* The events of which several fields must agree.
Agreeing ==
    {"start_completed", "stop_completed", "restart_completed", "thread_status_changed",
     "terminal_recommendation_applied", "reason_output_planned", "turn_retry"}

\* Metadata that are told together fit if each part does.
LEMMA FitsBoth ==
    ASSUME NEW S, NEW T, NEW N, NEW M, NEW k, FitsOn(S, N, k), FitsOn(T, M, k), N \cap M = {}
    PROVE  FitsOn(S ** T, N \cup M, k)
<1>1. SUFFICES ASSUME NEW d \in S ** T
               PROVE  DOMAIN d = N \cup M /\ (Odd(d) \/ \A f \in N \cup M : d[f] \in Accepts(k[f]))
  BY DEF FitsOn
<1>2. PICK s \in S, t \in T : d = s ++ t BY DEF **
<1>3. /\ DOMAIN s = N /\ DOMAIN t = M
      /\ Odd(s) \/ \A f \in N : s[f] \in Accepts(k[f])
      /\ Odd(t) \/ \A f \in M : t[f] \in Accepts(k[f])
  BY DEF FitsOn
<1>4. DOMAIN d = N \cup M /\ \A f \in N \cup M : d[f] = IF f \in N THEN s[f] ELSE t[f]
  BY <1>2, <1>3 DEF ++
<1>5. CASE Odd(s) \/ Odd(t) BY <1>3, <1>4, <1>5 DEF Odd
<1>6. CASE ~(Odd(s) \/ Odd(t)) BY <1>3, <1>4, <1>6
<1> QED BY <1>5, <1>6

\* Two parts that have all the fields of the contract.
LEMMA FitsTwo ==
    ASSUME NEW S, NEW T, NEW N, NEW M, NEW k, FitsOn(S, N, k), FitsOn(T, M, k), N \cap M = {},
           DOMAIN k = N \cup M, DOMAIN k \cap {"error", "duration"} = {}
    PROVE  Fits(S ** T, k)
BY FitsBoth DEF Fits

\* Three parts that have all of them.
LEMMA FitsThree ==
    ASSUME NEW S, NEW T, NEW U, NEW N, NEW M, NEW P, NEW k,
           FitsOn(S, N, k), FitsOn(T, M, k), FitsOn(U, P, k),
           N \cap M = {}, (N \cup M) \cap P = {},
           DOMAIN k = N \cup M \cup P, DOMAIN k \cap {"error", "duration"} = {}
    PROVE  Fits(S ** T ** U, k)
<1>1. FitsOn(S ** T, N \cup M, k) BY FitsBoth
<1> QED BY <1>1, FitsTwo

\* What is told with an error and a duration that the policy takes is of the shape of its contract.
LEMMA FitsTell ==
    ASSUME NEW S, NEW k, Fits(S, k), NEW error, NEW durations, NEW own,
           DOMAIN own = {"error", "duration"},
           error \in Accepts(own["error"]), durations \subseteq Accepts(own["duration"])
    PROVE  Shaped(Tells(S, error, durations), Exact(k ++ own))
<1>1. SUFFICES ASSUME NEW data \in Tells(S, error, durations), ~Odd(data)
               PROVE  DOMAIN data = DOMAIN (k ++ own)
                      /\ \A f \in DOMAIN (k ++ own) : data[f] \in Accepts((k ++ own)[f])
  BY DEF Shaped, Exact, Fields, Wrong
<1>2. PICK d \in S, u \in durations : data = d ++ [error |-> error, duration |-> u] BY DEF Tells
<1>3. PICK v : v = [error |-> error, duration |-> u] OBVIOUS
<1>4. DOMAIN v = {"error", "duration"} /\ v["error"] = error /\ v["duration"] = u BY <1>3
<1>5. DOMAIN d = DOMAIN k /\ (Odd(d) \/ \A f \in DOMAIN k : d[f] \in Accepts(k[f]))
  BY DEF Fits, FitsOn
<1>6. /\ DOMAIN data = DOMAIN k \cup {"error", "duration"}
      /\ \A f \in DOMAIN data : data[f] = IF f \in DOMAIN k THEN d[f] ELSE v[f]
  BY <1>2, <1>3, <1>4, <1>5 DEF ++
<1>7. ~Odd(d) BY <1>1, <1>5, <1>6 DEF Odd
<1>8. /\ DOMAIN (k ++ own) = DOMAIN k \cup {"error", "duration"}
      /\ \A f \in DOMAIN (k ++ own) : (k ++ own)[f] = IF f \in DOMAIN k THEN k[f] ELSE own[f]
  BY DEF ++
<1> QED BY <1>4, <1>5, <1>6, <1>7, <1>8

\* The three policies: no failure, a failure, and a duration.
LEMMA TellsShaped ==
    ASSUME NEW S, NEW k, Fits(S, k)
    PROVE  /\ Shaped(AuditWrite(S), Plain(k))
           /\ Shaped(Failure(S), Failed(k))
           /\ Shaped(AuditWriteTimed(S, Counts), Timed(k))
<1>1. PICK o : o = [error |-> Untold, duration |-> Untold] OBVIOUS
<1>2. PICK p : p = [error |-> NonEmpty, duration |-> Untold] OBVIOUS
<1>3. PICK q : q = [error |-> Untold, duration |-> Count] OBVIOUS
<1>4. "null" \in Accepts(Untold) /\ "text" \in Accepts(NonEmpty) /\ Counts \subseteq Accepts(Count)
  BY DEF Untold, NonEmpty, Count, Only, Accepts, Counts, Strings, Ints
<1>5. /\ DOMAIN o = {"error", "duration"} /\ o["error"] = Untold /\ o["duration"] = Untold
      /\ DOMAIN p = {"error", "duration"} /\ p["error"] = NonEmpty /\ p["duration"] = Untold
      /\ DOMAIN q = {"error", "duration"} /\ q["error"] = Untold /\ q["duration"] = Count
  BY <1>1, <1>2, <1>3
<1>6. Shaped(Tells(S, "null", {"null"}), Exact(k ++ o)) BY <1>4, <1>5, FitsTell
<1>7. Shaped(Tells(S, "text", {"null"}), Exact(k ++ p)) BY <1>4, <1>5, FitsTell
<1>8. Shaped(Tells(S, "null", Counts), Exact(k ++ q)) BY <1>4, <1>5, FitsTell
<1> QED
  BY <1>1, <1>2, <1>3, <1>6, <1>7, <1>8 DEF AuditWrite, Failure, AuditWriteTimed, Plain, Failed,
        Timed

\* Most contracts have no rule for several fields.
LEMMA ShapedTaken ==
    ASSUME NEW event, event \notin Agreeing, NEW S, NEW contract, Shaped(S, contract)
    PROVE  Taken(event, S, contract)
<1>1. ASSUME NEW data PROVE AgreeWithin(event, data) BY DEF AgreeWithin, Agreeing
<1>2. ASSUME NEW data, Odd(data) PROVE Strange(event, data) BY <1>2 DEF Odd, Strange
<1> QED BY <1>1, <1>2 DEF Taken, Shaped

\* The ordinary event: it is told with what its contract asks for.
LEMMA WriteTaken ==
    ASSUME NEW event, event \notin Agreeing, NEW S, NEW k, Fits(S, k)
    PROVE  Taken(event, AuditWrite(S), Plain(k)) /\ Taken(event, Failure(S), Failed(k))
           /\ Taken(event, AuditWriteTimed(S, Counts), Timed(k))
BY TellsShaped, ShapedTaken

\* An event without metadata.
LEMMA SimpleFits == Fits(Simple, NoMetadata)
BY DEF Simple, NoMetadata, Fits, FitsOn

\* What is told in two places.
LEMMA TakenUnion ==
    ASSUME NEW event, NEW S, NEW T, NEW contract, Taken(event, S, contract), Taken(event, T,
          contract)
    PROVE  Taken(event, S \cup T, contract)
BY DEF Taken

\* What two parts of the program tell in one catalog.
LEMMA AllTakenBoth ==
    ASSUME NEW S, NEW T, NEW contracts, AllTaken(S, contracts), AllTaken(T, contracts)
    PROVE  AllTaken(S ++ T, contracts)
BY DEF AllTaken, ++

\* A contract that has a rule for several fields.
LEMMA AgreeingTaken ==
    ASSUME NEW event, NEW S, NEW contract, Shaped(S, contract),
           \A data \in S : AgreeWithin(event, data)
    PROVE  Taken(event, S, contract)
BY DEF Taken, Shaped, Odd, Strange

\* The last of the fields that are told together are those of the audit.
LEMMA ToldLast ==
    ASSUME NEW S, NEW T, NEW N, NEW k, FitsOn(S, N, k), NEW data \in AuditWrite(S ** T)
    PROVE  \E t \in T : \A f \in DOMAIN t \ N : data[f] = t[f]
<1>1. PICK d \in S ** T : data = d ++ [error |-> "null", duration |-> "null"]
  BY DEF AuditWrite, Tells
<1>2. PICK s \in S, t \in T : d = s ++ t BY DEF **
<1>3. DOMAIN s = N BY DEF FitsOn
<1>4. \A f \in DOMAIN t \ N : f \in DOMAIN d /\ d[f] = t[f] BY <1>2, <1>3 DEF ++
<1>5. \A f \in DOMAIN d : data[f] = d[f] BY <1>1 DEF ++
<1> QED BY <1>4, <1>5

\* A kind that accepts these values as they are accepts null besides.
LEMMA OrNullOf ==
    ASSUME NEW kind, NEW values, kind = Only(values)
    PROVE  Accepts(OrNull(kind)) = values \cup {"null"}
BY DEF Accepts, OrNull, ReadAs, Only

\* What may be null is null, or what the kind accepts.
LEMMA OrNullCases ==
    /\ Accepts(OrNull(NonEmpty)) = Accepts(NonEmpty) \cup {"null"}
    /\ Accepts(OrNull(Count)) = Accepts(Count) \cup {"null"}
    /\ Accepts(OrNull(Positive)) = Accepts(Positive) \cup {"null"}
    /\ Accepts(OrNull(Integer)) = Accepts(Integer) \cup {"null"}
    /\ Accepts(OrNull(Bool)) = Accepts(Bool) \cup {"null"}
BY OrNullOf DEF Accepts, NonEmpty, Count, Positive, Integer, Bool, Only

-----------------------------------------------------------------------------
(* Audits: what every part of the program tells fits its contract *)

\* A thread of reasoning: its status, its steps and its traces.
LEMMA ThreadTaken == AllTaken(ThreadTells, ReasonAudits)
<1>1. Fits(CountsOf({"active_item_count", "mandate_count"}), Proposal)
  BY DEF Fits, FitsOn, Accepts, Count, Counts, CountsOf, Each, Ints, Only, Proposal
<1>2. Fits(Id({"thread_id"}), ThreadIdentity)
  BY DEF Fits, FitsOn, Accepts, Id, NonEmpty, Only, Strings, ThreadIdentity
<1>3. Fits(Id({"thread_id", "step_id"}) ** [step_kind : StepKinds] ** CountsOf({"new_findings",
      "new_pending", "retired_findings", "next_steps"}),
          AdvanceCompleted)
  <2>1. FitsOn(Id({"thread_id", "step_id"}), {"thread_id", "step_id"}, AdvanceCompleted)
    BY DEF FitsOn, Accepts, AdvanceCompleted, Count, Each, Id, Ints, NonEmpty, Only, StepIdentity,
       StepKind, Strings, Word, ++
  <2>2. FitsOn([step_kind : StepKinds], {"step_kind"}, AdvanceCompleted)
    BY DEF FitsOn, Accepts, AdvanceCompleted, Count, Each, Ints, NonEmpty, Only, StepIdentity,
       StepKind, StepKinds, Strings, Word, ++
  <2>3. FitsOn(CountsOf({"new_findings", "new_pending", "retired_findings", "next_steps"}),
             {"new_findings", "new_pending", "retired_findings", "next_steps"},
             AdvanceCompleted)
    BY DEF FitsOn, Accepts, AdvanceCompleted, Count, Counts, CountsOf, Each, Ints, NonEmpty, Only,
       StepIdentity, StepKind, Strings, Word, ++
  <2>4. /\ DOMAIN AdvanceCompleted = {"thread_id", "step_id"} \cup {"step_kind"} \cup
            {"new_findings", "new_pending", "retired_findings", "next_steps"}
        /\ {"thread_id", "step_id"} \cap {"step_kind"} = {}
        /\ ({"thread_id", "step_id"} \cup {"step_kind"}) \cap {"new_findings", "new_pending",
            "retired_findings", "next_steps"} = {}
        /\ DOMAIN AdvanceCompleted \cap {"error", "duration"} = {}
    BY DEF AdvanceCompleted, Each, StepIdentity, ++
  <2> QED BY <2>1, <2>2, <2>3, <2>4, FitsThree
<1>4. ASSUME NEW e \in {"proposal_created"}
      PROVE  e \in DOMAIN ReasonAudits /\ Taken(e, ThreadTells[e], ReasonAudits[e])
  <2>1. /\ e \in DOMAIN ReasonAudits /\ e \notin Agreeing
        /\ ThreadTells[e] = AuditWrite(CountsOf({"active_item_count", "mandate_count"}))
        /\ ReasonAudits[e] = Plain(Proposal)
    BY <1>4 DEF ThreadTells, ReasonAudits, Agreeing
  <2> QED BY <2>1, <1>1, WriteTaken
<1>5. ASSUME NEW e \in {"thread_started", "thread_deleted", "advance_started"}
      PROVE  e \in DOMAIN ReasonAudits /\ Taken(e, ThreadTells[e], ReasonAudits[e])
  <2>1. /\ e \in DOMAIN ReasonAudits /\ e \notin Agreeing
        /\ ThreadTells[e] = AuditWrite(Id({"thread_id"}))
        /\ ReasonAudits[e] = Plain(ThreadIdentity)
    BY <1>5 DEF ThreadTells, ReasonAudits, Agreeing
  <2> QED BY <2>1, <1>2, WriteTaken
<1>6. ASSUME NEW e \in {"advance_failed", "llm_failover_suppressed_after_tool_call",
      "completion_load_failed"}
      PROVE  e \in DOMAIN ReasonAudits /\ Taken(e, ThreadTells[e], ReasonAudits[e])
  <2>1. /\ e \in DOMAIN ReasonAudits /\ e \notin Agreeing
        /\ ThreadTells[e] = Failure(Simple)
        /\ ReasonAudits[e] = Failed(NoMetadata)
    BY <1>6 DEF ThreadTells, ReasonAudits, Agreeing
  <2> QED BY <2>1, SimpleFits, WriteTaken
<1>7. ASSUME NEW e \in {"advance_completed"}
      PROVE  e \in DOMAIN ReasonAudits /\ Taken(e, ThreadTells[e], ReasonAudits[e])
  <2>1. /\ e \in DOMAIN ReasonAudits /\ e \notin Agreeing
        /\ ThreadTells[e] = AuditWrite(Id({"thread_id", "step_id"}) ** [step_kind : StepKinds]
              ** CountsOf({"new_findings", "new_pending", "retired_findings", "next_steps"}))
        /\ ReasonAudits[e] = Plain(AdvanceCompleted)
    BY <1>7 DEF ThreadTells, ReasonAudits, Agreeing
  <2> QED BY <2>1, <1>3, WriteTaken
<1>8. ASSUME NEW e \in {"thread_status_changed"}
      PROVE  e \in DOMAIN ReasonAudits /\ Taken(e, ThreadTells[e], ReasonAudits[e])
  <2>1. ASSUME NEW from \in ThreadStatuses
        PROVE  Taken(e, AuditWrite(Id({"thread_id"})
              ** [from_status : {from}, to_status : Allowed[from]]), Plain(ThreadIdentity
                    ++ FromTo))
    <3>1. Allowed[from] \subseteq ThreadStatuses \ {from} BY DEF Allowed, ThreadStatuses
    <3>2. FitsOn(Id({"thread_id"}), {"thread_id"}, ThreadIdentity ++ FromTo)
      BY DEF FitsOn, Accepts, Each, FromTo, Id, NonEmpty, Only, Strings, ThreadIdentity,
         ThreadStatuses, Word, ++
    <3>3. FitsOn([from_status : {from}, to_status : Allowed[from]], {"from_status", "to_status"},
          ThreadIdentity ++ FromTo)
      BY <3>1 DEF FitsOn, Accepts, Each, FromTo, NonEmpty, Only, Strings, ThreadIdentity,
         ThreadStatuses, Word, ++
    <3>4. /\ DOMAIN (ThreadIdentity ++ FromTo) = {"thread_id"} \cup {"from_status", "to_status"}
          /\ {"thread_id"} \cap {"from_status", "to_status"} = {}
          /\ DOMAIN (ThreadIdentity ++ FromTo) \cap {"error", "duration"} = {}
      BY DEF Each, FromTo, ThreadIdentity, ++
    <3>5. Fits(Id({"thread_id"}) ** [from_status : {from}, to_status : Allowed[from]],
          ThreadIdentity ++ FromTo)
      BY <3>2, <3>3, <3>4, FitsTwo
    <3>6. PICK last : last = [from_status : {from}, to_status : Allowed[from]] OBVIOUS
    <3>7. ASSUME NEW data \in AuditWrite(Id({"thread_id"}) ** last)
          PROVE  AgreeWithin(e, data)
      <4>1. PICK t \in last : \A f \in DOMAIN t \ {"thread_id"} : data[f] = t[f]
        BY <3>2, ToldLast
      <4>2. /\ t.from_status = from /\ t.to_status \in Allowed[from]
            /\ DOMAIN t = {"from_status", "to_status"}
        BY <3>6
      <4>3. data.from_status = t.from_status /\ data.to_status = t.to_status BY <4>1, <4>2
      <4> QED BY <3>1, <4>2, <4>3 DEF AgreeWithin
    <3> QED BY <3>5, <3>6, <3>7, TellsShaped, AgreeingTaken
  <2>2. /\ e \in DOMAIN ReasonAudits /\ ReasonAudits[e] = Plain(ThreadIdentity ++ FromTo)
        /\ ThreadTells[e] = UNION {AuditWrite(Id({"thread_id"})
              ** [from_status : {from}, to_status : Allowed[from]]) : from \in ThreadStatuses}
    BY <1>8 DEF ThreadTells, ReasonAudits
  <2> QED BY <2>1, <2>2 DEF Taken
<1>9. ASSUME NEW e \in {"terminal_recommendation_applied"}
      PROVE  e \in DOMAIN ReasonAudits /\ Taken(e, ThreadTells[e], ReasonAudits[e])
  <2>1. ASSUME NEW later \in {"resolved", "paused"},
               NEW recommended \in {"suggest_resolved", "suggest_paused"}
        PROVE  Taken(e, AuditWrite(Id({"thread_id", "step_id"}) ** [from_status : {"active"},
              to_status : {later}, terminal_status : {recommended}]),
                     Plain(TerminalRecommendation))
    <3>1. FitsOn(Id({"thread_id", "step_id"}), {"thread_id", "step_id"}, TerminalRecommendation)
      BY DEF FitsOn, Accepts, Each, FromTo, Id, NonEmpty, Only, StepIdentity, Strings,
         TerminalRecommendation, ThreadStatuses, Word, ++
    <3>2. FitsOn([from_status : {"active"}, to_status : {later}, terminal_status : {recommended}],
                 {"from_status", "to_status", "terminal_status"}, TerminalRecommendation)
      BY <2>1 DEF FitsOn, Accepts, Each, FromTo, NonEmpty, Only, StepIdentity, Strings,
         TerminalRecommendation, ThreadStatuses, Word, ++
    <3>3. /\ DOMAIN TerminalRecommendation = {"thread_id", "step_id"}
             \cup {"from_status", "to_status", "terminal_status"}
          /\ {"thread_id", "step_id"} \cap {"from_status", "to_status", "terminal_status"} = {}
          /\ DOMAIN TerminalRecommendation \cap {"error", "duration"} = {}
      BY DEF Each, FromTo, StepIdentity, TerminalRecommendation, ++
    <3>4. Fits(Id({"thread_id", "step_id"}) ** [from_status : {"active"}, to_status : {later},
          terminal_status : {recommended}], TerminalRecommendation)
      BY <3>1, <3>2, <3>3, FitsTwo
    <3>5. PICK last : last = [from_status : {"active"}, to_status : {later},
          terminal_status : {recommended}] OBVIOUS
    <3>6. ASSUME NEW data \in AuditWrite(Id({"thread_id", "step_id"}) ** last)
          PROVE  AgreeWithin(e, data)
      <4>1. PICK t \in last :
               \A f \in DOMAIN t \ {"thread_id", "step_id"} : data[f] = t[f]
        BY <3>1, ToldLast
      <4>2. /\ t.from_status = "active" /\ t.to_status = later
            /\ DOMAIN t = {"from_status", "to_status", "terminal_status"}
        BY <3>5
      <4>3. data.from_status = t.from_status /\ data.to_status = t.to_status BY <4>1, <4>2
      <4> QED BY <2>1, <4>2, <4>3 DEF AgreeWithin
    <3> QED BY <3>4, <3>5, <3>6, TellsShaped, AgreeingTaken
  <2>2. /\ e \in DOMAIN ReasonAudits /\ ReasonAudits[e] = Plain(TerminalRecommendation)
        /\ ThreadTells[e] =
             AuditWrite(Id({"thread_id", "step_id"}) ** [from_status : {"active"},
                   to_status : {"resolved"}, terminal_status : {"suggest_resolved"}])
             \cup AuditWrite(Id({"thread_id", "step_id"}) ** [from_status : {"active"},
                   to_status : {"paused"}, terminal_status : {"suggest_paused"}])
    BY <1>9 DEF ThreadTells, ReasonAudits
  <2> QED BY <2>1, <2>2, TakenUnion
<1>10. ASSUME NEW e \in {"trace_recording_failed"}
      PROVE  e \in DOMAIN ReasonAudits /\ Taken(e, ThreadTells[e], ReasonAudits[e])
  <2>1. Fits(Id({"thread_id"}) ** [operation : {"start_thread"}, step_id : {"null"}],
        ReasonTraceFailure)
    <3>1. FitsOn(Id({"thread_id"}), {"thread_id"}, ReasonTraceFailure)
      BY OrNullCases DEF FitsOn, Accepts, Id, NonEmpty, Only, ReasonTraceFailure, Strings, Word
    <3>2. FitsOn([operation : {"start_thread"}, step_id : {"null"}], {"operation", "step_id"},
          ReasonTraceFailure)
      BY OrNullCases DEF FitsOn, Accepts, NonEmpty, Only, ReasonTraceFailure, Strings, Word
    <3>3. /\ DOMAIN ReasonTraceFailure = {"thread_id"} \cup {"operation", "step_id"}
          /\ {"thread_id"} \cap {"operation", "step_id"} = {}
          /\ DOMAIN ReasonTraceFailure \cap {"error", "duration"} = {}
      BY DEF ReasonTraceFailure
    <3> QED BY <3>1, <3>2, <3>3, FitsTwo
  <2>2. Fits(Id({"thread_id", "step_id"}) ** [operation : {"advance_thread"}], ReasonTraceFailure)
    <3>1. FitsOn(Id({"thread_id", "step_id"}), {"thread_id", "step_id"}, ReasonTraceFailure)
      BY OrNullCases DEF FitsOn, Accepts, Id, NonEmpty, Only, ReasonTraceFailure, Strings, Word
    <3>2. FitsOn([operation : {"advance_thread"}], {"operation"}, ReasonTraceFailure)
      BY OrNullCases DEF FitsOn, Accepts, NonEmpty, Only, ReasonTraceFailure, Strings, Word
    <3>3. /\ DOMAIN ReasonTraceFailure = {"thread_id", "step_id"} \cup {"operation"}
          /\ {"thread_id", "step_id"} \cap {"operation"} = {}
          /\ DOMAIN ReasonTraceFailure \cap {"error", "duration"} = {}
      BY DEF ReasonTraceFailure
    <3> QED BY <3>1, <3>2, <3>3, FitsTwo
  <2>3. /\ e \in DOMAIN ReasonAudits /\ e \notin Agreeing /\ ReasonAudits[e] =
           Failed(ReasonTraceFailure)
        /\ ThreadTells[e] =
             Failure(Id({"thread_id"}) ** [operation : {"start_thread"}, step_id : {"null"}])
             \cup Failure(Id({"thread_id", "step_id"}) ** [operation : {"advance_thread"}])
    BY <1>10 DEF ThreadTells, ReasonAudits, Agreeing
  <2>4. /\ Taken(e, Failure(Id({"thread_id"}) ** [operation : {"start_thread"},
           step_id : {"null"}]), Failed(ReasonTraceFailure))
        /\ Taken(e, Failure(Id({"thread_id", "step_id"}) ** [operation : {"advance_thread"}]),
              Failed(ReasonTraceFailure))
    BY <2>1, <2>2, <2>3, WriteTaken
  <2> QED BY <2>3, <2>4, TakenUnion
<1>11. DOMAIN ThreadTells = {"proposal_created", "thread_started", "thread_deleted",
      "advance_started", "advance_failed", "llm_failover_suppressed_after_tool_call",
      "completion_load_failed", "advance_completed", "thread_status_changed",
      "terminal_recommendation_applied", "trace_recording_failed"}
  BY DEF ThreadTells
<1> QED BY <1>4, <1>5, <1>6, <1>7, <1>8, <1>9, <1>10, <1>11 DEF AllTaken

\* The scheduler of reasoning.
LEMMA SchedulerTaken == AllTaken(SchedulerTells, ReasonAudits)
<1>1. Fits(Id({"step_id"}) ** [step_kind : StepKinds],
          [step_id |-> NonEmpty, step_kind |-> StepKind])
  <2>1. FitsOn(Id({"step_id"}), {"step_id"}, [step_id |-> NonEmpty, step_kind |-> StepKind])
    BY DEF FitsOn, Accepts, Id, NonEmpty, Only, StepKind, Strings, Word
  <2>2. FitsOn([step_kind : StepKinds],
             {"step_kind"},
             [step_id |-> NonEmpty, step_kind |-> StepKind])
    BY DEF FitsOn, Accepts, NonEmpty, Only, StepKind, StepKinds, Strings, Word
  <2>3. /\ DOMAIN ([step_id |-> NonEmpty, step_kind |-> StepKind]) = {"step_id"} \cup
            {"step_kind"}
        /\ {"step_id"} \cap {"step_kind"} = {}
        /\ DOMAIN ([step_id |-> NonEmpty, step_kind |-> StepKind]) \cap {"error", "duration"} = {}
    OBVIOUS
  <2> QED BY <2>1, <2>2, <2>3, FitsTwo
<1>2. ASSUME NEW e \in {"scheduler_advance_failed"}
      PROVE  e \in DOMAIN ReasonAudits /\ Taken(e, SchedulerTells[e], ReasonAudits[e])
  <2>1. /\ e \in DOMAIN ReasonAudits /\ e \notin Agreeing
        /\ SchedulerTells[e] = Failure(Simple)
        /\ ReasonAudits[e] = Failed(NoMetadata)
    BY <1>2 DEF SchedulerTells, ReasonAudits, Agreeing
  <2> QED BY <2>1, SimpleFits, WriteTaken
<1>3. ASSUME NEW e \in {"scheduler_advance_completed"}
      PROVE  e \in DOMAIN ReasonAudits /\ Taken(e, SchedulerTells[e], ReasonAudits[e])
  <2>1. /\ e \in DOMAIN ReasonAudits /\ e \notin Agreeing
        /\ SchedulerTells[e] = AuditWrite(Id({"step_id"}) ** [step_kind : StepKinds])
        /\ ReasonAudits[e] = Plain([step_id |-> NonEmpty, step_kind |-> StepKind])
    BY <1>3 DEF SchedulerTells, ReasonAudits, Agreeing
  <2> QED BY <2>1, <1>1, WriteTaken
<1>4. DOMAIN SchedulerTells = {"scheduler_advance_failed", "scheduler_advance_completed"}
  BY DEF SchedulerTells
<1> QED BY <1>2, <1>3, <1>4 DEF AllTaken

\* The outputs of a thread and their chunks.
LEMMA OutputTaken == AllTaken(OutputTells, ReasonAudits)
<1>1. Fits([mode : Modes], [mode |-> Word(Modes)])
  BY DEF Fits, FitsOn, Accepts, Modes, Only, Word
<1>2. Fits(Id({"thread_id", "job_id"}) ** [chunk_index : Counts], ChunkIdentity)
  <2>1. FitsOn(Id({"thread_id", "job_id"}), {"thread_id", "job_id"}, ChunkIdentity)
    BY DEF FitsOn, Accepts, ChunkIdentity, Count, Each, Id, Ints, JobIdentity, NonEmpty, Only,
       Strings, ++
  <2>2. FitsOn([chunk_index : Counts], {"chunk_index"}, ChunkIdentity)
    BY DEF FitsOn, Accepts, ChunkIdentity, Count, Counts, Each, Ints, JobIdentity, NonEmpty, Only,
       Strings, ++
  <2>3. /\ DOMAIN ChunkIdentity = {"thread_id", "job_id"} \cup {"chunk_index"}
        /\ {"thread_id", "job_id"} \cap {"chunk_index"} = {}
        /\ DOMAIN ChunkIdentity \cap {"error", "duration"} = {}
    BY DEF ChunkIdentity, Each, JobIdentity, ++
  <2> QED BY <2>1, <2>2, <2>3, FitsTwo
<1>3. Fits(Id({"thread_id", "job_id"}) ** [chunk_count : Some],
          JobIdentity ++ [chunk_count |-> Positive])
  <2>1. FitsOn(Id({"thread_id", "job_id"}),
             {"thread_id", "job_id"},
             JobIdentity ++ [chunk_count |-> Positive])
    BY DEF FitsOn, Accepts, Each, Id, JobIdentity, NonEmpty, Only, Positive, Strings, ++
  <2>2. FitsOn([chunk_count : Some], {"chunk_count"}, JobIdentity ++ [chunk_count |-> Positive])
    BY DEF FitsOn, Accepts, Each, JobIdentity, NonEmpty, Only, Positive, Some, Strings, ++
  <2>3. /\ DOMAIN (JobIdentity ++ [chunk_count |-> Positive]) = {"thread_id", "job_id"} \cup
            {"chunk_count"}
        /\ {"thread_id", "job_id"} \cap {"chunk_count"} = {}
        /\ DOMAIN (JobIdentity ++ [chunk_count |-> Positive]) \cap {"error", "duration"} = {}
    BY DEF Each, JobIdentity, ++
  <2> QED BY <2>1, <2>2, <2>3, FitsTwo
<1>4. Fits(Id({"thread_id", "job_id"}), JobIdentity)
  BY DEF Fits, FitsOn, Accepts, Each, Id, JobIdentity, NonEmpty, Only, Strings
<1>5. ASSUME NEW e \in {"reason_output_section_plan_fallback"}
      PROVE  e \in DOMAIN ReasonAudits /\ Taken(e, OutputTells[e], ReasonAudits[e])
  <2>1. /\ e \in DOMAIN ReasonAudits /\ e \notin Agreeing
        /\ OutputTells[e] = Failure([mode : Modes])
        /\ ReasonAudits[e] = Failed([mode |-> Word(Modes)])
    BY <1>5 DEF OutputTells, ReasonAudits, Agreeing
  <2> QED BY <2>1, <1>1, WriteTaken
<1>6. ASSUME NEW e \in {"reason_output_chunk_skipped", "reason_output_chunk_started"}
      PROVE  e \in DOMAIN ReasonAudits /\ Taken(e, OutputTells[e], ReasonAudits[e])
  <2>1. /\ e \in DOMAIN ReasonAudits /\ e \notin Agreeing
        /\ OutputTells[e] = AuditWrite(Id({"thread_id", "job_id"}) ** [chunk_index : Counts])
        /\ ReasonAudits[e] = Plain(ChunkIdentity)
    BY <1>6 DEF OutputTells, ReasonAudits, Agreeing
  <2> QED BY <2>1, <1>2, WriteTaken
<1>7. ASSUME NEW e \in {"reason_output_chunk_failed"}
      PROVE  e \in DOMAIN ReasonAudits /\ Taken(e, OutputTells[e], ReasonAudits[e])
  <2>1. /\ e \in DOMAIN ReasonAudits /\ e \notin Agreeing
        /\ OutputTells[e] = Failure(Id({"thread_id", "job_id"}) ** [chunk_index : Counts])
        /\ ReasonAudits[e] = Failed(ChunkIdentity)
    BY <1>7 DEF OutputTells, ReasonAudits, Agreeing
  <2> QED BY <2>1, <1>2, WriteTaken
<1>8. ASSUME NEW e \in {"reason_output_composed"}
      PROVE  e \in DOMAIN ReasonAudits /\ Taken(e, OutputTells[e], ReasonAudits[e])
  <2>1. /\ e \in DOMAIN ReasonAudits /\ e \notin Agreeing
        /\ OutputTells[e] = AuditWrite(Id({"thread_id", "job_id"}) ** [chunk_count : Some])
        /\ ReasonAudits[e] = Plain(JobIdentity ++ [chunk_count |-> Positive])
    BY <1>8 DEF OutputTells, ReasonAudits, Agreeing
  <2> QED BY <2>1, <1>3, WriteTaken
<1>9. ASSUME NEW e \in {"reason_output_pdf_started", "reason_output_pdf_timeout",
      "reason_output_pdf_created", "export_job_enqueued"}
      PROVE  e \in DOMAIN ReasonAudits /\ Taken(e, OutputTells[e], ReasonAudits[e])
  <2>1. /\ e \in DOMAIN ReasonAudits /\ e \notin Agreeing
        /\ OutputTells[e] = AuditWrite(Id({"thread_id", "job_id"}))
        /\ ReasonAudits[e] = Plain(JobIdentity)
    BY <1>9 DEF OutputTells, ReasonAudits, Agreeing
  <2> QED BY <2>1, <1>4, WriteTaken
<1>10. ASSUME NEW e \in {"reason_output_pdf_failed", "export_job_enqueue_failed"}
      PROVE  e \in DOMAIN ReasonAudits /\ Taken(e, OutputTells[e], ReasonAudits[e])
  <2>1. /\ e \in DOMAIN ReasonAudits /\ e \notin Agreeing
        /\ OutputTells[e] = Failure(Id({"thread_id", "job_id"}))
        /\ ReasonAudits[e] = Failed(JobIdentity)
    BY <1>10 DEF OutputTells, ReasonAudits, Agreeing
  <2> QED BY <2>1, <1>4, WriteTaken
<1>11. ASSUME NEW e \in {"reason_output_planned"}
      PROVE  e \in DOMAIN ReasonAudits /\ Taken(e, OutputTells[e], ReasonAudits[e])
  <2>1. FitsOn(Id({"thread_id", "job_id"}), {"thread_id", "job_id"}, Planned)
    BY OrNullCases DEF FitsOn, Accepts, Count, Each, Id, Ints, JobIdentity, Modes, NonEmpty, Only,
       Planned, Positive, Strings, Word, ++
  <2>2. FitsOn([mode : Modes, output_format : {"markdown"}, segment_size : Some, step_count : Some],
               {"mode", "output_format", "segment_size", "step_count"}, Planned)
    BY OrNullCases DEF FitsOn, Accepts, Count, Each, Ints, JobIdentity, Modes, NonEmpty, Only,
       Planned, Positive, Some, Strings, Word, ++
  <2>3. FitsOn([source_start_index : {"zero", "one"}, source_end_index : {"null", "one", "int"}],
               {"source_start_index", "source_end_index"}, Planned)
    BY OrNullCases DEF FitsOn, Accepts, Count, Each, Ints, JobIdentity, Modes, NonEmpty, Only,
       Planned, Positive, Strings, Word, ++
  <2>4. /\ DOMAIN Planned = {"thread_id", "job_id"} \cup {"mode", "output_format", "segment_size",
           "step_count"} \cup {"source_start_index", "source_end_index"}
        /\ {"thread_id", "job_id"} \cap {"mode", "output_format", "segment_size", "step_count"} = {}
        /\ ({"thread_id", "job_id"} \cup {"mode", "output_format", "segment_size",
              "step_count"}) \cap {"source_start_index", "source_end_index"} = {}
        /\ DOMAIN Planned \cap {"error", "duration"} = {}
    BY DEF Each, JobIdentity, Planned, ++
  <2>5. PICK first : first = Id({"thread_id", "job_id"})
        ** [mode : Modes, output_format : {"markdown"}, segment_size : Some,
              step_count : Some] OBVIOUS
  <2>6. PICK ends : ends = [source_start_index : {"zero", "one"}, source_end_index : {"null",
        "one", "int"}] OBVIOUS
  <2>7. Fits(first ** ends, Planned) BY <2>1, <2>2, <2>3, <2>4, <2>5, <2>6, FitsThree
  <2>8. FitsOn(first, {"thread_id", "job_id"} \cup {"mode", "output_format", "segment_size",
        "step_count"}, Planned)
    BY <2>1, <2>2, <2>4, <2>5, FitsBoth
  <2>9. ASSUME NEW data \in AuditWrite(first ** ends) PROVE AgreeWithin(e, data)
    <3>1. PICK t \in ends :
             \A f \in DOMAIN t \ ({"thread_id", "job_id"} \cup {"mode", "output_format",
                   "segment_size", "step_count"}) :
                data[f] = t[f]
      BY <2>8, ToldLast
    <3>2. /\ t.source_start_index \in {"zero", "one"} /\ t.source_end_index \in {"null", "one",
             "int"}
          /\ DOMAIN t = {"source_start_index", "source_end_index"}
      BY <2>6
    <3>3. data.source_start_index = t.source_start_index /\ data.source_end_index =
          t.source_end_index
      BY <3>1, <3>2
    <3> QED BY <3>2, <3>3 DEF AgreeWithin, Size
  <2>10. /\ e \in DOMAIN ReasonAudits /\ ReasonAudits[e] = Plain(Planned)
         /\ OutputTells[e] = AuditWrite(first ** ends)
    BY <1>11, <2>5, <2>6 DEF OutputTells, ReasonAudits
  <2> QED BY <2>7, <2>9, <2>10, TellsShaped, AgreeingTaken
<1>12. ASSUME NEW e \in {"reason_output_chunk_completed"}
      PROVE  e \in DOMAIN ReasonAudits /\ Taken(e, OutputTells[e], ReasonAudits[e])
  <2>1. PICK S : S = Id({"thread_id", "job_id"}) ** [chunk_index : Counts] OBVIOUS
  <2>2. Taken(e, AuditWriteTimed(S, Counts), Timed(ChunkIdentity))
    BY <1>2, <1>12, <2>1, WriteTaken DEF Agreeing
  <2>3. /\ e \in DOMAIN ReasonAudits /\ ReasonAudits[e] = Timed(ChunkIdentity)
        /\ OutputTells[e] = AuditWriteTimed(S, Counts \cup {"negative"})
    BY <1>12, <2>1 DEF OutputTells, ReasonAudits
  <2>4. ASSUME NEW data \in AuditWriteTimed(S, Counts \cup {"negative"})
        PROVE  data \in AuditWriteTimed(S, Counts) \/ Strange(e, data)
    <3>1. PICK d \in S, u \in Counts \cup {"negative"} : data = d
          ++ [error |-> "null", duration |-> u]
      BY DEF AuditWriteTimed, Tells
    <3>2. CASE u \in Counts BY <3>1, <3>2 DEF AuditWriteTimed, Tells
    <3>3. CASE u = "negative"
      <4>1. "duration" \notin DOMAIN d BY <1>2, <2>1 DEF Fits, FitsOn
      <4>2. data.duration = "negative" BY <3>1, <3>3, <4>1 DEF ++
      <4> QED BY <1>12, <4>2 DEF Strange
    <3> QED BY <3>1, <3>2, <3>3
  <2> QED BY <2>2, <2>3, <2>4 DEF Taken
<1>13. DOMAIN OutputTells = {"reason_output_section_plan_fallback", "reason_output_chunk_skipped",
      "reason_output_chunk_started", "reason_output_chunk_failed", "reason_output_composed",
      "reason_output_pdf_started", "reason_output_pdf_timeout", "reason_output_pdf_created",
      "export_job_enqueued", "reason_output_pdf_failed", "export_job_enqueue_failed",
      "reason_output_planned", "reason_output_chunk_completed"}
  BY DEF OutputTells
<1> QED BY <1>5, <1>6, <1>7, <1>8, <1>9, <1>10, <1>11, <1>12, <1>13 DEF AllTaken

\* The exports of the outputs.
LEMMA ExportTaken == AllTaken(ExportTells, ReasonAudits)
<1>1. Fits([chunks : Counts \cup {"?"}], CompositionStarted)
  BY DEF Fits, FitsOn, Accepts, CompositionStarted, Counts, Ints, Only
<1>2. Fits([attempts : {"int"}], [attempts |-> Positive])
  BY DEF Fits, FitsOn, Accepts, Only, Positive
<1>3. Fits([attempts : Some, next_backoff : {"int"}], Retry)
  BY DEF Fits, FitsOn, Accepts, Each, Only, Positive, Retry, Some
<1>4. Fits(Id({"thread_id", "job_id"}), JobIdentity)
  BY DEF Fits, FitsOn, Accepts, Each, Id, JobIdentity, NonEmpty, Only, Strings
<1>5. Fits([replayed_jobs : Counts], [replayed_jobs |-> Count])
  BY DEF Fits, FitsOn, Accepts, Count, Counts, Ints, Only
<1>6. ASSUME NEW e \in {"export_job_dequeued"}
      PROVE  e \in DOMAIN ReasonAudits /\ Taken(e, ExportTells[e], ReasonAudits[e])
  <2>1. /\ e \in DOMAIN ReasonAudits /\ e \notin Agreeing
        /\ ExportTells[e] = AuditWrite(Simple)
        /\ ReasonAudits[e] = Plain(NoMetadata)
    BY <1>6 DEF ExportTells, ReasonAudits, Agreeing
  <2> QED BY <2>1, SimpleFits, WriteTaken
<1>7. ASSUME NEW e \in {"export_job_manifest_invalid", "export_job_progress_invalid",
      "export_job_state_persist_failed"}
      PROVE  e \in DOMAIN ReasonAudits /\ Taken(e, ExportTells[e], ReasonAudits[e])
  <2>1. /\ e \in DOMAIN ReasonAudits /\ e \notin Agreeing
        /\ ExportTells[e] = Failure(Simple)
        /\ ReasonAudits[e] = Failed(NoMetadata)
    BY <1>7 DEF ExportTells, ReasonAudits, Agreeing
  <2> QED BY <2>1, SimpleFits, WriteTaken
<1>8. ASSUME NEW e \in {"export_job_composition_started"}
      PROVE  e \in DOMAIN ReasonAudits /\ Taken(e, ExportTells[e], ReasonAudits[e])
  <2>1. /\ e \in DOMAIN ReasonAudits /\ e \notin Agreeing
        /\ ExportTells[e] = AuditWrite([chunks : Counts \cup {"?"}])
        /\ ReasonAudits[e] = Plain(CompositionStarted)
    BY <1>8 DEF ExportTells, ReasonAudits, Agreeing
  <2> QED BY <2>1, <1>1, WriteTaken
<1>9. ASSUME NEW e \in {"export_job_failed"}
      PROVE  e \in DOMAIN ReasonAudits /\ Taken(e, ExportTells[e], ReasonAudits[e])
  <2>1. /\ e \in DOMAIN ReasonAudits /\ e \notin Agreeing
        /\ ExportTells[e] = Failure([attempts : {"int"}])
        /\ ReasonAudits[e] = Failed([attempts |-> Positive])
    BY <1>9 DEF ExportTells, ReasonAudits, Agreeing
  <2> QED BY <2>1, <1>2, WriteTaken
<1>10. ASSUME NEW e \in {"export_job_retry"}
      PROVE  e \in DOMAIN ReasonAudits /\ Taken(e, ExportTells[e], ReasonAudits[e])
  <2>1. /\ e \in DOMAIN ReasonAudits /\ e \notin Agreeing
        /\ ExportTells[e] = AuditWrite([attempts : Some, next_backoff : {"int"}])
        /\ ReasonAudits[e] = Plain(Retry)
    BY <1>10 DEF ExportTells, ReasonAudits, Agreeing
  <2> QED BY <2>1, <1>3, WriteTaken
<1>11. ASSUME NEW e \in {"export_retry_schedule_failed"}
      PROVE  e \in DOMAIN ReasonAudits /\ Taken(e, ExportTells[e], ReasonAudits[e])
  <2>1. /\ e \in DOMAIN ReasonAudits /\ e \notin Agreeing
        /\ ExportTells[e] = Failure([attempts : Some, next_backoff : {"int"}])
        /\ ReasonAudits[e] = Failed(Retry)
    BY <1>11 DEF ExportTells, ReasonAudits, Agreeing
  <2> QED BY <2>1, <1>3, WriteTaken
<1>12. ASSUME NEW e \in {"export_reconciliation_skip"}
      PROVE  e \in DOMAIN ReasonAudits /\ Taken(e, ExportTells[e], ReasonAudits[e])
  <2>1. /\ e \in DOMAIN ReasonAudits /\ e \notin Agreeing
        /\ ExportTells[e] = Failure(Id({"thread_id", "job_id"}))
        /\ ReasonAudits[e] = Failed(JobIdentity)
    BY <1>12 DEF ExportTells, ReasonAudits, Agreeing
  <2> QED BY <2>1, <1>4, WriteTaken
<1>13. ASSUME NEW e \in {"export_queue_reconciled"}
      PROVE  e \in DOMAIN ReasonAudits /\ Taken(e, ExportTells[e], ReasonAudits[e])
  <2>1. /\ e \in DOMAIN ReasonAudits /\ e \notin Agreeing
        /\ ExportTells[e] = AuditWrite([replayed_jobs : Counts])
        /\ ReasonAudits[e] = Plain([replayed_jobs |-> Count])
    BY <1>13 DEF ExportTells, ReasonAudits, Agreeing
  <2> QED BY <2>1, <1>5, WriteTaken
<1>14. DOMAIN ExportTells = {"export_job_dequeued", "export_job_manifest_invalid",
      "export_job_progress_invalid", "export_job_state_persist_failed",
      "export_job_composition_started", "export_job_failed", "export_job_retry",
      "export_retry_schedule_failed", "export_reconciliation_skip", "export_queue_reconciled"}
  BY DEF ExportTells
<1> QED BY <1>6, <1>7, <1>8, <1>9, <1>10, <1>11, <1>12, <1>13, <1>14 DEF AllTaken

\* The curation of memories.
LEMMA CuratorTaken == AllTaken(CuratorTells, MemoryAudits)
<1>1. Fits(Id({"observation_id"}), [observation_id |-> NonEmpty])
  BY DEF Fits, FitsOn, Accepts, Id, NonEmpty, Only, Strings
<1>2. Fits(Id({"observation_id", "source_ref"}) ** [processed_messages : {"zero"}],
          ObservationSource ++ [processed_messages |-> Zero])
  <2>1. FitsOn(Id({"observation_id", "source_ref"}),
             {"observation_id", "source_ref"},
             ObservationSource ++ [processed_messages |-> Zero])
    BY DEF FitsOn, Accepts, Each, Id, NonEmpty, ObservationSource, Only, Strings, Zero, ++
  <2>2. FitsOn([processed_messages : {"zero"}],
             {"processed_messages"},
             ObservationSource ++ [processed_messages |-> Zero])
    BY DEF FitsOn, Accepts, Each, NonEmpty, ObservationSource, Only, Strings, Zero, ++
  <2>3. /\ DOMAIN (ObservationSource ++ [processed_messages |-> Zero]) = {"observation_id",
            "source_ref"} \cup {"processed_messages"}
        /\ {"observation_id", "source_ref"} \cap {"processed_messages"} = {}
        /\ DOMAIN (ObservationSource ++ [processed_messages |-> Zero]) \cap {"error", "duration"}
            = {}
    BY DEF Each, ObservationSource, ++
  <2> QED BY <2>1, <2>2, <2>3, FitsTwo
<1>3. Fits(Id({"observation_id", "source_ref"}) ** [processed_messages : Some]
      ** CountsOf({"created", "updated", "ignored"}),
          ObservationSource ++ [processed_messages |-> Positive] ++ Each({"created", "updated",
                "ignored"}, Count))
  <2>1. FitsOn(Id({"observation_id", "source_ref"}),
             {"observation_id", "source_ref"},
             ObservationSource ++ [processed_messages |-> Positive] ++ Each({"created", "updated",
                   "ignored"}, Count))
    BY DEF FitsOn, Accepts, Count, Each, Id, Ints, NonEmpty, ObservationSource, Only, Positive,
       Strings, ++
  <2>2. FitsOn([processed_messages : Some],
             {"processed_messages"},
             ObservationSource ++ [processed_messages |-> Positive] ++ Each({"created", "updated",
                   "ignored"}, Count))
    BY DEF FitsOn, Accepts, Count, Each, Ints, NonEmpty, ObservationSource, Only, Positive, Some,
       Strings, ++
  <2>3. FitsOn(CountsOf({"created", "updated", "ignored"}),
             {"created", "updated", "ignored"},
             ObservationSource ++ [processed_messages |-> Positive] ++ Each({"created", "updated",
                   "ignored"}, Count))
    BY DEF FitsOn, Accepts, Count, Counts, CountsOf, Each, Ints, NonEmpty, ObservationSource,
       Only, Positive, Strings, ++
  <2>4. /\ DOMAIN (ObservationSource ++ [processed_messages |-> Positive] ++ Each({"created",
            "updated", "ignored"}, Count)) = {"observation_id", "source_ref"} \cup
            {"processed_messages"} \cup {"created", "updated", "ignored"}
        /\ {"observation_id", "source_ref"} \cap {"processed_messages"} = {}
        /\ ({"observation_id", "source_ref"} \cup {"processed_messages"}) \cap {"created",
            "updated", "ignored"} = {}
        /\ DOMAIN (ObservationSource ++ [processed_messages |-> Positive] ++ Each({"created",
            "updated", "ignored"}, Count)) \cap {"error", "duration"} = {}
    BY DEF Each, ObservationSource, ++
  <2> QED BY <2>1, <2>2, <2>3, <2>4, FitsThree
<1>4. Fits(Id({"candidate_id"}) ** MemoryTypes ** Id({"target_entry_id"}), CandidateTargeted)
  <2>1. FitsOn(Id({"candidate_id"}), {"candidate_id"}, CandidateTargeted)
    BY DEF FitsOn, Accepts, CandidateTargeted, Each, Id, NonEmpty, Only, Strings
  <2>2. FitsOn(MemoryTypes, {"memory_type"}, CandidateTargeted)
    BY DEF FitsOn, Odd, Accepts, CandidateTargeted, Each, MemoryTypes, NonEmpty, Only, Strings
  <2>3. FitsOn(Id({"target_entry_id"}), {"target_entry_id"}, CandidateTargeted)
    BY DEF FitsOn, Accepts, CandidateTargeted, Each, Id, NonEmpty, Only, Strings
  <2>4. /\ DOMAIN CandidateTargeted = {"candidate_id"} \cup {"memory_type"} \cup
            {"target_entry_id"}
        /\ {"candidate_id"} \cap {"memory_type"} = {}
        /\ ({"candidate_id"} \cup {"memory_type"}) \cap {"target_entry_id"} = {}
        /\ DOMAIN CandidateTargeted \cap {"error", "duration"} = {}
    BY DEF CandidateTargeted, Each
  <2> QED BY <2>1, <2>2, <2>3, <2>4, FitsThree
<1>5. Fits(Id({"candidate_id", "memory_type"}), Each({"candidate_id", "memory_type"}, NonEmpty))
  BY DEF Fits, FitsOn, Accepts, Each, Id, NonEmpty, Only, Strings
<1>6. Fits(Id({"memory_id"}) ** Action({"create", "update", "add", "accept", "merge", "import"}),
          MemoryTrace)
  <2>1. FitsOn(Id({"memory_id"}), {"memory_id"}, MemoryTrace)
    BY DEF FitsOn, Accepts, Id, MemoryTrace, NonEmpty, Only, Strings, Word
  <2>2. FitsOn(Action({"create", "update", "add", "accept", "merge", "import"}),
             {"action"},
             MemoryTrace)
    BY DEF FitsOn, Accepts, Action, MemoryTrace, NonEmpty, Only, Strings, Word
  <2>3. /\ DOMAIN MemoryTrace = {"memory_id"} \cup {"action"}
        /\ {"memory_id"} \cap {"action"} = {}
        /\ DOMAIN MemoryTrace \cap {"error", "duration"} = {}
    BY DEF MemoryTrace
  <2> QED BY <2>1, <2>2, <2>3, FitsTwo
<1>7. ASSUME NEW e \in {"curator_contended"}
      PROVE  e \in DOMAIN MemoryAudits /\ Taken(e, CuratorTells[e], MemoryAudits[e])
  <2>1. /\ e \in DOMAIN MemoryAudits /\ e \notin Agreeing
        /\ CuratorTells[e] = AuditWrite(Id({"observation_id"}))
        /\ MemoryAudits[e] = Plain([observation_id |-> NonEmpty])
    BY <1>7 DEF CuratorTells, MemoryAudits, Agreeing
  <2> QED BY <2>1, <1>1, WriteTaken
<1>8. ASSUME NEW e \in {"curator_failed", "chat_trace_recording_failed"}
      PROVE  e \in DOMAIN MemoryAudits /\ Taken(e, CuratorTells[e], MemoryAudits[e])
  <2>1. /\ e \in DOMAIN MemoryAudits /\ e \notin Agreeing
        /\ CuratorTells[e] = Failure(Simple)
        /\ MemoryAudits[e] = Failed(NoMetadata)
    BY <1>8 DEF CuratorTells, MemoryAudits, Agreeing
  <2> QED BY <2>1, SimpleFits, WriteTaken
<1>9. ASSUME NEW e \in {"curator_deferred"}
      PROVE  e \in DOMAIN MemoryAudits /\ Taken(e, CuratorTells[e], MemoryAudits[e])
  <2>1. /\ e \in DOMAIN MemoryAudits /\ e \notin Agreeing
        /\ CuratorTells[e] = AuditWrite(Id({"observation_id", "source_ref"})
              ** [processed_messages : {"zero"}])
        /\ MemoryAudits[e] = Plain(ObservationSource ++ [processed_messages |-> Zero])
    BY <1>9 DEF CuratorTells, MemoryAudits, Agreeing
  <2> QED BY <2>1, <1>2, WriteTaken
<1>10. ASSUME NEW e \in {"curator_completed"}
      PROVE  e \in DOMAIN MemoryAudits /\ Taken(e, CuratorTells[e], MemoryAudits[e])
  <2>1. /\ e \in DOMAIN MemoryAudits /\ e \notin Agreeing
        /\ CuratorTells[e] = AuditWrite(Id({"observation_id", "source_ref"})
              ** [processed_messages : Some] ** CountsOf({"created", "updated", "ignored"}))
        /\ MemoryAudits[e] = Plain(ObservationSource ++ [processed_messages |-> Positive]
              ++ Each({"created", "updated", "ignored"}, Count))
    BY <1>10 DEF CuratorTells, MemoryAudits, Agreeing
  <2> QED BY <2>1, <1>3, WriteTaken
<1>11. ASSUME NEW e \in {"candidate_merged", "candidate_updated"}
      PROVE  e \in DOMAIN MemoryAudits /\ Taken(e, CuratorTells[e], MemoryAudits[e])
  <2>1. /\ e \in DOMAIN MemoryAudits /\ e \notin Agreeing
        /\ CuratorTells[e] = AuditWrite(Id({"candidate_id"}) ** MemoryTypes
              ** Id({"target_entry_id"}))
        /\ MemoryAudits[e] = Plain(CandidateTargeted)
    BY <1>11 DEF CuratorTells, MemoryAudits, Agreeing
  <2> QED BY <2>1, <1>4, WriteTaken
<1>12. ASSUME NEW e \in {"candidate_created"}
      PROVE  e \in DOMAIN MemoryAudits /\ Taken(e, CuratorTells[e], MemoryAudits[e])
  <2>1. /\ e \in DOMAIN MemoryAudits /\ e \notin Agreeing
        /\ CuratorTells[e] = AuditWrite(Id({"candidate_id", "memory_type"}))
        /\ MemoryAudits[e] = Plain(Each({"candidate_id", "memory_type"}, NonEmpty))
    BY <1>12 DEF CuratorTells, MemoryAudits, Agreeing
  <2> QED BY <2>1, <1>5, WriteTaken
<1>13. ASSUME NEW e \in {"trace_recording_failed"}
      PROVE  e \in DOMAIN MemoryAudits /\ Taken(e, CuratorTells[e], MemoryAudits[e])
  <2>1. /\ e \in DOMAIN MemoryAudits /\ e \notin Agreeing
        /\ CuratorTells[e] = Failure(Id({"memory_id"}) ** Action({"create", "update", "add",
              "accept", "merge", "import"}))
        /\ MemoryAudits[e] = Failed(MemoryTrace)
    BY <1>13 DEF CuratorTells, MemoryAudits, Agreeing
  <2> QED BY <2>1, <1>6, WriteTaken
<1>14. ASSUME NEW e \in {"auto_accept_failed"}
      PROVE  e \in DOMAIN MemoryAudits /\ Taken(e, CuratorTells[e], MemoryAudits[e])
  <2>1. Fits(Id({"candidate_id", "memory_type"}) ** Action({"create"})
        ** [target_entry_id : {"null"}], AutoAcceptFailed)
    <3>1. FitsOn(Id({"candidate_id", "memory_type"}), {"candidate_id", "memory_type"},
          AutoAcceptFailed)
      BY OrNullCases DEF FitsOn, Accepts, AutoAcceptFailed, Id, NonEmpty, Only, Strings, Word
    <3>2. FitsOn(Action({"create"}), {"action"}, AutoAcceptFailed)
      BY OrNullCases DEF FitsOn, Accepts, Action, AutoAcceptFailed, NonEmpty, Only, Strings, Word
    <3>3. FitsOn([target_entry_id : {"null"}], {"target_entry_id"}, AutoAcceptFailed)
      BY OrNullCases DEF FitsOn, Accepts, AutoAcceptFailed, NonEmpty, Only, Strings, Word
    <3>4. /\ DOMAIN AutoAcceptFailed = {"candidate_id", "memory_type"} \cup {"action"}
             \cup {"target_entry_id"}
          /\ {"candidate_id", "memory_type"} \cap {"action"} = {}
          /\ ({"candidate_id", "memory_type"} \cup {"action"}) \cap {"target_entry_id"} = {}
          /\ DOMAIN AutoAcceptFailed \cap {"error", "duration"} = {}
      BY DEF AutoAcceptFailed
    <3> QED BY <3>1, <3>2, <3>3, <3>4, FitsThree
  <2>2. PICK candidate : candidate = Id({"candidate_id"}) ** MemoryTypes OBVIOUS
  <2>3. Fits(candidate ** Id({"target_entry_id"}) ** Action({"update"}), AutoAcceptFailed)
    <3>1. FitsOn(Id({"candidate_id"}), {"candidate_id"}, AutoAcceptFailed)
      BY OrNullCases DEF FitsOn, Accepts, AutoAcceptFailed, Id, NonEmpty, Only, Strings, Word
    <3>2. FitsOn(MemoryTypes, {"memory_type"}, AutoAcceptFailed)
      BY OrNullCases DEF FitsOn, Odd, Accepts, AutoAcceptFailed, MemoryTypes, NonEmpty, Only,
            Strings,
         Word
    <3>3. FitsOn(candidate, {"candidate_id"} \cup {"memory_type"}, AutoAcceptFailed)
      BY <2>2, <3>1, <3>2, FitsBoth
    <3>4. FitsOn(candidate, {"candidate_id", "memory_type"}, AutoAcceptFailed) BY <3>3 DEF FitsOn
    <3>5. FitsOn(Id({"target_entry_id"}), {"target_entry_id"}, AutoAcceptFailed)
      BY OrNullCases DEF FitsOn, Accepts, AutoAcceptFailed, Id, NonEmpty, Only, Strings, Word
    <3>6. FitsOn(Action({"update"}), {"action"}, AutoAcceptFailed)
      BY OrNullCases DEF FitsOn, Accepts, Action, AutoAcceptFailed, NonEmpty, Only, Strings, Word
    <3>7. /\ DOMAIN AutoAcceptFailed = {"candidate_id", "memory_type"}
             \cup {"target_entry_id"} \cup {"action"}
          /\ {"candidate_id", "memory_type"} \cap {"target_entry_id"} = {}
          /\ ({"candidate_id", "memory_type"} \cup {"target_entry_id"}) \cap {"action"} = {}
          /\ DOMAIN AutoAcceptFailed \cap {"error", "duration"} = {}
      BY DEF AutoAcceptFailed
    <3> QED BY <3>4, <3>5, <3>6, <3>7, FitsThree
  <2>4. /\ e \in DOMAIN MemoryAudits /\ e \notin Agreeing /\ MemoryAudits[e] =
           Failed(AutoAcceptFailed)
        /\ CuratorTells[e] = Failure(Id({"candidate_id", "memory_type"}) ** Action({"create"})
              ** [target_entry_id : {"null"}])
                             \cup Failure(candidate ** Id({"target_entry_id"})
                                   ** Action({"update"}))
    BY <1>14, <2>2 DEF CuratorTells, MemoryAudits, Agreeing
  <2>5. /\ Taken(e, Failure(Id({"candidate_id", "memory_type"}) ** Action({"create"})
           ** [target_entry_id : {"null"}]), Failed(AutoAcceptFailed))
        /\ Taken(e, Failure(candidate ** Id({"target_entry_id"})
              ** Action({"update"})), Failed(AutoAcceptFailed))
    BY <2>1, <2>3, <2>4, WriteTaken
  <2> QED BY <2>4, <2>5, TakenUnion
<1>15. DOMAIN CuratorTells = {"curator_contended", "curator_failed",
      "chat_trace_recording_failed", "curator_deferred", "curator_completed", "candidate_merged",
      "candidate_updated", "candidate_created", "trace_recording_failed", "auto_accept_failed"}
  BY DEF CuratorTells
<1> QED BY <1>7, <1>8, <1>9, <1>10, <1>11, <1>12, <1>13, <1>14, <1>15 DEF AllTaken

\* The optimizer of memories.
LEMMA OptimizerTaken == AllTaken(OptimizerTells, MemoryAudits)
<1>1. Fits([reviewed : {"zero"}], [reviewed |-> Zero])
  BY DEF Fits, FitsOn, Accepts, Only, Zero
<1>2. Fits([reviewed : Some] ** CountsOf({"updated", "deleted", "ignored"}),
          [reviewed |-> Positive] ++ Each({"updated", "deleted", "ignored"}, Count))
  <2>1. FitsOn([reviewed : Some],
             {"reviewed"},
             [reviewed |-> Positive] ++ Each({"updated", "deleted", "ignored"}, Count))
    BY DEF FitsOn, Accepts, Count, Each, Ints, Only, Positive, Some, ++
  <2>2. FitsOn(CountsOf({"updated", "deleted", "ignored"}),
             {"updated", "deleted", "ignored"},
             [reviewed |-> Positive] ++ Each({"updated", "deleted", "ignored"}, Count))
    BY DEF FitsOn, Accepts, Count, Counts, CountsOf, Each, Ints, Only, Positive, ++
  <2>3. /\ DOMAIN ([reviewed |-> Positive] ++ Each({"updated", "deleted", "ignored"}, Count)) =
            {"reviewed"} \cup {"updated", "deleted", "ignored"}
        /\ {"reviewed"} \cap {"updated", "deleted", "ignored"} = {}
        /\ DOMAIN ([reviewed |-> Positive] ++ Each({"updated", "deleted", "ignored"}, Count)) \cap
            {"error", "duration"} = {}
    BY DEF Each, ++
  <2> QED BY <2>1, <2>2, <2>3, FitsTwo
<1>3. Fits(Id({"candidate_id", "target_entry_id"}) ** Action({"update", "delete"}),
          [action |-> Word({"update", "delete"})] ++ Each({"candidate_id", "target_entry_id"},
                NonEmpty))
  <2>1. FitsOn(Id({"candidate_id", "target_entry_id"}),
             {"candidate_id", "target_entry_id"},
             [action |-> Word({"update", "delete"})] ++ Each({"candidate_id", "target_entry_id"},
                   NonEmpty))
    BY DEF FitsOn, Accepts, Each, Id, NonEmpty, Only, Strings, Word, ++
  <2>2. FitsOn(Action({"update", "delete"}),
             {"action"},
             [action |-> Word({"update", "delete"})] ++ Each({"candidate_id", "target_entry_id"},
                   NonEmpty))
    BY DEF FitsOn, Accepts, Action, Each, NonEmpty, Only, Strings, Word, ++
  <2>3. /\ DOMAIN ([action |-> Word({"update", "delete"})] ++ Each({"candidate_id",
            "target_entry_id"}, NonEmpty)) = {"candidate_id", "target_entry_id"} \cup {"action"}
        /\ {"candidate_id", "target_entry_id"} \cap {"action"} = {}
        /\ DOMAIN ([action |-> Word({"update", "delete"})] ++ Each({"candidate_id",
            "target_entry_id"}, NonEmpty)) \cap {"error", "duration"} = {}
    BY DEF Each, ++
  <2> QED BY <2>1, <2>2, <2>3, FitsTwo
<1>4. ASSUME NEW e \in {"optimizer_deferred"}
      PROVE  e \in DOMAIN MemoryAudits /\ Taken(e, OptimizerTells[e], MemoryAudits[e])
  <2>1. /\ e \in DOMAIN MemoryAudits /\ e \notin Agreeing
        /\ OptimizerTells[e] = AuditWrite([reviewed : {"zero"}])
        /\ MemoryAudits[e] = Plain([reviewed |-> Zero])
    BY <1>4 DEF OptimizerTells, MemoryAudits, Agreeing
  <2> QED BY <2>1, <1>1, WriteTaken
<1>5. ASSUME NEW e \in {"optimizer_completed"}
      PROVE  e \in DOMAIN MemoryAudits /\ Taken(e, OptimizerTells[e], MemoryAudits[e])
  <2>1. /\ e \in DOMAIN MemoryAudits /\ e \notin Agreeing
        /\ OptimizerTells[e] = AuditWrite([reviewed : Some] ** CountsOf({"updated", "deleted",
              "ignored"}))
        /\ MemoryAudits[e] = Plain([reviewed |-> Positive] ++ Each({"updated", "deleted",
              "ignored"}, Count))
    BY <1>5 DEF OptimizerTells, MemoryAudits, Agreeing
  <2> QED BY <2>1, <1>2, WriteTaken
<1>6. ASSUME NEW e \in {"optimizer_candidate_staged"}
      PROVE  e \in DOMAIN MemoryAudits /\ Taken(e, OptimizerTells[e], MemoryAudits[e])
  <2>1. /\ e \in DOMAIN MemoryAudits /\ e \notin Agreeing
        /\ OptimizerTells[e] = AuditWrite(Id({"candidate_id", "target_entry_id"})
              ** Action({"update", "delete"}))
        /\ MemoryAudits[e] = Plain([action |-> Word({"update", "delete"})]
              ++ Each({"candidate_id", "target_entry_id"}, NonEmpty))
    BY <1>6 DEF OptimizerTells, MemoryAudits, Agreeing
  <2> QED BY <2>1, <1>3, WriteTaken
<1>7. DOMAIN OptimizerTells = {"optimizer_deferred", "optimizer_completed",
      "optimizer_candidate_staged"}
  BY DEF OptimizerTells
<1> QED BY <1>4, <1>5, <1>6, <1>7 DEF AllTaken

\* The cycles of reflection; a candidate of the sixth type is strange.
LEMMA ReflectionTaken == AllTaken(ReflectionTells, ReflectionAudits)
<1>1. Fits(Id({"reason"}), Reason)
  BY DEF Fits, FitsOn, Accepts, Id, NonEmpty, Only, Reason, Strings
<1>2. Fits(Id({"reason"}) ** [score : {"zero", "half", "one"}], Reason ++ Score)
  <2>1. FitsOn(Id({"reason"}), {"reason"}, Reason ++ Score)
    BY DEF FitsOn, Accepts, Id, NonEmpty, Only, Reason, Score, Strings, ++
  <2>2. FitsOn([score : {"zero", "half", "one"}], {"score"}, Reason ++ Score)
    BY DEF FitsOn, Accepts, NonEmpty, Only, Reason, Score, Strings, ++
  <2>3. /\ DOMAIN (Reason ++ Score) = {"reason"} \cup {"score"}
        /\ {"reason"} \cap {"score"} = {}
        /\ DOMAIN (Reason ++ Score) \cap {"error", "duration"} = {}
    BY DEF Reason, Score, ++
  <2> QED BY <2>1, <2>2, <2>3, FitsTwo
<1>3. Fits(Id({"record"}), [record |-> NonEmpty])
  BY DEF Fits, FitsOn, Accepts, Id, NonEmpty, Only, Strings
<1>4. Fits(Id({"reflection_id"}), [reflection_id |-> NonEmpty])
  BY DEF Fits, FitsOn, Accepts, Id, NonEmpty, Only, Strings
<1>5. Fits([merged_groups : Some, archived_entries : Some],
          Each({"merged_groups", "archived_entries"}, Count))
  BY DEF Fits, FitsOn, Accepts, Count, Each, Ints, Only, Some
<1>6. ASSUME NEW e \in {"schedule_blocked", "cycle_discussion_rejected",
      "candidate_generation_skipped", "cycle_no_candidates"}
      PROVE  e \in DOMAIN ReflectionAudits /\ Taken(e, ReflectionTells[e], ReflectionAudits[e])
  <2>1. /\ e \in DOMAIN ReflectionAudits /\ e \notin Agreeing
        /\ ReflectionTells[e] = AuditWrite(Id({"reason"}))
        /\ ReflectionAudits[e] = Plain(Reason)
    BY <1>6 DEF ReflectionTells, ReflectionAudits, Agreeing
  <2> QED BY <2>1, <1>1, WriteTaken
<1>7. ASSUME NEW e \in {"cycle_started", "relevance_gate_fallback"}
      PROVE  e \in DOMAIN ReflectionAudits /\ Taken(e, ReflectionTells[e], ReflectionAudits[e])
  <2>1. /\ e \in DOMAIN ReflectionAudits /\ e \notin Agreeing
        /\ ReflectionTells[e] = AuditWrite(Simple)
        /\ ReflectionAudits[e] = Plain(NoMetadata)
    BY <1>7 DEF ReflectionTells, ReflectionAudits, Agreeing
  <2> QED BY <2>1, SimpleFits, WriteTaken
<1>8. ASSUME NEW e \in {"cycle_filtered"}
      PROVE  e \in DOMAIN ReflectionAudits /\ Taken(e, ReflectionTells[e], ReflectionAudits[e])
  <2>1. /\ e \in DOMAIN ReflectionAudits /\ e \notin Agreeing
        /\ ReflectionTells[e] = AuditWrite(Id({"reason"}) ** [score : {"zero", "half", "one"}])
        /\ ReflectionAudits[e] = Plain(Reason ++ Score)
    BY <1>8 DEF ReflectionTells, ReflectionAudits, Agreeing
  <2> QED BY <2>1, <1>2, WriteTaken
<1>9. ASSUME NEW e \in {"candidate_generation_failed", "organizer_failed"}
      PROVE  e \in DOMAIN ReflectionAudits /\ Taken(e, ReflectionTells[e], ReflectionAudits[e])
  <2>1. /\ e \in DOMAIN ReflectionAudits /\ e \notin Agreeing
        /\ ReflectionTells[e] = Failure(Simple)
        /\ ReflectionAudits[e] = Failed(NoMetadata)
    BY <1>9 DEF ReflectionTells, ReflectionAudits, Agreeing
  <2> QED BY <2>1, SimpleFits, WriteTaken
<1>10. ASSUME NEW e \in {"schedule_state_corrupt"}
      PROVE  e \in DOMAIN ReflectionAudits /\ Taken(e, ReflectionTells[e], ReflectionAudits[e])
  <2>1. /\ e \in DOMAIN ReflectionAudits /\ e \notin Agreeing
        /\ ReflectionTells[e] = Failure(Id({"record"}))
        /\ ReflectionAudits[e] = Failed([record |-> NonEmpty])
    BY <1>10 DEF ReflectionTells, ReflectionAudits, Agreeing
  <2> QED BY <2>1, <1>3, WriteTaken
<1>11. ASSUME NEW e \in {"trace_recording_failed"}
      PROVE  e \in DOMAIN ReflectionAudits /\ Taken(e, ReflectionTells[e], ReflectionAudits[e])
  <2>1. /\ e \in DOMAIN ReflectionAudits /\ e \notin Agreeing
        /\ ReflectionTells[e] = Failure(Id({"reflection_id"}))
        /\ ReflectionAudits[e] = Failed([reflection_id |-> NonEmpty])
    BY <1>11 DEF ReflectionTells, ReflectionAudits, Agreeing
  <2> QED BY <2>1, <1>4, WriteTaken
<1>12. ASSUME NEW e \in {"organizer_completed"}
      PROVE  e \in DOMAIN ReflectionAudits /\ Taken(e, ReflectionTells[e], ReflectionAudits[e])
  <2>1. /\ e \in DOMAIN ReflectionAudits /\ e \notin Agreeing
        /\ ReflectionTells[e] = AuditWrite([merged_groups : Some, archived_entries : Some])
        /\ ReflectionAudits[e] = Plain(Each({"merged_groups", "archived_entries"}, Count))
    BY <1>12 DEF ReflectionTells, ReflectionAudits, Agreeing
  <2> QED BY <2>1, <1>5, WriteTaken
<1>13. ASSUME NEW e \in {"cycle_completed"}
      PROVE  e \in DOMAIN ReflectionAudits /\ Taken(e, ReflectionTells[e], ReflectionAudits[e])
  <2>1. PICK first : first = Id({"reason"}) ** [score : {"zero", "half", "one"}] OBVIOUS
  <2>2. Fits(first ** [idea_type : IdeaTypes], Reason ++ Score ++ [idea_type |-> Word(IdeaTypes)])
    <3>1. FitsOn(Id({"reason"}), {"reason"}, Reason ++ Score ++ [idea_type |-> Word(IdeaTypes)])
      BY DEF FitsOn, Accepts, Id, IdeaTypes, NonEmpty, Only, Reason, Score, Strings, Word, ++
    <3>2. FitsOn([score : {"zero", "half", "one"}], {"score"}, Reason ++ Score
          ++ [idea_type |-> Word(IdeaTypes)])
      BY DEF FitsOn, Accepts, IdeaTypes, NonEmpty, Only, Reason, Score, Strings, Word, ++
    <3>3. FitsOn([idea_type : IdeaTypes], {"idea_type"}, Reason ++ Score
          ++ [idea_type |-> Word(IdeaTypes)])
      BY DEF FitsOn, Accepts, IdeaTypes, NonEmpty, Only, Reason, Score, Strings, Word, ++
    <3>4. /\ DOMAIN (Reason ++ Score ++ [idea_type |-> Word(IdeaTypes)]) = {"reason"}
             \cup {"score"} \cup {"idea_type"}
          /\ {"reason"} \cap {"score"} = {}
          /\ ({"reason"} \cup {"score"}) \cap {"idea_type"} = {}
          /\ DOMAIN (Reason ++ Score ++ [idea_type |-> Word(IdeaTypes)]) \cap {"error",
                "duration"} = {}
      BY DEF Reason, Score, ++
    <3> QED BY <2>1, <3>1, <3>2, <3>3, <3>4, FitsThree
  <2>3. /\ e \in DOMAIN ReflectionAudits /\ e \notin Agreeing
        /\ ReflectionTells[e] = AuditWrite(first ** [idea_type : CandidateTypes])
        /\ ReflectionAudits[e] = Plain(Reason ++ Score ++ [idea_type |-> Word(IdeaTypes)])
    BY <1>13, <2>1 DEF ReflectionTells, ReflectionAudits, Agreeing
  <2>4. Taken(e, AuditWrite(first ** [idea_type : IdeaTypes]), ReflectionAudits[e])
    BY <2>2, <2>3, WriteTaken
  <2>5. PICK wide : wide = [idea_type : CandidateTypes] OBVIOUS
  <2>6. ASSUME NEW data \in AuditWrite(first ** wide)
        PROVE  data \in AuditWrite(first ** [idea_type : IdeaTypes]) \/ Strange(e, data)
    <3>1. PICK d \in first ** wide :
             data = d ++ [error |-> "null", duration |-> "null"]
      BY DEF AuditWrite, Tells
    <3>2. PICK s \in first, t \in wide : d = s ++ t BY DEF **
    <3>3. CASE t.idea_type \in IdeaTypes
      <4>1. t \in [idea_type : IdeaTypes] BY <2>5, <3>2, <3>3
      <4>2. d \in first ** [idea_type : IdeaTypes] BY <3>2, <4>1 DEF **
      <4> QED BY <3>1, <4>2 DEF AuditWrite, Tells
    <3>4. CASE t.idea_type = "share_bundle"
      <4>1. "idea_type" \notin DOMAIN s
        <5>1. PICK x \in Id({"reason"}), y \in [score : {"zero", "half", "one"}] : s = x ++ y
          BY <2>1 DEF **
        <5> QED BY <5>1 DEF ++, Id
      <4>2. "idea_type" \in DOMAIN d /\ d["idea_type"] = "share_bundle"
        BY <2>5, <3>2, <3>4, <4>1 DEF ++
      <4>3. data.idea_type = "share_bundle" BY <3>1, <4>2 DEF ++
      <4> QED BY <1>13, <4>3 DEF Strange
    <3>5. t.idea_type \in CandidateTypes BY <2>5, <3>2
    <3> QED BY <3>3, <3>4, <3>5 DEF CandidateTypes
  <2> QED BY <2>3, <2>4, <2>5, <2>6 DEF Taken
<1>14. DOMAIN ReflectionTells = {"schedule_blocked", "cycle_discussion_rejected",
      "candidate_generation_skipped", "cycle_no_candidates", "cycle_started",
      "relevance_gate_fallback", "cycle_filtered", "candidate_generation_failed",
      "organizer_failed", "schedule_state_corrupt", "trace_recording_failed",
      "organizer_completed", "cycle_completed"}
  BY DEF ReflectionTells
<1> QED BY <1>6, <1>7, <1>8, <1>9, <1>10, <1>11, <1>12, <1>13, <1>14 DEF AllTaken

\* Personas and their discussions.
LEMMA PersonaTaken == AllTaken(PersonaTells, PersonaAudits)
<1>1. Fits([persona_count : Some, has_synthesis : Bools],
          [persona_count |-> Count, has_synthesis |-> Bool])
  BY DEF Fits, FitsOn, Accepts, Bool, Bools, Count, Ints, Only, Some
<1>2. Fits([should_escalate : Bools], [should_escalate |-> Bool])
  BY DEF Fits, FitsOn, Accepts, Bool, Bools, Only
<1>3. Fits([step_number : Some], [step_number |-> Positive])
  BY DEF Fits, FitsOn, Accepts, Only, Positive, Some
<1>4. Fits(Id({"candidate_id"}) ** [approved : Bools] ** CountsOf(DiscussionCounts),
          [candidate_id |-> NonEmpty, approved |-> Bool] ++ Each(DiscussionCounts, Count))
  <2>1. FitsOn(Id({"candidate_id"}),
             {"candidate_id"},
             [candidate_id |-> NonEmpty, approved |-> Bool] ++ Each(DiscussionCounts, Count))
    BY DEF FitsOn, Accepts, Bool, Bools, Count, DiscussionCounts, Each, Id, Ints, NonEmpty, Only,
       Strings, ++
  <2>2. FitsOn([approved : Bools],
             {"approved"},
             [candidate_id |-> NonEmpty, approved |-> Bool] ++ Each(DiscussionCounts, Count))
    BY DEF FitsOn, Accepts, Bool, Bools, Count, DiscussionCounts, Each, Ints, NonEmpty, Only,
       Strings, ++
  <2>3. FitsOn(CountsOf(DiscussionCounts),
             {"winner_count", "emergent_count", "blocking_veto_count", "score_count",
                   "discussion_steps"},
             [candidate_id |-> NonEmpty, approved |-> Bool] ++ Each(DiscussionCounts, Count))
    BY DEF FitsOn, Accepts, Bool, Bools, Count, Counts, CountsOf, DiscussionCounts, Each, Ints,
       NonEmpty, Only, Strings, ++
  <2>4. /\ DOMAIN ([candidate_id |-> NonEmpty, approved |-> Bool] ++ Each(DiscussionCounts,
            Count)) = {"candidate_id"} \cup {"approved"} \cup {"winner_count", "emergent_count",
            "blocking_veto_count", "score_count", "discussion_steps"}
        /\ {"candidate_id"} \cap {"approved"} = {}
        /\ ({"candidate_id"} \cup {"approved"}) \cap {"winner_count", "emergent_count",
            "blocking_veto_count", "score_count", "discussion_steps"} = {}
        /\ DOMAIN ([candidate_id |-> NonEmpty, approved |-> Bool] ++ Each(DiscussionCounts,
            Count)) \cap {"error", "duration"} = {}
    BY DEF DiscussionCounts, Each, ++
  <2> QED BY <2>1, <2>2, <2>3, <2>4, FitsThree
<1>5. Fits([stage : {"scoring", "selection", "moderator"}],
          [stage |-> Word({"scoring", "selection", "moderator"})])
  BY DEF Fits, FitsOn, Accepts, Only, Word
<1>6. Fits([stage : {"contribution", "synthesis"}],
          [stage |-> Word({"contribution", "synthesis"})])
  BY DEF Fits, FitsOn, Accepts, Only, Word
<1>7. Fits(Id({"persona_prompt_id"}) ** Action({"create", "enable", "disable", "prompt_created",
      "enabled", "disabled"}),
          [persona_prompt_id |-> NonEmpty, action |-> Word({"create", "enable", "disable",
                "prompt_created", "enabled", "disabled"})])
  <2>1. FitsOn(Id({"persona_prompt_id"}),
             {"persona_prompt_id"},
             [persona_prompt_id |-> NonEmpty, action |-> Word({"create", "enable", "disable",
                   "prompt_created", "enabled", "disabled"})])
    BY DEF FitsOn, Accepts, Id, NonEmpty, Only, Strings, Word
  <2>2. FitsOn(Action({"create", "enable", "disable", "prompt_created", "enabled", "disabled"}),
             {"action"},
             [persona_prompt_id |-> NonEmpty, action |-> Word({"create", "enable", "disable",
                   "prompt_created", "enabled", "disabled"})])
    BY DEF FitsOn, Accepts, Action, NonEmpty, Only, Strings, Word
  <2>3. /\ DOMAIN ([persona_prompt_id |-> NonEmpty, action |-> Word({"create", "enable",
            "disable", "prompt_created", "enabled", "disabled"})]) = {"persona_prompt_id"} \cup
            {"action"}
        /\ {"persona_prompt_id"} \cap {"action"} = {}
        /\ DOMAIN ([persona_prompt_id |-> NonEmpty, action |-> Word({"create", "enable",
            "disable", "prompt_created", "enabled", "disabled"})]) \cap {"error", "duration"} = {}
    OBVIOUS
  <2> QED BY <2>1, <2>2, <2>3, FitsTwo
<1>8. Fits(Id({"action"}), [action |-> NonEmpty])
  BY DEF Fits, FitsOn, Accepts, Id, NonEmpty, Only, Strings
<1>9. ASSUME NEW e \in {"persona_summary"}
      PROVE  e \in DOMAIN PersonaAudits /\ Taken(e, PersonaTells[e], PersonaAudits[e])
  <2>1. /\ e \in DOMAIN PersonaAudits /\ e \notin Agreeing
        /\ PersonaTells[e] = AuditWrite([persona_count : Some, has_synthesis : Bools])
        /\ PersonaAudits[e] = Plain([persona_count |-> Count, has_synthesis |-> Bool])
    BY <1>9 DEF PersonaTells, PersonaAudits, Agreeing
  <2> QED BY <2>1, <1>1, WriteTaken
<1>10. ASSUME NEW e \in {"host_discussion_decision"}
      PROVE  e \in DOMAIN PersonaAudits /\ Taken(e, PersonaTells[e], PersonaAudits[e])
  <2>1. /\ e \in DOMAIN PersonaAudits /\ e \notin Agreeing
        /\ PersonaTells[e] = AuditWrite([should_escalate : Bools])
        /\ PersonaAudits[e] = Plain([should_escalate |-> Bool])
    BY <1>10 DEF PersonaTells, PersonaAudits, Agreeing
  <2> QED BY <2>1, <1>2, WriteTaken
<1>11. ASSUME NEW e \in {"persona_discussion_step"}
      PROVE  e \in DOMAIN PersonaAudits /\ Taken(e, PersonaTells[e], PersonaAudits[e])
  <2>1. /\ e \in DOMAIN PersonaAudits /\ e \notin Agreeing
        /\ PersonaTells[e] = AuditWrite([step_number : Some])
        /\ PersonaAudits[e] = Plain([step_number |-> Positive])
    BY <1>11 DEF PersonaTells, PersonaAudits, Agreeing
  <2> QED BY <2>1, <1>3, WriteTaken
<1>12. ASSUME NEW e \in {"persona_discussion"}
      PROVE  e \in DOMAIN PersonaAudits /\ Taken(e, PersonaTells[e], PersonaAudits[e])
  <2>1. /\ e \in DOMAIN PersonaAudits /\ e \notin Agreeing
        /\ PersonaTells[e] = AuditWrite(Id({"candidate_id"}) ** [approved : Bools]
              ** CountsOf(DiscussionCounts))
        /\ PersonaAudits[e] = Plain([candidate_id |-> NonEmpty, approved |-> Bool]
              ++ Each(DiscussionCounts, Count))
    BY <1>12 DEF PersonaTells, PersonaAudits, Agreeing
  <2> QED BY <2>1, <1>4, WriteTaken
<1>13. ASSUME NEW e \in {"persona_discussion_failure", "persona_activation_failed",
      "persona_definition_load_failed"}
      PROVE  e \in DOMAIN PersonaAudits /\ Taken(e, PersonaTells[e], PersonaAudits[e])
  <2>1. /\ e \in DOMAIN PersonaAudits /\ e \notin Agreeing
        /\ PersonaTells[e] = Failure(Simple)
        /\ PersonaAudits[e] = Failed(NoMetadata)
    BY <1>13 DEF PersonaTells, PersonaAudits, Agreeing
  <2> QED BY <2>1, SimpleFits, WriteTaken
<1>14. ASSUME NEW e \in {"persona_discussion_degraded"}
      PROVE  e \in DOMAIN PersonaAudits /\ Taken(e, PersonaTells[e], PersonaAudits[e])
  <2>1. /\ e \in DOMAIN PersonaAudits /\ e \notin Agreeing
        /\ PersonaTells[e] = Failure([stage : {"scoring", "selection", "moderator"}])
        /\ PersonaAudits[e] = Failed([stage |-> Word({"scoring", "selection", "moderator"})])
    BY <1>14 DEF PersonaTells, PersonaAudits, Agreeing
  <2> QED BY <2>1, <1>5, WriteTaken
<1>15. ASSUME NEW e \in {"persona_completion_failed"}
      PROVE  e \in DOMAIN PersonaAudits /\ Taken(e, PersonaTells[e], PersonaAudits[e])
  <2>1. /\ e \in DOMAIN PersonaAudits /\ e \notin Agreeing
        /\ PersonaTells[e] = Failure([stage : {"contribution", "synthesis"}])
        /\ PersonaAudits[e] = Failed([stage |-> Word({"contribution", "synthesis"})])
    BY <1>15 DEF PersonaTells, PersonaAudits, Agreeing
  <2> QED BY <2>1, <1>6, WriteTaken
<1>16. ASSUME NEW e \in {"trace_recording_failed"}
      PROVE  e \in DOMAIN PersonaAudits /\ Taken(e, PersonaTells[e], PersonaAudits[e])
  <2>1. /\ e \in DOMAIN PersonaAudits /\ e \notin Agreeing
        /\ PersonaTells[e] = Failure(Id({"persona_prompt_id"}) ** Action({"create", "enable",
              "disable", "prompt_created", "enabled", "disabled"}))
        /\ PersonaAudits[e] = Failed([persona_prompt_id |-> NonEmpty, action |-> Word({"create",
              "enable", "disable", "prompt_created", "enabled", "disabled"})])
    BY <1>16 DEF PersonaTells, PersonaAudits, Agreeing
  <2> QED BY <2>1, <1>7, WriteTaken
<1>17. ASSUME NEW e \in {"interactive_command_failed"}
      PROVE  e \in DOMAIN PersonaAudits /\ Taken(e, PersonaTells[e], PersonaAudits[e])
  <2>1. /\ e \in DOMAIN PersonaAudits /\ e \notin Agreeing
        /\ PersonaTells[e] = Failure(Id({"action"}))
        /\ PersonaAudits[e] = Failed([action |-> NonEmpty])
    BY <1>17 DEF PersonaTells, PersonaAudits, Agreeing
  <2> QED BY <2>1, <1>8, WriteTaken
<1>18. DOMAIN PersonaTells = {"persona_summary", "host_discussion_decision",
      "persona_discussion_step", "persona_discussion", "persona_discussion_failure",
      "persona_activation_failed", "persona_definition_load_failed",
      "persona_discussion_degraded", "persona_completion_failed", "trace_recording_failed",
      "interactive_command_failed"}
  BY DEF PersonaTells
<1> QED BY <1>9, <1>10, <1>11, <1>12, <1>13, <1>14, <1>15, <1>16, <1>17, <1>18 DEF AllTaken

\* The turns of a chat and its activity.
LEMMA ChatTaken == AllTaken(ChatTells, ChatAudits)
<1>1. Fits(Id({"epistemic_status"}), [epistemic_status |-> NonEmpty])
  BY DEF Fits, FitsOn, Accepts, Id, NonEmpty, Only, Strings
<1>2. Fits(Id({"model"}) ** [endpoint_index : Counts], Endpoint)
  <2>1. FitsOn(Id({"model"}), {"model"}, Endpoint)
    BY DEF FitsOn, Accepts, Count, Endpoint, Id, Ints, NonEmpty, Only, Strings
  <2>2. FitsOn([endpoint_index : Counts], {"endpoint_index"}, Endpoint)
    BY DEF FitsOn, Accepts, Count, Counts, Endpoint, Ints, NonEmpty, Only, Strings
  <2>3. /\ DOMAIN Endpoint = {"model"} \cup {"endpoint_index"}
        /\ {"model"} \cap {"endpoint_index"} = {}
        /\ DOMAIN Endpoint \cap {"error", "duration"} = {}
    BY DEF Endpoint
  <2> QED BY <2>1, <2>2, <2>3, FitsTwo
<1>3. Fits([endpoint_index : Counts], [endpoint_index |-> Count])
  BY DEF Fits, FitsOn, Accepts, Count, Counts, Ints, Only
<1>4. Fits(Id({"conversation_id"}), [conversation_id |-> NonEmpty])
  BY DEF Fits, FitsOn, Accepts, Id, NonEmpty, Only, Strings
<1>5. Fits([completion : {"conversations", "archived_conversations"}],
          [completion |-> Word({"conversations", "archived_conversations"})])
  BY DEF Fits, FitsOn, Accepts, Only, Word
<1>6. Fits([fallback : {"builtin_input"}], [fallback |-> Word({"builtin_input"})])
  BY DEF Fits, FitsOn, Accepts, Only, Word
<1>7. Fits([stage : {"open", "poll", "drain", "close"}, has_subscription : Bools]
      ** Id({"failure_phase"}) ** [error_kind : {"connection"}, retryable : Bools,
            request_may_have_completed : Bools],
          ActivityFailure("connection"))
  <2>1. FitsOn([stage : {"open", "poll", "drain", "close"}, has_subscription : Bools],
             {"stage", "has_subscription"},
             ActivityFailure("connection"))
    BY DEF FitsOn, Accepts, ActivityFailure, Bool, Bools, NoMetadata, NonEmpty, Only, Strings,
       Word, ++
  <2>2. FitsOn(Id({"failure_phase"}), {"failure_phase"}, ActivityFailure("connection"))
    BY DEF FitsOn, Accepts, ActivityFailure, Bool, Bools, Id, NoMetadata, NonEmpty, Only, Strings,
       Word, ++
  <2>3. FitsOn([error_kind : {"connection"}, retryable : Bools, request_may_have_completed : Bools],
             {"error_kind", "retryable", "request_may_have_completed"},
             ActivityFailure("connection"))
    BY DEF FitsOn, Accepts, ActivityFailure, Bool, Bools, NoMetadata, NonEmpty, Only, Strings,
       Word, ++
  <2>4. /\ DOMAIN (ActivityFailure("connection")) = {"stage", "has_subscription"} \cup
            {"failure_phase"} \cup {"error_kind", "retryable", "request_may_have_completed"}
        /\ {"stage", "has_subscription"} \cap {"failure_phase"} = {}
        /\ ({"stage", "has_subscription"} \cup {"failure_phase"}) \cap {"error_kind", "retryable",
            "request_may_have_completed"} = {}
        /\ DOMAIN (ActivityFailure("connection")) \cap {"error", "duration"} = {}
    BY DEF ActivityFailure, NoMetadata, ++
  <2> QED BY <2>1, <2>2, <2>3, <2>4, FitsThree
<1>8. Fits([stage : {"open", "poll", "drain", "close"}, has_subscription : Bools]
      ** [error_kind : {"application"}],
          ActivityFailure("application"))
  <2>1. FitsOn([stage : {"open", "poll", "drain", "close"}, has_subscription : Bools],
             {"stage", "has_subscription"},
             ActivityFailure("application"))
    BY DEF FitsOn, Accepts, ActivityFailure, Bool, Bools, NoMetadata, NonEmpty, Only, Strings,
       Word, ++
  <2>2. FitsOn([error_kind : {"application"}], {"error_kind"}, ActivityFailure("application"))
    BY DEF FitsOn, Accepts, ActivityFailure, Bool, Bools, NoMetadata, NonEmpty, Only, Strings,
       Word, ++
  <2>3. /\ DOMAIN (ActivityFailure("application")) = {"stage", "has_subscription"} \cup
            {"error_kind"}
        /\ {"stage", "has_subscription"} \cap {"error_kind"} = {}
        /\ DOMAIN (ActivityFailure("application")) \cap {"error", "duration"} = {}
    BY DEF ActivityFailure, NoMetadata, ++
  <2> QED BY <2>1, <2>2, <2>3, FitsTwo
<1>9. Fits([steps : {"strings"}, primary_failed : Bools],
          [steps |-> Only({"strings", "twice"}), primary_failed |-> Bool])
  BY DEF Fits, FitsOn, Accepts, Bool, Bools, Only
<1>10. ASSUME NEW e \in {"daemon_chat_completed", "one_shot_chat_completed"}
      PROVE  e \in DOMAIN ChatAudits /\ Taken(e, ChatTells[e], ChatAudits[e])
  <2>1. /\ e \in DOMAIN ChatAudits /\ e \notin Agreeing
        /\ ChatTells[e] = AuditWrite(Simple)
        /\ ChatAudits[e] = Plain(NoMetadata)
    BY <1>10 DEF ChatTells, ChatAudits, Agreeing
  <2> QED BY <2>1, SimpleFits, WriteTaken
<1>11. ASSUME NEW e \in {"daemon_chat_failed", "one_shot_chat_failed", "llm_endpoints_exhausted",
      "compression_fallback", "interactive_history_write_failed", "interactive_send_failed"}
      PROVE  e \in DOMAIN ChatAudits /\ Taken(e, ChatTells[e], ChatAudits[e])
  <2>1. /\ e \in DOMAIN ChatAudits /\ e \notin Agreeing
        /\ ChatTells[e] = Failure(Simple)
        /\ ChatAudits[e] = Failed(NoMetadata)
    BY <1>11 DEF ChatTells, ChatAudits, Agreeing
  <2> QED BY <2>1, SimpleFits, WriteTaken
<1>12. ASSUME NEW e \in {"final_response_completed"}
      PROVE  e \in DOMAIN ChatAudits /\ Taken(e, ChatTells[e], ChatAudits[e])
  <2>1. /\ e \in DOMAIN ChatAudits /\ e \notin Agreeing
        /\ ChatTells[e] = AuditWrite(Id({"epistemic_status"}))
        /\ ChatAudits[e] = Plain([epistemic_status |-> NonEmpty])
    BY <1>12 DEF ChatTells, ChatAudits, Agreeing
  <2> QED BY <2>1, <1>1, WriteTaken
<1>13. ASSUME NEW e \in {"llm_endpoint_retry", "llm_retry_suppressed_after_tool_call"}
      PROVE  e \in DOMAIN ChatAudits /\ Taken(e, ChatTells[e], ChatAudits[e])
  <2>1. /\ e \in DOMAIN ChatAudits /\ e \notin Agreeing
        /\ ChatTells[e] = Failure(Id({"model"}) ** [endpoint_index : Counts])
        /\ ChatAudits[e] = Failed(Endpoint)
    BY <1>13 DEF ChatTells, ChatAudits, Agreeing
  <2> QED BY <2>1, <1>2, WriteTaken
<1>14. ASSUME NEW e \in {"llm_endpoint_state_write_failed"}
      PROVE  e \in DOMAIN ChatAudits /\ Taken(e, ChatTells[e], ChatAudits[e])
  <2>1. /\ e \in DOMAIN ChatAudits /\ e \notin Agreeing
        /\ ChatTells[e] = Failure([endpoint_index : Counts])
        /\ ChatAudits[e] = Failed([endpoint_index |-> Count])
    BY <1>14 DEF ChatTells, ChatAudits, Agreeing
  <2> QED BY <2>1, <1>3, WriteTaken
<1>15. ASSUME NEW e \in {"interactive_history_load_failed"}
      PROVE  e \in DOMAIN ChatAudits /\ Taken(e, ChatTells[e], ChatAudits[e])
  <2>1. /\ e \in DOMAIN ChatAudits /\ e \notin Agreeing
        /\ ChatTells[e] = Failure(Id({"conversation_id"}))
        /\ ChatAudits[e] = Failed([conversation_id |-> NonEmpty])
    BY <1>15 DEF ChatTells, ChatAudits, Agreeing
  <2> QED BY <2>1, <1>4, WriteTaken
<1>16. ASSUME NEW e \in {"completion_load_failed"}
      PROVE  e \in DOMAIN ChatAudits /\ Taken(e, ChatTells[e], ChatAudits[e])
  <2>1. /\ e \in DOMAIN ChatAudits /\ e \notin Agreeing
        /\ ChatTells[e] = Failure([completion : {"conversations", "archived_conversations"}])
        /\ ChatAudits[e] = Failed([completion |-> Word({"conversations",
              "archived_conversations"})])
    BY <1>16 DEF ChatTells, ChatAudits, Agreeing
  <2> QED BY <2>1, <1>5, WriteTaken
<1>17. ASSUME NEW e \in {"interactive_prompt_failed"}
      PROVE  e \in DOMAIN ChatAudits /\ Taken(e, ChatTells[e], ChatAudits[e])
  <2>1. /\ e \in DOMAIN ChatAudits /\ e \notin Agreeing
        /\ ChatTells[e] = Failure([fallback : {"builtin_input"}])
        /\ ChatAudits[e] = Failed([fallback |-> Word({"builtin_input"})])
    BY <1>17 DEF ChatTells, ChatAudits, Agreeing
  <2> QED BY <2>1, <1>6, WriteTaken
<1>18. ASSUME NEW e \in {"activity_connection_lost"}
      PROVE  e \in DOMAIN ChatAudits /\ Taken(e, ChatTells[e], ChatAudits[e])
  <2>1. /\ e \in DOMAIN ChatAudits /\ e \notin Agreeing
        /\ ChatTells[e] = Failure([stage : {"open", "poll", "drain", "close"},
              has_subscription : Bools] ** Id({"failure_phase"}) ** [error_kind : {"connection"},
                    retryable : Bools, request_may_have_completed : Bools])
        /\ ChatAudits[e] = Failed(ActivityFailure("connection"))
    BY <1>18 DEF ChatTells, ChatAudits, Agreeing
  <2> QED BY <2>1, <1>7, WriteTaken
<1>19. ASSUME NEW e \in {"activity_refused"}
      PROVE  e \in DOMAIN ChatAudits /\ Taken(e, ChatTells[e], ChatAudits[e])
  <2>1. /\ e \in DOMAIN ChatAudits /\ e \notin Agreeing
        /\ ChatTells[e] = Failure([stage : {"open", "poll", "drain", "close"},
              has_subscription : Bools] ** [error_kind : {"application"}])
        /\ ChatAudits[e] = Failed(ActivityFailure("application"))
    BY <1>19 DEF ChatTells, ChatAudits, Agreeing
  <2> QED BY <2>1, <1>8, WriteTaken
<1>20. ASSUME NEW e \in {"interactive_cleanup_failed"}
      PROVE  e \in DOMAIN ChatAudits /\ Taken(e, ChatTells[e], ChatAudits[e])
  <2>1. /\ e \in DOMAIN ChatAudits /\ e \notin Agreeing
        /\ ChatTells[e] = Failure([steps : {"strings"}, primary_failed : Bools])
        /\ ChatAudits[e] = Failed([steps |-> Only({"strings", "twice"}), primary_failed |-> Bool])
    BY <1>20 DEF ChatTells, ChatAudits, Agreeing
  <2> QED BY <2>1, <1>9, WriteTaken
<1>21. ASSUME NEW e \in {"turn_retry"}
      PROVE  e \in DOMAIN ChatAudits /\ Taken(e, ChatTells[e], ChatAudits[e])
  <2>1. FitsOn(Id({"failure_phase"}), {"failure_phase"}, TurnRetry)
    BY DEF FitsOn, Accepts, Bool, Bools, Count, Id, Ints, NonEmpty, Only, Strings, TurnRetry
  <2>2. FitsOn([attempt : {"int"}, max_attempts : {"int"}, request_may_have_completed : Bools],
               {"attempt", "max_attempts", "request_may_have_completed"}, TurnRetry)
    BY DEF FitsOn, Accepts, Bool, Bools, Count, Ints, NonEmpty, Only, Strings, TurnRetry
  <2>3. /\ DOMAIN TurnRetry = {"failure_phase"} \cup {"attempt", "max_attempts",
           "request_may_have_completed"}
        /\ {"failure_phase"} \cap {"attempt", "max_attempts", "request_may_have_completed"} = {}
        /\ DOMAIN TurnRetry \cap {"error", "duration"} = {}
    BY DEF TurnRetry
  <2>4. PICK last : last = [attempt : {"int"}, max_attempts : {"int"},
        request_may_have_completed : Bools] OBVIOUS
  <2>5. Fits(Id({"failure_phase"}) ** last, TurnRetry) BY <2>1, <2>2, <2>3, <2>4, FitsTwo
  <2>6. ASSUME NEW data \in AuditWrite(Id({"failure_phase"}) ** last) PROVE AgreeWithin(e, data)
    <3>1. PICK t \in last : \A f \in DOMAIN t \ {"failure_phase"} : data[f] = t[f]
      BY <2>1, ToldLast
    <3>2. /\ t.attempt = "int" /\ t.max_attempts = "int" /\ DOMAIN t = {"attempt", "max_attempts",
             "request_may_have_completed"}
      BY <2>4
    <3>3. data.attempt = "int" /\ data.max_attempts = "int" BY <3>1, <3>2
    <3> QED BY <1>21, <3>3 DEF AgreeWithin, Size
  <2>7. /\ e \in DOMAIN ChatAudits /\ ChatAudits[e] = Plain(TurnRetry)
        /\ ChatTells[e] = AuditWrite(Id({"failure_phase"}) ** last)
    BY <1>21, <2>4 DEF ChatTells, ChatAudits
  <2> QED BY <2>5, <2>6, <2>7, TellsShaped, AgreeingTaken
<1>22. DOMAIN ChatTells = {"daemon_chat_completed", "one_shot_chat_completed",
      "daemon_chat_failed", "one_shot_chat_failed", "llm_endpoints_exhausted",
      "compression_fallback", "interactive_history_write_failed", "interactive_send_failed",
      "final_response_completed", "llm_endpoint_retry", "llm_retry_suppressed_after_tool_call",
      "llm_endpoint_state_write_failed", "interactive_history_load_failed",
      "completion_load_failed", "interactive_prompt_failed", "activity_connection_lost",
      "activity_refused", "interactive_cleanup_failed", "turn_retry"}
  BY DEF ChatTells
<1> QED BY <1>10, <1>11, <1>12, <1>13, <1>14, <1>15, <1>16, <1>17, <1>18, <1>19, <1>20, <1>21,
   <1>22 DEF AllTaken

\* The adapters of delivery.
LEMMA DeliveryTaken == AllTaken(DeliveryTells, DeliveryAudits)
<1>1. Fits(Id({"entry_id"}) ** [attempt : Some], Attempt)
  <2>1. FitsOn(Id({"entry_id"}), {"entry_id"}, Attempt)
    BY DEF FitsOn, Accepts, Attempt, Count, Id, Ints, NonEmpty, Only, Strings
  <2>2. FitsOn([attempt : Some], {"attempt"}, Attempt)
    BY DEF FitsOn, Accepts, Attempt, Count, Ints, NonEmpty, Only, Some, Strings
  <2>3. /\ DOMAIN Attempt = {"entry_id"} \cup {"attempt"}
        /\ {"entry_id"} \cap {"attempt"} = {}
        /\ DOMAIN Attempt \cap {"error", "duration"} = {}
    BY DEF Attempt
  <2> QED BY <2>1, <2>2, <2>3, FitsTwo
<1>2. ASSUME NEW e \in {"item_delivered", "email_dry_run", "macos_dry_run", "macos_unavailable"}
      PROVE  e \in DOMAIN DeliveryAudits /\ Taken(e, DeliveryTells[e], DeliveryAudits[e])
  <2>1. /\ e \in DOMAIN DeliveryAudits /\ e \notin Agreeing
        /\ DeliveryTells[e] = AuditWrite(Id({"entry_id"}) ** [attempt : Some])
        /\ DeliveryAudits[e] = Plain(Attempt)
    BY <1>2 DEF DeliveryTells, DeliveryAudits, Agreeing
  <2> QED BY <2>1, <1>1, WriteTaken
<1>3. ASSUME NEW e \in {"email_no_config", "email_failed", "macos_failed"}
      PROVE  e \in DOMAIN DeliveryAudits /\ Taken(e, DeliveryTells[e], DeliveryAudits[e])
  <2>1. /\ e \in DOMAIN DeliveryAudits /\ e \notin Agreeing
        /\ DeliveryTells[e] = Failure(Id({"entry_id"}) ** [attempt : Some])
        /\ DeliveryAudits[e] = Failed(Attempt)
    BY <1>3 DEF DeliveryTells, DeliveryAudits, Agreeing
  <2> QED BY <2>1, <1>1, WriteTaken
<1>4. DOMAIN DeliveryTells = {"item_delivered", "email_dry_run", "macos_dry_run",
      "macos_unavailable", "email_no_config", "email_failed", "macos_failed"}
  BY DEF DeliveryTells
<1> QED BY <1>2, <1>3, <1>4 DEF AllTaken

\* The failover of endpoints.
LEMMA EndpointTaken == AllTaken(EndpointTells, EndpointAudits)
<1>1. Fits(Id({"model"}) ** [endpoint_index : Counts],
          [endpoint_index |-> Count, model |-> NonBlank])
  <2>1. FitsOn(Id({"model"}), {"model"}, [endpoint_index |-> Count, model |-> NonBlank])
    BY DEF FitsOn, Accepts, Blanks, Count, Id, Ints, NonBlank, Only, Strings
  <2>2. FitsOn([endpoint_index : Counts],
             {"endpoint_index"},
             [endpoint_index |-> Count, model |-> NonBlank])
    BY DEF FitsOn, Accepts, Blanks, Count, Counts, Ints, NonBlank, Only, Strings
  <2>3. /\ DOMAIN ([endpoint_index |-> Count, model |-> NonBlank]) = {"model"} \cup
            {"endpoint_index"}
        /\ {"model"} \cap {"endpoint_index"} = {}
        /\ DOMAIN ([endpoint_index |-> Count, model |-> NonBlank]) \cap {"error", "duration"} = {}
    OBVIOUS
  <2> QED BY <2>1, <2>2, <2>3, FitsTwo
<1>2. ASSUME NEW e \in {"llm_endpoint_failed_over", "llm_endpoint_unavailable"}
      PROVE  e \in DOMAIN EndpointAudits /\ Taken(e, EndpointTells[e], EndpointAudits[e])
  <2>1. /\ e \in DOMAIN EndpointAudits /\ e \notin Agreeing
        /\ EndpointTells[e] = Failure(Id({"model"}) ** [endpoint_index : Counts])
        /\ EndpointAudits[e] = Failed([endpoint_index |-> Count, model |-> NonBlank])
    BY <1>2 DEF EndpointTells, EndpointAudits, Agreeing
  <2> QED BY <2>1, <1>1, WriteTaken
<1>3. DOMAIN EndpointTells = {"llm_endpoint_failed_over", "llm_endpoint_unavailable"}
  BY DEF EndpointTells
<1> QED BY <1>2, <1>3 DEF AllTaken

\* The daemon as it starts and stops.
LEMMA LifecycleTaken == AllTaken(DaemonTells["lifecycle"], LifecycleAudits)
<1>1. ASSUME NEW e \in {"instance_lock_contended"}
      PROVE  e \in DOMAIN LifecycleAudits /\ Taken(e, DaemonTells["lifecycle"][e],
            LifecycleAudits[e])
  <2>1. /\ e \in DOMAIN LifecycleAudits /\ e \notin Agreeing
        /\ DaemonTells["lifecycle"][e] = Failure(Simple)
        /\ LifecycleAudits[e] = Failed(NoMetadata)
    BY <1>1 DEF DaemonTells, LifecycleAudits, Agreeing
  <2> QED BY <2>1, SimpleFits, WriteTaken
<1>2. ASSUME NEW e \in {"started", "stopped"}
      PROVE  e \in DOMAIN LifecycleAudits /\ Taken(e, DaemonTells["lifecycle"][e],
            LifecycleAudits[e])
  <2>1. /\ e \in DOMAIN LifecycleAudits /\ e \notin Agreeing
        /\ DaemonTells["lifecycle"][e] = AuditWrite(Simple)
        /\ LifecycleAudits[e] = Plain(NoMetadata)
    BY <1>2 DEF DaemonTells, LifecycleAudits, Agreeing
  <2> QED BY <2>1, SimpleFits, WriteTaken
<1>3. ASSUME NEW e \in {"runtime_metadata_recovered"}
      PROVE  e \in DOMAIN LifecycleAudits /\ Taken(e, DaemonTells["lifecycle"][e],
            LifecycleAudits[e])
  <2>1. Fits([socket : Bools, pid : Bools], RecoveredMetadata)
    BY DEF Fits, FitsOn, Accepts, Bool, Bools, Each, Only, RecoveredMetadata
  <2>2. /\ e \in DOMAIN LifecycleAudits /\ e \notin Agreeing /\ LifecycleAudits[e] =
           Plain(RecoveredMetadata)
    BY <1>3 DEF LifecycleAudits, Agreeing
  <2>3. Taken(e, AuditWrite([socket : Bools, pid : Bools]), Plain(RecoveredMetadata))
    BY <2>1, <2>2, WriteTaken
  <2>4. \A d \in DaemonTells["lifecycle"]["runtime_metadata_recovered"] :
           d \in AuditWrite([socket : Bools, pid : Bools])
    BY DEF DaemonTells
  <2>5. e = "runtime_metadata_recovered" BY <1>3
  <2> QED BY <2>2, <2>3, <2>4, <2>5 DEF Taken
<1>4. DOMAIN DaemonTells["lifecycle"] = {"instance_lock_contended", "started", "stopped",
      "runtime_metadata_recovered"}
  BY DEF DaemonTells
<1> QED BY <1>1, <1>2, <1>3, <1>4 DEF AllTaken

\* The requests to the daemon.
LEMMA RequestTaken == AllTaken(DaemonTells["request"], RequestAudits)
<1>1. Fits(Id({"request_type"}), [request_type |-> NonBlank])
  BY DEF Fits, FitsOn, Accepts, Blanks, Id, NonBlank, Only, Strings
<1>2. Fits([evidence_references : Counts], [evidence_references |-> Count])
  BY DEF Fits, FitsOn, Accepts, Count, Counts, Ints, Only
<1>3. ASSUME NEW e \in {"request_rejected"}
      PROVE  e \in DOMAIN RequestAudits /\ Taken(e, DaemonTells["request"][e], RequestAudits[e])
  <2>1. /\ e \in DOMAIN RequestAudits /\ e \notin Agreeing
        /\ DaemonTells["request"][e] = Failure(Id({"request_type"}))
        /\ RequestAudits[e] = Failed([request_type |-> NonBlank])
    BY <1>3 DEF DaemonTells, RequestAudits, Agreeing
  <2> QED BY <2>1, <1>1, WriteTaken
<1>4. ASSUME NEW e \in {"chat_turn_failed"}
      PROVE  e \in DOMAIN RequestAudits /\ Taken(e, DaemonTells["request"][e], RequestAudits[e])
  <2>1. /\ e \in DOMAIN RequestAudits /\ e \notin Agreeing
        /\ DaemonTells["request"][e] = Failure(Simple)
        /\ RequestAudits[e] = Failed(NoMetadata)
    BY <1>4 DEF DaemonTells, RequestAudits, Agreeing
  <2> QED BY <2>1, SimpleFits, WriteTaken
<1>5. ASSUME NEW e \in {"chat_turn_completed"}
      PROVE  e \in DOMAIN RequestAudits /\ Taken(e, DaemonTells["request"][e], RequestAudits[e])
  <2>1. /\ e \in DOMAIN RequestAudits /\ e \notin Agreeing
        /\ DaemonTells["request"][e] = AuditWriteTimed([evidence_references : Counts], Counts)
        /\ RequestAudits[e] = Timed([evidence_references |-> Count])
    BY <1>5 DEF DaemonTells, RequestAudits, Agreeing
  <2> QED BY <2>1, <1>2, WriteTaken
<1>6. ASSUME NEW e \in {"shutdown_requested"}
      PROVE  e \in DOMAIN RequestAudits /\ Taken(e, DaemonTells["request"][e], RequestAudits[e])
  <2>1. /\ e \in DOMAIN RequestAudits /\ e \notin Agreeing
        /\ DaemonTells["request"][e] = AuditWrite(Simple)
        /\ RequestAudits[e] = Plain(NoMetadata)
    BY <1>6 DEF DaemonTells, RequestAudits, Agreeing
  <2> QED BY <2>1, SimpleFits, WriteTaken
<1>7. DOMAIN DaemonTells["request"] = {"request_rejected", "chat_turn_failed",
      "chat_turn_completed", "shutdown_requested"}
  BY DEF DaemonTells
<1> QED BY <1>3, <1>4, <1>5, <1>6, <1>7 DEF AllTaken

\* The transport of requests.
LEMMA TransportTaken == AllTaken(DaemonTells["transport"], TransportAudits)
<1>1. Fits([response_status : {"ok", "error"}], [response_status |-> ResponseStatus])
  BY DEF Fits, FitsOn, Accepts, Only, ResponseStatus, Word
<1>2. Fits([response_status : {"ok", "error"}, fallback : Bools],
          [response_status |-> ResponseStatus, fallback |-> Bool])
  BY DEF Fits, FitsOn, Accepts, Bool, Bools, Only, ResponseStatus, Word
<1>3. ASSUME NEW e \in {"request_transport_failed", "request_failed"}
      PROVE  e \in DOMAIN TransportAudits /\ Taken(e, DaemonTells["transport"][e],
            TransportAudits[e])
  <2>1. /\ e \in DOMAIN TransportAudits /\ e \notin Agreeing
        /\ DaemonTells["transport"][e] = Failure(Simple)
        /\ TransportAudits[e] = Failed(NoMetadata)
    BY <1>3 DEF DaemonTells, TransportAudits, Agreeing
  <2> QED BY <2>1, SimpleFits, WriteTaken
<1>4. ASSUME NEW e \in {"response_encode_failed"}
      PROVE  e \in DOMAIN TransportAudits /\ Taken(e, DaemonTells["transport"][e],
            TransportAudits[e])
  <2>1. /\ e \in DOMAIN TransportAudits /\ e \notin Agreeing
        /\ DaemonTells["transport"][e] = Failure([response_status : {"ok", "error"}])
        /\ TransportAudits[e] = Failed([response_status |-> ResponseStatus])
    BY <1>4 DEF DaemonTells, TransportAudits, Agreeing
  <2> QED BY <2>1, <1>1, WriteTaken
<1>5. ASSUME NEW e \in {"response_delivery_failed"}
      PROVE  e \in DOMAIN TransportAudits /\ Taken(e, DaemonTells["transport"][e],
            TransportAudits[e])
  <2>1. /\ e \in DOMAIN TransportAudits /\ e \notin Agreeing
        /\ DaemonTells["transport"][e] = Failure([response_status : {"ok", "error"},
              fallback : Bools])
        /\ TransportAudits[e] = Failed([response_status |-> ResponseStatus, fallback |-> Bool])
    BY <1>5 DEF DaemonTells, TransportAudits, Agreeing
  <2> QED BY <2>1, <1>2, WriteTaken
<1>6. DOMAIN DaemonTells["transport"] = {"request_transport_failed", "request_failed",
      "response_encode_failed", "response_delivery_failed"}
  BY DEF DaemonTells
<1> QED BY <1>3, <1>4, <1>5, <1>6 DEF AllTaken

\* The clean-up of the daemon.
LEMMA ShutdownCleanupTaken == AllTaken(CleanupTells["cleanup"], CleanupAudits)
<1>1. Fits([failures : {"items"}, primary_failed : Bools], Cleanup)
  BY DEF Fits, FitsOn, Accepts, Bool, Bools, Cleanup, Only
<1>2. ASSUME NEW e \in {"shutdown_cleanup_failed"}
      PROVE  e \in DOMAIN CleanupAudits /\ Taken(e, CleanupTells["cleanup"][e], CleanupAudits[e])
  <2>1. /\ e \in DOMAIN CleanupAudits /\ e \notin Agreeing
        /\ CleanupTells["cleanup"][e] = Failure([failures : {"items"}, primary_failed : Bools])
        /\ CleanupAudits[e] = Failed(Cleanup)
    BY <1>2 DEF CleanupTells, CleanupAudits, Agreeing
  <2> QED BY <2>1, <1>1, WriteTaken
<1>3. DOMAIN CleanupTells["cleanup"] = {"shutdown_cleanup_failed"}
  BY DEF CleanupTells
<1> QED BY <1>2, <1>3 DEF AllTaken

\* The clean-up of the storage and of the command line.
LEMMA StorageCleanupTaken == AllTaken(CleanupTells["storage"], StorageAudits)
<1>1. Fits([failures : {"items"}, primary_failed : Bools], Cleanup)
  BY DEF Fits, FitsOn, Accepts, Bool, Bools, Cleanup, Only
<1>2. Fits(Id({"backend_type"}), [backend_type |-> NonBlank])
  BY DEF Fits, FitsOn, Accepts, Blanks, Id, NonBlank, Only, Strings
<1>3. ASSUME NEW e \in {"cli_cleanup_failed"}
      PROVE  e \in DOMAIN StorageAudits /\ Taken(e, CleanupTells["storage"][e], StorageAudits[e])
  <2>1. /\ e \in DOMAIN StorageAudits /\ e \notin Agreeing
        /\ CleanupTells["storage"][e] = Failure([failures : {"items"}, primary_failed : Bools])
        /\ StorageAudits[e] = Failed(Cleanup)
    BY <1>3 DEF CleanupTells, StorageAudits, Agreeing
  <2> QED BY <2>1, <1>1, WriteTaken
<1>4. ASSUME NEW e \in {"backend_close_failed"}
      PROVE  e \in DOMAIN StorageAudits /\ Taken(e, CleanupTells["storage"][e], StorageAudits[e])
  <2>1. /\ e \in DOMAIN StorageAudits /\ e \notin Agreeing
        /\ CleanupTells["storage"][e] = Failure(Id({"backend_type"}))
        /\ StorageAudits[e] = Failed([backend_type |-> NonBlank])
    BY <1>4 DEF CleanupTells, StorageAudits, Agreeing
  <2> QED BY <2>1, <1>2, WriteTaken
<1>5. DOMAIN CleanupTells["storage"] = {"cli_cleanup_failed", "backend_close_failed"}
  BY DEF CleanupTells
<1> QED BY <1>3, <1>4, <1>5 DEF AllTaken

-----------------------------------------------------------------------------
\* Whatever else the program tells fits its contract, but for what Unforeseen names.
LEMMA AuditsTaken ==
    \A catalog \in DOMAIN AuditTells :
       catalog \in DOMAIN Catalogs /\ AllTaken(AuditTells[catalog], Catalogs[catalog])
<1>1. PICK reason : reason = ThreadTells ++ SchedulerTells ++ OutputTells ++ ExportTells OBVIOUS
<1>2. PICK memory : memory = CuratorTells ++ OptimizerTells OBVIOUS
<1>3. PICK others :
         others = [reason |-> reason, memory |-> memory, reflection |-> ReflectionTells,
                   persona |-> PersonaTells, chat |-> ChatTells, delivery |-> DeliveryTells,
                   endpoint |-> EndpointTells]
  OBVIOUS
<1>4. AllTaken(reason, ReasonAudits)
  <2>1. AllTaken(ThreadTells ++ SchedulerTells, ReasonAudits)
    BY ThreadTaken, SchedulerTaken, AllTakenBoth
  <2>2. AllTaken(ThreadTells ++ SchedulerTells ++ OutputTells, ReasonAudits)
    BY <2>1, OutputTaken, AllTakenBoth
  <2> QED BY <1>1, <2>2, ExportTaken, AllTakenBoth
<1>5. AllTaken(memory, MemoryAudits) BY <1>2, CuratorTaken, OptimizerTaken, AllTakenBoth
<1>6. AuditTells = DaemonTells ++ CleanupTells ++ others BY <1>1, <1>2, <1>3 DEF AuditTells
<1>7. /\ DOMAIN DaemonTells = {"lifecycle", "request", "transport"}
      /\ DOMAIN CleanupTells = {"cleanup", "storage"}
  BY DEF DaemonTells, CleanupTells
<1>8. DOMAIN others = {"reason", "memory", "reflection", "persona", "chat", "delivery", "endpoint"}
  BY <1>3
<1>9. ASSUME NEW c \in DOMAIN AuditTells
      PROVE  AuditTells[c] = IF c \in DOMAIN DaemonTells THEN DaemonTells[c]
                             ELSE IF c \in DOMAIN CleanupTells THEN CleanupTells[c] ELSE others[c]
  <2>1. PICK first : first = DaemonTells ++ CleanupTells OBVIOUS
  <2>2. \A x \in DOMAIN first :
           first[x] = IF x \in DOMAIN DaemonTells THEN DaemonTells[x] ELSE CleanupTells[x]
    BY <2>1 DEF ++
  <2>3. DOMAIN first = DOMAIN DaemonTells \cup DOMAIN CleanupTells BY <2>1 DEF ++
  <2>4. AuditTells[c] = IF c \in DOMAIN first THEN first[c] ELSE others[c]
    BY <1>6, <1>9, <2>1 DEF ++
  <2> QED BY <2>2, <2>3, <2>4
<1>10. DOMAIN AuditTells = DOMAIN DaemonTells \cup DOMAIN CleanupTells \cup DOMAIN others
  BY <1>6 DEF ++
<1>11. ASSUME NEW c \in DOMAIN DaemonTells
       PROVE  c \in DOMAIN Catalogs /\ AllTaken(DaemonTells[c], Catalogs[c])
  BY <1>7, LifecycleTaken, RequestTaken, TransportTaken DEF Catalogs
<1>12. ASSUME NEW c \in DOMAIN CleanupTells
       PROVE  c \in DOMAIN Catalogs /\ AllTaken(CleanupTells[c], Catalogs[c])
  BY <1>7, ShutdownCleanupTaken, StorageCleanupTaken DEF Catalogs
<1>13. ASSUME NEW c \in DOMAIN others
       PROVE  c \in DOMAIN Catalogs /\ AllTaken(others[c], Catalogs[c])
  BY <1>3, <1>4, <1>5, <1>8, ReflectionTaken, PersonaTaken, ChatTaken, DeliveryTaken, EndpointTaken
     DEF Catalogs
<1>14. (DOMAIN DaemonTells \cup DOMAIN CleanupTells) \cap DOMAIN others = {} BY <1>7, <1>8
<1> QED BY <1>9, <1>10, <1>11, <1>12, <1>13

-----------------------------------------------------------------------------
(* Audits: the lifecycle commands *)

\* What the stop of a restart may return.
StopOutcomes ==
    {Result(before, seen, outcome) :
        before \in Found, seen \in {s \in Found : s.phase = "stopped"},
        outcome \in {"stopped", "already_stopped"}}

\* A restart that has stopped the daemon starts from there, and no other command has.
CommandInv ==
    /\ waiting \in Found \cup {Unseen}
    /\ stopped \in StopOutcomes \cup {Unseen}
    /\ command = "none" => waiting = Unseen
    /\ command # "restart" => stopped = Unseen
    /\ stopped # Unseen => waiting = Unseen \/ waiting.phase = "stopped"

Foreseen ==
    told # Silence => Strange(told.event, told.data) \/ Accepted(told.catalog, told.event,
          told.data)

AuditInv == CommandInv /\ Foreseen

\* What Told writes.
ToldAs(metadata, error) == metadata ++ [error |-> error, duration |-> "null", socket |-> "text"]

\* An audit has the fields of its contract, each with a value the contract accepts.
Holds(contract, data) == DOMAIN data = Fields(contract) /\ Wrong(contract, data) = {}

\* The values are accepted; and the kinds are these, and that of the socket.
Meets(m, k) == DOMAIN m = DOMAIN k /\ \A f \in DOMAIN k : m[f] \in Accepts(k[f])
WithSocket(kinds, k) ==
    /\ "socket" \notin DOMAIN k /\ "error" \notin DOMAIN k /\ "duration" \notin DOMAIN k
    /\ DOMAIN kinds = DOMAIN k \cup {"socket"}
    /\ \A f \in DOMAIN kinds : kinds[f] = IF f \in DOMAIN k THEN k[f] ELSE NonEmpty

\* An audit of a lifecycle command fits a contract that asks for the same and the socket.
LEMMA ToldFits ==
    ASSUME NEW m, NEW k, Meets(m, k), NEW kinds, WithSocket(kinds, k), NEW own,
           NEW error, error \in Accepts(own), NEW data, data = ToldAs(m, error)
    PROVE  Holds(Exact(kinds ++ [error |-> own, duration |-> Untold]), data)
<1> USE DEF Meets, WithSocket
<1>1. PICK u : u = [error |-> error, duration |-> "null", socket |-> "text"] OBVIOUS
<1>2. PICK o : o = [error |-> own, duration |-> Untold] OBVIOUS
<1>3. DOMAIN u = {"error", "duration", "socket"} /\ u["error"] = error /\ u["duration"] = "null"
      /\ u["socket"] = "text"
  BY <1>1
<1>4. DOMAIN o = {"error", "duration"} /\ o["error"] = own /\ o["duration"] = Untold BY <1>2
<1>5. "null" \in Accepts(Untold) /\ "text" \in Accepts(NonEmpty)
  BY DEF Untold, NonEmpty, Only, Accepts, Strings
<1>6. DOMAIN data = DOMAIN m \cup DOMAIN u /\ \A f \in DOMAIN data : data[f] =
      IF f \in DOMAIN m THEN m[f] ELSE u[f]
  BY <1>1 DEF ++, ToldAs
<1>7. PICK c : c = kinds ++ o OBVIOUS
<1>8. DOMAIN c = DOMAIN kinds \cup DOMAIN o /\ \A f \in DOMAIN c : c[f] =
      IF f \in DOMAIN kinds THEN kinds[f] ELSE o[f]
  BY <1>7 DEF ++
<1>9. DOMAIN data = DOMAIN c BY <1>3, <1>4, <1>6, <1>8
<1>10. \A f \in DOMAIN c : data[f] \in Accepts(c[f]) BY <1>3, <1>4, <1>5, <1>6, <1>8, <1>9
<1> QED BY <1>2, <1>7, <1>9, <1>10 DEF Holds, Exact, Fields, Wrong

\* A daemon was found with a PID that its contracts take.
LEMMA FoundFits ==
    ASSUME NEW seen \in Found \cup {Unknown}
    PROVE  seen.phase \in Accepts(Phase) /\ seen.pid \in Accepts(Pid)
           /\ OwnerActive(seen) \in Accepts(OrNull(Bool))
<1>1. seen.phase \in DaemonPhases /\ seen.pid \in {"null", "one",
      "int"} /\ OwnerActive(seen) \in {"null", "true", "false"}
  BY DEF Found, Unknown, DaemonPhases, OwnerActive
<1> QED BY <1>1, OrNullCases DEF Phase, Word, Pid, Positive, Only, Accepts, Bool, Bools, Ints

\* The audits of a transition that ended as it should.
LEMMA TransitionFits ==
    ASSUME NEW before \in Found, NEW seen \in Found, NEW outcome, NEW wished, outcome \in wished,
           NEW ending, seen.phase = ending, NEW data,
           data = ToldAs(TransitionMetadata(Result(before, seen, outcome)), "null")
    PROVE  /\ Holds(Plain(TransitionAudit(wished, ending)), data)
           /\ data.changed = HasChanged(Result(before, seen, outcome)) /\ data.outcome = outcome
<1> PICK m : m = TransitionMetadata(Result(before, seen, outcome)) OBVIOUS
<1>1. PICK k : k = [outcome |-> Word(wished), changed |-> Bool, from_phase |-> Phase,
                    to_phase |-> Word({ending}), pid |-> Pid]
  OBVIOUS
<1>2. PICK kinds : kinds = TransitionAudit(wished, ending) OBVIOUS
<1>3. /\ DOMAIN m = {"outcome", "changed", "from_phase", "to_phase", "pid"}
      /\ m["outcome"] = outcome /\ m["changed"] = HasChanged(Result(before, seen, outcome))
      /\ m["from_phase"] = before.phase /\ m["to_phase"] = ending /\ m["pid"] = seen.pid
  BY DEF TransitionMetadata, Result
<1>4. DOMAIN k = {"outcome", "changed", "from_phase", "to_phase", "pid"} BY <1>1
<1>5. \A f \in DOMAIN k : m[f] \in Accepts(k[f])
  <2>1. before.phase \in Accepts(Phase) /\ seen.pid \in Accepts(Pid) BY FoundFits
  <2>2. outcome \in Accepts(Word(wished)) /\ ending \in Accepts(Word({ending}))
    BY DEF Word, Only, Accepts
  <2>3. m["changed"] \in Accepts(Bool) BY <1>3 DEF HasChanged, Bool, Bools, Only, Accepts
  <2> QED BY <1>1, <1>3, <1>4, <2>1, <2>2, <2>3
<1>6. DOMAIN kinds = DOMAIN k \cup {"socket"} /\ \A f \in DOMAIN kinds : kinds[f] =
      IF f \in DOMAIN k THEN k[f] ELSE NonEmpty
  BY <1>1, <1>2 DEF TransitionAudit
<1>7. "null" \in Accepts(Untold) BY DEF Untold, Only, Accepts
<1>8. Holds(Exact(kinds ++ [error |-> Untold, duration |-> Untold]), data)
  <2>1. DOMAIN m = DOMAIN k BY <1>3, <1>4
  <2>2. "socket" \notin DOMAIN k /\ "error" \notin DOMAIN k /\ "duration" \notin DOMAIN k BY <1>4
  <2>3. Meets(m, k) BY <1>5, <2>1 DEF Meets
  <2>4. WithSocket(kinds, k) BY <1>6, <2>2 DEF WithSocket
  <2> QED BY <1>7, <2>3, <2>4, ToldFits
<1>9. data.changed = m["changed"] /\ data.outcome = m["outcome"] BY <1>3 DEF ++, ToldAs
<1> QED BY <1>2, <1>3, <1>8, <1>9 DEF Plain

\* It is told whether anything changed, as the outcome says.
LEMMA OutcomeMatches ==
    ASSUME NEW returned, returned.outcome \in {"started", "stopped", "already_ready",
          "already_stopped"}
    PROVE  Matches(HasChanged(returned), returned.outcome)
BY DEF Matches, HasChanged

\* A start that ended ready is told of.
LEMMA StartCompletedAccepted ==
    ASSUME NEW before \in Found, NEW seen \in Found, seen.phase = "ready",
           NEW outcome \in {"started", "already_ready"}, NEW data,
           data = ToldAs(TransitionMetadata(Result(before, seen, outcome)), "null")
    PROVE  Accepted("lifecycle", "start_completed", data)
<1>1. /\ Holds(Plain(StartCompleted), data)
      /\ data.changed = HasChanged(Result(before, seen, outcome)) /\ data.outcome = outcome
  <2>1. PICK wished : wished = {"started", "already_ready"} OBVIOUS
  <2>2. PICK ending : ending = "ready" OBVIOUS
  <2>3. outcome \in wished /\ seen.phase = ending BY <2>1, <2>2
  <2>4. Holds(Plain(TransitionAudit(wished, ending)), data) BY <2>3, TransitionFits
  <2>5. data.changed = HasChanged(Result(before, seen, outcome)) /\ data.outcome = outcome
    BY <2>3, TransitionFits
  <2> QED BY <2>1, <2>2, <2>4, <2>5 DEF StartCompleted
<1>2. Catalogs["lifecycle"]["start_completed"] = Plain(StartCompleted)
  BY DEF Catalogs, LifecycleAudits
<1>3. Matches(data.changed, data.outcome) BY <1>1, OutcomeMatches DEF Result
<1> QED BY <1>1, <1>2, <1>3 DEF Accepted, AgreeWithin, Holds

\* A stop that ended stopped is told of.
LEMMA StopCompletedAccepted ==
    ASSUME NEW before \in Found, NEW seen \in Found, seen.phase = "stopped",
           NEW outcome \in {"stopped", "already_stopped"}, NEW data,
           data = ToldAs(TransitionMetadata(Result(before, seen, outcome)), "null")
    PROVE  Accepted("lifecycle", "stop_completed", data)
<1>1. /\ Holds(Plain(StopCompleted), data)
      /\ data.changed = HasChanged(Result(before, seen, outcome)) /\ data.outcome = outcome
  <2>1. PICK wished : wished = {"stopped", "already_stopped"} OBVIOUS
  <2>2. PICK ending : ending = "stopped" OBVIOUS
  <2>3. outcome \in wished /\ seen.phase = ending BY <2>1, <2>2
  <2>4. Holds(Plain(TransitionAudit(wished, ending)), data) BY <2>3, TransitionFits
  <2>5. data.changed = HasChanged(Result(before, seen, outcome)) /\ data.outcome = outcome
    BY <2>3, TransitionFits
  <2> QED BY <2>1, <2>2, <2>4, <2>5 DEF StopCompleted
<1>2. Catalogs["lifecycle"]["stop_completed"] = Plain(StopCompleted)
  BY DEF Catalogs, LifecycleAudits
<1>3. Matches(data.changed, data.outcome) BY <1>1, OutcomeMatches DEF Result
<1> QED BY <1>1, <1>2, <1>3 DEF Accepted, AgreeWithin, Holds

\* A start that failed is told of, alone or as a stage of a restart.
LEMMA StartFailedAccepted ==
    ASSUME NEW reason \in {"spawn_failed", "status_failed", "owner_unready", "process_exited",
          "timeout"},
           NEW seen \in Found \cup {Unknown}, NEW exit_code \in {"null", "negative", "zero",
                 "one"}, NEW m,
           DOMAIN m = {"reason", "phase", "pid", "exit_code"}, m["reason"] = reason,
           m["phase"] = seen.phase, m["pid"] = seen.pid, m["exit_code"] = exit_code
    PROVE  /\ Accepted("lifecycle", "start_failed", ToldAs(m, "text"))
           /\ Accepted("lifecycle", "restart_failed_start", ToldAs(m
                 ++ [stage |-> "start"], "text"))
<1>1. PICK k : k = [reason |-> Word({"spawn_failed", "status_failed", "owner_unready",
      "process_exited", "timeout"}),
                    phase |-> Phase, pid |-> Pid, exit_code |-> OrNull(Integer)]
  OBVIOUS
<1>2. /\ DOMAIN m = {"reason", "phase", "pid", "exit_code"}
      /\ m["reason"] = reason /\ m["phase"] = seen.phase /\ m["pid"] =
            seen.pid /\ m["exit_code"] = exit_code
  OBVIOUS
<1>3. DOMAIN k = {"reason", "phase", "pid", "exit_code"} BY <1>1
<1>4. \A f \in DOMAIN k : m[f] \in Accepts(k[f])
  <2>1. seen.phase \in Accepts(Phase) /\ seen.pid \in Accepts(Pid) BY FoundFits
  <2>2. reason \in Accepts(Word({"spawn_failed", "status_failed", "owner_unready",
        "process_exited", "timeout"}))
    BY DEF Word, Only, Accepts
  <2>3. exit_code \in Accepts(OrNull(Integer))
    BY OrNullCases DEF Integer, Ints, Only, Accepts
  <2> QED BY <1>1, <1>2, <2>1, <2>2, <2>3
<1>5. "text" \in Accepts(NonEmpty) BY DEF NonEmpty, Only, Accepts, Strings
<1>6. PICK kinds : kinds = StartFailure OBVIOUS
<1>7. DOMAIN kinds = DOMAIN k \cup {"socket"} /\ \A f \in DOMAIN kinds : kinds[f] =
      IF f \in DOMAIN k THEN k[f] ELSE NonEmpty
  BY <1>1, <1>6 DEF StartFailure
<1>8. Accepted("lifecycle", "start_failed", ToldAs(m, "text"))
  <2>1. PICK data : data = ToldAs(m, "text") OBVIOUS
  <2>2. DOMAIN m = DOMAIN k BY <1>2, <1>3
  <2>3. "socket" \notin DOMAIN k /\ "error" \notin DOMAIN k /\ "duration" \notin DOMAIN k BY <1>3
  <2>4. Holds(Failed(kinds), data)
    <3>1. Meets(m, k) BY <1>4, <2>2 DEF Meets
    <3>2. WithSocket(kinds, k) BY <1>7, <2>3 DEF WithSocket
    <3>3. Holds(Exact(kinds ++ [error |-> NonEmpty, duration |-> Untold]), data)
      BY <1>5, <2>1, <3>1, <3>2, ToldFits
    <3> QED BY <3>3 DEF Failed
  <2>5. Catalogs["lifecycle"]["start_failed"] = Failed(StartFailure)
    BY DEF Catalogs, LifecycleAudits
  <2>6. AgreeWithin("start_failed", data) BY DEF AgreeWithin
  <2> QED BY <1>6, <2>1, <2>4, <2>5, <2>6 DEF Accepted, Holds
<1>9. Accepted("lifecycle", "restart_failed_start", ToldAs(m ++ [stage |-> "start"], "text"))
  <2>1. PICK n : n = m ++ [stage |-> "start"] OBVIOUS
  <2>2. PICK data : data = ToldAs(n, "text") OBVIOUS
  <2>3. PICK l : l = k ++ [stage |-> Word({"start"})] OBVIOUS
  <2>4. PICK staged : staged = Staged(StartFailure, "start") OBVIOUS
  <2>5. /\ DOMAIN n = DOMAIN m \cup {"stage"}
        /\ \A f \in DOMAIN n : n[f] = IF f \in DOMAIN m THEN m[f] ELSE "start"
    BY <2>1 DEF ++
  <2>6. /\ DOMAIN l = DOMAIN k \cup {"stage"}
        /\ \A f \in DOMAIN l : l[f] = IF f \in DOMAIN k THEN k[f] ELSE Word({"start"})
    BY <2>3 DEF ++
  <2>7. /\ DOMAIN staged = DOMAIN kinds \cup {"stage"}
        /\ \A f \in DOMAIN staged : staged[f] =
              IF f \in DOMAIN kinds THEN kinds[f] ELSE Word({"start"})
    BY <1>6, <2>4 DEF Staged, ++
  <2>8. DOMAIN n = DOMAIN l BY <1>2, <1>3, <2>5, <2>6
  <2>9. "start" \in Accepts(Word({"start"})) BY DEF Word, Only, Accepts
  <2>10. \A f \in DOMAIN l : n[f] \in Accepts(l[f]) BY <1>2, <1>3, <1>4, <2>5, <2>6, <2>8, <2>9
  <2>11. "socket" \notin DOMAIN l /\ "error" \notin DOMAIN l /\ "duration" \notin DOMAIN l
    BY <1>3, <2>6
  <2>12. /\ DOMAIN staged = DOMAIN l \cup {"socket"}
         /\ \A f \in DOMAIN staged : staged[f] = IF f \in DOMAIN l THEN l[f] ELSE NonEmpty
    <3>1. "stage" \notin DOMAIN k BY <1>3
    <3> QED BY <1>7, <2>6, <2>7, <3>1
  <2>13. Holds(Failed(staged), data)
    <3>1. Meets(n, l) BY <2>8, <2>10 DEF Meets
    <3>2. WithSocket(staged, l) BY <2>11, <2>12 DEF WithSocket
    <3>3. Holds(Exact(staged ++ [error |-> NonEmpty, duration |-> Untold]), data)
      BY <1>5, <2>2, <3>1, <3>2, ToldFits
    <3> QED BY <3>3 DEF Failed
  <2>14. Catalogs["lifecycle"]["restart_failed_start"] = Failed(Staged(StartFailure, "start"))
    BY DEF Catalogs, LifecycleAudits
  <2>15. AgreeWithin("restart_failed_start", data) BY DEF AgreeWithin
  <2> QED BY <2>1, <2>2, <2>4, <2>13, <2>14, <2>15 DEF Accepted, Holds
<1> QED BY <1>8, <1>9

\* A stop that failed is told of, alone or as a stage of a restart.
LEMMA StopFailedAccepted ==
    ASSUME NEW reason \in {"request_failed", "ownership_check_failed", "timeout"},
           NEW seen \in Found \cup {Unknown}, NEW owner_active \in {"null", "true", "false"}, NEW m,
           DOMAIN m = {"reason", "phase", "pid", "owner_active"}, m["reason"] = reason,
           m["phase"] = seen.phase, m["pid"] = seen.pid, m["owner_active"] = owner_active
    PROVE  /\ Accepted("lifecycle", "stop_failed", ToldAs(m, "text"))
           /\ Accepted("lifecycle", "restart_failed_stop", ToldAs(m ++ [stage |-> "stop"], "text"))
<1>1. PICK k : k = [reason |-> Word({"request_failed", "ownership_check_failed", "timeout"}),
                    phase |-> Phase, pid |-> Pid, owner_active |-> OrNull(Bool)]
  OBVIOUS
<1>2. /\ DOMAIN m = {"reason", "phase", "pid", "owner_active"}
      /\ m["reason"] = reason /\ m["phase"] = seen.phase /\ m["pid"] =
            seen.pid /\ m["owner_active"] = owner_active
  OBVIOUS
<1>3. DOMAIN k = {"reason", "phase", "pid", "owner_active"} BY <1>1
<1>4. \A f \in DOMAIN k : m[f] \in Accepts(k[f])
  <2>1. seen.phase \in Accepts(Phase) /\ seen.pid \in Accepts(Pid) BY FoundFits
  <2>2. reason \in Accepts(Word({"request_failed", "ownership_check_failed", "timeout"}))
    BY DEF Word, Only, Accepts
  <2>3. owner_active \in Accepts(OrNull(Bool))
    BY OrNullCases DEF Bool, Bools, Only, Accepts
  <2> QED BY <1>1, <1>2, <2>1, <2>2, <2>3
<1>5. "text" \in Accepts(NonEmpty) BY DEF NonEmpty, Only, Accepts, Strings
<1>6. PICK kinds : kinds = StopFailure OBVIOUS
<1>7. DOMAIN kinds = DOMAIN k \cup {"socket"} /\ \A f \in DOMAIN kinds : kinds[f] =
      IF f \in DOMAIN k THEN k[f] ELSE NonEmpty
  BY <1>1, <1>6 DEF StopFailure
<1>8. Accepted("lifecycle", "stop_failed", ToldAs(m, "text"))
  <2>1. PICK data : data = ToldAs(m, "text") OBVIOUS
  <2>2. DOMAIN m = DOMAIN k BY <1>2, <1>3
  <2>3. "socket" \notin DOMAIN k /\ "error" \notin DOMAIN k /\ "duration" \notin DOMAIN k BY <1>3
  <2>4. Holds(Failed(kinds), data)
    <3>1. Meets(m, k) BY <1>4, <2>2 DEF Meets
    <3>2. WithSocket(kinds, k) BY <1>7, <2>3 DEF WithSocket
    <3>3. Holds(Exact(kinds ++ [error |-> NonEmpty, duration |-> Untold]), data)
      BY <1>5, <2>1, <3>1, <3>2, ToldFits
    <3> QED BY <3>3 DEF Failed
  <2>5. Catalogs["lifecycle"]["stop_failed"] = Failed(StopFailure) BY DEF Catalogs, LifecycleAudits
  <2>6. AgreeWithin("stop_failed", data) BY DEF AgreeWithin
  <2> QED BY <1>6, <2>1, <2>4, <2>5, <2>6 DEF Accepted, Holds
<1>9. Accepted("lifecycle", "restart_failed_stop", ToldAs(m ++ [stage |-> "stop"], "text"))
  <2>1. PICK n : n = m ++ [stage |-> "stop"] OBVIOUS
  <2>2. PICK data : data = ToldAs(n, "text") OBVIOUS
  <2>3. PICK l : l = k ++ [stage |-> Word({"stop"})] OBVIOUS
  <2>4. PICK staged : staged = Staged(StopFailure, "stop") OBVIOUS
  <2>5. /\ DOMAIN n = DOMAIN m \cup {"stage"}
        /\ \A f \in DOMAIN n : n[f] = IF f \in DOMAIN m THEN m[f] ELSE "stop"
    BY <2>1 DEF ++
  <2>6. /\ DOMAIN l = DOMAIN k \cup {"stage"}
        /\ \A f \in DOMAIN l : l[f] = IF f \in DOMAIN k THEN k[f] ELSE Word({"stop"})
    BY <2>3 DEF ++
  <2>7. /\ DOMAIN staged = DOMAIN kinds \cup {"stage"}
        /\ \A f \in DOMAIN staged : staged[f] =
              IF f \in DOMAIN kinds THEN kinds[f] ELSE Word({"stop"})
    BY <1>6, <2>4 DEF Staged, ++
  <2>8. DOMAIN n = DOMAIN l BY <1>2, <1>3, <2>5, <2>6
  <2>9. "stop" \in Accepts(Word({"stop"})) BY DEF Word, Only, Accepts
  <2>10. \A f \in DOMAIN l : n[f] \in Accepts(l[f]) BY <1>2, <1>3, <1>4, <2>5, <2>6, <2>8, <2>9
  <2>11. "socket" \notin DOMAIN l /\ "error" \notin DOMAIN l /\ "duration" \notin DOMAIN l
    BY <1>3, <2>6
  <2>12. /\ DOMAIN staged = DOMAIN l \cup {"socket"}
         /\ \A f \in DOMAIN staged : staged[f] = IF f \in DOMAIN l THEN l[f] ELSE NonEmpty
    <3>1. "stage" \notin DOMAIN k BY <1>3
    <3> QED BY <1>7, <2>6, <2>7, <3>1
  <2>13. Holds(Failed(staged), data)
    <3>1. Meets(n, l) BY <2>8, <2>10 DEF Meets
    <3>2. WithSocket(staged, l) BY <2>11, <2>12 DEF WithSocket
    <3>3. Holds(Exact(staged ++ [error |-> NonEmpty, duration |-> Untold]), data)
      BY <1>5, <2>2, <3>1, <3>2, ToldFits
    <3> QED BY <3>3 DEF Failed
  <2>14. Catalogs["lifecycle"]["restart_failed_stop"] = Failed(Staged(StopFailure, "stop"))
    BY DEF Catalogs, LifecycleAudits
  <2>15. AgreeWithin("restart_failed_stop", data) BY DEF AgreeWithin
  <2> QED BY <2>1, <2>2, <2>4, <2>13, <2>14, <2>15 DEF Accepted, Holds
<1> QED BY <1>8, <1>9

\* A restart tells of a stop that ended stopped and of the start that began there.
LEMMA RestartCompletedAccepted ==
    ASSUME NEW returned \in StopOutcomes, NEW before \in Found, before.phase = "stopped",
           NEW seen \in Found, seen.phase = "ready", NEW m,
           DOMAIN m = {"stop_outcome", "stop_changed", "stop_from_phase", "stop_to_phase",
                       "start_outcome", "start_changed", "start_from_phase", "start_to_phase",
                             "pid"},
           m["stop_outcome"] = returned.outcome, m["stop_changed"] = HasChanged(returned),
           m["stop_from_phase"] = returned.before.phase, m["stop_to_phase"] = returned.status.phase,
           m["start_outcome"] = "started", m["start_changed"] = "true",
           m["start_from_phase"] = before.phase, m["start_to_phase"] = seen.phase,
           m["pid"] = seen.pid
    PROVE  Accepted("lifecycle", "restart_completed", ToldAs(m, "null"))
<1> DEFINE N == {"stop_outcome", "stop_changed", "stop_from_phase", "stop_to_phase",
      "start_outcome",
                 "start_changed", "start_from_phase", "start_to_phase", "pid"}
<1>1. PICK kinds : kinds = RestartCompleted OBVIOUS
<1>2. PICK k : k = [f \in N |-> kinds[f]] OBVIOUS
<1>3. /\ DOMAIN m = N
      /\ m["stop_outcome"] = returned.outcome /\ m["stop_changed"] = HasChanged(returned)
      /\ m["stop_from_phase"] = returned.before.phase /\ m["stop_to_phase"] = returned.status.phase
      /\ m["start_outcome"] = "started" /\ m["start_changed"] = "true"
      /\ m["start_from_phase"] = "stopped" /\ m["start_to_phase"] = "ready" /\ m["pid"] = seen.pid
  OBVIOUS
<1>4. DOMAIN kinds = N \cup {"socket"} /\ kinds["socket"] = NonEmpty BY <1>1 DEF RestartCompleted
<1>5. DOMAIN k = N /\ \A f \in N : k[f] = kinds[f] BY <1>2
<1>6. /\ returned.outcome \in {"stopped", "already_stopped"} /\ returned.before \in Found
      /\ returned.status.phase = "stopped" /\ HasChanged(returned) \in {"true", "false"}
  BY DEF StopOutcomes, Result, HasChanged
<1>7. /\ returned.before.phase \in Accepts(Phase) /\ seen.pid \in Accepts(Pid) BY <1>6, FoundFits
<1>8. ASSUME NEW f \in N PROVE m[f] \in Accepts(kinds[f])
  <2>1. CASE f \in {"stop_outcome", "stop_changed"}
    BY <1>1, <1>3, <1>6, <2>1 DEF RestartCompleted, Word, Only, Accepts, Bool, Bools
  <2>2. CASE f \in {"stop_to_phase", "start_outcome", "start_changed", "start_from_phase",
        "start_to_phase"}
    BY <1>1, <1>3, <1>6, <2>2 DEF RestartCompleted, Word, Only, Accepts, Bool, Bools
  <2>3. CASE f = "stop_from_phase" BY <1>1, <1>3, <1>7, <2>3 DEF RestartCompleted
  <2>4. CASE f = "pid" BY <1>1, <1>3, <1>7, <2>4 DEF RestartCompleted
  <2> QED BY <2>1, <2>2, <2>3, <2>4
<1>9. PICK data : data = ToldAs(m, "null") OBVIOUS
<1>10. Holds(Plain(kinds), data)
  <2>1. "null" \in Accepts(Untold) BY DEF Untold, Only, Accepts
  <2>2. DOMAIN m = DOMAIN k BY <1>3, <1>5
  <2>3. "socket" \notin DOMAIN k /\ "error" \notin DOMAIN k /\ "duration" \notin DOMAIN k BY <1>5
  <2>4. \A f \in DOMAIN k : m[f] \in Accepts(k[f]) BY <1>5, <1>8
  <2>5. DOMAIN kinds = DOMAIN k \cup {"socket"} BY <1>4, <1>5
  <2>6. \A f \in DOMAIN kinds : kinds[f] = IF f \in DOMAIN k THEN k[f] ELSE NonEmpty
    BY <1>4, <1>5, <2>5
  <2>7. Meets(m, k) BY <2>2, <2>4 DEF Meets
  <2>8. WithSocket(kinds, k) BY <2>3, <2>5, <2>6 DEF WithSocket
  <2> QED BY <1>9, <2>1, <2>7, <2>8, ToldFits DEF Plain
<1>11. /\ data.stop_changed = HasChanged(returned) /\ data.stop_outcome = returned.outcome
       /\ data.start_changed = "true" /\ data.start_outcome = "started"
  BY <1>3, <1>9 DEF ToldAs, ++
<1>12. Matches(data.stop_changed, data.stop_outcome) BY <1>6, <1>11, OutcomeMatches
<1>13. Matches(data.start_changed, data.start_outcome) BY <1>11 DEF Matches
<1>14. AgreeWithin("restart_completed", data) BY <1>12, <1>13 DEF AgreeWithin
<1>15. Catalogs["lifecycle"]["restart_completed"] = Plain(kinds)
  BY <1>1 DEF Catalogs, LifecycleAudits
<1> QED BY <1>9, <1>10, <1>14, <1>15 DEF Accepted, Holds

-----------------------------------------------------------------------------
(* Audits: every step *)

\* An accepted audit keeps what AuditInv says of the last one.
LEMMA ToldForeseen ==
    ASSUME NEW event, NEW m, NEW error, Told(event, m, error), Accepted("lifecycle", event,
          ToldAs(m, error))
    PROVE  Foreseen'
BY DEF Told, Tell, ToldAs, Foreseen

\* No command is under way when one has ended.
LEMMA CommandOverInv == ASSUME CommandOver PROVE CommandInv'
BY DEF CommandOver, CommandInv

\* Whatever the program tells besides.
LEMMA TellOfStep ==
    ASSUME AuditInv, NEW catalog \in DOMAIN AuditTells, NEW event \in DOMAIN AuditTells[catalog],
           TellOf(catalog, event)
    PROVE  AuditInv'
<1>1. CommandInv' BY DEF AuditInv, CommandInv, TellOf
<1>2. PICK data \in AuditTells[catalog][event] : told' = [catalog |-> catalog, event |-> event,
      data |-> data]
  BY DEF TellOf, Tell
<1>3. Strange(event, data) \/ Accepted(catalog, event, data)
  BY AuditsTaken DEF AllTaken, Taken, Accepted
<1>4. Foreseen' BY <1>2, <1>3 DEF Foreseen
<1> QED BY <1>1, <1>4 DEF AuditInv

\* A command is requested.
LEMMA BeginCommandStep ==
    ASSUME AuditInv, NEW wanted \in {"start", "stop", "restart"}, BeginCommand(wanted)
    PROVE  AuditInv'
<1>1. CommandInv' BY DEF AuditInv, CommandInv, BeginCommand
<1>2. PICK event \in {"start_requested", "stop_requested", "restart_requested"} :
         told' = [catalog |-> "lifecycle", event |-> event, data |-> [error |-> "null",
               duration |-> "null"]]
  BY DEF BeginCommand
<1>3. PICK data : data = [error |-> "null", duration |-> "null"] OBVIOUS
<1>4. Accepted("lifecycle", event, data)
  <2>1. Catalogs["lifecycle"][event] = Plain(NoMetadata) BY <1>2 DEF Catalogs, LifecycleAudits
  <2>2. DOMAIN data = Fields(Plain(NoMetadata)) BY <1>3 DEF Plain, NoMetadata, Exact, Fields, ++
  <2>3. Wrong(Plain(NoMetadata), data) = {}
    BY <1>3 DEF Plain, NoMetadata, Exact, Fields, ++, Wrong, Untold, Only, Accepts
  <2>4. AgreeWithin(event, data) BY <1>2 DEF AgreeWithin
  <2> QED BY <2>1, <2>2, <2>3, <2>4 DEF Accepted
<1>5. Foreseen' BY <1>2, <1>3, <1>4 DEF Foreseen
<1> QED BY <1>1, <1>5 DEF AuditInv

\* A stop returns: the command has ended, or the restart goes on from there.
LEMMA StopReturnsStep ==
    ASSUME AuditInv, StopStage, NEW before \in Found, NEW seen \in Found,
           NEW outcome \in {"stopped", "already_stopped"}, StopReturns(Result(before, seen,
                 outcome))
    PROVE  AuditInv'
<1>1. PICK returned : returned = Result(before, seen, outcome) OBVIOUS
<1>2. returned.status = seen BY <1>1 DEF Result
<1>3. CASE seen.phase # "stopped"
  BY <1>1, <1>2, <1>3, CommandOverInv DEF StopReturns, AuditInv, Foreseen
<1>4. CASE seen.phase = "stopped" /\ command = "stop"
  <2>1. CommandOver /\ Told("stop_completed", TransitionMetadata(returned), "null")
    BY <1>1, <1>2, <1>4 DEF StopReturns
  <2>2. Accepted("lifecycle", "stop_completed", ToldAs(TransitionMetadata(returned), "null"))
    BY <1>1, <1>4, StopCompletedAccepted
  <2> QED BY <2>1, <2>2, ToldForeseen, CommandOverInv DEF AuditInv
<1>5. CASE seen.phase = "stopped" /\ command # "stop"
  <2>1. command = "restart" BY <1>5 DEF StopStage
  <2>2. stopped' = returned /\ waiting' = Unseen /\ UNCHANGED <<command, told>>
    BY <1>1, <1>2, <1>5 DEF StopReturns
  <2>3. returned \in StopOutcomes BY <1>1, <1>5 DEF StopOutcomes
  <2> QED BY <2>1, <2>2, <2>3 DEF AuditInv, CommandInv, Foreseen
<1> QED BY <1>3, <1>4, <1>5

\* A stop fails.
LEMMA StopFailsStep ==
    ASSUME NEW reason \in {"request_failed", "ownership_check_failed", "timeout"},
           NEW seen \in Found \cup {Unknown}, StopFails(reason, seen)
    PROVE  AuditInv'
<1>1. PICK m : m = [reason |-> reason, phase |-> seen.phase, pid |-> seen.pid,
                    owner_active |-> OwnerActive(seen)]
  OBVIOUS
<1>2. /\ DOMAIN m = {"reason", "phase", "pid", "owner_active"} /\ m["reason"] = reason
      /\ m["phase"] = seen.phase /\ m["pid"] = seen.pid /\ m["owner_active"] = OwnerActive(seen)
  BY <1>1
<1>3. OwnerActive(seen) \in {"null", "true", "false"} BY DEF OwnerActive
<1>4. /\ Accepted("lifecycle", "stop_failed", ToldAs(m, "text"))
      /\ Accepted("lifecycle", "restart_failed_stop", ToldAs(m ++ [stage |-> "stop"], "text"))
  BY <1>2, <1>3, StopFailedAccepted
<1>5. \/ Told("stop_failed", m, "text")
      \/ Told("restart_failed_stop", m ++ [stage |-> "stop"], "text")
  BY <1>1 DEF StopFails
<1>6. Foreseen' BY <1>4, <1>5, ToldForeseen
<1> QED BY <1>6, CommandOverInv DEF StopFails, AuditInv

\* A start fails.
LEMMA StartFailsStep ==
    ASSUME NEW reason \in {"spawn_failed", "status_failed", "owner_unready", "process_exited",
          "timeout"},
           NEW seen \in Found \cup {Unknown}, NEW code \in {"null", "negative", "zero", "one"},
           StartFails(reason, seen, code)
    PROVE  AuditInv'
<1>1. PICK m : m = [reason |-> reason, phase |-> seen.phase, pid |-> seen.pid, exit_code |-> code]
  OBVIOUS
<1>2. /\ DOMAIN m = {"reason", "phase", "pid", "exit_code"} /\ m["reason"] = reason
      /\ m["phase"] = seen.phase /\ m["pid"] = seen.pid /\ m["exit_code"] = code
  BY <1>1
<1>3. /\ Accepted("lifecycle", "start_failed", ToldAs(m, "text"))
      /\ Accepted("lifecycle", "restart_failed_start", ToldAs(m ++ [stage |-> "start"], "text"))
  BY <1>2, StartFailedAccepted
<1>4. \/ Told("start_failed", m, "text")
      \/ Told("restart_failed_start", m ++ [stage |-> "start"], "text")
  BY <1>1 DEF StartFails
<1>5. Foreseen' BY <1>3, <1>4, ToldForeseen
<1> QED BY <1>5, CommandOverInv DEF StartFails, AuditInv

\* A restart is told of with the seen its stop ended with.
LEMMA StartReturnsStep ==
    ASSUME AuditInv, StartStage, NEW before \in Found, NEW seen \in Found, seen.phase = "ready",
           NEW outcome \in {"started", "already_ready"},
           command = "restart" => before.phase = "stopped" /\ outcome = "started",
           StartReturns(Result(before, seen, outcome))
    PROVE  AuditInv'
<1>1. PICK returned : returned = Result(before, seen, outcome) OBVIOUS
<1>2. returned.before = before /\ returned.status = seen /\ returned.outcome = outcome
  BY <1>1 DEF Result
<1>3. CASE command = "start"
  <2>1. Told("start_completed", TransitionMetadata(returned), "null") BY <1>1, <1>3 DEF StartReturns
  <2>2. Accepted("lifecycle", "start_completed", ToldAs(TransitionMetadata(returned), "null"))
    BY <1>1, StartCompletedAccepted
  <2> QED BY <2>1, <2>2, ToldForeseen, CommandOverInv DEF StartReturns, AuditInv
<1>4. CASE command # "start"
  <2>1. command = "restart" /\ stopped # Unseen BY <1>4 DEF StartStage
  <2>2. stopped \in StopOutcomes BY <2>1 DEF AuditInv, CommandInv
  <2>3. HasChanged(returned) = "true" BY <1>2, <2>1 DEF HasChanged
  <2>4. PICK m : m = [stop_outcome |-> stopped.outcome, stop_changed |-> HasChanged(stopped),
                      stop_from_phase |-> stopped.before.phase,
                            stop_to_phase |-> stopped.status.phase,
                      start_outcome |-> returned.outcome, start_changed |-> HasChanged(returned),
                      start_from_phase |-> returned.before.phase,
                            start_to_phase |-> returned.status.phase,
                      pid |-> returned.status.pid]
    OBVIOUS
  <2>5. /\ DOMAIN m = {"stop_outcome", "stop_changed", "stop_from_phase", "stop_to_phase",
                       "start_outcome", "start_changed", "start_from_phase", "start_to_phase",
                             "pid"}
        /\ m["stop_outcome"] = stopped.outcome /\ m["stop_changed"] = HasChanged(stopped)
        /\ m["stop_from_phase"] = stopped.before.phase /\ m["stop_to_phase"] = stopped.status.phase
        /\ m["start_outcome"] = "started" /\ m["start_changed"] = "true"
        /\ m["start_from_phase"] = before.phase /\ m["start_to_phase"] = seen.phase
        /\ m["pid"] = seen.pid
    BY <1>2, <2>1, <2>3, <2>4
  <2>6. Accepted("lifecycle", "restart_completed", ToldAs(m, "null"))
    BY <2>1, <2>2, <2>5, RestartCompletedAccepted
  <2>7. Told("restart_completed", m, "null") BY <1>1, <1>4, <2>4 DEF StartReturns
  <2> QED BY <2>6, <2>7, ToldForeseen, CommandOverInv DEF StartReturns, AuditInv
<1> QED BY <1>3, <1>4

\* A probe of a stop.
LEMMA StopLooksStep == ASSUME AuditInv, NEW seen \in Found, StopLooks(seen) PROVE AuditInv'
<1>1. CASE NotThere(seen) /\ waiting = Unseen
  BY <1>1, StopReturnsStep DEF StopLooks
<1>2. CASE NotThere(seen) /\ waiting # Unseen
  <2>1. waiting \in Found BY <1>2 DEF AuditInv, CommandInv
  <2> QED BY <1>2, <2>1, StopReturnsStep DEF StopLooks
<1>3. CASE ~NotThere(seen) /\ waiting = Unseen
  <2>1. waiting' = seen /\ UNCHANGED <<command, stopped, told>> BY <1>3 DEF StopLooks
  <2>2. command # "none" /\ stopped = Unseen BY DEF StopLooks, StopStage, AuditInv, CommandInv
  <2> QED BY <2>1, <2>2 DEF AuditInv, CommandInv, Foreseen
<1>4. CASE ~NotThere(seen) /\ waiting # Unseen
  BY <1>4, StopFailsStep DEF StopLooks
<1> QED BY <1>1, <1>2, <1>3, <1>4

\* A stop that cannot look, cannot ask or waits no longer.
LEMMA StopGivesUpStep == ASSUME AuditInv, StopGivesUp PROVE AuditInv'
<1>1. CASE StopFails("ownership_check_failed", Unknown) BY <1>1, StopFailsStep
<1>2. ASSUME NEW reason \in {"request_failed", "timeout"}, waiting # Unseen, StopFails(reason,
      waiting)
      PROVE  AuditInv'
  <2>1. waiting \in Found BY <1>2 DEF AuditInv, CommandInv
  <2> QED BY <1>2, <2>1, StopFailsStep
<1> QED BY <1>1, <1>2 DEF StopGivesUp

\* The first probe of a start, which a restart does without.
LEMMA StartFindsStep == ASSUME AuditInv, NEW seen \in Found, StartFinds(seen) PROVE AuditInv'
<1>1. command = "restart" => seen.phase = "stopped"
  <2>1. SUFFICES ASSUME command = "restart" PROVE seen.phase = "stopped" OBVIOUS
  <2>2. stopped \in StopOutcomes BY <2>1 DEF StartFinds, StartStage, AuditInv, CommandInv
  <2> QED BY <2>1, <2>2 DEF StartFinds, StopOutcomes, Result
<1>2. CASE seen.phase = "ready" BY <1>1, <1>2, StartReturnsStep DEF StartFinds
<1>3. CASE seen.phase = "owned_unready" BY <1>3, StartFailsStep DEF StartFinds
<1>4. CASE seen.phase = "inconsistent" BY <1>4, StartFailsStep DEF StartFinds
<1>5. CASE seen.phase \notin {"ready", "owned_unready", "inconsistent"}
  <2>1. CASE StartFails("spawn_failed", seen, "null") BY <2>1, StartFailsStep
  <2>2. CASE waiting' = seen /\ UNCHANGED <<command, stopped, told>>
    <3>1. seen.phase = "stopped" BY <1>5 DEF Found
    <3>2. command # "none" BY DEF StartFinds, StartStage, AuditInv, CommandInv
    <3> QED BY <2>2, <3>1, <3>2 DEF AuditInv, CommandInv, Foreseen
  <2> QED BY <1>5, <2>1, <2>2 DEF StartFinds
<1> QED BY <1>2, <1>3, <1>4, <1>5

\* A later probe of a start.
LEMMA StartLooksStep == ASSUME AuditInv, NEW seen \in Found, StartLooks(seen) PROVE AuditInv'
<1>1. waiting \in Found /\ (command = "restart" => waiting.phase = "stopped")
  BY DEF StartLooks, StartStage, AuditInv, CommandInv
<1>2. CASE seen.phase = "ready" BY <1>1, <1>2, StartReturnsStep DEF StartLooks
<1>3. CASE seen.phase # "ready" BY <1>3, StartFailsStep DEF StartLooks
<1> QED BY <1>2, <1>3

\* A start that cannot look.
LEMMA StatusUnknownStep == ASSUME AuditInv, StatusUnknown PROVE AuditInv'
BY StartFailsStep DEF StatusUnknown

\* An audit that a contract refuses is one of the three that Unforeseen names: it follows
\* from AuditInv, where a restart that has stopped the daemon waits from that seen.
THEOREM AuditsAlwaysAccepted == AuditSpec => []AuditsAccepted
<1>1. AuditInit => AuditInv BY DEF AuditInit, AuditInv, CommandInv, Foreseen
<1>2. AuditInv /\ [AuditNext]_auditVars => AuditInv'
  <2>1. SUFFICES ASSUME AuditInv, [AuditNext]_auditVars PROVE AuditInv' OBVIOUS
  <2>2. ASSUME NEW catalog \in DOMAIN AuditTells, NEW event \in DOMAIN AuditTells[catalog],
               TellOf(catalog, event)
        PROVE  AuditInv'
    BY <2>1, <2>2, TellOfStep
  <2>3. ASSUME NEW wanted \in {"start", "stop", "restart"}, BeginCommand(wanted) PROVE AuditInv'
    BY <2>1, <2>3, BeginCommandStep
  <2>4. ASSUME NEW seen \in Found, StopLooks(seen) PROVE AuditInv'
    BY <2>1, <2>4, StopLooksStep
  <2>5. ASSUME NEW seen \in Found, StartFinds(seen) PROVE AuditInv'
    BY <2>1, <2>5, StartFindsStep
  <2>6. ASSUME NEW seen \in Found, StartLooks(seen) PROVE AuditInv'
    BY <2>1, <2>6, StartLooksStep
  <2>7. CASE StopGivesUp BY <2>1, <2>7, StopGivesUpStep
  <2>8. CASE StatusUnknown BY <2>1, <2>8, StatusUnknownStep
  <2>9. CASE UNCHANGED auditVars BY <2>1, <2>9 DEF auditVars, AuditInv, CommandInv, Foreseen
  <2> QED BY <2>1, <2>2, <2>3, <2>4, <2>5, <2>6, <2>7, <2>8, <2>9 DEF AuditNext
<1>3. AuditInv => AuditsAccepted
  BY DEF AuditInv, Foreseen, Strange, AuditsAccepted, Unforeseen
<1> QED BY <1>1, <1>2, <1>3, PTL DEF AuditSpec
==============================================================================
