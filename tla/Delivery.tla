------------------------------- MODULE Delivery -------------------------------
(***************************************************************************)
(* Delivery of Inbox items through external channels                       *)
(* (src/nuself/delivery, src/nuself/inbox).                                *)
(*                                                                         *)
(* Several processes deliver: the daemon, whose delivery.run task walks    *)
(* the pending records, and every `inbox send` of a CLI or REPL process.   *)
(* They share the records and the Inbox in one database, one transaction   *)
(* per step here, and exclude each other by a file lock per record, which  *)
(* the kernel drops when a process dies. The channel (an SMTP server, the  *)
(* desktop) is outside: effects counts what it was made to do. Where a     *)
(* process finds no channel, as without osascript, its adapter writes that *)
(* to the log and reports success.                                         *)
(***************************************************************************)
EXTENDS Naturals, FiniteSets

CONSTANTS
    Items,       \* Inbox item ids, which also name the delivery records
    Adapters,    \* adapter ids
    Daemons,     \* processes that run the delivery loop
    Clients,     \* processes that run `inbox send`
    Configured,  \* the adapters each process is configured with
    Mute,        \* those of them whose channel the process has not found, or must not use (dry_run)
    Nobody,      \* the holder of a free lock
    MaxCrashes   \* bound: how many processes die

Procs == Daemons \cup Clients

ASSUME NonEmptyAssumption == Items # {} /\ Adapters # {}
ASSUME ConfiguredAssumption ==
    Configured \in [Procs -> (SUBSET Adapters) \ {{}}]
ASSUME MuteAssumption ==
    Mute \in [Procs -> SUBSET Adapters] /\ \A p \in Procs : Mute[p] \subseteq Configured[p]
ASSUME NobodyAssumption == Nobody \notin Procs
ASSUME CrashAssumption == MaxCrashes \in Nat

VARIABLES
    inbox,       \* status of each Inbox item
    publishing,  \* items added by a publisher that has yet to request delivery
    status,      \* aggregate status of each delivery record
    plan,        \* required_adapters of each record
    result,      \* status of each adapter of a record
    attempts,    \* attempts of each adapter of a record
    effects,     \* times the channel was made to act
    noted,       \* the items and adapters the log says have found no channel
    lock,        \* holder of each record's file lock
    pc, item, todo, present, adapter, success, queue,
                 \* the delivery each process is carrying out
    crashes

recordVars == <<status, plan, result, attempts>>
procVars == <<pc, item, todo, present, adapter, success, queue>>
outside == <<effects, noted>>
deliveryVars == <<inbox, publishing, recordVars, outside, lock, procVars, crashes>>

InboxStatuses == {"absent", "pending", "read", "dismissed", "resolved"}
AdapterStatuses ==
    {"none", "pending", "delivering", "sent", "failed", "uncertain"}
Covered == {"prepare", "recover", "lookup", "loop", "send", "finish"}
Steps == {"idle", "request", "lock"} \cup Covered

DeliveryTypeOK ==
    /\ inbox \in [Items -> InboxStatuses]
    /\ publishing \subseteq Items
    /\ status \in [Items -> {"none", "pending", "sent", "failed"}]
    /\ plan \in [Items -> SUBSET Adapters]
    /\ result \in [Items -> [Adapters -> AdapterStatuses]]
    /\ attempts \in [Items -> [Adapters -> Nat]]
    /\ effects \in [Items -> [Adapters -> Nat]]
    /\ noted \subseteq Items \X Adapters
    /\ lock \in [Items -> Procs \cup {Nobody}]
    /\ pc \in [Procs -> Steps]
    /\ item \in [Procs -> Items]
    /\ todo \in [Procs -> SUBSET Adapters]
    /\ present \in [Procs -> BOOLEAN]
    /\ adapter \in [Procs -> Adapters]
    /\ success \in [Procs -> BOOLEAN]
    /\ queue \in [Procs -> SUBSET Items]
    /\ crashes \in Nat

DeliveryInit ==
    /\ inbox = [i \in Items |-> "absent"]
    /\ publishing = {}
    /\ status = [i \in Items |-> "none"]
    /\ plan = [i \in Items |-> {}]
    /\ result = [i \in Items |-> [a \in Adapters |-> "none"]]
    /\ attempts = [i \in Items |-> [a \in Adapters |-> 0]]
    /\ effects = [i \in Items |-> [a \in Adapters |-> 0]]
    /\ noted = {}
    /\ lock = [i \in Items |-> Nobody]
    /\ pc = [p \in Procs |-> "idle"]
    /\ item \in [Procs -> {CHOOSE i \in Items : TRUE}]
    /\ todo = [p \in Procs |-> {}]
    /\ present = [p \in Procs |-> FALSE]
    /\ adapter \in [Procs -> {CHOOSE a \in Adapters : TRUE}]
    /\ success = [p \in Procs |-> FALSE]
    /\ queue = [p \in Procs |-> {}]
    /\ crashes = 0

-----------------------------------------------------------------------------
(* The Inbox: publishers and the user *)

\* InboxService.add, idempotent by the item's key, from a publisher that goes
\* on to request delivery where it is configured to (auto_notify).
Publish(i, deliver) ==
    /\ inbox' = [inbox EXCEPT ![i] = IF @ = "absent" THEN "pending" ELSE @]
    /\ publishing' = IF deliver THEN publishing \cup {i} ELSE publishing
    /\ UNCHANGED <<recordVars, outside, lock, procVars, crashes>>

\* The record delivery of an item starts from, unless it has one already.
NewRecord(i) == IF status[i] = "none" THEN [status EXCEPT ![i] = "pending"]
                                      ELSE status

\* DeliveryService.request by the publisher. The item may be gone by then.
PublisherRequests(i) ==
    /\ i \in publishing
    /\ publishing' = publishing \ {i}
    /\ status' = NewRecord(i)
    /\ UNCHANGED <<inbox, plan, result, attempts, outside, lock, procVars,
                   crashes>>

\* mark_read, dismiss and resolve: any status may follow any other.
Transition(i, s) ==
    /\ inbox[i] # "absent"
    /\ inbox' = [inbox EXCEPT ![i] = s]
    /\ UNCHANGED <<publishing, recordVars, outside, lock, procVars, crashes>>

\* clear: the items in the selected terminal statuses are deleted.
Clear(selected) ==
    /\ inbox' = [i \in Items |->
                    IF inbox[i] \in selected THEN "absent" ELSE inbox[i]]
    /\ UNCHANGED <<publishing, recordVars, outside, lock, procVars, crashes>>

-----------------------------------------------------------------------------
(* One delivery, by process p *)

Goto(p, step) == pc' = [pc EXCEPT ![p] = step]

\* The delivery ends, normally or by an exception: the lock is released.
Leave(p) ==
    /\ lock' = [lock EXCEPT ![item[p]] = Nobody]
    /\ Goto(p, "idle")

\* run_once lists the pending records once, and goes through that list.
RunOnce(p) ==
    /\ pc[p] = "idle" /\ queue[p] = {}
    /\ queue' = [queue EXCEPT ![p] = {i \in Items : status[i] = "pending"}]
    /\ UNCHANGED <<inbox, publishing, recordVars, outside, lock, pc, item,
                   todo, present, adapter, success, crashes>>

NextOfQueue(p, i) ==
    /\ pc[p] = "idle" /\ i \in queue[p]
    /\ queue' = [queue EXCEPT ![p] = @ \ {i}]
    /\ item' = [item EXCEPT ![p] = i]
    /\ Goto(p, "lock")
    /\ UNCHANGED <<inbox, publishing, recordVars, outside, lock, todo, present,
                   adapter, success, crashes>>

\* `inbox send` finds the item, requests its delivery and carries it out.
ClientSend(p, i) ==
    /\ pc[p] = "idle" /\ inbox[i] # "absent"
    /\ item' = [item EXCEPT ![p] = i]
    /\ Goto(p, "request")
    /\ UNCHANGED <<inbox, publishing, recordVars, outside, lock, todo, present,
                   adapter, success, queue, crashes>>

ClientRequests(p) ==
    /\ pc[p] = "request"
    /\ status' = NewRecord(item[p])
    /\ Goto(p, "lock")
    /\ UNCHANGED <<inbox, publishing, plan, result, attempts, outside, lock,
                   item, todo, present, adapter, success, queue, crashes>>

\* Fault: the lock does not exclude.
AlwaysFree(i) == TRUE

LockFree(i) == lock[i] = Nobody

StillPending(i) == status[i] = "pending"

\* The file lock, and the test of the record's status behind it.
Acquire(p) ==
    /\ pc[p] = "lock" /\ LockFree(item[p])
    /\ IF StillPending(item[p])
       THEN /\ lock' = [lock EXCEPT ![item[p]] = p]
            /\ Goto(p, "prepare")
       ELSE Goto(p, "idle") /\ UNCHANGED lock
    /\ UNCHANGED <<inbox, publishing, recordVars, outside, item, todo, present,
                   adapter, success, queue, crashes>>

\* Fault: each process puts its own adapters in.
Replanned(i, p) == TRUE

NotPlanned(i, p) == plan[i] = {}

\* prepare freezes the plan of the first process that gets here.
Prepare(p) ==
    LET i == item[p] IN
    /\ pc[p] = "prepare"
    /\ IF NotPlanned(i, p)
       THEN /\ plan' = [plan EXCEPT ![i] = Configured[p]]
            /\ result' = [result EXCEPT ![i] = [a \in Adapters |->
                  IF a \in Configured[p] THEN "pending" ELSE "none"]]
       ELSE UNCHANGED <<plan, result>>
    /\ Goto(p, "recover")
    /\ UNCHANGED <<inbox, publishing, status, attempts, outside, lock, item,
                   todo, present, adapter, success, queue, crashes>>

\* Fault: an interrupted attempt is tried again.
Retried(r) == IF r = "delivering" THEN "pending" ELSE r

\* What an interrupted attempt becomes.
Recovered(r) == IF r = "delivering" THEN "uncertain" ELSE r

Recover(p) ==
    LET i == item[p] IN
    /\ pc[p] = "recover"
    /\ result' = [result EXCEPT ![i] =
                     [a \in Adapters |-> Recovered(result[i][a])]]
    /\ Goto(p, "lookup")
    /\ UNCHANGED <<inbox, publishing, status, plan, attempts, outside, lock,
                   item, todo, present, adapter, success, queue, crashes>>

\* inbox.get, and the start of the loop over the frozen plan.
Lookup(p) ==
    /\ pc[p] = "lookup"
    /\ present' = [present EXCEPT ![p] = inbox[item[p]] # "absent"]
    /\ todo' = [todo EXCEPT ![p] = plan[item[p]]]
    /\ Goto(p, "loop")
    /\ UNCHANGED <<inbox, publishing, recordVars, outside, lock, item, adapter,
                   success, queue, crashes>>

\* An adapter whose result is known is passed over.
Skip(p, a) ==
    /\ pc[p] = "loop" /\ a \in todo[p]
    /\ result[item[p]][a] # "pending"
    /\ todo' = [todo EXCEPT ![p] = @ \ {a}]
    /\ UNCHANGED <<inbox, publishing, recordVars, outside, lock, pc, item,
                   present, adapter, success, queue, crashes>>

\* begin: the attempt is recorded before it is made. With the Inbox item gone
\* it is recorded as failed without one.
Begin(p, a) ==
    LET i == item[p] IN
    /\ pc[p] = "loop" /\ a \in todo[p]
    /\ result[i][a] = "pending"
    /\ todo' = [todo EXCEPT ![p] = @ \ {a}]
    /\ adapter' = [adapter EXCEPT ![p] = a]
    /\ result' = [result EXCEPT ![i][a] = "delivering"]
    /\ attempts' = [attempts EXCEPT ![i][a] = @ + 1]
    /\ success' = [success EXCEPT ![p] = FALSE]
    /\ Goto(p, IF present[p] THEN "send" ELSE "finish")
    /\ UNCHANGED <<inbox, publishing, status, plan, outside, lock, item,
                   present, queue, crashes>>

\* What adapter.send does by process p: the channel acts, or, where p has found
\* none, the log says so.
Does(p, done) ==
    LET i == item[p]  a == adapter[p] IN
    /\ effects' = [effects EXCEPT ![i][a] = IF done /\ a \notin Mute[p] THEN @ + 1 ELSE @]
    /\ noted' = IF done /\ a \in Mute[p] THEN noted \cup {<<i, a>>} ELSE noted

\* adapter.send returns. A channel that is there may fail before or after its
\* effect (an SMTP session that breaks); without one the log has an entry, and
\* that is a success. An adapter p is not configured with fails at once.
Send(p, done, ok) ==
    /\ pc[p] = "send"
    /\ ok => done
    /\ adapter[p] \in Mute[p] => ok
    /\ done => adapter[p] \in Configured[p]
    /\ Does(p, done)
    /\ success' = [success EXCEPT ![p] = ok]
    /\ Goto(p, "finish")
    /\ UNCHANGED <<inbox, publishing, recordVars, lock, item, todo, present,
                   adapter, queue, crashes>>

\* adapter.send raises: the exception leaves deliver, and run_once with it.
SendRaises(p, done) ==
    /\ pc[p] = "send"
    /\ adapter[p] \in Configured[p]
    /\ Does(p, done)
    /\ Leave(p)
    /\ queue' = [queue EXCEPT ![p] = {}]
    /\ UNCHANGED <<inbox, publishing, recordVars, item, todo, present, adapter,
                   success, crashes>>

\* Fault: the stored result has a status the codec refuses.
Delivered(ok) == IF ok THEN "delivered" ELSE "failed"

\* Fault: whatever the adapter reports is taken for success.
Optimistic(ok) == "sent"

Reported(ok) == IF ok THEN "sent" ELSE "failed"

Finish(p) ==
    /\ pc[p] = "finish"
    /\ result' = [result EXCEPT ![item[p]][adapter[p]] = Reported(success[p])]
    /\ Goto(p, "loop")
    /\ UNCHANGED <<inbox, publishing, status, plan, attempts, outside, lock,
                   item, todo, present, adapter, success, queue, crashes>>

\* Fault: an uncertain adapter keeps the record pending.
AggregateOpenEnded(i) ==
    LET states == {result[i][a] : a \in plan[i]}
    IN  IF states \cap {"pending", "delivering", "uncertain"} # {}
        THEN "pending"
        ELSE IF states = {"sent"} THEN "sent" ELSE "failed"

\* finalize's aggregate of the adapters' results.
Aggregate(i) ==
    LET states == {result[i][a] : a \in plan[i]}
    IN  IF states = {} \/ states \cap {"pending", "delivering"} # {}
        THEN "pending"
        ELSE IF states = {"sent"} THEN "sent" ELSE "failed"

Finalize(p) ==
    /\ pc[p] = "loop" /\ todo[p] = {}
    /\ status' = [status EXCEPT ![item[p]] = Aggregate(item[p])]
    /\ Leave(p)
    /\ UNCHANGED <<inbox, publishing, plan, result, attempts, outside, item,
                   todo, present, adapter, success, queue, crashes>>

\* A process dies between two steps: the kernel drops its locks, and a daemon
\* takes its publishers with it.
Crash(p) ==
    /\ crashes < MaxCrashes
    /\ crashes' = crashes + 1
    /\ lock' = [i \in Items |-> IF lock[i] = p THEN Nobody ELSE lock[i]]
    /\ Goto(p, "idle")
    /\ queue' = [queue EXCEPT ![p] = {}]
    /\ publishing' = IF p \in Daemons THEN {} ELSE publishing
    /\ UNCHANGED <<inbox, recordVars, outside, item, todo, present, adapter,
                   success>>

-----------------------------------------------------------------------------

\* A step of a delivery that is under way.
Deliver(p) ==
    \/ \E i \in Items : NextOfQueue(p, i)
    \/ ClientRequests(p)
    \/ Acquire(p)
    \/ Prepare(p)
    \/ Recover(p)
    \/ Lookup(p)
    \/ \E a \in Adapters : Skip(p, a) \/ Begin(p, a)
    \/ \E done, ok \in BOOLEAN : Send(p, done, ok)
    \/ \E done \in BOOLEAN : SendRaises(p, done)
    \/ Finish(p)
    \/ Finalize(p)

DeliveryNext ==
    \/ \E i \in Items, deliver \in BOOLEAN : Publish(i, deliver)
    \/ \E i \in Items : PublisherRequests(i)
    \/ \E i \in Items, s \in {"read", "dismissed", "resolved"} : Transition(i, s)
    \/ \E selected \in {{"dismissed"}, {"resolved"}, {"dismissed", "resolved"}} :
          Clear(selected)
    \/ \E p \in Daemons : RunOnce(p)
    \/ \E p \in Clients, i \in Items : ClientSend(p, i)
    \/ \E p \in Procs : Deliver(p)
    \/ \E p \in Procs : Crash(p)

DeliverySpec == DeliveryInit /\ [][DeliveryNext]_deliveryVars

\* The scheduler keeps running delivery.run, and a process that lives goes on
\* with the delivery it is in: every adapter returns or raises in time.
FairDeliverySpec ==
    /\ DeliverySpec
    /\ \A p \in Procs : WF_deliveryVars(Deliver(p))
    /\ \A p \in Daemons : WF_deliveryVars(RunOnce(p))
=============================================================================
