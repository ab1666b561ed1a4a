-------------------------- MODULE DeliveryProperties --------------------------
(***************************************************************************)
(* What makes deliveries correct, whatever the processes do and whenever   *)
(* they die.                                                               *)
(***************************************************************************)
EXTENDS Delivery

\* What an adapter has done for an item: it reached the channel, or the log
\* says that it has found none; or neither.
Reached(i, a) == effects[i][a] = 1 \/ <<i, a>> \in noted
Untouched(i, a) == effects[i][a] = 0 /\ <<i, a>> \notin noted

\* Each adapter of a record makes its channel act at most once, across
\* processes, crashes, retries of run_once and repeated `inbox send`
\* (DeliveryStore.begin, recover and the lock of DeliveryLoop.deliver); and
\* what the log says was not delivered was not, whichever process has written it.
AtMostOnce ==
    \A i \in Items, a \in Adapters :
        effects[i][a] <= 1 /\ (<<i, a>> \in noted => effects[i][a] = 0)

\* What the records tell the user: an adapter marked sent did act, or the log
\* has that there was no channel for it (macos.py); a record marked sent has
\* that of its whole plan; and only a planned adapter does anything.
HonestRecords ==
    /\ \A i \in Items, a \in Adapters :
          /\ result[i][a] = "sent" => Reached(i, a)
          /\ ~Untouched(i, a) => a \in plan[i]
    /\ \A i \in Items : status[i] = "sent" =>
          plan[i] # {} /\ \A a \in plan[i] : Reached(i, a)

\* A step of a delivery is covered by the record's lock, so that no two
\* processes carry out the same record; an attempt that is under way is marked
\* delivering, which is what a crash leaves behind for recover.
LockCoversAttempt ==
    \A p \in Procs :
        /\ pc[p] \in Covered => lock[item[p]] = p
        /\ pc[p] \in {"send", "finish"}
              => result[item[p]][adapter[p]] = "delivering"

\* What a process in the middle of a delivery knows of its record: it is
\* pending, its adapters left to do are in the plan, and the channel of the
\* adapter it is about to call has not acted, nor been looked for in vain.
DelivererShape ==
    \A p \in Procs :
        LET i == item[p]  a == adapter[p] IN
        /\ pc[p] \in Covered => status[i] = "pending"
        /\ pc[p] \in {"loop", "send", "finish"} => todo[p] \subseteq plan[i]
        /\ pc[p] = "send" => Untouched(i, a)
        /\ pc[p] = "finish" /\ success[p] => Reached(i, a)

\* How a record's parts agree: the results are those of the planned adapters,
\* one that is yet to be attempted has not acted, and a finished record has a
\* plan with nothing left to do.
RecordShape ==
    \A i \in Items :
        /\ \A a \in Adapters :
              /\ result[i][a] = "none" <=> a \notin plan[i]
              /\ result[i][a] \in {"none", "pending"} => Untouched(i, a)
              /\ result[i][a] = "sent" => Reached(i, a)
        /\ status[i] = "sent" =>
              plan[i] # {} /\ \A a \in plan[i] : result[i][a] = "sent"

\* The inductive invariant behind the safety properties.
DeliveryInv ==
    /\ DeliveryTypeOK
    /\ AtMostOnce
    /\ LockCoversAttempt
    /\ DelivererShape
    /\ RecordShape

\* A finished record is final: no process changes its status, its plan or a
\* result, and no adapter is attempted for it again. A plan once frozen keeps
\* its adapters whatever another process is configured with.
FinalRecords ==
    [][\A i \in Items :
          /\ status[i] \in {"sent", "failed"} =>
                /\ status'[i] = status[i]
                /\ plan'[i] = plan[i] /\ result'[i] = result[i]
                /\ effects'[i] = effects[i]
                /\ \A a \in Adapters : <<i, a>> \in noted' <=> <<i, a>> \in noted
          /\ plan[i] # {} => plan'[i] = plan[i]]_deliveryVars

\* A requested delivery is brought to an end, sent or failed, although sends
\* raise, clients compete for its lock and processes die (finitely often).
RequestsFinish ==
    \A i \in Items : status[i] = "pending" ~> status[i] \in {"sent", "failed"}

-----------------------------------------------------------------------------
(* Said of the code, and not true of it: TLC has a counterexample. *)

\* delivery.md: adapters "return only delivery success". One that has found no
\* osascript returns it, too, and the record of an item nobody was shown is sent.
SentIsShown ==
    \A i \in Items : status[i] = "sent" => \A a \in plan[i] : effects[i][a] = 1
=============================================================================
