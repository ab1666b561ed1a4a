----------------------------- MODULE TaskContract -----------------------------
(***************************************************************************)
(* What the daemon scheduler promises to the threads that submit to it,    *)
(* with no clock, no priorities, no dispatcher and no executor: admission  *)
(* is bounded and exclusive per identity, execution is bounded and         *)
(* exclusive per resource, and every admitted ticket is settled once, by a *)
(* result, an error or a cancellation.                                     *)
(***************************************************************************)
EXTENDS Naturals, FiniteSets

CONSTANTS Identities, Resources, MaxConcurrency, QueueCapacity

VARIABLES
    open,      \* tickets are still admitted
    issued,    \* number of tickets issued so far
    waiting,   \* tickets admitted and not started
    started,   \* tickets whose resource is held
    released,  \* tickets executed, with identity and resource given back
    settled    \* what was reported for a ticket

contractVars == <<open, issued, waiting, started, released, settled>>

Ticket == [id : Identities, res : Resources, seq : Nat]
Report == [seq : Nat, how : {"result", "error", "cancelled"}]

ContractInit ==
    /\ open = TRUE
    /\ issued = 0
    /\ waiting = {}
    /\ started = {}
    /\ released = {}
    /\ settled = {}

\* Tickets that hold their identity.
Held == waiting \cup started

Admit(id, res) ==
    /\ open
    /\ \A k \in Held : k.id # id
    /\ Cardinality(Held) < QueueCapacity
    /\ waiting' = waiting \cup {[id |-> id, res |-> res, seq |-> issued]}
    /\ issued' = issued + 1
    /\ UNCHANGED <<open, started, released, settled>>

Begin(k) ==
    /\ k \in waiting
    /\ \A r \in started : r.res # k.res
    /\ Cardinality(started) < MaxConcurrency
    /\ waiting' = waiting \ {k}
    /\ started' = started \cup {k}
    /\ UNCHANGED <<open, issued, released, settled>>

\* The ticket gives its identity and its resource back; the identity may be
\* admitted again in the same step, in the place it leaves free.
Release(k) ==
    /\ k \in started
    /\ started' = started \ {k}
    /\ released' = released \cup {k}
    /\ \/ UNCHANGED <<issued, waiting>>
       \/ /\ open
          /\ waiting' = waiting \cup
               {[id |-> k.id, res |-> k.res, seq |-> issued]}
          /\ issued' = issued + 1
    /\ UNCHANGED <<open, settled>>

Settle(k, how) ==
    /\ k \in released
    /\ \A r \in settled : r.seq # k.seq
    /\ released' = released \ {k}
    /\ settled' = settled \cup {[seq |-> k.seq, how |-> how]}
    /\ UNCHANGED <<open, issued, waiting, started>>

\* Admission closes for good; all the waiting tickets are cancelled, or none.
Close ==
    /\ open' = FALSE
    /\ \/ /\ \A k \in waiting : \A r \in settled : r.seq # k.seq
          /\ waiting' = {}
          /\ settled' = settled \cup
               {[seq |-> k.seq, how |-> "cancelled"] : k \in waiting}
       \/ UNCHANGED <<waiting, settled>>
    /\ UNCHANGED <<issued, started, released>>

ContractNext ==
    \/ \E id \in Identities, res \in Resources : Admit(id, res)
    \/ \E k \in waiting : Begin(k)
    \/ \E k \in started : Release(k)
    \/ \E k \in released, how \in {"result", "error"} : Settle(k, how)
    \/ Close

ContractSpec == ContractInit /\ [][ContractNext]_contractVars
=============================================================================
