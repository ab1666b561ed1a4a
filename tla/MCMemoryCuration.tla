-------------------------- MODULE MCMemoryCuration --------------------------
(* An instance of MemoryCuration for TLC: two observations and two curators,  *)
(* or one of each beside two users.                                           *)
EXTENDS MemoryCurationProperties

CONSTANTS o1, p1,
          MaxAsked  \* bound: what users do, all together

Asked == spent'.reviews + spent'.edits + spent'.discards

\* A plan of two actions begins with a creation. The curator that dies is called p1. A
\* behaviour has at most two of: a death, a refusal, a failed decision. Users act
\* beside a single curator, which plans one entry of one observation.
UsersOrCurators ==
    /\ spent'.crashes # spent.crashes => pc[p1] # "idle" /\ pc'[p1] = "idle"
    /\ spent'.crashes + spent'.refusals + spent'.deferrals <= 2
    /\ \A o \in Observations : plan'[o] # None /\ Len(plan'[o].actions) > 1 =>
          Head(plan'[o].actions).action = "create"
    /\ Asked > 0 =>
       /\ Asked <= MaxAsked
       /\ spent'.deferrals = 0 /\ spent'.refusals = 0
       /\ \A o \in Observations \ {o1} : observation'[o] = "absent"
       /\ \A p \in Curators \ {p1} : pc'[p] = "idle" /\ listed'[p] = {}
       /\ plan'[o1] = None \/ (/\ Len(plan'[o1].actions) <= 1
                               /\ \A a \in Range(plan'[o1].actions) : a.kind = "entry")
=============================================================================
