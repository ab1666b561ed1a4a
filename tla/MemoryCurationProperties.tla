---------------------- MODULE MemoryCurationProperties ----------------------
(***************************************************************************)
(* What MemoryCuration is meant to guarantee.                              *)
(***************************************************************************)
EXTENDS MemoryCuration

Occurrences(c) ==
    {place \in UNION {{x} \X DOMAIN items[x] : x \in Known} :
        items[place[1]][place[2]] = c}

\* No user has decided on a candidate or discarded a plan so far.
Unattended == spent.reviews = 0 /\ spent.discards = 0

\* A candidate goes into memory once: a plan that is resumed after a crash,
\* and a second curator of the same observation, find what was accepted.
AppliedOnce ==
    Unattended => \A c \in Candidates : Cardinality(Occurrences(c)) <= 1

\* A processed observation left nothing undone. Every creation its plan
\* decided on was staged from that very plan, and whatever was staged went
\* into memory unless an acceptance raised, although the curator may have died
\* between any two steps.
\* The plan is the one the curator is about to remove.
CarriedOut ==
    \A p \in Curators :
       Unattended /\ pc[p] = "complete" =>
          LET done == at[p].plan IN
          \A k \in 1..Len(done.actions) :
             LET a == done.actions[k]  c == candidate[<<at[p].on, k>>] IN
             /\ a.action = "create" => c # None
             /\ c # None => c.plan = done.id
                            /\ (AutoAccept /\ spent.refusals = 0 => c.state = "accepted")

\* What an accepted candidate brought stays in its item as long as the item is
\* there, whoever else accepts, merges, discards or dies meanwhile. This is so
\* until somebody edits an entry, which saves it with the sources read before, and
\* for the only fact about the user that an observation has brought (users, who could
\* have deleted the other candidate, kept out).
Accepted(c) == candidate[c] # None /\ candidate[c].state = "accepted"
OnlyFact(c) ==
    candidate[c].kind = "profile" =>
        /\ Unattended
        /\ \A d \in Candidates \ {c} :
              Accepted(d) /\ candidate[d].action = "create" => candidate[d].target # candidate[c].target
AcceptedIsKept ==
    \A c \in Candidates :
       spent.edits = 0 /\ Accepted(c) /\ OnlyFact(c) /\ candidate[c].target \in Known
       => Contains(items[candidate[c].target], c)

\* The safety of curation in one formula.
CurationSafe == TypeOK /\ AppliedOnce /\ CarriedOut /\ AcceptedIsKept

\* An observation in the inbox is processed in the end, with curators that
\* contend and die, and an agent that fails.
ObservationProcessed ==
    \A o \in Observations : observation[o] = "pending" ~> observation[o] = "processed"

-----------------------------------------------------------------------------
(* Said of the code, and not true of it: TLC has a counterexample to each. *)

\* memory.md: "After the observation is marked processed, its plan is removed", by the
\* curator that marked it or, if that one died in between, by another.
PlansRemoved ==
    \A o \in Observations : observation[o] = "processed" ~> plan[o] = None

\* memory.md: "an accepted candidate is not staged or accepted again", whoever decides.
AcceptedByOne ==
    \A c \in Candidates : Cardinality(Occurrences(c)) <= 1

\* memory.md: "Accept `create`: Converts to `MemoryEntry` (or `ProfileItem`)". Two facts
\* of one observation are given one item, and the second replaces the first.
FactsKept ==
    \A c \in Candidates :
       spent.edits = 0 /\ Accepted(c) /\ candidate[c].target \in Known
       => Contains(items[candidate[c].target], c)

\* memory.md: the review states accepted and rejected are final.
DecisionsFinal ==
    [][\A c \in Candidates :
          candidate[c] # None /\ candidate'[c] # None
             /\ candidate[c].state \in {"accepted", "rejected"}
          => candidate'[c].state = candidate[c].state]_vars
=============================================================================
