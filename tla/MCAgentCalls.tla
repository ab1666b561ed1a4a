----------------------------- MODULE MCAgentCalls -----------------------------
(* Two endpoints; one tool that reads, one that writes, two that ask first:
   one tells its arguments, the other does not. *)
EXTENDS AgentCalls

MCConfigured == <<1, 2>>
MCOrder == <<[tool |-> "search", args |-> 1], [tool |-> "write", args |-> 1],
             [tool |-> "create", args |-> 1], [tool |-> "create", args |-> 2],
             [tool |-> "dismiss", args |-> 1], [tool |-> "dismiss", args |-> 2]>>
MCCalls == Range(MCOrder)
MCFewCalls == {[tool |-> "search", args |-> 1], [tool |-> "write", args |-> 1]}

\* Callers share only the file of the last endpoint, which is written in one step and read
\* when the application is composed: an advance may as well run after the chats, and only
\* after those that called nothing that acts, for it sees no difference.
ChatsFirst ==
    \A a \in Advances, c \in Chats :
       at[a].step # "idle" =>
          at[c].step \in {"answered", "canned", "raised"} /\ acted[c] = {} /\ approved[c] = {}

\* The calls of an answer run side by side: which slot has which makes no difference.
Rank(call) == CHOOSE i \in DOMAIN MCOrder : MCOrder[i] = call
InOrder ==
    \A c \in Callers :
       LET calls == [s \in Slots |-> at[c].slots[s].call] IN
       None \notin Range(calls) => Rank(calls[1]) <= Rank(calls[2])

\* Two different decisions for a run; each may arrive any number of times.
FewDecisions == \A c \in Chats : Cardinality(sent[c]) <= 2

Bounds == ChatsFirst /\ InOrder /\ FewDecisions
=============================================================================
