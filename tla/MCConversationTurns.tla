-------------------------- MODULE MCConversationTurns --------------------------
(* An instance of ConversationTurns for TLC: two conversations with a lane    *)
(* each, a one-shot process with or without an endpoint, a client of the daemon. *)
EXTENDS ConversationTurnsProperties

CONSTANTS n1, t1,
          MaxSteps  \* bound: submissions and management together

\* Two calls of one tool that ask the same.
AskAlike == [k \in 1..MaxCalls |-> 1]

Asked ==
    {<<client[c].name, client[c].chat.turn>> : c \in {d \in Clients : client[d].state = "waiting"}}
    \cup {<<job[p].name, job[p].chat.turn>> : p \in {q \in Locals : pc[q] # "idle"}}

\* The first chat is the first turn of the first conversation, and the other one begins
\* as its copy, renamed or branched. (Turns are alike, and lanes do not meet before.)
BeginsHere ==
    /\ submissions' + managed' <= MaxSteps
    /\ submissions' # submissions =>
       /\ submissions = 0 => Asked' \subseteq {<<n1, t1>>}
       /\ \A chat \in Asked' : chat[1] = n1 \/ conv[chat[1]] # Absent \/ chat \in Asked
=============================================================================
