---------------------- MODULE ConversationTurnsProperties ----------------------
(***************************************************************************)
(* What ConversationTurns is meant to guarantee.                           *)
(***************************************************************************)
EXTENDS ConversationTurns

Locked == {"begin", "respond", "resumed", "commit"}
Running == {"respond", "resumed", "commit"}

Stored(s, t) == \E k \in DOMAIN s.messages : Says(s.messages[k], "assistant", t)
Heard(s, t) == \E k \in DOMAIN s.messages : Says(s.messages[k], "user", t)

\* ConversationStore.update serializes turns without a database transaction
\* around the model: from the read of the conversation to its write the update
\* has the file lock, and the conversation stays what the turn was run on, so
\* the "changed concurrently" error of the final transaction never comes up.
UpdatesSerialized ==
    \A p \in Procs :
       /\ pc[p] \in Locked => lock[job[p].name] = p
       /\ pc[p] \in Running => conv[job[p].name] = original[p]

\* A call that needs approval is executed at most once per turn, however often
\* the turn is sent, joined, resumed or retried, by daemon and one-shot
\* processes, and whoever dies (the marker of store.py and the continuation
\* registry of response.py together). This is so until a compression forgets
\* the messages of the conversation, or its user deletes it.
ApprovedOnce ==
    \A id \in Names \X Turns, k \in Calls :
       conv[id[1]] # Absent /\ conv[id[1]].start = 0 /\ managed = 0
       => effects[id][k] <= 1

\* The marker of an unfinished turn leaves a conversation only in the write
\* that leaves the turn's reply there: a failed, suspended or interrupted turn
\* keeps it, whatever else happens to the conversation.
FailClosed ==
    [][\A n \in Names :
          conv[n] # Absent /\ conv'[n] # Absent
             => \A m \in conv[n].pending \ conv'[n].pending :
                   Stored(conv'[n], m.turn)]_vars

HasIndex(s, i) == i >= s.start /\ i < NextIndex(s)
At(s, i) == s.messages[i - s.start + 1]
Permanent(s, i) == HasIndex(s, i) /\ Prompted(At(s, i))

\* A message keeps the index it was given as long as its conversation keeps
\* it, and no index is given out below one that was in use, through turns,
\* compressions, archiving and retries. Replies made without an endpoint give
\* their index up to the next message. (Observations and transcripts refer to
\* messages by index.)
IndexesStable ==
    [][\A n \in Names :
          conv[n] # Absent /\ conv'[n] # Absent
             => /\ NextIndex(conv'[n]) >= NextIndex(conv[n])
                /\ \A i \in 0..NextIndex(conv[n]) :
                      Permanent(conv[n], i) /\ HasIndex(conv'[n], i)
                         => At(conv'[n], i) = At(conv[n], i)]_vars

\* A turn whose message and reply are stored is answered with the reply and
\* never run again; and no turn whose reply is stored is run, as long as
\* nothing cut the conversation. (A compression or a branch that keeps the
\* reply and not the message makes the turn a new one: HalfTurnsAnswered.)
ReplyReused ==
    \A p \in Procs : pc[p] \in Running =>
       LET s == Load(job[p].name)  t == job[p].chat.turn IN
       /\ ~(Stored(s, t) /\ Heard(s, t))
       /\ managed = 0 /\ s.start = 0 => ~Stored(s, t)

\* The observation of a committed turn is always taken by memory: no other
\* turn of the conversation ever had its name, and a turn that is published
\* again (after a crash, a retry or a compression) has the same content. An
\* observation that is refused would keep the reply from the client. This is so
\* for conversations nobody deleted or renamed: their indexes start over.
ObservationAccepted ==
    managed = 0 => \A p \in Procs : pc[p] = "publish" => Accepts(p)

\* The safety of turns in one formula.
TurnsSafe ==
    /\ TypeOK
    /\ UpdatesSerialized
    /\ ReplyReused
    /\ ObservationAccepted

\* What a conversation keeps: the markers of its unfinished turns and the indexes of its
\* messages.
ConversationKept == FailClosed /\ IndexesStable

\* Whoever waits for a chat task is told how it ended, those who joined it
\* with another request included, or loses the connection.
ClientAnswered ==
    \A c \in Clients : client[c].state = "waiting" ~> client[c].state # "waiting"

TooLong(n) ==
    conv[n] # Absent /\ ~conv[n].archived /\ Len(conv[n].messages) > Trigger

\* A conversation over the trigger is compressed in the end although the
\* request after a turn may be dropped by a full queue, joined to a
\* compression that is over, or lost in a crash.
CompressionCatchesUp ==
    \A n \in Names : TooLong(n) ~> ~TooLong(n)

-----------------------------------------------------------------------------
(* Said of the code, and not true of it: TLC has a counterexample to each. *)

\* cli.md: "The daemon/chat layer must treat a completed `turn_id` as
\* idempotent", so an approved call of a turn is never executed again.
CompletedTurnIdempotent ==
    \A id \in Names \X Turns, k \in Calls : effects[id][k] <= 1

\* errors.md: "the retry must return the already-persisted assistant reply for
\* that `turn_id`". With an odd recent_messages a compression keeps a reply
\* without its message, and the turn runs again beside its stored reply.
HalfTurnsAnswered ==
    \A p \in Procs :
       pc[p] \in Running => ~Stored(Load(job[p].name), job[p].chat.turn)

\* ConversationStore.delete says "Permanently delete a conversation.": once
\* gone, a conversation comes back only by a new turn or by its user.
DeletedStaysDeleted ==
    [][\A n \in Names :
          conv[n] = Absent /\ conv'[n] # Absent
             => conv'[n].pending # {} \/ managed' # managed]_vars

\* errors.md on a turn id that is sent again with other input: it "fails with
\* an explicit turn conflict", so an answer is always to what the client sent.
AnswersItsInput ==
    \A c \in Clients :
       client[c].state = "answered" => client[c].answer = client[c].chat.input
=============================================================================
