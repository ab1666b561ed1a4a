-------------------------- MODULE ConversationTurns --------------------------
(***************************************************************************)
(* Chat turns over persisted conversations (src/nuself/conversation,       *)
(* src/nuself/agent/chat, the chat and compression tasks of                *)
(* src/nuself/daemon/state.py and the observation a turn leaves for        *)
(* memory).                                                                *)
(*                                                                         *)
(* The daemon serves each conversation by one lane of its scheduler (see   *)
(* DaemonScheduler: tasks of one resource never overlap, and a submission  *)
(* whose identity is active joins the active task). One-shot processes run *)
(* turns of their own; a file lock per conversation keeps them apart. A    *)
(* client that gives up may retry its turn under the same id while the     *)
(* first attempt is still running. An agent run that needs an approval     *)
(* leaves a continuation in the daemon's memory and a marker in the        *)
(* conversation; the client comes back with the resolution.                *)
(***************************************************************************)
EXTENDS Naturals, Sequences, SequencesExt, FiniteSets

CONSTANTS
    Names,           \* conversation ids; each is also the name of its lane
    Locals,          \* one-shot processes
    Clients,         \* clients of the daemon
    Turns, Inputs,   \* turn ids, user messages
    Configured,      \* the lanes and processes that have an LLM endpoint; a one-shot
    Unconfigured,    \* process starts with the settings of its time, so it may be in both
    Recent,          \* recent_messages
    Trigger,         \* summary_trigger_messages
    RequestOf,       \* what each call asks: calls of one tool may ask the same
    Nobody, Absent,  \* a free lock; no conversation, no task, no observation
    MaxSubmissions,  \* bound: requests and local chats
    MaxCalls,        \* bound: approvals one agent run asks for
    MaxManaged,      \* bound: renames, branches, deletions...
    MaxCrashes       \* bound: processes that die

Procs == Names \cup Locals

ASSUME ProcsAssumption ==
    /\ Names \cap Locals = {} /\ Nobody \notin Procs
    /\ Configured \cup Unconfigured = Procs
    /\ Configured \cap Unconfigured \subseteq Locals
    /\ Names # {} /\ Turns # {} /\ Inputs # {}
ASSUME SettingsAssumption == Recent \in Nat \ {0} /\ Trigger \in Nat \ {0, 1, 2}
ASSUME RequestsAssumption == RequestOf \in [1..MaxCalls -> Nat]
ASSUME BoundsAssumption ==
    /\ MaxSubmissions \in Nat /\ MaxCalls \in Nat
    /\ MaxManaged \in Nat /\ MaxCrashes \in Nat

VARIABLES
    conv,         \* the stored conversations
    lock,         \* holder of each conversation's file lock
    observed,     \* the turn each memory observation was made from
    tasks,        \* the chat tasks of the daemon: their payloads by identity
    compressing,  \* conversations with a compression task
    continuation, \* the call a suspended agent run waits for, 0 if none
    effects,      \* times each call that needs approval was executed
    client,       \* what each client asked for and was told
    answers,      \* the last answer a model gave: no two are alike
    pc, job, original, reply, span,
                  \* the update each process is carrying out
    submissions, managed, crashes

daemonVars == <<tasks, compressing, continuation>>
procVars == <<pc, job, original, reply, span>>
bounds == <<submissions, managed, crashes>>
vars == <<conv, lock, observed, daemonVars, effects, client, answers, procVars,
          bounds>>

Calls == 1..MaxCalls

\* The replies made without an endpoint, and when every endpoint failed, are
\* functions of the message.
LocalAnswer == 0
FailureAnswer == 1
Messages == [role : {"user", "assistant"}, turn : Turns, input : Inputs,
             answer : Nat]
Chats == [turn : Turns, input : Inputs, call : 0..MaxCalls]
Markers == [turn : Turns, input : Inputs]
Conversations == [messages : Seq(Messages), start : Nat, archived : BOOLEAN,
                  pending : SUBSET Markers]
Steps == {"idle", "lock", "begin", "respond", "resumed", "commit", "publish"}

ASSUME AbsentAssumption == Absent \notin Conversations /\ Absent \notin Chats

TypeOK ==
    /\ conv \in [Names -> Conversations \cup {Absent}]
    /\ lock \in [Names -> Procs \cup {Nobody}]
    /\ \A id \in DOMAIN observed : observed[id] \in [input : Inputs, answer : Nat]
    /\ tasks \in [Names \X Turns -> Chats \cup {Absent}]
    /\ compressing \subseteq Names
    /\ continuation \in [Names \X Turns -> 0..MaxCalls]
    /\ effects \in [Names \X Turns -> [Calls -> Nat]]
    /\ \A c \in Clients :
          /\ client[c].state \in {"idle", "waiting", "asked", "answered",
                                  "failed", "gaveup"}
          /\ client[c].name \in Names /\ client[c].chat \in Chats
          /\ client[c].answer \in Inputs
    /\ pc \in [Procs -> Steps]
    /\ \A p \in Procs : /\ job[p].kind \in {"chat", "compress"}
                        /\ job[p].name \in Names /\ job[p].chat \in Chats
                        /\ p \in Names => job[p].name = p
    /\ answers \in Nat
    /\ submissions \in Nat /\ managed \in Nat /\ crashes \in Nat

AnyOf(S) == CHOOSE x \in S : TRUE
SomeChat == [turn |-> AnyOf(Turns), input |-> AnyOf(Inputs), call |-> 0]

Init ==
    /\ conv = [n \in Names |-> Absent]
    /\ lock = [n \in Names |-> Nobody]
    /\ observed = << >>
    /\ tasks = [id \in Names \X Turns |-> Absent]
    /\ compressing = {}
    /\ continuation = [id \in Names \X Turns |-> 0]
    /\ effects = [id \in Names \X Turns |-> [k \in Calls |-> 0]]
    /\ client = [c \in Clients |->
                    [state |-> "idle", name |-> AnyOf(Names),
                     chat |-> SomeChat, answer |-> AnyOf(Inputs)]]
    /\ pc = [p \in Procs |-> "idle"]
    /\ job = [p \in Procs |->
                 [kind |-> "chat", chat |-> SomeChat,
                  name |-> IF p \in Names THEN p ELSE AnyOf(Names)]]
    /\ original = [p \in Procs |-> Absent]
    /\ answers = FailureAnswer
    /\ reply = [p \in Procs |-> LocalAnswer]
    /\ span = [p \in Procs |-> <<0, 0>>]
    /\ submissions = 0 /\ managed = 0 /\ crashes = 0

-----------------------------------------------------------------------------
(* Conversation states *)

Empty == [messages |-> << >>, start |-> 0, archived |-> FALSE, pending |-> {}]
Load(n) == IF conv[n] = Absent THEN Empty ELSE conv[n]
NextIndex(s) == s.start + Len(s.messages)

Says(m, role, t) == m.role = role /\ m.turn = t
Positions(s, role, t) == {k \in DOMAIN s.messages : Says(s.messages[k], role, t)}

\* reversed() finds the last such message, and index() the first one equal to it.
PositionOf(s, role, t) ==
    LET last == CHOOSE k \in Positions(s, role, t) :
                   \A j \in Positions(s, role, t) : j <= k
    IN  CHOOSE k \in DOMAIN s.messages :
           /\ s.messages[k] = s.messages[last]
           /\ \A j \in 1..(k - 1) : s.messages[j] # s.messages[last]

\* Fault: a reply made without an endpoint is left out here as it is in prompts.
HasModelReply(s, t) ==
    \E k \in Positions(s, "assistant", t) : s.messages[k].answer # LocalAnswer

HasReply(s, t) == Positions(s, "assistant", t) # {}

\* The reply and the message it answers are both there.
Completed(s, t) == HasReply(s, t) /\ Positions(s, "user", t) # {}

Began(s, t, i) == [s EXCEPT !.pending = @ \cup {[turn |-> t, input |-> i]}]

\* Fault: a committed turn takes every marker with it.
FinishedAll(s, t) == [s EXCEPT !.pending = {}]

Finished(s, t) == [s EXCEPT !.pending = {m \in @ : m.turn # t}]

Prompted(m) == m.role = "user" \/ m.answer # LocalAnswer

\* The messages a turn is run over: replies made without an endpoint are left out.
PromptContext(s) ==
    LET kept[k \in 0..Len(s.messages)] ==
           IF k = 0 THEN << >>
           ELSE IF Prompted(s.messages[k]) THEN Append(kept[k - 1], s.messages[k])
           ELSE kept[k - 1]
    IN  kept[Len(s.messages)]

\* The state after a turn: its message and its reply are appended.
Answered(s, t, i, answer) ==
    [s EXCEPT !.messages = PromptContext(s)
        \o <<[role |-> "user", turn |-> t, input |-> i, answer |-> LocalAnswer],
             [role |-> "assistant", turn |-> t, input |-> i, answer |-> answer]>>]

LongerThan(s, limit) == Len(s.messages) > limit

\* Fault: the indexes of the kept messages start over.
CompressedInPlace(s) ==
    IF LongerThan(s, Trigger)
    THEN [s EXCEPT !.messages = SubSeq(@, Len(@) - Recent + 1, Len(@))]
    ELSE s

\* Fault: the start moves the wrong way.
CompressedBackwards(s) ==
    IF LongerThan(s, Trigger)
    THEN [s EXCEPT !.messages = SubSeq(@, Len(@) - Recent + 1, Len(@)),
                   !.start = @ - Recent]
    ELSE s

\* compress_conversation keeps the recent messages under their indexes.
Compressed(s) ==
    IF LongerThan(s, Trigger)
    THEN LET kept == IF Recent < Len(s.messages) THEN Recent ELSE Len(s.messages)
         IN  [s EXCEPT !.messages = SubSeq(@, Len(@) - kept + 1, Len(@)),
                       !.start = NextIndex(s) - kept]
    ELSE s

-----------------------------------------------------------------------------
(* Clients of the daemon *)

\* DaemonState.run_chat: an identity that is active is joined, whatever the
\* payload.
Submitted(n, chat) ==
    IF tasks[<<n, chat.turn>>] = Absent
    THEN [tasks EXCEPT ![<<n, chat.turn>>] = chat]
    ELSE tasks

Request(c, n, chat) ==
    /\ submissions < MaxSubmissions
    /\ submissions' = submissions + 1
    /\ tasks' = Submitted(n, chat)
    /\ client' = [client EXCEPT ![c].state = "waiting", ![c].name = n,
                                ![c].chat = chat]
    /\ UNCHANGED <<conv, lock, observed, compressing, continuation, effects,
                   procVars, managed, crashes, answers>>

\* A new turn of the REPL.
Ask(c, n, t, i) ==
    /\ client[c].state # "waiting"
    /\ Request(c, n, [turn |-> t, input |-> i, call |-> 0])

\* The same turn again: with the resolution of the call it was asked about,
\* or after a failure or a timeout with what it sent before.
Resend(c) ==
    /\ client[c].state \in {"asked", "failed", "gaveup"}
    /\ Request(c, client[c].name, client[c].chat)

GiveUp(c) ==
    /\ client[c].state = "waiting"
    /\ client' = [client EXCEPT ![c].state = "gaveup"]
    /\ UNCHANGED <<conv, lock, observed, daemonVars, effects, procVars, bounds,
                   answers>>

\* Fault: the future is settled for those who asked with the task's payload.
SameRequest(c, n, chat) ==
    client[c].name = n /\ client[c].chat = chat

\* Who waits for the future of a chat task.
WaitsFor(c, n, chat) ==
    client[c].name = n /\ client[c].chat.turn = chat.turn

\* The task of process p ends: its waiters are told, its identity is free.
Told(p, state, call, answer) ==
    LET n == job[p].name  chat == job[p].chat IN
    IF p \in Locals
    THEN UNCHANGED <<client, tasks>>
    ELSE /\ client' = [c \in Clients |->
              IF client[c].state = "waiting" /\ WaitsFor(c, n, chat)
              THEN [client[c] EXCEPT !.state = state, !.answer = answer,
                       !.chat.call = IF state = "asked" THEN call ELSE @]
              ELSE client[c]]
         /\ tasks' = [tasks EXCEPT ![<<n, chat.turn>>] = Absent]

-----------------------------------------------------------------------------
(* ConversationStore.update, carried out by process p *)

\* Fault: the lock does not exclude.
AlwaysFree(n) == TRUE

LockFree(n) == lock[n] = Nobody

Goto(p, step) == pc' = [pc EXCEPT ![p] = step]
Unlocked(n) == [lock EXCEPT ![n] = Nobody]

\* The scheduler runs a chat task of the lane, or with none there its
\* compression (priority 10 before 120).
LaneRuns(n) ==
    /\ pc[n] = "idle"
    /\ \/ \E t \in Turns :
             /\ tasks[<<n, t>>] # Absent
             /\ job' = [job EXCEPT ![n].kind = "chat", ![n].chat = tasks[<<n, t>>]]
       \/ /\ \A t \in Turns : tasks[<<n, t>>] = Absent
          /\ n \in compressing
          /\ job' = [job EXCEPT ![n].kind = "compress"]
    /\ Goto(n, "lock")
    /\ UNCHANGED <<conv, lock, observed, daemonVars, effects, client, original,
                   reply, span, bounds, answers>>

\* send_one_shot_chat_interactive
LocalChat(p, n, t, i) ==
    /\ pc[p] = "idle" /\ submissions < MaxSubmissions
    /\ submissions' = submissions + 1
    /\ job' = [job EXCEPT ![p] = [kind |-> "chat", name |-> n,
                  chat |-> [turn |-> t, input |-> i, call |-> 0]]]
    /\ Goto(p, "lock")
    /\ UNCHANGED <<conv, lock, observed, daemonVars, effects, client, original,
                   reply, span, managed, crashes, answers>>

Acquire(p) ==
    /\ pc[p] = "lock" /\ LockFree(job[p].name)
    /\ lock' = [lock EXCEPT ![job[p].name] = p]
    /\ Goto(p, "begin")
    /\ UNCHANGED <<conv, observed, daemonVars, effects, client, job, original,
                   reply, span, bounds, answers>>

\* The update ends with an exception.
Fails(p) ==
    /\ lock' = Unlocked(job[p].name)
    /\ Told(p, "failed", 0, job[p].chat.input)
    /\ Goto(p, "idle")

\* A turn that has its reply is not run again: the reply is returned, or the
\* turn refused when it was made for another message.
Reuse(p) ==
    LET n == job[p].name  t == job[p].chat.turn  s == Load(n)
        user == PositionOf(s, "user", t)
        assistant == PositionOf(s, "assistant", t)
    IN
    /\ pc[p] = "begin" /\ job[p].kind = "chat" /\ Completed(s, t)
    /\ IF s.messages[user].input = job[p].chat.input
       THEN /\ conv' = [conv EXCEPT ![n] = Finished(s, t)]
            /\ span' = [span EXCEPT ![p] =
                  <<s.start + user - 1, s.start + assistant>>]
            /\ reply' = [reply EXCEPT ![p] = s.messages[assistant].answer]
            /\ lock' = Unlocked(n)
            /\ Goto(p, "publish")
            /\ UNCHANGED <<client, tasks>>
       ELSE Fails(p) /\ UNCHANGED <<conv, span, reply>>
    /\ UNCHANGED <<observed, compressing, continuation, effects, answers, job,
                   original, bounds>>

\* _begin_turn_attempt: an unfinished attempt is refused unless it is resumed,
\* a new one leaves its marker. A turn whose reply is there without its
\* message gets here with neither.
Begin(p) ==
    LET n == job[p].name  chat == job[p].chat  s == Load(n)
        markers == {m \in s.pending : m.turn = chat.turn}
        refused == \E m \in markers : m.input # chat.input \/ chat.call = 0
    IN
    /\ pc[p] = "begin" /\ job[p].kind = "chat" /\ ~Completed(s, chat.turn)
    /\ IF ~HasReply(s, chat.turn) /\ refused
       THEN Fails(p) /\ UNCHANGED <<conv, original>>
       ELSE /\ conv' = IF HasReply(s, chat.turn) \/ markers # {} THEN conv
                       ELSE [conv EXCEPT ![n] = Began(s, chat.turn, chat.input)]
            /\ original' = [original EXCEPT ![p] = conv'[n]]
            /\ Goto(p, "respond")
            /\ UNCHANGED <<lock, client, tasks>>
    /\ UNCHANGED <<observed, compressing, continuation, effects, job, reply,
                   span, bounds, answers>>

\* The agent run produced a reply.
Replies(p, answer) ==
    /\ reply' = [reply EXCEPT ![p] = answer]
    /\ answers' = IF answer > answers THEN answer ELSE answers
    /\ Goto(p, "commit")
    /\ UNCHANGED <<conv, lock, observed, daemonVars, effects, client, job,
                   original, span, bounds>>

\* The agent run needs an approval for call k: ToolEffectRequired leaves
\* update, and the continuation stays behind.
Suspends(p, k) ==
    /\ continuation' = [continuation EXCEPT ![<<job[p].name, job[p].chat.turn>>] = k]
    /\ lock' = Unlocked(job[p].name)
    /\ Told(p, "asked", k, job[p].chat.input)
    /\ Goto(p, "idle")
    /\ UNCHANGED <<conv, observed, compressing, effects, job, original, reply,
                   span, bounds, answers>>

RunFails(p) ==
    /\ Fails(p)
    /\ UNCHANGED <<conv, observed, compressing, continuation, effects, job,
                   original, reply, span, bounds, answers>>

\* Only the daemon keeps continuations.
ContinuationOf(p) ==
    IF p \in Locals THEN 0 ELSE continuation[<<job[p].name, job[p].chat.turn>>]

\* A run from the start: no continuation, no resolution.
RunFresh(p) ==
    /\ pc[p] = "respond" /\ p \in Configured
    /\ ContinuationOf(p) = 0 /\ job[p].chat.call = 0
    /\ \/ \E answer \in {answers + 1, FailureAnswer} : Replies(p, answer)
       \/ p \in Names /\ MaxCalls > 0 /\ Suspends(p, 1)
       \/ RunFails(p)

RespondUnconfigured(p) ==
    /\ pc[p] = "respond" /\ p \in Unconfigured
    /\ Replies(p, LocalAnswer)

\* A resolution whose continuation is gone.
ContinuationLost(p) ==
    /\ pc[p] = "respond" /\ p \in Configured
    /\ ContinuationOf(p) = 0 /\ job[p].chat.call # 0
    /\ RunFails(p)

\* The resolution is one of the request the continuation waits with, though it may have
\* been given for another call.
Matches(p) ==
    job[p].chat.call # 0 /\ RequestOf[job[p].chat.call] = RequestOf[ContinuationOf(p)]

\* A continuation that waits with another request, or a turn without resolution.
AskAgain(p) ==
    /\ pc[p] = "respond" /\ p \in Configured
    /\ ContinuationOf(p) # 0 /\ ~Matches(p)
    /\ Suspends(p, ContinuationOf(p))

\* Fault: a resumed continuation stays in the registry.
Kept(n, t) == continuation

Taken(n, t) == [continuation EXCEPT ![<<n, t>>] = 0]

\* The resolution matches: the continuation is taken and its call executed,
\* unless it was declined. The run goes on from there.
Resume(p, approved) ==
    LET n == job[p].name  t == job[p].chat.turn  k == ContinuationOf(p) IN
    /\ pc[p] = "respond" /\ p \in Configured
    /\ k # 0 /\ Matches(p)
    /\ continuation' = Taken(n, t)
    /\ job' = [job EXCEPT ![p].chat.call = k]
    /\ effects' = IF approved THEN [effects EXCEPT ![<<n, t>>][k] = @ + 1] ELSE effects
    /\ Goto(p, "resumed")
    /\ UNCHANGED <<conv, lock, observed, tasks, compressing, client,
                   original, reply, span, bounds, answers>>

\* A one-shot process asks its terminal and executes the call within the run.
ApproveInTerminal(p) ==
    /\ pc[p] = "respond" /\ p \in Locals \cap Configured /\ MaxCalls > 0
    /\ effects' = [effects EXCEPT ![<<job[p].name, job[p].chat.turn>>][1] = @ + 1]
    /\ Goto(p, "resumed")
    /\ UNCHANGED <<conv, lock, observed, daemonVars, client, answers, job,
                   original, reply, span, bounds>>

\* The run goes on after the call. A failure is no longer retried.
AfterResume(p) ==
    /\ pc[p] = "resumed"
    /\ \/ Replies(p, answers + 1)
       \/ p \in Locals /\ Replies(p, FailureAnswer)
       \/ /\ p \in Names /\ job[p].chat.call < MaxCalls
          /\ Suspends(p, job[p].chat.call + 1)
       \/ RunFails(p)

\* The write of a turn: only over the state it was run on.
Commit(p) ==
    LET n == job[p].name  chat == job[p].chat  s == Load(n)
        after == Answered(s, chat.turn, chat.input, reply[p])
    IN
    /\ pc[p] = "commit"
    /\ IF conv[n] # original[p]
       THEN Fails(p) /\ UNCHANGED <<conv, span>>
       ELSE /\ conv' = [conv EXCEPT ![n] = Finished(after, chat.turn)]
            /\ span' = [span EXCEPT ![p] = <<NextIndex(after) - 2, NextIndex(after)>>]
            /\ lock' = Unlocked(n)
            /\ Goto(p, "publish")
            /\ UNCHANGED <<client, tasks>>
    /\ UNCHANGED <<observed, compressing, continuation, effects, job, original,
                   reply, bounds, answers>>

\* Compression in one piece: its lock keeps every other writer out meanwhile.
Compress(p) ==
    LET n == job[p].name IN
    /\ pc[p] = "begin" /\ job[p].kind = "compress"
    /\ conv' = [conv EXCEPT ![n] = Compressed(Load(n))]
    /\ lock' = Unlocked(n)
    /\ compressing' = IF p \in Names THEN compressing \ {n} ELSE compressing
    /\ Goto(p, "idle")
    /\ UNCHANGED <<observed, tasks, continuation, effects, client, job, original,
                   reply, span, bounds, answers>>

\* Fault: the observation is named by the position in the stored messages.
PositionId(p) ==
    <<job[p].name, span[p][1] - Load(job[p].name).start,
                   span[p][2] - Load(job[p].name).start>>

\* publish_chat_observation names the observation after the turn's indexes.
ObservationId(p) == <<job[p].name, span[p][1], span[p][2]>>

Content(p) == [input |-> job[p].chat.input, answer |-> reply[p]]

\* observe takes an observation it has again, and no other under its name.
Accepts(p) ==
    ObservationId(p) \in DOMAIN observed
        => observed[ObservationId(p)] = Content(p)

\* The committed turn is given to memory. The daemon then asks for a
\* compression, which a full queue may drop, and answers; a one-shot process
\* answers, and compresses itself.
Publish(p, admitted) ==
    LET n == job[p].name  id == ObservationId(p) IN
    /\ pc[p] = "publish" /\ Accepts(p)
    /\ observed' = [k \in DOMAIN observed \cup {id} |->
                       IF k \in DOMAIN observed THEN observed[k] ELSE Content(p)]
    /\ compressing' = IF p \in Names /\ admitted THEN compressing \cup {n}
                      ELSE compressing
    /\ Told(p, "answered", 0, job[p].chat.input)
    /\ Goto(p, IF p \in Locals THEN "lock" ELSE "idle")
    /\ job' = IF p \in Locals THEN [job EXCEPT ![p].kind = "compress"] ELSE job
    /\ UNCHANGED <<conv, lock, continuation, effects, original, reply, span,
                   bounds, answers>>

\* observe raises: the reply is stored, and not given to the client.
PublishFails(p) ==
    /\ pc[p] = "publish" /\ ~Accepts(p)
    /\ Told(p, "failed", 0, job[p].chat.input)
    /\ Goto(p, "idle")
    /\ UNCHANGED <<conv, lock, observed, compressing, continuation, effects, job,
                   original, reply, span, bounds, answers>>

-----------------------------------------------------------------------------
(* The periodic scan, the user's management and crashes *)

\* Fault: conversations at twice the trigger are found.
AtTwiceTheTrigger(n) == conv[n] # Absent /\ LongerThan(conv[n], 2 * Trigger)

RequiresCompression(n) ==
    conv[n] # Absent /\ ~conv[n].archived /\ LongerThan(conv[n], Trigger)

\* _scan_conversations finds what a dropped or joined request left undone.
Scan ==
    LET found == {n \in Names : RequiresCompression(n)} IN
    /\ ~(found \subseteq compressing)
    /\ compressing' = compressing \cup found
    /\ UNCHANGED <<conv, lock, observed, tasks, continuation, effects, client,
                   procVars, bounds, answers>>

Managed(changed) ==
    /\ managed < MaxManaged
    /\ managed' = managed + 1
    /\ conv' = changed
    /\ UNCHANGED <<lock, observed, daemonVars, effects, client, procVars,
                   submissions, crashes, answers>>

Rename(n, m) ==
    /\ n # m /\ LockFree(n) /\ LockFree(m)
    /\ conv[n] # Absent /\ conv[m] = Absent
    /\ Managed([conv EXCEPT ![m] = conv[n], ![n] = Absent])

Branch(n, m, k) ==
    /\ LockFree(n) /\ LockFree(m)
    /\ conv[n] # Absent /\ conv[m] = Absent /\ k <= Len(conv[n].messages)
    /\ Managed([conv EXCEPT ![m] =
          [Empty EXCEPT !.messages = SubSeq(conv[n].messages, 1, k),
                        !.start = conv[n].start]])

SetArchived(n, archived) ==
    /\ LockFree(n)
    /\ conv[n] # Absent /\ conv[n].archived # archived
    /\ Managed([conv EXCEPT ![n].archived = archived])

Delete(n) ==
    /\ LockFree(n) /\ conv[n] # Absent
    /\ Managed([conv EXCEPT ![n] = Absent])

\* The daemon dies and is started again: its tasks, its continuations and its
\* locks are gone, its clients' connections break.
CrashDaemon ==
    /\ crashes < MaxCrashes
    /\ crashes' = crashes + 1
    /\ lock' = [n \in Names |-> IF lock[n] \in Names THEN Nobody ELSE lock[n]]
    /\ tasks' = [id \in DOMAIN tasks |-> Absent]
    /\ compressing' = {}
    /\ continuation' = [id \in DOMAIN continuation |-> 0]
    /\ client' = [c \in Clients |->
          IF client[c].state = "waiting"
          THEN [client[c] EXCEPT !.state = "failed"] ELSE client[c]]
    /\ pc' = [p \in Procs |-> IF p \in Names THEN "idle" ELSE pc[p]]
    /\ UNCHANGED <<conv, observed, effects, job, original, reply, span,
                   submissions, managed, answers>>

CrashLocal(p) ==
    /\ crashes < MaxCrashes /\ pc[p] # "idle"
    /\ crashes' = crashes + 1
    /\ lock' = [n \in Names |-> IF lock[n] = p THEN Nobody ELSE lock[n]]
    /\ Goto(p, "idle")
    /\ UNCHANGED <<conv, observed, daemonVars, effects, client, job, original,
                   reply, span, submissions, managed, answers>>

-----------------------------------------------------------------------------

\* A step of the update a process is in.
Work(p) ==
    \/ Acquire(p) \/ Reuse(p) \/ Begin(p)
    \/ RunFresh(p) \/ RespondUnconfigured(p) \/ ContinuationLost(p)
    \/ AskAgain(p) \/ ApproveInTerminal(p) \/ AfterResume(p)
    \/ \E approved \in BOOLEAN : Resume(p, approved)
    \/ Commit(p) \/ Compress(p) \/ PublishFails(p)
    \/ \E admitted \in BOOLEAN : Publish(p, admitted)

Next ==
    \/ \E c \in Clients, n \in Names, t \in Turns, i \in Inputs : Ask(c, n, t, i)
    \/ \E c \in Clients : Resend(c) \/ GiveUp(c)
    \/ \E p \in Locals, n \in Names, t \in Turns, i \in Inputs :
          LocalChat(p, n, t, i)
    \/ \E n \in Names : LaneRuns(n)
    \/ \E p \in Procs : Work(p)
    \/ Scan
    \/ \E n, m \in Names : Rename(n, m)
    \/ \E n, m \in Names, k \in 0..(2 * MaxSubmissions) : Branch(n, m, k)
    \/ \E n \in Names, archived \in BOOLEAN : SetArchived(n, archived)
    \/ \E n \in Names : Delete(n)
    \/ CrashDaemon
    \/ \E p \in Locals : CrashLocal(p)

Spec == Init /\ [][Next]_vars

\* Lanes and processes go on with what they do, every agent run ends, and the
\* scan keeps recurring.
FairSpec ==
    /\ Spec
    /\ \A p \in Procs : WF_vars(Work(p))
    /\ \A n \in Names : WF_vars(LaneRuns(n))
    /\ WF_vars(Scan)
=============================================================================
