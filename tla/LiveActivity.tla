----------------------------- MODULE LiveActivity -----------------------------
(***************************************************************************)
(* A turn of the REPL and what it shows while it runs (cli/repl/turns.py,  *)
(* activity.py, session.py, loop.py, daemon/activity.py, client.py,        *)
(* runtime/execution.py, event/publisher.py), over the log of LogStore.    *)
(* The daemon appends each event of the turn to the log, then hands it to  *)
(* the broker; the REPL reads the broker and, when that fails, the log.    *)
(* The request runs in a thread of the REPL that an interrupt cancels.     *)
(***************************************************************************)
EXTENDS LogStore

CONSTANTS
    Daemon, Client,     \* the two processes
    EventCount,         \* events of the turn
    Notes,              \* records the REPL writes: bound
    MaxEvents, Limit,   \* the broker's bound, and the size of a batch
    MaxAttempts,
    MaxFaults, MaxInterrupts, MaxSubmissions    \* bounds

Events == 1..EventCount

ASSUME WritersAssumption == Writers = {Daemon, Client} /\ Daemon # Client
ASSUME RecordsAssumption == Records = Events \cup Notes /\ Events \cap Notes = {}
ASSUME LimitsAssumption ==
    /\ EventCount \in Nat
    /\ MaxEvents \in Nat \ {0} /\ Limit \in Nat \ {0} /\ MaxAttempts \in Nat \ {0}

VARIABLES
    turn,       \* the daemon's side: [step, next, resumed]
    broker,     \* the subscription: [events, dropped], or None
    client,     \* the REPL
    call,       \* the thread of the request: [step, result]
    token,      \* the cancellation: [cancelled, listed, taken]
    closes,     \* times the closer of the request has run
    told,       \* events that began and were published while a request is shown
    disturbed,  \* a cursor was overtaken or began at no file, or an append failed
    faults, interrupts, submissions

activityVars == <<turn, broker, client, call, token, closes>>
counters == <<faults, interrupts, submissions>>
history == <<told, disturbed>>
vars == <<logVars, activityVars, history, counters>>

FreshToken == [cancelled |-> FALSE, listed |-> FALSE, taken |-> FALSE]
NoCall == [step |-> "none", result |-> None]

ClientSteps == {"prompt", "open", "start", "loop", "drain", "note", "stat", "read", "close",
                "done", "cancel", "closers", "reap", "ended", "gone"}
Results == {"reply", "effect", "lost", "cancelled"}

TypeOK ==
    /\ LogTypeOK
    /\ turn.step \in {"none", "running", "suspended", "done", "dead"} /\ turn.next \in 1..(EventCount + 1)
    /\ broker = None \/ (broker.events \in Seq(Events) /\ Len(broker.events) <= MaxEvents
                         /\ broker.dropped \in 0..EventCount)
    /\ client.step \in ClientSteps /\ client.after \in ClientSteps /\ client.attempt \in 1..MaxAttempts
    /\ client.shown \in Seq(Events) /\ client.since \in 0..Len(client.shown)
    /\ call.step \in {"none", "started", "listed", "sent", "ending", "finished"}
    /\ call.result \in Results \cup {None}
    /\ token.listed => call.step \in {"listed", "sent", "ending"}
    /\ token.taken => token.cancelled
    /\ closes \in Nat /\ told \subseteq Events /\ disturbed \in BOOLEAN

Init ==
    /\ LogInit
    /\ turn = [step |-> "none", next |-> 1, resumed |-> FALSE]
    /\ broker = None
    /\ client = [step |-> "prompt", after |-> "prompt", back |-> "loop", exit |-> None, attempt |-> 1,
                 subscribed |-> FALSE, degraded |-> FALSE, offer |-> FALSE, before |-> None,
                 cursor |-> NoCursor, shown |-> <<>>, since |-> 0]
    /\ call = NoCall /\ token = FreshToken /\ closes = 0
    /\ told = {} /\ disturbed = FALSE
    /\ faults = 0 /\ interrupts = 0 /\ submissions = 0

\* At the prompt nothing is left of a turn but what was shown and whether it is offered.
AtPrompt(c) == [c EXCEPT !.step = "prompt", !.cursor = NoCursor, !.before = None, !.degraded = FALSE,
                         !.attempt = 1, !.exit = None]

Fault == faults < MaxFaults /\ faults' = faults + 1

-----------------------------------------------------------------------------
(* The daemon: the turn publishes its events one after the other *)

Publishing == writer[Daemon].step # "idle"

BeginEvent ==
    /\ turn.step = "running" /\ ~Publishing /\ turn.next <= EventCount
    /\ Append_(Daemon, turn.next)
    /\ turn' = [turn EXCEPT !.next = @ + 1]
    /\ UNCHANGED <<files, exists, backup, lock, outcome, broker, client, call, token, closes, history, counters>>

\* Fault: the oldest events go without being counted.
DroppedSilently(subscription, e) ==
    [events |-> IF Len(subscription.events) = MaxEvents THEN Append(Tail(subscription.events), e)
                ELSE Append(subscription.events, e),
     dropped |-> subscription.dropped]

Delivered(subscription, e) ==
    IF Len(subscription.events) = MaxEvents
    THEN [events |-> Append(Tail(subscription.events), e), dropped |-> subscription.dropped + 1]
    ELSE [events |-> Append(subscription.events, e), dropped |-> subscription.dropped]

Showing == client.step \in {"start", "loop", "drain", "note", "stat", "read"}

\* The append has returned: the broker has the event, if anybody listens. One whose append
\* raised is not projected; the publisher reports it and the turn goes on.
PublishEvent ==
    LET e == writer[Daemon].record IN
    /\ writer[Daemon].step \in {"returned", "raised"}
    /\ writer' = [writer EXCEPT ![Daemon] = Unwritten]
    /\ IF writer[Daemon].step = "raised" THEN UNCHANGED <<broker, told>>
       ELSE /\ broker' = IF broker = None THEN None ELSE Delivered(broker, e)
            /\ told' = IF Showing /\ e # client.before THEN told \cup {e} ELSE told
    /\ UNCHANGED <<files, exists, backup, lock, outcome, turn, client, call, token, closes, disturbed, counters>>

\* The turn is over, or waits for a decision of the user (once).
TurnStops ==
    /\ turn.step = "running" /\ ~Publishing
    /\ \/ turn.next = EventCount + 1 /\ turn' = [turn EXCEPT !.step = "done"]
       \/ turn.next = EventCount /\ ~turn.resumed /\ turn' = [turn EXCEPT !.step = "suspended"]
    /\ UNCHANGED <<logVars, broker, client, call, token, closes, history, counters>>

DaemonDies ==
    /\ Fault
    /\ turn.step \in {"running", "suspended"}
    /\ turn' = [turn EXCEPT !.step = "dead"] /\ broker' = None
    /\ Killed(Daemon)
    /\ disturbed' = (disturbed \/ writer[Daemon].step \in {"half", "sync"})
    /\ UNCHANGED <<client, call, token, closes, told, interrupts, submissions>>

\* Nothing was read for longer than the subscription lives.
Expire ==
    /\ Fault
    /\ broker # None /\ broker' = None
    /\ UNCHANGED <<logVars, turn, client, call, token, closes, history, interrupts, submissions>>

LogStep ==
    /\ \E w \in Writers : WriterStep(w)
    /\ UNCHANGED <<activityVars, history, counters>>

LogFault ==
    /\ Fault
    /\ \E w \in Writers : WriterFault(w)
    /\ disturbed' = TRUE
    /\ UNCHANGED <<activityVars, told, interrupts, submissions>>

-----------------------------------------------------------------------------
(* The thread of the request: OwnedCall, and the socket's closer *)

CallUnchanged == UNCHANGED <<logVars, broker, client, history, counters>>

\* Fault: the closer is listed though nobody will run it any more.
ListedAnyway ==
    /\ call.step = "started"
    /\ token' = [token EXCEPT !.listed = TRUE]
    /\ call' = [call EXCEPT !.step = "listed"]
    /\ UNCHANGED <<closes, turn>> /\ CallUnchanged

\* The closer is listed, or runs at once if the call is cancelled already.
Register ==
    /\ call.step = "started"
    /\ IF token.cancelled
       THEN /\ closes' = closes + 1
            /\ call' = [step |-> "finished", result |-> "cancelled"]
            /\ UNCHANGED token
       ELSE /\ token' = [token EXCEPT !.listed = TRUE]
            /\ call' = [call EXCEPT !.step = "listed"]
            /\ UNCHANGED closes
    /\ CallUnchanged /\ UNCHANGED turn

\* The request goes out: it starts the turn, resumes it with the decision, or joins it.
Request ==
    /\ call.step = "listed" /\ closes = 0 /\ turn.step # "dead"
    /\ call' = [call EXCEPT !.step = "sent"]
    /\ turn' = [turn EXCEPT !.step = IF @ \in {"none", "suspended"} THEN "running" ELSE @,
                            !.resumed = @ \/ turn.step = "suspended"]
    /\ CallUnchanged /\ UNCHANGED <<token, closes>>

\* Fault: the call waits for an answer though the daemon is gone.
ReceiveForever ==
    /\ call.step \in {"listed", "sent"}
    /\ \/ /\ call.step = "sent" /\ turn.step \in {"done", "suspended"} /\ ~Publishing
          /\ call' = [step |-> "ending", result |-> IF turn.step = "done" THEN "reply" ELSE "effect"]
       \/ closes > 0 /\ call' = [step |-> "ending", result |-> "cancelled"]
    /\ CallUnchanged /\ UNCHANGED <<turn, token, closes>>

\* The answer, or the socket's error: closed by the cancellation, or the daemon is gone.
Receive ==
    /\ call.step \in {"listed", "sent"}
    /\ \/ /\ call.step = "sent" /\ turn.step \in {"done", "suspended"} /\ ~Publishing
          /\ call' = [step |-> "ending", result |-> IF turn.step = "done" THEN "reply" ELSE "effect"]
       \/ closes > 0 /\ call' = [step |-> "ending", result |-> "cancelled"]
       \/ turn.step = "dead"
          /\ call' = [step |-> "ending", result |-> IF token.cancelled THEN "cancelled" ELSE "lost"]
    /\ CallUnchanged /\ UNCHANGED <<turn, token, closes>>

\* The request or the answer is lost, or the deadline passes.
Lose ==
    /\ Fault
    /\ call.step \in {"listed", "sent"}
    /\ call' = [step |-> "ending", result |-> IF token.cancelled THEN "cancelled" ELSE "lost"]
    /\ UNCHANGED <<logVars, turn, broker, client, token, closes, history, interrupts, submissions>>

\* The closer is taken off the list, if it is still there.
Discard == token' = [token EXCEPT !.listed = FALSE]

EndCall ==
    /\ call.step = "ending"
    /\ Discard
    /\ call' = [call EXCEPT !.step = "finished"]
    /\ CallUnchanged /\ UNCHANGED <<turn, closes>>

-----------------------------------------------------------------------------
(* The REPL *)

\* The record of an attempt is written before what comes after; the bound of Notes: later
\* ones are left out.
Unused == {n \in Notes : outcome[n] = None /\ \A w \in Writers : writer[w].record # n}
WithNote(next, c) ==
    IF Unused = {} THEN client' = [c EXCEPT !.step = next] /\ UNCHANGED writer
    ELSE /\ client' = [c EXCEPT !.step = "note", !.after = next]
         /\ Append_(Client, CHOOSE n \in Unused : TRUE)

NoteWritten ==
    /\ client.step = "note" /\ writer[Client].step \in {"returned", "raised"}
    /\ writer' = [writer EXCEPT ![Client] = Unwritten]
    /\ client' = [client EXCEPT !.step = client.after, !.after = "prompt"]
    /\ UNCHANGED <<files, exists, backup, lock, outcome, turn, broker, call, token, closes, history, counters>>

FilesUnchanged == UNCHANGED <<files, exists, backup, lock, outcome>>
Quiet == UNCHANGED <<logVars, turn, broker, call, token, closes, history, counters>>

\* A message, or :retry when the turn before was offered for it: the same turn again. The
\* bound of submissions, and of calls: a call that is left running is waited for.
Send ==
    /\ client.step = "prompt" /\ call.step \in {"none", "finished"}
    /\ client.offer \/ turn.step = "none"
    /\ submissions < MaxSubmissions /\ submissions' = submissions + 1
    /\ client' = [client EXCEPT !.step = "open", !.cursor = CursorFromProject]
    /\ disturbed' = (disturbed \/ ~exists)
    /\ UNCHANGED <<logVars, turn, broker, call, token, closes, told, faults, interrupts>>

\* A subscription, before the request; without one the log is read. (before: the event
\* of an earlier request that is being published.)
OpenActivity ==
    /\ client.step = "open"
    /\ told' = {}
    /\ LET asked == [client EXCEPT !.since = Len(client.shown), !.degraded = FALSE,
                                !.before = writer[Daemon].record] IN
       \/ /\ turn.step # "dead"
          /\ broker' = [events |-> <<>>, dropped |-> 0]
          /\ client' = [asked EXCEPT !.step = "start", !.subscribed = TRUE]
          /\ UNCHANGED <<writer, faults>>
       \/ /\ IF turn.step = "dead" THEN UNCHANGED faults ELSE Fault
          /\ broker' = None
          /\ WithNote("start", [asked EXCEPT !.subscribed = FALSE, !.degraded = TRUE])
    /\ FilesUnchanged
    /\ UNCHANGED <<turn, call, token, closes, disturbed, interrupts, submissions>>

StartCall ==
    /\ client.step = "start"
    /\ client' = [client EXCEPT !.step = "loop"]
    /\ call' = [step |-> "started", result |-> None] /\ token' = FreshToken /\ closes' = 0
    /\ UNCHANGED <<logVars, turn, broker, history, counters>>

Present(c, events) ==
    [c EXCEPT !.shown = @ \o events, !.cursor = MarkSeen(@, Range(events))]

Alive == call.step # "finished"
Gap == broker # None /\ broker.dropped > 0

\* A batch of the subscription: marked as seen, and shown.
PollBatch ==
    /\ client.step = "loop" /\ Alive /\ client.subscribed
    /\ broker # None /\ ~Gap /\ broker.events # <<>>
    /\ LET batch == SubSeq(broker.events, 1, Min({Limit, Len(broker.events)})) IN
       /\ client' = Present(client, batch)
       /\ broker' = [broker EXCEPT !.events = From(@, Len(batch))]
    /\ UNCHANGED <<logVars, turn, call, token, closes, history, counters>>

\* The subscription fails: it is gone, has a gap, or the answer is lost, and what it held
\* with it. It is closed as best as may be; from here the log is read.
Degrade(back) ==
    /\ client.subscribed
    /\ \/ (broker = None \/ Gap) /\ UNCHANGED faults
       \/ broker # None /\ ~Gap /\ Fault
    /\ broker' = None
    /\ WithNote("stat", [client EXCEPT !.subscribed = FALSE, !.degraded = TRUE, !.back = back])
    /\ FilesUnchanged
    /\ UNCHANGED <<turn, call, token, closes, history, interrupts, submissions>>

PollFails == client.step = "loop" /\ Alive /\ Degrade("loop")

ReadLog(back) == client' = [client EXCEPT !.step = "stat", !.back = back] /\ Quiet

Sleep == client.step = "loop" /\ Alive /\ ~client.subscribed /\ ReadLog("loop")

Outcome ==
    /\ client.step = "loop" /\ ~Alive
    /\ client' = [client EXCEPT !.step = "drain"]
    /\ Quiet

\* What is left of the activity, of one batch that holds all of a subscription.
Drain ==
    /\ client.step = "drain"
    /\ \/ /\ client.subscribed /\ broker # None /\ ~Gap
          /\ client' = [Present(client, broker.events) EXCEPT !.step = "close"]
          /\ broker' = [broker EXCEPT !.events = <<>>]
          /\ UNCHANGED <<logVars, turn, call, token, closes, history, counters>>
       \/ Degrade("close")
       \/ ~client.subscribed /\ ReadLog("close")

Stat ==
    /\ client.step = "stat"
    /\ IF exists
       THEN /\ client' = [client EXCEPT !.step = "read", !.cursor = Found(@)]
            /\ UNCHANGED disturbed
       ELSE /\ client' = [client EXCEPT !.step = client.back, !.back = "loop",
                                       !.cursor = StartOver(@)]
            /\ disturbed' = (disturbed \/ client.cursor.identity # None)
    /\ UNCHANGED <<logVars, turn, broker, call, token, closes, told, counters>>

ByTime(events) ==
    CHOOSE s \in [1..Cardinality(events) -> events] : \A i, j \in DOMAIN s : i < j => s[i] < s[j]

Exit(c, reason) == [c EXCEPT !.exit = reason, !.step = IF c.back = "loop" THEN "cancel" ELSE "ended",
                             !.back = "loop"]

\* The file may be gone again by the time it is opened: nobody expects that error.
Read ==
    /\ client.step = "read"
    /\ IF exists
       THEN /\ client' = [client EXCEPT !.step = client.back, !.back = "loop",
                                       !.shown = @ \o ByTime(NewRecords(client.cursor) \cap Events),
                                       !.cursor = ReadOn(@)]
            /\ disturbed' = (disturbed \/ Overtaken(client.cursor))
       ELSE client' = Exit(client, "raised") /\ UNCHANGED disturbed
    /\ UNCHANGED <<logVars, turn, broker, call, token, closes, told, counters>>

CloseActivity ==
    /\ client.step = "close"
    /\ broker' = None
    /\ client' = [client EXCEPT !.step = "done", !.subscribed = FALSE]
    /\ UNCHANGED <<logVars, turn, call, token, closes, history, counters>>

\* send_interactive_chat_turn: the answer is shown; a decision is sent with the next
\* request; a failure is tried again, and offered to the user in the end.
Finish ==
    /\ client.step = "done"
    /\ CASE call.result = "effect" -> client' = [client EXCEPT !.step = "open"] /\ UNCHANGED writer
         [] call.result = "lost" /\ client.attempt < MaxAttempts ->
              WithNote("open", [client EXCEPT !.attempt = @ + 1])
         [] OTHER -> /\ client' = [AtPrompt(client) EXCEPT !.offer = call.result = "lost"]
                     /\ UNCHANGED writer
    /\ FilesUnchanged
    /\ UNCHANGED <<turn, broker, call, token, closes, history, counters>>

-----------------------------------------------------------------------------
(* Interrupts *)

Interrupted == interrupts < MaxInterrupts /\ interrupts' = interrupts + 1

\* Ctrl-C. While the request runs it is to be cancelled; while a note is written the
\* interrupt comes after it.
Interrupt ==
    /\ Interrupted
    /\ \/ client.step = "loop" /\ client' = [client EXCEPT !.step = "cancel", !.exit = "interrupted"]
       \/ client.step \in {"stat", "read"} /\ client' = Exit(client, "interrupted")
       \/ /\ client.step \in {"open", "start", "drain", "close", "done"}
          /\ client' = [client EXCEPT !.step = "ended", !.exit = "interrupted"]
    /\ UNCHANGED <<logVars, turn, broker, call, token, closes, history, faults, submissions>>

\* CancellationToken.cancel: the closers are taken under its lock, and run after it.
Cancel ==
    /\ client.step = "cancel"
    /\ client' = [client EXCEPT !.step = "closers"]
    /\ token' = [cancelled |-> TRUE, listed |-> FALSE, taken |-> token.listed]
    /\ UNCHANGED <<logVars, turn, broker, call, closes, history, counters>>

RunClosers ==
    /\ client.step = "closers"
    /\ closes' = IF token.taken THEN closes + 1 ELSE closes
    /\ token' = [token EXCEPT !.taken = FALSE]
    /\ client' = [client EXCEPT !.step = "reap"]
    /\ UNCHANGED <<logVars, turn, broker, call, history, counters>>

\* Another Ctrl-C here leaves the call as it is; while it is waited for it is ignored.
InterruptAgain ==
    /\ client.step \in {"cancel", "closers"}
    /\ client' = [client EXCEPT !.step = "ended"]
    /\ token' = [token EXCEPT !.taken = FALSE]
    /\ UNCHANGED <<logVars, turn, broker, call, closes, history, counters>>

Reap ==
    /\ client.step = "reap" /\ ~Alive
    /\ client' = [client EXCEPT !.step = "ended"]
    /\ Quiet

\* The loop goes on after an interrupt; any other error ends it.
End ==
    /\ client.step = "ended"
    /\ client' = [(IF client.exit = "raised" THEN [client EXCEPT !.step = "gone"] ELSE AtPrompt(client))
                  EXCEPT !.subscribed = FALSE]
    /\ broker' = None
    /\ UNCHANGED <<logVars, turn, call, token, closes, history, counters>>

DaemonStep == BeginEvent \/ PublishEvent \/ TurnStops
CallStep == Register \/ Request \/ Receive \/ EndCall
ClientStep ==
    \/ OpenActivity \/ StartCall \/ PollBatch \/ PollFails \/ Sleep \/ Outcome \/ Drain \/ Stat \/ Read
    \/ CloseActivity \/ Finish \/ NoteWritten \/ Cancel \/ RunClosers \/ Reap \/ End

Next ==
    \/ DaemonStep \/ CallStep \/ ClientStep \/ LogStep
    \/ Send \/ DaemonDies \/ Expire \/ LogFault \/ Lose \/ Interrupt \/ InterruptAgain

Spec == Init /\ [][Next]_vars

\* Threads go on; users, faults and deadlines need not come.
FairSpec ==
    /\ Spec
    /\ WF_vars(DaemonStep) /\ WF_vars(CallStep) /\ WF_vars(ClientStep)
    /\ \A w \in Writers : WF_vars(WriterStep(w) /\ UNCHANGED <<activityVars, history, counters>>)

-----------------------------------------------------------------------------
(* Properties *)

\* What an append says of a record is so: one that is persisted is in the log from its first
\* piece to its last, and of one that is not, nothing is left, though others append to the same
\* file (_append_encoded_log_line and its rollback, under the lock of _append_log_event).
OutcomeHonest ==
    \A r \in Records :
       /\ outcome[r] = "persisted" =>
             \E id \in DOMAIN files : \E i \in 2..Len(files[id]) :
                files[id][i - 1] = <<r, 1>> /\ files[id][i] = <<r, 2>>
       /\ outcome[r] = "not_persisted" =>
             \A id \in DOMAIN files : {<<r, 1>>, <<r, 2>>} \cap Range(files[id]) = {}

\* When a request has ended, what the turn published meanwhile has been shown: from the
\* subscription, or from the log when events were dropped or the subscription was lost. Only a
\* REPL that has to read the log can miss one, when the log goes past its cursor, was away when
\* the cursor began, or an append failed (run_live_activity_send, ActivityBroker,
\* InteractiveLogCursor).
NothingMissed ==
    client.step = "done" => told \subseteq Range(client.shown) \/ (client.degraded /\ disturbed)

\* No request shows an event twice, whether it came by the subscription, from the log or
\* by both (mark_seen, before the log is read).
NoneRepeated ==
    \A i, j \in (client.since + 1)..Len(client.shown) :
       i # j => client.shown[i] # client.shown[j]

\* The closer of a request runs at most once; once a cancellation has run the closers, the
\* request has no open socket to wait at (CancellationToken.cancel, register, _discard).
ClosedOnce ==
    /\ closes <= 1
    /\ client.step = "reap" /\ call.step \in {"listed", "sent"} => closes = 1

\* A message that is sent comes back to the prompt, or to the end of the REPL: the daemon
\* may die, requests and answers may be lost, the user may interrupt.
TurnEnds == client.step = "open" ~> client.step \in {"prompt", "gone"}

-----------------------------------------------------------------------------
(* Said of the code, and not true of it *)

\* An event is shown once in a turn: one that is read from the log before the broker has it
\* comes again with the subscription of the next request, which is not compared with what has
\* been seen (docs/spec/logs.md:297, cli/repl/activity.py:147).
ShownOnce == \A i, j \in DOMAIN client.shown : i # j => client.shown[i] # client.shown[j]

\* An interrupted request is joined before the prompt is back (cli/repl/activity.py:247); a second
\* Ctrl-C while the closers run goes past the join.
Reaped == client.step = "ended" /\ client.exit = "interrupted" => call.step \in {"none", "finished"}

\* A record whose append returned can be read while its file is there: the line that a failed
\* rollback or a killed process has left takes the next record with it (log/store.py:482).
AcknowledgedReadable ==
    \A r \in Records : outcome[r] = "persisted" =>
       \A id \in OnDisk : <<r, 2>> \in Range(files[id]) => Whole(r, id)

\* A file that is replaced does not end the REPL (cli/repl/activity.py:121): it may be away
\* between the stat and the open of a cursor.
NeverGone == client.step # "gone"
=============================================================================
