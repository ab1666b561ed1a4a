------------------------------ MODULE AgentCalls ------------------------------
(***************************************************************************)
(* Agent runs (src/nuself/agent/failover.py, endpoint.py, middleware.py,   *)
(* chat/response.py, reason/advancer.py, runtime/feature). A caller runs   *)
(* an agent on one endpoint after another; the agent calls tools, several  *)
(* at a time; a confirmed tool suspends the run until a user decides.      *)
(***************************************************************************)
EXTENDS Integers, Sequences, FiniteSets, SequencesExt

CONSTANTS
    Chats, Advances,        \* callers: chat turns and advances of reasoning threads
    Configured,             \* endpoints with a key, in the order of the configuration
    Calls,                  \* tool calls: [tool, args]
    ReadonlyTools, ConfirmedTools,
    SummarisedTools,        \* confirmed tools whose requests tell the arguments
    ChatAttempts,           \* attempts on one endpoint
    MaxRounds,              \* bound: answers that call tools
    None, Corrupt

Callers == Chats \cup Advances
Endpoints == Range(Configured)
Slots == 1..2               \* calls of one answer, run by threads of their own
Mutating == {call \in Calls : call.tool \notin ReadonlyTools}
Confirmed == {call \in Calls : call.tool \in ConfirmedTools}

\* What a user is asked: a tool that does not summarise its arguments asks the same for
\* each of its calls.
RequestOf(call) ==
    [tool |-> call.tool,
     summary |-> IF call.tool \in SummarisedTools THEN call.args ELSE None]
Requests == {RequestOf(call) : call \in Confirmed}

Errors == {"availability", "output", "broken"}
Decisions == {"approved", "declined", "unavailable"}

ASSUME CallersAssumption == Chats \cap Advances = {} /\ Configured # <<>>
ASSUME ToolsAssumption ==
    /\ \A call \in Calls : DOMAIN call = {"tool", "args"}
    /\ ReadonlyTools \cap ConfirmedTools = {}       \* a read-only feature asks for nothing
    /\ SummarisedTools \subseteq ConfirmedTools
ASSUME BoundsAssumption ==
    ChatAttempts \in Nat \ {0} /\ MaxRounds \in Nat

VARIABLES
    preference,     \* the file of the last endpoint that answered
    order,          \* the endpoints in the order they are tried
    at,             \* what each caller is doing
    registry,       \* suspended runs of chat turns
    sent,           \* decisions users have sent: [request, decision]
    lock,           \* the advance that has the advancer
    rounds,
    acted,          \* calls whose functions changed something, and in which attempts
    approved        \* calls a user approved

shared == <<preference, order, registry, sent, lock>>
history == <<acted, approved>>
vars == <<shared, at, rounds, history>>

Idle == [call |-> None, step |-> "none"]
Fresh == [slot \in Slots |-> Idle]

\* A run: the endpoint's place and the attempt, the calls in flight, the
\* resolution in hand, the executions captured, the results cached, and the error.
Start == [step |-> "model", place |-> 1, attempt |-> 1, slots |-> Fresh, resolution |-> None,
          resumed |-> FALSE, captured |-> {}, cache |-> {}, error |-> <<>>]

Steps == {"idle", "model", "tools", "failed", "waiting", "answered", "canned", "raised"}

TypeOK ==
    /\ preference \in Endpoints \cup {Corrupt}
    /\ order \in Seq(Endpoints) /\ Range(order) = Endpoints /\ Len(order) = Cardinality(Endpoints)
    /\ registry = {c \in Chats : at[c].step = "waiting"}
    /\ sent \in [Chats -> SUBSET [request : Requests, decision : Decisions]]
    /\ lock \in Advances \cup {None}
    /\ \A c \in Callers :
          /\ at[c].step \in Steps /\ at[c].place \in 1..Len(order)
          /\ at[c].attempt \in 1..ChatAttempts
          /\ at[c].slots \in [Slots -> [call : Calls, step : {"look", "act", "asked"}] \cup {Idle}]
          /\ at[c].captured \subseteq Calls /\ at[c].cache \subseteq Calls
          /\ Range(at[c].error) \subseteq Errors \cup {"suppressed", "effects"}
          /\ (at[c].step \in {"idle", "model", "answered"} => at[c].slots = Fresh)
    /\ rounds \in 0..MaxRounds
    /\ acted \in [Callers -> SUBSET (Calls \X (1..Len(order)) \X (1..ChatAttempts))]
    /\ approved \in [Chats -> SUBSET Confirmed]

-----------------------------------------------------------------------------
(* The order of the endpoints *)

\* The last one that answered; a file that cannot be read, or names an endpoint
\* that is no longer configured, counts for nothing.
LoadState(file) == IF file \in Endpoints THEN file ELSE None

\* Fault: the endpoint that goes first keeps its place as well.
Doubled(file) ==
    LET start == LoadState(file) IN
    IF start = None THEN Configured ELSE <<start>> \o Configured

ConfiguredModels(file) ==
    LET start == LoadState(file) IN
    IF start = None THEN Configured
    ELSE <<start>> \o SelectSeq(Configured, LAMBDA e : e # start)

Init ==
    /\ preference \in {Corrupt, Last(Configured)}     \* a file that is missing is like one that is damaged
    /\ order = ConfiguredModels(preference)
    /\ at = [c \in Callers |-> [Start EXCEPT !.step = "idle"]]
    /\ registry = {} /\ sent = [c \in Chats |-> {}] /\ lock = None
    /\ rounds = 0
    /\ acted = [c \in Callers |-> {}] /\ approved = [c \in Chats |-> {}]

\* The application is composed anew.
Compose ==
    /\ \A c \in Callers : at[c].step \notin {"model", "tools", "failed", "waiting"}
    /\ order' = ConfiguredModels(preference)
    /\ UNCHANGED <<preference, registry, sent, lock, at, rounds, history>>

-----------------------------------------------------------------------------
(* One run of the agent *)

Offered(c) == IF c \in Chats THEN Calls ELSE Calls \ Confirmed
Unlocked(c) == IF c \in Advances THEN None ELSE lock
Ends(c, outcome) ==
    /\ at' = [at EXCEPT ![c] = [Start EXCEPT !.step = outcome]]
    /\ lock' = Unlocked(c)
    /\ sent' = [b \in Chats |-> IF b = c THEN {} ELSE sent[b]]

Begin(c) ==
    /\ at[c].step = "idle"
    /\ c \in Advances => lock = None
    /\ lock' = IF c \in Advances THEN c ELSE lock
    /\ at' = [at EXCEPT ![c].step = "model"]
    /\ UNCHANGED <<preference, order, registry, sent, rounds, history>>

\* The answer is structured: the endpoint is remembered, if the file can be written
\* (a resumed run goes round the endpoints and remembers nothing).
Answer(c) ==
    /\ at[c].step = "model"
    /\ Ends(c, "answered")
    /\ preference' \in IF at[c].resumed THEN {preference}
                       ELSE {preference, order[at[c].place]}
    /\ UNCHANGED <<order, registry, rounds, history>>

ModelFails(c, error) ==
    /\ at[c].step = "model"
    /\ at' = [at EXCEPT ![c].step = "failed", ![c].error = <<error>>]
    /\ UNCHANGED <<shared, rounds, history>>

\* The answer names one call, or two that run side by side.
CallTools(c, calls) ==
    /\ at[c].step = "model" /\ rounds < MaxRounds
    /\ rounds' = rounds + 1
    /\ at' = [at EXCEPT ![c].step = "tools",
                        ![c].slots = [s \in Slots |->
                            IF s \in DOMAIN calls THEN [call |-> calls[s], step |-> "look"]
                            ELSE Idle]]
    /\ UNCHANGED <<shared, history>>

Slot(c, s, value) == [at[c].slots EXCEPT ![s] = value]
InStep(c, s, step) == at[c].step = "tools" /\ at[c].slots[s].step = step

\* Fault: only the operation of a request is compared.
SameOperation(resolved, request) == resolved.tool = request.tool

\* Requests are equal if all their fields are; the call is none of them.
Matches(resolved, request) == resolved = request

\* FeatureExecutor.invoke: what its effects decide before the function runs.
Before(c, call) ==
    CASE call \notin Confirmed -> "act"
      [] call \in Confirmed /\ at[c].resolution = None -> "ask"
      [] OTHER -> IF Matches(at[c].resolution.request, RequestOf(call))
                  THEN at[c].resolution.decision ELSE "unavailable"

\* The middleware: a result in the cache is returned (an advancer keeps none); a call
\* that is not approved has a result too; one that must be asked for suspends the
\* run, which the middleware takes for a failure.
Look(c, s) ==
    /\ InStep(c, s, "look")
    /\ LET call == at[c].slots[s].call
           asked == [call |-> call, step |-> "asked"] IN
       at' = [at EXCEPT ![c] =
          IF c \in Chats /\ call \in at[c].cache
          THEN [@ EXCEPT !.slots = Slot(c, s, Idle)]
          ELSE CASE Before(c, call) \in {"act", "approved"} ->
                      [@ EXCEPT !.slots = Slot(c, s, [call |-> call, step |-> "act"])]
                 [] Before(c, call) = "declined" ->
                      [@ EXCEPT !.slots = Slot(c, s, Idle), !.cache = @ \cup {call},
                                !.captured = @ \cup {call}]
                 [] Before(c, call) = "ask" ->
                      [@ EXCEPT !.slots = Slot(c, s, asked), !.captured = @ \cup {call}]
                 [] OTHER -> [@ EXCEPT !.slots = Slot(c, s, asked), !.error = <<"effects">>]]
    /\ UNCHANGED <<shared, rounds, history>>

\* Fault: a call is captured when it succeeds.
SuccessesOnly(c, s, works) ==
    LET call == at[c].slots[s].call IN
    [at[c] EXCEPT !.slots = Slot(c, s, Idle),
                  !.cache = IF works THEN @ \cup {call} ELSE @,
                  !.captured = IF works THEN @ \cup {call} ELSE @,
                  !.error = IF works THEN @ ELSE <<"output">>]

\* What the middleware keeps of a call that returned, or raised.
Captured(c, s, works) ==
    LET call == at[c].slots[s].call IN
    [at[c] EXCEPT !.slots = Slot(c, s, Idle),
                  !.cache = IF works THEN @ \cup {call} ELSE @,
                  !.captured = @ \cup {call},
                  !.error = IF works THEN @ ELSE <<"output">>]

\* The function runs. One that raises may have changed something.
Act(c, s, works, changes) ==
    /\ InStep(c, s, "act")
    /\ at' = [at EXCEPT ![c] = Captured(c, s, works)]
    /\ acted' = IF changes /\ at[c].slots[s].call \in Mutating
                THEN [acted EXCEPT ![c] =
                        @ \cup {<<at[c].slots[s].call, at[c].place, at[c].attempt>>}]
                ELSE acted
    /\ UNCHANGED <<shared, rounds, approved>>

\* All the calls of an answer are over. One suspended call is a request; two are an error.
Settle(c) ==
    LET asked == {s \in Slots : at[c].slots[s].step = "asked"}
        Suspended == at' = [at EXCEPT ![c].step = "waiting", ![c].error = <<>>,
                                      ![c].resolution = None] IN
    /\ at[c].step = "tools" /\ \A s \in Slots : at[c].slots[s].step \in {"none", "asked"}
    /\ \/ /\ at[c].error = <<>> /\ asked = {}
          /\ at' = [at EXCEPT ![c].step = "model", ![c].resolution = None]
          /\ UNCHANGED registry
       \/ /\ Cardinality(asked) = 1 /\ at[c].error \in {<<>>, <<"effects">>}
          /\ Suspended /\ registry' = registry \cup {c}
       \/ /\ at[c].error \notin {<<>>, <<"effects">>} \/ Cardinality(asked) = 2
          /\ at' = [at EXCEPT ![c].step = "failed",
                              ![c].error = IF @ \in {<<>>, <<"effects">>} THEN <<"output">> ELSE @]
          /\ UNCHANGED registry
    /\ UNCHANGED <<preference, order, sent, lock, rounds, history>>

-----------------------------------------------------------------------------
(* Decisions of users *)

Requested(c) == (CHOOSE s \in Slots : at[c].slots[s].step = "asked")

Decide(c, decision) ==
    LET call == at[c].slots[Requested(c)].call IN
    /\ at[c].step = "waiting"
    /\ sent' = [sent EXCEPT ![c] = @ \cup {[request |-> RequestOf(call), decision |-> decision]}]
    /\ approved' = IF decision = "approved" THEN [approved EXCEPT ![c] = @ \cup {call}]
                   ELSE approved
    /\ UNCHANGED <<preference, order, registry, lock, at, rounds, acted>>

\* A decision arrives, perhaps again. It resumes a run that waits with an equal request,
\* though it may have been made for another call.
Resume(c, resolution) ==
    LET s == Requested(c) IN
    /\ at[c].step = "waiting" /\ resolution \in sent[c]
    /\ Matches(resolution.request, RequestOf(at[c].slots[s].call))
    /\ registry' = registry \ {c}
    /\ at' = [at EXCEPT ![c].step = "tools", ![c].resumed = TRUE, ![c].resolution = resolution,
                        ![c].slots = [@ EXCEPT ![s].step = "look"]]
    /\ UNCHANGED <<preference, order, sent, lock, rounds, history>>

-----------------------------------------------------------------------------
(* Retry and failover *)

Recoverable(error) == "broken" \notin Range(error)

\* The cause of an error counts as well.
IsEndpointAvailabilityError(error) == "availability" \in Range(error)

\* A tool that changes things was called: the run is not repeated.
RetrySuppressed(c) == at[c].captured \cap Mutating # {}

RetryIf(c) ==
    /\ c \in Chats /\ at[c].attempt < ChatAttempts
    /\ ~RetrySuppressed(c) /\ Recoverable(at[c].error)

\* An advance raises an error of its own after a tool call, chained from the failure.
Raised(c) ==
    IF c \in Advances /\ at[c].captured # {} THEN <<"suppressed">> \o at[c].error
    ELSE at[c].error

FailoverIf(c) ==
    /\ c \in Chats => ~RetrySuppressed(c) /\ Recoverable(at[c].error)
    /\ IsEndpointAvailabilityError(Raised(c))

\* A chat runs with a supervisor of its own; the advances share what is captured.
Again(c, place, attempt) ==
    at' = [at EXCEPT ![c] = [Start EXCEPT !.place = place, !.attempt = attempt,
                                          !.captured = IF c \in Chats THEN {} ELSE @]]

\* Fault: an attempt is repeated without counting it.
Tireless(c) == RetryIf(c) /\ Again(c, at[c].place, at[c].attempt) /\ UNCHANGED <<sent, lock>>

Retry(c) == RetryIf(c) /\ Again(c, at[c].place, at[c].attempt + 1) /\ UNCHANGED <<sent, lock>>

Failover(c) ==
    /\ ~RetryIf(c) /\ FailoverIf(c) /\ at[c].place < Len(order)
    /\ Again(c, at[c].place + 1, 1) /\ UNCHANGED <<sent, lock>>

\* A chat answers all the same, unless the error is one of the implementation or the
\* run was resumed.
GiveUp(c) ==
    /\ ~RetryIf(c) /\ (FailoverIf(c) => at[c].place = Len(order))
    /\ Ends(c, IF c \in Chats /\ Recoverable(at[c].error) THEN "canned" ELSE "raised")

Failed(c) ==
    /\ at[c].step = "failed"
    /\ IF at[c].resumed THEN Ends(c, "raised")
       ELSE Retry(c) \/ Failover(c) \/ GiveUp(c)
    /\ UNCHANGED <<preference, order, registry, rounds, history>>

-----------------------------------------------------------------------------

Run(c) ==
    \/ Answer(c) \/ Settle(c) \/ Failed(c)
    \/ \E error \in Errors : ModelFails(c, error)
    \/ \E calls \in BoundedSeq(Offered(c), Cardinality(Slots)) \ {<<>>} : CallTools(c, calls)
    \/ \E s \in Slots : Look(c, s) \/ \E works, changes \in BOOLEAN : Act(c, s, works, changes)

Next ==
    \/ \E c \in Callers : Begin(c) \/ Run(c)
    \/ \E c \in Chats :
          \/ \E decision \in Decisions : Decide(c, decision)
          \/ \E resolution \in sent[c] : Resume(c, resolution)
    \/ Compose

Spec == Init /\ [][Next]_vars

\* An endpoint that does not answer times out, and so does every call of a tool.
FairSpec == Spec /\ \A c \in Callers : WF_vars(Run(c))

-----------------------------------------------------------------------------
(* Properties *)

\* What changes something in a chat turn does so in one run of the agent: neither a retry
\* nor a failover starts another run once a mutating tool has acted, or has failed after
\* it acted (response.py: retry_suppressed; docs/spec/errors.md).
NotReplayed ==
    \A c \in Chats : \A a, b \in acted[c] : a[2] = b[2] /\ a[3] = b[3]

\* A confirmed tool acts only if a user approved what it asks, whatever decisions are
\* delivered late or again, and whichever of two calls side by side is resumed
\* (runtime/feature/approval.py: the resolution is bound to its request).
ApprovedFirst ==
    \A c \in Chats : \A a \in acted[c] :
       a[1] \in Confirmed => \E call \in approved[c] : RequestOf(call) = RequestOf(a[1])

\* Every run ends, or waits for a user: attempts and endpoints are used up
\* (agent/failover.py), and an advance gives the advancer back.
RunsEnd ==
    \A c \in Callers :
       at[c].step \in {"model", "tools", "failed"}
          ~> at[c].step \in {"waiting", "answered", "canned", "raised"}

-----------------------------------------------------------------------------
(* Said of the code, and not true of it *)

\* docs/spec/reason.md: once any tool outcome is recorded, the advancer must not switch
\* endpoints. Its error is chained from the failure of the endpoint, and the
\* shared classifier follows causes.
AdvanceNotReplayed ==
    \A c \in Advances : \A a, b \in acted[c] : a[2] = b[2] /\ a[3] = b[3]

\* A user approved each call that acted. A tool that does not summarise its arguments
\* (reflection_dismiss, reason_propose, reason_export) makes equal requests: a decision
\* delivered again approves its next call too.
EachCallApproved ==
    \A c \in Chats : \A a \in acted[c] : a[1] \in Confirmed => a[1] \in approved[c]
=============================================================================
