--------------------------- MODULE AgentCallsProofs ---------------------------
(***************************************************************************)
(* NotReplayed and ApprovedFirst of AgentCalls, for any callers, endpoints,*)
(* tools, attempts and rounds. The inductive invariant AgentInv says of    *)
(* each chat turn what its run knows: what it has captured, which call is  *)
(* about to act and which decision it was resumed with.                    *)
(***************************************************************************)
EXTENDS AgentCalls, FiniteSetTheorems, TLAPS

Resolutions == [request : {RequestOf(call) : call \in Calls}, decision : Decisions]
Flights == [call : Calls, step : {"look", "act", "asked"}] \cup {Idle}
Captures == {<<>>, <<"availability">>, <<"output">>, <<"broken">>, <<"effects">>}
RunStates ==
    [step : Steps, place : Nat, attempt : Nat, slots : [Slots -> Flights],
     resolution : Resolutions \cup {None}, resumed : BOOLEAN,
     captured : SUBSET Calls, cache : SUBSET Calls, error : Captures]

\* The types the proofs need.
RunTypes ==
    /\ at \in [Callers -> RunStates]
    /\ acted \in [Callers -> SUBSET (Calls \X Nat \X Nat)]
    /\ approved \in [Chats -> SUBSET Calls]
    /\ sent \in [Chats -> SUBSET Resolutions]

\* What changed something did so in the run there is, which has captured it.
OneRun(run, acts) ==
    /\ run.step = "idle" => acts = {}
    /\ run.step \in {"model", "tools", "failed", "waiting"} =>
          \A a \in acts :
             a[1] \in run.captured \cap Mutating /\ a[2] = run.place /\ a[3] = run.attempt
    /\ \A a, b \in acts : a[2] = b[2] /\ a[3] = b[3]

\* What a call asks was approved, for one call or another.
Allowed(request, calls) == \E call \in calls : RequestOf(call) = request

\* What a confirmed call asks that has acted, or is about to, was approved; so was what a
\* decision that says so is about.
Approved(run, acts, calls, decisions) ==
    /\ \A a \in acts : a[1] \in Confirmed => Allowed(RequestOf(a[1]), calls)
    /\ \A s \in Slots :
          run.slots[s].step = "act" /\ run.slots[s].call \in Confirmed
             => Allowed(RequestOf(run.slots[s].call), calls)
    /\ run.resolution # None /\ run.resolution.decision = "approved"
          => Allowed(run.resolution.request, calls)
    /\ \A r \in decisions : r.decision = "approved" => Allowed(r.request, calls)

Asks(run) == run.step = "waiting" => \E s \in Slots : run.slots[s].step = "asked"

AgentInv ==
    /\ RunTypes
    /\ \A c \in Chats :
          OneRun(at[c], acted[c]) /\ Approved(at[c], acted[c], approved[c], sent[c]) /\ Asks(at[c])

-----------------------------------------------------------------------------
(* Lemmas about runs *)

LEMMA IdleIn == Idle \in Flights /\ Fresh \in [Slots -> Flights]
BY DEF Idle, Fresh, Flights

LEMMA StartIn ==
    /\ Start \in RunStates
    /\ \A s \in Slots : Start.slots[s].step = "none"
    /\ Start.resolution = None
BY IdleIn DEF Start, RunStates, Steps, Captures, Fresh, Idle

\* A caller that ends, or begins again, has nothing in flight and no decision in hand.
LEMMA EndIn ==
    ASSUME NEW outcome \in Steps
    PROVE  /\ [Start EXCEPT !.step = outcome] \in RunStates
           /\ [Start EXCEPT !.step = outcome].step = outcome
           /\ \A s \in Slots : [Start EXCEPT !.step = outcome].slots[s].step = "none"
           /\ [Start EXCEPT !.step = outcome].resolution = None
BY StartIn DEF RunStates

\* A caller's step leaves the others alone.
LEMMA OneCaller ==
    ASSUME AgentInv, NEW c \in Callers, RunTypes',
           \A b \in Chats \ {c} : /\ at'[b] = at[b] /\ acted'[b] = acted[b]
                                  /\ approved'[b] = approved[b] /\ sent'[b] = sent[b],
           c \in Chats => /\ OneRun(at'[c], acted'[c])
                          /\ Approved(at'[c], acted'[c], approved'[c], sent'[c])
                          /\ Asks(at'[c])
    PROVE  AgentInv'
BY DEF AgentInv
-----------------------------------------------------------------------------
(* Every action keeps the invariant *)

LEMMA Initially == Init => AgentInv
<1> SUFFICES ASSUME Init PROVE AgentInv
    OBVIOUS
<1> DEFINE idle == [Start EXCEPT !.step = "idle"]
<1>1. /\ idle \in RunStates /\ idle.step = "idle" /\ idle.resolution = None
      /\ \A s \in Slots : idle.slots[s].step = "none"
    BY EndIn DEF Steps
<1> HIDE DEF idle
<1>2. at = [c \in Callers |-> idle]
    BY DEF Init, idle
<1>3. RunTypes
    BY <1>1, <1>2 DEF Init, RunTypes
<1> QED BY <1>1, <1>2, <1>3 DEF Init, AgentInv, OneRun, Approved, Asks, Callers

LEMMA BeginKeeps ==
    ASSUME AgentInv, NEW c \in Callers, Begin(c)
    PROVE  AgentInv'
<1> USE DEF Begin
<1>1. at[c] \in RunStates
    BY DEF AgentInv, RunTypes
<1>2. [at[c] EXCEPT !.step = "model"] \in RunStates
    BY <1>1 DEF RunStates, Steps
<1>3. RunTypes'
    BY <1>2 DEF AgentInv, RunTypes, history
<1>4. ASSUME c \in Chats
      PROVE  /\ OneRun(at'[c], acted'[c])
             /\ Approved(at'[c], acted'[c], approved'[c], sent'[c])
             /\ Asks(at'[c])
    BY <1>1, <1>4 DEF AgentInv, RunTypes, RunStates, OneRun, Approved, Asks, history
<1> QED BY <1>3, <1>4, OneCaller DEF AgentInv, RunTypes, history, Callers

\* The end of a run, whatever it ends in: Answer, and Failed without another attempt.
LEMMA EndsKeeps ==
    ASSUME AgentInv, NEW c \in Callers, NEW outcome \in {"answered", "canned", "raised"},
           Ends(c, outcome), UNCHANGED history
    PROVE  AgentInv'
<1> USE DEF Ends
<1> DEFINE run == [Start EXCEPT !.step = outcome]
<1>1. /\ run \in RunStates /\ run.step = outcome /\ run.resolution = None
      /\ \A s \in Slots : run.slots[s].step = "none"
    BY EndIn DEF Steps
<1>2. at' = [at EXCEPT ![c] = run]
    OBVIOUS
<1> HIDE DEF run
<1>3. RunTypes'
    BY <1>1, <1>2 DEF AgentInv, RunTypes, history
<1>4. ASSUME c \in Chats
      PROVE  /\ OneRun(at'[c], acted'[c])
             /\ Approved(at'[c], acted'[c], approved'[c], sent'[c])
             /\ Asks(at'[c])
    BY <1>1, <1>2, <1>4 DEF AgentInv, RunTypes, OneRun, Approved, Asks, history
<1>5. \A b \in Chats \ {c} : /\ at'[b] = at[b] /\ acted'[b] = acted[b]
                             /\ approved'[b] = approved[b] /\ sent'[b] = sent[b]
    BY <1>2 DEF AgentInv, RunTypes, history
<1> QED BY <1>3, <1>4, <1>5, OneCaller

LEMMA ModelFailsKeeps ==
    ASSUME AgentInv, NEW c \in Callers, NEW error \in Errors, ModelFails(c, error)
    PROVE  AgentInv'
<1> USE DEF ModelFails
<1>1. at[c] \in RunStates
    BY DEF AgentInv, RunTypes
<1>2. <<error>> \in Captures
    BY DEF Errors, Captures
<1>3. [at[c] EXCEPT !.step = "failed", !.error = <<error>>] \in RunStates
    BY <1>1, <1>2 DEF RunStates, Steps
<1>4. RunTypes'
    BY <1>3 DEF AgentInv, RunTypes, shared, history
<1>5. ASSUME c \in Chats
      PROVE  /\ OneRun(at'[c], acted'[c])
             /\ Approved(at'[c], acted'[c], approved'[c], sent'[c])
             /\ Asks(at'[c])
    BY <1>1, <1>5 DEF AgentInv, RunTypes, RunStates, OneRun, Approved, Asks, shared, history
<1> QED BY <1>4, <1>5, OneCaller DEF AgentInv, RunTypes, shared, history, Callers

LEMMA CallToolsKeeps ==
    ASSUME AgentInv, NEW c \in Callers,
           NEW calls \in BoundedSeq(Offered(c), Cardinality(Slots)), CallTools(c, calls)
    PROVE  AgentInv'
<1> USE DEF CallTools
<1>1. at[c] \in RunStates
    BY DEF AgentInv, RunTypes
<1> DEFINE slots == [s \in Slots |-> IF s \in DOMAIN calls THEN [call |-> calls[s], step |-> "look"]
                                    ELSE Idle]
<1>2. \A s \in DOMAIN calls : calls[s] \in Calls
    BY DEF BoundedSeq, SeqOf, Offered
<1>3. slots \in [Slots -> Flights] /\ \A s \in Slots : slots[s].step \in {"look", "none"}
    BY <1>2 DEF Flights, Idle
<1> HIDE DEF slots
<1>4. at' = [at EXCEPT ![c].step = "tools", ![c].slots = slots]
    BY DEF slots
<1>5. [at[c] EXCEPT !.step = "tools", !.slots = slots] \in RunStates
    BY <1>1, <1>3 DEF RunStates, Steps
<1>6. RunTypes'
    BY <1>4, <1>5 DEF AgentInv, RunTypes, shared, history
<1>7. ASSUME c \in Chats
      PROVE  /\ OneRun(at'[c], acted'[c])
             /\ Approved(at'[c], acted'[c], approved'[c], sent'[c])
             /\ Asks(at'[c])
  <2>1. /\ at'[c].step = "tools" /\ at'[c].slots = slots
        /\ at'[c].place = at[c].place /\ at'[c].attempt = at[c].attempt
        /\ at'[c].captured = at[c].captured /\ at'[c].resolution = at[c].resolution
    BY <1>1, <1>4 DEF AgentInv, RunTypes, RunStates
  <2>2. UNCHANGED <<sent, acted, approved>>
    BY DEF shared, history
  <2>3. OneRun(at[c], acted[c]) /\ Approved(at[c], acted[c], approved[c], sent[c])
    BY <1>7 DEF AgentInv
  <2> QED BY <1>3, <2>1, <2>2, <2>3 DEF CallTools, OneRun, Approved, Asks
<1> QED BY <1>4, <1>6, <1>7, OneCaller DEF AgentInv, RunTypes, shared, history, Callers

\* A call that may go on to its function is not confirmed, or was approved.
LEMMA LookKeeps ==
    ASSUME AgentInv, NEW c \in Callers, NEW s \in Slots, Look(c, s)
    PROVE  AgentInv'
<1> USE DEF AgentInv, RunTypes
<1>1. at[c] \in RunStates /\ at[c].step = "tools" /\ at[c].slots[s].step = "look"
    BY DEF Look, InStep
<1> DEFINE call == at[c].slots[s].call
           asked == [call |-> call, step |-> "asked"]
           acts == [call |-> call, step |-> "act"]
           looked ==
             IF c \in Chats /\ call \in at[c].cache
             THEN [at[c] EXCEPT !.slots = Slot(c, s, Idle)]
             ELSE CASE Before(c, call) \in {"act", "approved"} ->
                         [at[c] EXCEPT !.slots = Slot(c, s, acts)]
                    [] Before(c, call) = "declined" ->
                         [at[c] EXCEPT !.slots = Slot(c, s, Idle),
                                       !.cache = at[c].cache \cup {call},
                                       !.captured = at[c].captured \cup {call}]
                    [] Before(c, call) = "ask" ->
                         [at[c] EXCEPT !.slots = Slot(c, s, asked),
                                       !.captured = at[c].captured \cup {call}]
                    [] OTHER -> [at[c] EXCEPT !.slots = Slot(c, s, asked), !.error = <<"effects">>]
<1>2. at' = [at EXCEPT ![c] = looked]
    BY DEF Look
<1>3. call \in Calls
    BY <1>1 DEF RunStates, Flights, Idle
<1>4. \A flight \in Flights :
         /\ Slot(c, s, flight) \in [Slots -> Flights]
         /\ Slot(c, s, flight)[s] = flight
         /\ \A t \in Slots \ {s} : Slot(c, s, flight)[t] = at[c].slots[t]
    BY <1>1 DEF Slot, RunStates
<1>5. /\ Idle \in Flights /\ asked \in Flights /\ acts \in Flights
      /\ Idle.step = "none" /\ <<"effects">> \in Captures
    BY <1>3 DEF Flights, Idle, Captures
<1>6. /\ looked \in RunStates /\ looked.step = "tools"
      /\ looked.place = at[c].place /\ looked.attempt = at[c].attempt
      /\ looked.resolution = at[c].resolution /\ at[c].captured \subseteq looked.captured
      /\ \A t \in Slots \ {s} : looked.slots[t] = at[c].slots[t]
      /\ looked.slots[s].step = "act" =>
            looked.slots[s].call = call /\ Before(c, call) \in {"act", "approved"}
  <2>0. acts.step = "act" /\ acts.call = call /\ asked.step = "asked"
    OBVIOUS
  <2> HIDE DEF asked, acts
  <2>1. CASE c \in Chats /\ call \in at[c].cache
    <3>1. looked = [at[c] EXCEPT !.slots = Slot(c, s, Idle)]
      BY <2>1
    <3> HIDE DEF looked, call
    <3> QED BY <3>1, <1>1, <1>4, <1>5 DEF RunStates
  <2>2. CASE ~(c \in Chats /\ call \in at[c].cache) /\ Before(c, call) \in {"act", "approved"}
    <3>1. looked = [at[c] EXCEPT !.slots = Slot(c, s, acts)]
      BY <2>2
    <3> HIDE DEF looked, call
    <3> QED BY <2>0, <2>2, <3>1, <1>1, <1>4, <1>5 DEF RunStates
  <2>3. CASE ~(c \in Chats /\ call \in at[c].cache) /\ Before(c, call) = "declined"
    <3>1. looked = [at[c] EXCEPT !.slots = Slot(c, s, Idle),
                                 !.cache = at[c].cache \cup {call},
                                 !.captured = at[c].captured \cup {call}]
      BY <2>3
    <3> HIDE DEF looked, call
    <3> QED BY <3>1, <1>1, <1>3, <1>4, <1>5 DEF RunStates
  <2>4. CASE ~(c \in Chats /\ call \in at[c].cache) /\ Before(c, call) = "ask"
    <3>1. looked = [at[c] EXCEPT !.slots = Slot(c, s, asked),
                                 !.captured = at[c].captured \cup {call}]
      BY <2>4
    <3> HIDE DEF looked, call
    <3> QED BY <2>0, <3>1, <1>1, <1>3, <1>4, <1>5 DEF RunStates
  <2>5. CASE /\ ~(c \in Chats /\ call \in at[c].cache)
             /\ Before(c, call) \notin {"act", "approved", "declined", "ask"}
    <3>1. looked = [at[c] EXCEPT !.slots = Slot(c, s, asked), !.error = <<"effects">>]
      BY <2>5
    <3> HIDE DEF looked, call
    <3> QED BY <2>0, <3>1, <1>1, <1>4, <1>5 DEF RunStates
  <2> QED BY <2>1, <2>2, <2>3, <2>4, <2>5
<1>7. Before(c, call) \in {"act", "approved"} /\ call \in Confirmed =>
         /\ at[c].resolution # None
         /\ at[c].resolution.decision = "approved"
         /\ at[c].resolution.request = RequestOf(call)
  <2>1. at[c].resolution # None => at[c].resolution.decision \in Decisions
    BY <1>1 DEF RunStates, Resolutions
  <2> QED BY <2>1 DEF Before, Matches, Decisions
<1> HIDE DEF looked, call
<1>8. RunTypes'
    BY <1>2, <1>6 DEF Look, shared, history
<1>9. ASSUME c \in Chats
      PROVE  /\ OneRun(at'[c], acted'[c])
             /\ Approved(at'[c], acted'[c], approved'[c], sent'[c])
             /\ Asks(at'[c])
  <2>1. at'[c] = looked /\ acted'[c] = acted[c] /\ approved'[c] = approved[c] /\ sent'[c] = sent[c]
    BY <1>2 DEF Look, shared, history
  <2>2. OneRun(looked, acted[c])
    BY <1>1, <1>6, <1>9 DEF OneRun
  <2>3. Approved(looked, acted[c], approved[c], sent[c])
    BY <1>1, <1>6, <1>7, <1>9 DEF Approved
  <2> QED BY <1>6, <2>1, <2>2, <2>3 DEF Asks
<1> QED BY <1>2, <1>8, <1>9, OneCaller DEF Look, shared, history, Callers

\* The call a function was run for is captured, whether it returned or raised.
LEMMA ActKeeps ==
    ASSUME AgentInv, NEW c \in Callers, NEW s \in Slots,
           NEW works \in BOOLEAN, NEW changes \in BOOLEAN, Act(c, s, works, changes)
    PROVE  AgentInv'
<1> USE DEF AgentInv, RunTypes
<1>1. at[c] \in RunStates /\ at[c].step = "tools" /\ at[c].slots[s].step = "act"
    BY DEF Act, InStep
<1> DEFINE call == at[c].slots[s].call
           run == Captured(c, s, works)
           act == <<call, at[c].place, at[c].attempt>>
<1>2. call \in Calls
    BY <1>1 DEF RunStates, Flights, Idle
<1>3. act \in Calls \X Nat \X Nat /\ act[1] = call /\ act[2] = at[c].place /\ act[3] = at[c].attempt
    BY <1>1, <1>2 DEF RunStates
<1>4. at' = [at EXCEPT ![c] = run]
    BY DEF Act
<1>5. /\ run \in RunStates /\ run.step = "tools"
      /\ run.place = at[c].place /\ run.attempt = at[c].attempt
      /\ run.resolution = at[c].resolution /\ run.captured = at[c].captured \cup {call}
      /\ run.slots[s].step = "none"
      /\ \A t \in Slots \ {s} : run.slots[t] = at[c].slots[t]
  <2>1. /\ Slot(c, s, Idle) \in [Slots -> Flights]
        /\ Slot(c, s, Idle)[s].step = "none"
        /\ \A t \in Slots \ {s} : Slot(c, s, Idle)[t] = at[c].slots[t]
    BY <1>1 DEF Slot, RunStates, Flights, Idle
  <2>2. <<"output">> \in Captures
    BY DEF Captures
  <2> QED BY <1>1, <1>2, <2>1, <2>2 DEF Captured, RunStates
<1>6. /\ acted'[c] \subseteq acted[c] \cup {act}
      /\ call \notin Mutating => acted'[c] = acted[c]
      /\ acted' \in [Callers -> SUBSET (Calls \X Nat \X Nat)]
      /\ \A b \in Chats \ {c} : acted'[b] = acted[b]
  <2>1. CASE changes /\ call \in Mutating
    <3>1. acted' = [acted EXCEPT ![c] = @ \cup {act}]
      BY <2>1 DEF Act
    <3> HIDE DEF act, call
    <3> QED BY <2>1, <3>1, <1>3 DEF Callers
  <2>2. CASE ~(changes /\ call \in Mutating)
    BY <2>2 DEF Act
  <2> QED BY <2>1, <2>2
<1> HIDE DEF run, act
<1>7. RunTypes'
    BY <1>4, <1>5, <1>6 DEF Act, shared
<1>8. ASSUME c \in Chats
      PROVE  /\ OneRun(at'[c], acted'[c])
             /\ Approved(at'[c], acted'[c], approved'[c], sent'[c])
             /\ Asks(at'[c])
  <2>1. at'[c] = run /\ approved'[c] = approved[c] /\ sent'[c] = sent[c]
    BY <1>4 DEF Act, shared
  <2>2. OneRun(run, acted'[c])
    BY <1>1, <1>3, <1>5, <1>6, <1>8 DEF OneRun
  <2>3. Approved(run, acted'[c], approved[c], sent[c])
    BY <1>1, <1>3, <1>5, <1>6, <1>8 DEF Approved
  <2> QED BY <1>5, <2>1, <2>2, <2>3 DEF Asks
<1> QED BY <1>4, <1>6, <1>7, <1>8, OneCaller DEF Act, shared, Callers

LEMMA SettleKeeps ==
    ASSUME AgentInv, NEW c \in Callers, Settle(c)
    PROVE  AgentInv'
<1> USE DEF AgentInv, RunTypes
<1>1. at[c] \in RunStates /\ at[c].step = "tools"
      /\ \A s \in Slots : at[c].slots[s].step \in {"none", "asked"}
    BY DEF Settle
<1> DEFINE run == at'[c]
<1>2. /\ run \in RunStates /\ run.step \in {"model", "failed", "waiting"}
      /\ at' = [at EXCEPT ![c] = run]
      /\ run.place = at[c].place /\ run.attempt = at[c].attempt
      /\ run.slots = at[c].slots /\ run.captured = at[c].captured
      /\ run.resolution \in {None, at[c].resolution}
      /\ Asks(run)
  <2> DEFINE asked == {s \in Slots : at[c].slots[s].step = "asked"}
  <2>0. Cardinality(asked) = 1 => asked # {}
    <3>1. asked = {} => Cardinality(asked) = Cardinality({})
      OBVIOUS
    <3> HIDE DEF asked
    <3> QED BY <3>1, FS_EmptySet
  <2>1. CASE at' = [at EXCEPT ![c].step = "model", ![c].resolution = None]
    BY <1>1, <2>1 DEF RunStates, Steps, Asks
  <2>2. CASE /\ Cardinality(asked) = 1
             /\ at' = [at EXCEPT ![c].step = "waiting", ![c].error = <<>>, ![c].resolution = None]
    <3>1. asked # {}
      BY <2>2, <2>0
    <3>2. <<>> \in Captures
      BY DEF Captures
    <3> QED BY <1>1, <2>2, <3>1, <3>2 DEF RunStates, Steps, Asks
  <2>3. CASE at' = [at EXCEPT ![c].step = "failed",
                              ![c].error = IF @ \in {<<>>, <<"effects">>} THEN <<"output">> ELSE @]
    <3>1. <<"output">> \in Captures
      BY DEF Captures
    <3> QED BY <1>1, <2>3, <3>1 DEF RunStates, Steps, Asks
  <2> QED BY <2>1, <2>2, <2>3 DEF Settle
<1>3. UNCHANGED <<sent, acted, approved>>
    BY DEF Settle, history
<1> HIDE DEF run
<1>4. RunTypes'
    BY <1>2, <1>3
<1>5. ASSUME c \in Chats
      PROVE  /\ OneRun(at'[c], acted'[c])
             /\ Approved(at'[c], acted'[c], approved'[c], sent'[c])
             /\ Asks(at'[c])
  <2>1. at'[c] = run /\ acted'[c] = acted[c] /\ approved'[c] = approved[c] /\ sent'[c] = sent[c]
    BY <1>3 DEF run
  <2>2. OneRun(run, acted[c])
    BY <1>1, <1>2, <1>5 DEF OneRun
  <2>3. Approved(run, acted[c], approved[c], sent[c])
    BY <1>1, <1>2, <1>5 DEF Approved
  <2> QED BY <1>2, <2>1, <2>2, <2>3
<1>6. \A b \in Chats \ {c} : at'[b] = at[b]
    BY <1>2
<1> QED BY <1>3, <1>4, <1>5, <1>6, OneCaller

\* The run that waits for a user has a call to decide about.
LEMMA RequestedIn ==
    ASSUME AgentInv, NEW c \in Chats, at[c].step = "waiting"
    PROVE  /\ Requested(c) \in Slots
           /\ at[c].slots[Requested(c)].call \in Calls
<1>1. \E s \in Slots : at[c].slots[s].step = "asked"
    BY DEF AgentInv, Asks
<1>2. Requested(c) \in Slots /\ at[c].slots[Requested(c)].step = "asked"
    BY <1>1 DEF Requested
<1>3. at[c].slots[Requested(c)] \in Flights
    BY <1>2 DEF AgentInv, RunTypes, RunStates, Callers
<1> QED BY <1>2, <1>3 DEF Flights, Idle

LEMMA DecideKeeps ==
    ASSUME AgentInv, NEW c \in Chats, NEW decision \in Decisions, Decide(c, decision)
    PROVE  AgentInv'
<1> USE DEF AgentInv, RunTypes
<1> DEFINE call == at[c].slots[Requested(c)].call
           r == [request |-> RequestOf(call), decision |-> decision]
<1>1. call \in Calls
    BY RequestedIn DEF Decide
<1>2. r \in Resolutions /\ r.request = RequestOf(call) /\ r.decision = decision
    BY <1>1 DEF Resolutions
<1>3. /\ sent' = [sent EXCEPT ![c] = @ \cup {r}]
      /\ approved' = IF decision = "approved" THEN [approved EXCEPT ![c] = @ \cup {call}]
                     ELSE approved
      /\ at' = at /\ acted' = acted
    BY DEF Decide
<1> HIDE DEF r, call
<1>4. RunTypes'
    BY <1>1, <1>2, <1>3
<1>5. /\ approved[c] \subseteq approved'[c] /\ sent'[c] = sent[c] \cup {r}
      /\ decision = "approved" => Allowed(RequestOf(call), approved'[c])
      /\ \A request : Allowed(request, approved[c]) => Allowed(request, approved'[c])
    BY <1>3 DEF Allowed
<1>6. OneRun(at'[c], acted'[c]) /\ Asks(at'[c])
    BY <1>3
<1>7. Approved(at'[c], acted'[c], approved'[c], sent'[c])
    BY <1>2, <1>3, <1>5 DEF Approved
<1>8. \A b \in Chats \ {c} : approved'[b] = approved[b] /\ sent'[b] = sent[b]
    BY <1>3
<1> QED BY <1>3, <1>4, <1>6, <1>7, <1>8, OneCaller DEF Callers

LEMMA ResumeKeeps ==
    ASSUME AgentInv, NEW c \in Chats, NEW resolution \in sent[c], Resume(c, resolution)
    PROVE  AgentInv'
<1> USE DEF AgentInv, RunTypes
<1>1. at[c] \in RunStates /\ at[c].step = "waiting" /\ resolution \in Resolutions
    BY DEF Resume, Callers
<1> DEFINE s == Requested(c)
           slots == [at[c].slots EXCEPT ![s].step = "look"]
           run == [at[c] EXCEPT !.step = "tools", !.resumed = TRUE, !.resolution = resolution,
                                !.slots = slots]
<1>2. s \in Slots /\ at[c].slots[s].call \in Calls /\ at[c].slots[s] \in Flights
    BY <1>1, RequestedIn DEF RunStates
<1> HIDE DEF s
<1>3. /\ slots \in [Slots -> Flights] /\ slots[s].step = "look"
      /\ \A t \in Slots \ {s} : slots[t] = at[c].slots[t]
  <2>1. [at[c].slots[s] EXCEPT !.step = "look"] \in Flights
      /\ [at[c].slots[s] EXCEPT !.step = "look"].step = "look"
    BY <1>2 DEF Flights, Idle
  <2> QED BY <1>1, <1>2, <2>1 DEF RunStates
<1> HIDE DEF slots
<1>4. /\ run \in RunStates /\ run.step = "tools" /\ run.slots = slots
      /\ run.place = at[c].place /\ run.attempt = at[c].attempt
      /\ run.resolution = resolution /\ run.captured = at[c].captured
    BY <1>1, <1>3 DEF RunStates, Steps
<1>5. at' = [at EXCEPT ![c] = run] /\ UNCHANGED <<sent, acted, approved>>
    BY DEF Resume, history, run, slots, s
<1> HIDE DEF run
<1>6. RunTypes'
    BY <1>4, <1>5
<1>7. OneRun(at'[c], acted'[c])
    BY <1>1, <1>4, <1>5 DEF OneRun, Callers
<1>8. Approved(at'[c], acted'[c], approved'[c], sent'[c])
    BY <1>1, <1>3, <1>4, <1>5 DEF Approved, Callers
<1>9. Asks(at'[c])
    BY <1>4, <1>5 DEF Asks, Callers
<1>10. \A b \in Chats \ {c} : at'[b] = at[b]
    BY <1>5
<1> QED BY <1>5, <1>6, <1>7, <1>8, <1>9, <1>10, OneCaller DEF Callers

\* Another run begins only if nothing of a chat's failed run changed anything.
LEMMA AgainKeeps ==
    ASSUME AgentInv, NEW c \in Callers, at[c].step = "failed",
           NEW place \in Nat, NEW attempt \in Nat, Again(c, place, attempt),
           c \in Chats => ~RetrySuppressed(c), UNCHANGED <<sent, acted, approved>>
    PROVE  AgentInv'
<1> USE DEF AgentInv, RunTypes
<1>1. at[c] \in RunStates
    OBVIOUS
<1>2. at' = [at EXCEPT ![c] = [Start EXCEPT !.place = place, !.attempt = attempt,
                                            !.captured = IF c \in Chats THEN {} ELSE @]]
    BY DEF Again
<1>4. /\ at'[c] \in RunStates /\ at'[c].step = "model" /\ at'[c].resolution = None
      /\ \A s \in Slots : at'[c].slots[s].step = "none"
      /\ \A b \in Callers \ {c} : at'[b] = at[b]
      /\ at' \in [Callers -> RunStates]
    BY <1>1, <1>2, StartIn DEF RunStates, Start
<1>5. RunTypes'
    BY <1>4
<1>6. ASSUME c \in Chats
      PROVE  /\ OneRun(at'[c], acted'[c])
             /\ Approved(at'[c], acted'[c], approved'[c], sent'[c])
             /\ Asks(at'[c])
  <2>1. acted[c] = {}
    BY <1>6 DEF OneRun, RetrySuppressed
  <2> QED BY <1>4, <1>6, <2>1 DEF OneRun, Approved, Asks
<1> QED BY <1>4, <1>5, <1>6, OneCaller DEF Callers

LEMMA FailedKeeps ==
    ASSUME AgentInv, NEW c \in Callers, Failed(c)
    PROVE  AgentInv'
<1>1. at[c].step = "failed" /\ at[c] \in RunStates
    BY DEF Failed, AgentInv, RunTypes
<1>2. at[c].place \in Nat /\ at[c].attempt \in Nat /\ UNCHANGED history
    BY <1>1 DEF RunStates, Failed
<1>3. CASE \E outcome \in {"canned", "raised"} : Ends(c, outcome)
    BY <1>2, <1>3, EndsKeeps
<1>4. CASE Retry(c)
    BY <1>1, <1>2, <1>4, AgainKeeps DEF Retry, RetryIf, history
<1>5. CASE Failover(c)
    BY <1>1, <1>2, <1>5, AgainKeeps DEF Failover, FailoverIf, history
<1>6. CASE GiveUp(c)
    BY <1>3, <1>6 DEF GiveUp
<1> QED BY <1>3, <1>4, <1>5, <1>6 DEF Failed

\* A step that leaves every run alone.
LEMMA NothingRuns ==
    ASSUME AgentInv, UNCHANGED <<at, acted, approved, sent>>
    PROVE  AgentInv'
BY DEF AgentInv, RunTypes

LEMMA NextKeeps ==
    ASSUME AgentInv, [Next]_vars
    PROVE  AgentInv'
<1>1. ASSUME NEW c \in Callers, Run(c)
      PROVE  AgentInv'
  <2>1. CASE Answer(c)
    BY <2>1, EndsKeeps DEF Answer
  <2>2. CASE Settle(c)
    BY <2>2, SettleKeeps
  <2>3. CASE Failed(c)
    BY <2>3, FailedKeeps
  <2>4. CASE \E error \in Errors : ModelFails(c, error)
    BY <2>4, ModelFailsKeeps
  <2>5. CASE \E calls \in BoundedSeq(Offered(c), Cardinality(Slots)) \ {<<>>} : CallTools(c, calls)
    BY <2>5, CallToolsKeeps
  <2>6. CASE \E s \in Slots : Look(c, s)
    BY <2>6, LookKeeps
  <2>7. CASE \E s \in Slots, works, changes \in BOOLEAN : Act(c, s, works, changes)
    BY <2>7, ActKeeps
  <2> QED BY <1>1, <2>1, <2>2, <2>3, <2>4, <2>5, <2>6, <2>7 DEF Run
<1>2. CASE \E c \in Callers : Begin(c)
    BY <1>2, BeginKeeps
<1>3. CASE \E c \in Chats, decision \in Decisions : Decide(c, decision)
    BY <1>3, DecideKeeps
<1>4. CASE \E c \in Chats : \E resolution \in sent[c] : Resume(c, resolution)
    BY <1>4, ResumeKeeps
<1>5. CASE Compose \/ UNCHANGED vars
    BY <1>5, NothingRuns DEF Compose, vars, shared, history
<1> QED BY <1>1, <1>2, <1>3, <1>4, <1>5 DEF Next

-----------------------------------------------------------------------------
(* Theorems *)

\* What every run knows of itself: a chat turn has captured what acted, in the one run
\* that acted, and no confirmed call goes on to its function before its request was approved
\* (agent/middleware.py, runtime/feature/executor.py).
THEOREM Invariance == Spec => []AgentInv
<1>1. Init => AgentInv
    BY Initially
<1>2. AgentInv /\ [Next]_vars => AgentInv'
    BY NextKeeps
<1> QED BY <1>1, <1>2, PTL DEF Spec

\* A mutating tool of a chat turn acts in one run only, whatever fails, on however many
\* endpoints and attempts (chat/response.py: retry_suppressed).
THEOREM NotReplayedHolds == Spec => []NotReplayed
<1>1. AgentInv => NotReplayed
    BY DEF AgentInv, OneRun, NotReplayed
<1> QED BY <1>1, Invariance, PTL

\* A confirmed call acts only after a user approved what it asks, whatever decisions arrive
\* late or again: those about another request do not let it act, those about the same
\* request of another call do (runtime/feature/approval.py, chat/response.py).
THEOREM ApprovedFirstHolds == Spec => []ApprovedFirst
<1>1. AgentInv => ApprovedFirst
    BY DEF AgentInv, Approved, ApprovedFirst, Allowed
<1> QED BY <1>1, Invariance, PTL
=============================================================================
