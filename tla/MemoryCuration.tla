--------------------------- MODULE MemoryCuration ---------------------------
(***************************************************************************)
(* Curation of memory (src/nuself/memory): observations wait in an inbox,  *)
(* a curator turns each into a plan of actions, stages one candidate per   *)
(* action and accepts it into a memory entry or a profile item. The daemon *)
(* and one-shot processes curate; users review candidates at the same      *)
(* time. Every database call is one step, so a process may die, and        *)
(* another may step in, between any two of them.                           *)
(***************************************************************************)
EXTENDS Naturals, Sequences, SequencesExt, FiniteSets

CONSTANTS
    Observations,
    Trivial,          \* observations without a memory-worthy signal
    Proposals,        \* ids of the optimizer's candidates
    Curators, Reviewers,
    Kinds,            \* what candidates become: "entry", "profile"
    AutoAccept,       \* MemoryCuratorSettings.auto_accept
    MaxActions,       \* bound: actions of a plan
    MaxDecisions,     \* bound: plans
    MaxDeferrals,     \* bound: decisions the agent fails to make
    MaxRefusals,      \* bound: automatic acceptances that raise
    MaxReviews,       \* bound: operations of users
    MaxDiscards,      \* bound: plans a user discards
    MaxEdits,         \* bound: entries a user or a tool edits
    MaxCrashes,       \* bound: processes that die
    None

Actors == Curators \cup Reviewers
Candidates == (Observations \X (1..MaxActions)) \cup Proposals

ASSUME ActorsAssumption ==
    Curators \cap Reviewers = {} /\ None \notin Actors \cup Observations
ASSUME SettingsAssumption ==
    /\ Trivial \subseteq Observations /\ Kinds \subseteq {"entry", "profile"}
    /\ AutoAccept \in BOOLEAN
ASSUME BoundsAssumption ==
    /\ MaxActions \in Nat /\ MaxDecisions \in Nat /\ MaxDeferrals \in Nat
    /\ MaxReviews \in Nat /\ MaxDiscards \in Nat /\ MaxEdits \in Nat
    /\ MaxCrashes \in Nat /\ MaxRefusals \in Nat

VARIABLES
    observation,  \* status of each observation in the inbox
    plan,         \* the stored decision on each observation
    candidate,    \* the staged candidates
    items,        \* entries by number and profile items by observation: the
                  \* candidates each was made from
    entries,      \* entry ids given out
    lock,         \* holder of each observation's curator lock
    listed,       \* observations a curator has still to run
    pc, at,       \* step of each actor, what it works on and with which plan
    seen,         \* the candidate, or the sources of an entry, an actor read
    spent         \* how often each bounded thing has happened

memory == <<observation, plan, candidate, items, entries>>
actors == <<lock, listed, pc, at, seen>>
vars == <<memory, actors, spent>>

Limit == [decisions |-> MaxDecisions, deferrals |-> MaxDeferrals,
          reviews |-> MaxReviews, discards |-> MaxDiscards, edits |-> MaxEdits,
          crashes |-> MaxCrashes, refusals |-> MaxRefusals]
Spend(b) == spent[b] < Limit[b] /\ spent' = [spent EXCEPT ![b] = @ + 1]

\* An action of a decision. "target" is the entry an update is for.
Actions == [action : {"create"}, kind : Kinds, target : {None}]
             \cup [action : {"update"}, kind : {"entry"}, target : Nat]
             \cup [action : {"ignore"}, kind : {"entry"}, target : {None}]
Plans == [id : 1..MaxDecisions, actions : Seq(Actions)]
Targets == Nat \cup Observations
CandidateRecords ==
    [action : {"create", "update", "delete"}, kind : {"entry", "profile"},
     target : Targets \cup {None}, plan : 0..MaxDecisions,
     state : {"pending", "accepted", "rejected"}]

\* Entries are numbered, profile items named by their observations.
ASSUME IdentityAssumption ==
    /\ Nat \cap Observations = {} /\ Proposals \cap (Observations \X (1..MaxActions)) = {}
    /\ None \notin Nat /\ None \notin Plans /\ None \notin CandidateRecords

TypeOK ==
    /\ observation \in [Observations -> {"absent", "pending", "processed"}]
    /\ plan \in [Observations -> Plans \cup {None}]
    /\ candidate \in [Candidates -> CandidateRecords \cup {None}]
    /\ \A x \in DOMAIN items : x \in Targets /\ items[x] \in Seq(Candidates)
    /\ entries \in Nat
    /\ lock \in [Observations -> Curators \cup {None}]
    /\ listed \in [Curators -> SUBSET Observations]
    /\ pc \in [Actors -> {"idle", "read", "decide", "act", "accept", "commit",
                          "complete", "reject", "edit", "save"}]

AtRest == [on |-> None, k |-> 1, target |-> None, plan |-> None]

Init ==
    /\ observation = [o \in Observations |-> "absent"]
    /\ plan = [o \in Observations |-> None]
    /\ candidate = [c \in Candidates |-> None]
    /\ \E known \in 0..1 : entries = known /\ items = [e \in 1..known |-> << >>]
    /\ lock = [o \in Observations |-> None]
    /\ listed = [p \in Curators |-> {}]
    /\ pc = [a \in Actors |-> "idle"]
    /\ at = [a \in Actors |-> AtRest]
    /\ seen = [a \in Actors |-> None]
    /\ spent = [b \in DOMAIN Limit |-> 0]

Goto(a, step) == pc' = [pc EXCEPT ![a] = step]

-----------------------------------------------------------------------------
(* Accepting a candidate: MemoryCandidateRepository *)

Known == DOMAIN items
KnownEntries == Known \ Observations

With(x, sources) ==
    [y \in Known \cup {x} |-> IF y = x THEN sources ELSE items[y]]

\* Fault: the sources of an updated item are replaced.
Replaced(x, c) == With(x, <<c>>)

\* _merge_target: the sources of the candidate are added to those of the item.
Merged(x, c) == With(x, Append(items[x], c))

\* An entry gets an id of its own, a profile item is named by the source.
NewItem(c, read) == IF read.kind = "profile" THEN c[1] ELSE entries + 1

\* Fault: a created item is given no id.
Anonymous(c, read, target) == IF target # None THEN target ELSE read.target

\* The item an accepted candidate goes to.
Destination(c, read, target) ==
    IF read.action = "create" /\ target = None THEN NewItem(c, read)
    ELSE IF target # None THEN target ELSE read.target

\* A candidate finds its target in the repository of its own kind.
Finds(read, x) == x \in Known /\ (read.kind = "profile" <=> x \in Observations)

\* The transaction of accept and merge. It ends without a trace when the item
\* to change is not there.
Transaction(c, read, target) ==
    LET x == Destination(c, read, target)
        creates == read.action = "create" /\ target = None
        deletes == read.action = "delete" /\ target = None
    IN
    IF ~creates /\ ~Finds(read, x)
    THEN UNCHANGED <<candidate, items, entries>>
    ELSE /\ items' = CASE creates -> With(x, <<c>>)
                       [] deletes -> [y \in Known \ {x} |-> items[y]]
                       [] OTHER -> Merged(x, c)
         /\ entries' = IF creates /\ x \notin Observations THEN x ELSE entries
         /\ candidate' = [candidate EXCEPT ![c] =
               [read EXCEPT !.state = "accepted", !.target = x]]

-----------------------------------------------------------------------------
(* MemoryCurator, by process p *)

\* MemoryObservationRepository.observe
Observe(o) ==
    /\ observation[o] = "absent"
    /\ observation' = [observation EXCEPT ![o] = "pending"]
    /\ UNCHANGED <<plan, candidate, items, entries, actors, spent>>

\* Fault: an observation with a plan is taken for finished.
PendingUnplanned == {o \in Observations : observation[o] = "pending" /\ plan[o] = None}

Pending == {o \in Observations : observation[o] = "pending"}

\* _scan_memory_observations, handle_memory_update, the end of a REPL: the
\* pending observations are listed once and run one by one.
List(p) ==
    /\ pc[p] = "idle" /\ listed[p] = {} /\ Pending # {}
    /\ listed' = [listed EXCEPT ![p] = Pending]
    /\ UNCHANGED <<memory, lock, pc, at, seen, spent>>

\* Fault: the lock does not exclude.
AlwaysFree(o) == TRUE

LockFree(o) == lock[o] = None

\* run_once, which gives up when the observation is busy.
RunOnce(p, o) ==
    /\ pc[p] = "idle" /\ o \in listed[p]
    /\ listed' = [listed EXCEPT ![p] = @ \ {o}]
    /\ IF LockFree(o)
       THEN /\ lock' = [lock EXCEPT ![o] = p]
            /\ at' = [at EXCEPT ![p].on = o]
            /\ Goto(p, "read")
       ELSE UNCHANGED <<lock, at, pc>>
    /\ UNCHANGED <<memory, seen, spent>>

\* The end of run_once, which releases the lock.
Leave(p) ==
    /\ lock' = [lock EXCEPT ![at[p].on] = None]
    /\ at' = [at EXCEPT ![p] = AtRest]
    /\ Goto(p, "idle")

Read(p) ==
    LET o == at[p].on IN
    /\ pc[p] = "read"
    /\ IF observation[o] = "processed"
       THEN Leave(p)
       ELSE /\ Goto(p, IF plan[o] = None THEN "decide" ELSE "act")
            /\ at' = [at EXCEPT ![p].plan = plan[o]]
            /\ UNCHANGED lock
    /\ UNCHANGED <<memory, listed, seen, spent>>

\* The quality gate: nothing to remember.
PassOver(p) ==
    /\ pc[p] = "decide" /\ at[p].on \in Trivial
    /\ observation' = [observation EXCEPT ![at[p].on] = "processed"]
    /\ Leave(p)
    /\ UNCHANGED <<plan, candidate, items, entries, listed, seen, spent>>

\* The agent is unavailable or answers with an invalid batch.
Defer(p) ==
    /\ pc[p] = "decide" /\ at[p].on \notin Trivial /\ Spend("deferrals")
    /\ Leave(p)
    /\ UNCHANGED <<memory, listed, seen>>

\* The decision is stored before anything is done about it.
Decide(p, actions) ==
    /\ pc[p] = "decide" /\ at[p].on \notin Trivial /\ Spend("decisions")
    /\ plan' = [plan EXCEPT ![at[p].on] = [id |-> spent'.decisions, actions |-> actions]]
    /\ at' = [at EXCEPT ![p].plan = plan'[at[p].on]]
    /\ Goto(p, "act")
    /\ UNCHANGED <<observation, candidate, items, entries, lock, listed, seen>>

\* Plans the agent may come up with: it is told of the known entries.
Batches ==
    UNION {[1..n -> [action : {"create"}, kind : Kinds, target : {None}]
                       \cup [action : {"update"}, kind : {"entry"},
                             target : KnownEntries]
                       \cup [action : {"ignore"}, kind : {"entry"},
                             target : {None}]] : n \in 1..MaxActions}

\* Fault: the last action is left out.
NotLast(p) == at[p].k < Len(at[p].plan.actions)

HasAction(p) == at[p].k <= Len(at[p].plan.actions)

TheAction(p) == at[p].plan.actions[at[p].k]
TheCandidate(p) == <<at[p].on, at[p].k>>

NextAction(p) == at' = [at EXCEPT ![p].k = @ + 1] /\ Goto(p, "act")

\* An ignored action, or the update of an entry that is no longer there.
Ignore(p) ==
    /\ pc[p] = "act" /\ HasAction(p)
    /\ \/ TheAction(p).action = "ignore"
       \/ /\ TheAction(p).action = "update" /\ candidate[TheCandidate(p)] = None
          /\ TheAction(p).target \notin Known
    /\ NextAction(p)
    /\ UNCHANGED <<memory, lock, listed, seen, spent>>

\* Fault: a candidate that was staged before is taken for done.
NeverAcceptedLate(c) == FALSE

\* _staged_candidate: a pending one goes on to be accepted.
AcceptedLate(c) == candidate[c].state = "pending" /\ AutoAccept

\* The candidate was staged by an earlier run of the plan.
FindStaged(p) ==
    /\ pc[p] = "act" /\ HasAction(p) /\ TheAction(p).action # "ignore"
    /\ candidate[TheCandidate(p)] # None
    /\ IF AcceptedLate(TheCandidate(p))
       THEN Goto(p, "accept") /\ UNCHANGED at
       ELSE NextAction(p)
    /\ UNCHANGED <<memory, lock, listed, seen, spent>>

\* A new candidate. A creation that conflicts with an entry becomes an update.
Stage(p, action, kind, target) ==
    /\ pc[p] = "act" /\ HasAction(p) /\ candidate[TheCandidate(p)] = None
    /\ \/ /\ TheAction(p).action = "create" /\ action = "create"
          /\ kind = TheAction(p).kind /\ target = None
       \/ /\ action = "update" /\ kind = "entry" /\ target \in KnownEntries
          /\ \/ TheAction(p).action = "create"
             \/ TheAction(p).action = "update" /\ TheAction(p).target = target
    /\ candidate' = [candidate EXCEPT ![TheCandidate(p)] =
          [action |-> action, kind |-> kind, target |-> target,
           plan |-> at[p].plan.id, state |-> "pending"]]
    /\ IF AutoAccept THEN Goto(p, "accept") /\ UNCHANGED at ELSE NextAction(p)
    /\ UNCHANGED <<observation, plan, items, entries, lock, listed, seen, spent>>

\* accept first reads the candidate, outside of its transaction; a failure of
\* an automatic acceptance is logged and the candidate left as it is.
AcceptReads(p) ==
    LET c == candidate[TheCandidate(p)] IN
    /\ pc[p] = "accept" /\ p \in Curators
    /\ IF c # None /\ c.state = "pending"
       THEN seen' = [seen EXCEPT ![p] = c] /\ Goto(p, "commit") /\ UNCHANGED at
       ELSE NextAction(p) /\ UNCHANGED seen
    /\ UNCHANGED <<memory, lock, listed, spent>>

AcceptCommits(p) ==
    /\ pc[p] = "commit" /\ p \in Curators
    /\ Transaction(TheCandidate(p), seen[p], None)
    /\ NextAction(p)
    /\ seen' = [seen EXCEPT ![p] = None]
    /\ UNCHANGED <<observation, plan, lock, listed, spent>>

\* Validation or storage raises: the transaction is undone, the run goes on.
AcceptRaises(p) ==
    /\ pc[p] = "commit" /\ p \in Curators /\ Spend("refusals")
    /\ NextAction(p)
    /\ seen' = [seen EXCEPT ![p] = None]
    /\ UNCHANGED <<memory, lock, listed>>

MarkProcessed(p) ==
    /\ pc[p] = "act" /\ ~HasAction(p)
    /\ observation' = [observation EXCEPT ![at[p].on] = "processed"]
    /\ Goto(p, "complete")
    /\ UNCHANGED <<plan, candidate, items, entries, lock, listed, at, seen, spent>>

CompletePlan(p) ==
    /\ pc[p] = "complete"
    /\ plan' = [plan EXCEPT ![at[p].on] = None]
    /\ Leave(p)
    /\ UNCHANGED <<observation, candidate, items, entries, listed, seen, spent>>

CrashCurator(p) ==
    /\ pc[p] # "idle" /\ Spend("crashes")
    /\ lock' = [o \in Observations |-> IF lock[o] = p THEN None ELSE lock[o]]
    /\ listed' = [listed EXCEPT ![p] = {}]
    /\ at' = [at EXCEPT ![p] = AtRest]
    /\ seen' = [seen EXCEPT ![p] = None]
    /\ Goto(p, "idle")
    /\ UNCHANGED memory

-----------------------------------------------------------------------------
(* Users *)

\* MemoryCuratorPlanStore.discard
Discard(o) ==
    /\ LockFree(o) /\ plan[o] # None /\ Spend("discards")
    /\ plan' = [plan EXCEPT ![o] = None]
    /\ UNCHANGED <<observation, candidate, items, entries, actors>>

\* accept, merge, reject and edit read the candidate...
ReviewReads(r, c, step, target) ==
    /\ pc[r] = "idle" /\ Spend("reviews") /\ candidate[c] # None
    /\ \/ step = "commit" /\ candidate[c].state = "pending"
       \/ step \in {"reject", "edit"} /\ target = None
    /\ seen' = [seen EXCEPT ![r] = candidate[c]]
    /\ at' = [at EXCEPT ![r].on = c, ![r].target = target]
    /\ Goto(r, step)
    /\ UNCHANGED <<memory, lock, listed>>

Rests(r) ==
    /\ at' = [at EXCEPT ![r] = AtRest] /\ seen' = [seen EXCEPT ![r] = None]
    /\ Goto(r, "idle")

\* ... and write it afterwards as they read it.
ReviewCommits(r) ==
    /\ pc[r] = "commit" /\ r \in Reviewers
    /\ Transaction(at[r].on, seen[r], at[r].target)
    /\ Rests(r)
    /\ UNCHANGED <<observation, plan, lock, listed, spent>>

Rewrites(r) ==
    /\ pc[r] \in {"reject", "edit"}
    /\ candidate' = [candidate EXCEPT ![at[r].on] =
          IF pc[r] = "reject" THEN [seen[r] EXCEPT !.state = "rejected"]
          ELSE seen[r]]
    /\ Rests(r)
    /\ UNCHANGED <<observation, plan, items, entries, lock, listed, spent>>

DeleteCandidate(c) ==
    /\ Spend("reviews") /\ candidate[c] # None
    /\ candidate' = [candidate EXCEPT ![c] = None]
    /\ UNCHANGED <<observation, plan, items, entries, actors>>

DeleteItem(x) ==
    /\ Spend("reviews") /\ x \in Known
    /\ items' = [y \in Known \ {x} |-> items[y]]
    /\ UNCHANGED <<observation, plan, candidate, entries, actors>>

\* handle_memory_add: an entry of the user.
AddEntry ==
    /\ Spend("reviews")
    /\ items' = With(entries + 1, << >>) /\ entries' = entries + 1
    /\ UNCHANGED <<observation, plan, candidate, actors>>

\* archive, update_importance, unquarantine and handle_memory_edit read an
\* entry, and save it later with the sources that it had.
EntryReads(r, e) ==
    /\ pc[r] = "idle" /\ e \in KnownEntries /\ Spend("edits")
    /\ seen' = [seen EXCEPT ![r] = items[e]]
    /\ at' = [at EXCEPT ![r].target = e]
    /\ Goto(r, "save")
    /\ UNCHANGED <<memory, lock, listed>>

EntrySaves(r) ==
    /\ pc[r] = "save"
    /\ items' = With(at[r].target, seen[r])
    /\ Rests(r)
    /\ UNCHANGED <<observation, plan, candidate, entries, lock, listed, spent>>

\* MemoryOptimizer stages updates, which may be of another kind than the
\* entry, and deletions.
Optimize(c, action, kind, e) ==
    /\ Spend("reviews") /\ candidate[c] = None /\ e \in KnownEntries
    /\ action = "delete" => kind = "entry"
    /\ candidate' = [candidate EXCEPT ![c] =
          [action |-> action, kind |-> kind, target |-> e, plan |-> 0,
           state |-> "pending"]]
    /\ UNCHANGED <<observation, plan, items, entries, actors>>

-----------------------------------------------------------------------------

Curates(p) ==
    \/ \E o \in Observations : RunOnce(p, o)
    \/ Read(p) \/ PassOver(p) \/ Defer(p)
    \/ \E actions \in Batches : Decide(p, actions)
    \/ Ignore(p) \/ FindStaged(p)
    \/ \E action \in {"create", "update"}, kind \in Kinds \cup {"entry"},
          target \in KnownEntries \cup {None} : Stage(p, action, kind, target)
    \/ AcceptReads(p) \/ AcceptCommits(p) \/ AcceptRaises(p)
    \/ MarkProcessed(p) \/ CompletePlan(p)

Next ==
    \/ \E o \in Observations : Observe(o) \/ Discard(o)
    \/ \E p \in Curators : List(p) \/ Curates(p) \/ CrashCurator(p)
    \/ \E r \in Reviewers, c \in Candidates, step \in {"commit", "reject", "edit"},
          target \in Known \cup {None} : ReviewReads(r, c, step, target)
    \/ \E r \in Reviewers : ReviewCommits(r) \/ Rewrites(r) \/ EntrySaves(r)
    \/ \E r \in Reviewers, e \in KnownEntries : EntryReads(r, e)
    \/ AddEntry
    \/ \E c \in Candidates : DeleteCandidate(c)
    \/ \E x \in Known : DeleteItem(x)
    \/ \E c \in Proposals, action \in {"update", "delete"}, kind \in Kinds,
          e \in KnownEntries : Optimize(c, action, kind, e)

Spec == Init /\ [][Next]_vars

\* Curators go on with what they do and keep listing the inbox.
FairSpec ==
    Spec /\ \A p \in Curators : WF_vars(Curates(p)) /\ WF_vars(List(p))
=============================================================================
