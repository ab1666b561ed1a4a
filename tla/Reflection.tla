------------------------------ MODULE Reflection ------------------------------
(***************************************************************************)
(* Reflection (src/nuself/reflection). The daemon runs a cycle whenever    *)
(* the schedule allows one; users force a cycle, organize the pending      *)
(* entries, dismiss, archive and promote them from other processes. Each   *)
(* call of the database is a step of its own; a save writes a whole record.*)
(***************************************************************************)
EXTENDS PersonaDiscussion, FiniteSetsExt

CONSTANTS
    Daemon, Users, Verbs,
    HoursPerDay, QuietStart, QuietEnd,                  \* quiet hours, local time
    Cooldown, Interval, JitterPercent, DailyCap,        \* in hours
    AutoNotify,
    MaxEntries,     \* bound: reflections stored
    MaxHours,       \* bound: the clock
    MaxOperations,  \* bound: operations of users
    MaxFailures,    \* bound: calls that raise, processes that die, states found damaged
    None, Corrupt

Procs == Users \cup {Daemon}
Entries == 1..MaxEntries
Hours == 0..MaxHours
Statuses == {"pending", "dismissed", "archived"}

ASSUME ScheduleAssumption ==
    /\ HoursPerDay \in Nat \ {0} /\ QuietStart \in 0..(HoursPerDay - 1)
    /\ QuietEnd \in 0..(HoursPerDay - 1)
    /\ Cooldown \in Nat /\ Interval \in Nat \ {0} /\ DailyCap \in Nat
    /\ JitterPercent \in 0..50 /\ AutoNotify \in BOOLEAN
ASSUME BoundsAssumption ==
    /\ MaxEntries \in Nat /\ MaxHours \in Nat /\ MaxOperations \in Nat /\ MaxFailures \in Nat
    /\ Daemon \notin Users
    /\ Verbs \subseteq {"run", "organize", "dismiss", "archive", "promote"}

VARIABLES
    now,        \* the clock
    schedule,   \* the schedule state: None, Corrupt or [at, count, day]
    entries,    \* the reflections stored
    inbox,      \* reflections with an inbox item
    requested,  \* reflections whose delivery was requested
    promoted,   \* reflections a reasoning thread was started from
    at,         \* what each process is doing
    made,       \* reflections so far
    operations, failures,
    published,  \* reflections of unforced cycles in the inbox, with the hour their cycle began
    merged,     \* entries the organizer archived
    crossed,    \* a cycle wrote a schedule that had changed since its gate
    clobbered   \* a save overwrote an entry that had changed since it was read

stored == <<schedule, entries, inbox, requested, promoted>>
bounds == <<made, operations, failures>>
history == <<published, merged, crossed, clobbered>>
vars == <<now, stored, at, bounds, history>>

Entry == [status : Statuses, score : 1..2, notes : SUBSET Entries]
State == [at : Hours, count : 0..MaxEntries, day : 0..MaxHours]

ASSUME NoneAssumption ==
    /\ None \notin Entry /\ None # Corrupt
    /\ {None, Corrupt} \cap [at : Nat, count : Nat, day : Nat] = {}

\* A process: its operation and step, whether it organizes for the second time, when it started
\* and the schedule its gate saw, the entries it listed and the groups it has yet
\* to merge, the duplicates of the current group, its own entry, and the
\* discussion.
Rest == [op |-> "none", step |-> "idle", last |-> FALSE, from |-> 0, saw |-> None,
         listed |-> [e \in Entries |-> None], groups |-> {}, duplicates |-> {},
         entry |-> 0, count |-> 0, selected |-> <<>>, turn |-> 0, emergent |-> Nobody]

TypeOK ==
    /\ now \in Hours /\ schedule \in State \cup {None, Corrupt}
    /\ entries \in [Entries -> Entry \cup {None}]
    /\ inbox \subseteq Entries /\ requested \subseteq inbox /\ promoted \subseteq Entries
    /\ \A p \in Procs :
          /\ at[p].op \in Verbs \cup {"none", "check"}
          /\ at[p].step \in {"idle", "list", "merge", "fold", "generate", "discuss",
                             "save", "count", "stamp", "publish", "load", "close"}
          /\ at[p].listed \in [Entries -> Entry \cup {None}]
          /\ at[p].groups \subseteq SUBSET Entries /\ at[p].duplicates \subseteq Entries
          /\ at[p].entry \in 0..MaxEntries /\ at[p].turn \in 0..MaxTurns
          /\ Len(ParticipantsForTurn(at[p].selected, at[p].emergent)) <= MaxParticipants
    /\ made \in 0..MaxEntries /\ operations \in 0..MaxOperations /\ failures \in 0..MaxFailures
    /\ published \subseteq Entries \X Hours /\ merged \subseteq Entries
    /\ crossed \in BOOLEAN /\ clobbered \in BOOLEAN

Init ==
    /\ now = 0 /\ schedule = None /\ entries = [e \in Entries |-> None]
    /\ inbox = {} /\ requested = {} /\ promoted = {}
    /\ at = [p \in Procs |-> Rest]
    /\ made = 0 /\ operations = 0 /\ failures = 0
    /\ published = {} /\ merged = {} /\ crossed = FALSE /\ clobbered = FALSE

Stored == {e \in Entries : entries[e] # None}
To(p, step) == at' = [at EXCEPT ![p].step = step]
Ends(p) == at' = [at EXCEPT ![p] = Rest]
Fails == failures < MaxFailures /\ failures' = failures + 1
Unforced(p) == at[p].op = "check"

-----------------------------------------------------------------------------
(* The gates of the schedule *)

Day(hour) == hour \div HoursPerDay
OfDay(hour) == hour % HoursPerDay

InQuietHours(hour) ==
    IF QuietStart <= QuietEnd
    THEN QuietStart <= OfDay(hour) /\ OfDay(hour) < QuietEnd
    ELSE OfDay(hour) >= QuietStart \/ OfDay(hour) < QuietEnd

CountToday(hour, state) ==
    IF state # None /\ state.day = Day(hour) THEN state.count ELSE 0

Jitter == (Interval * JitterPercent) \div 100
JitteredIntervals == (Interval - Jitter)..(Interval + Jitter)

Elapsed(hour, state, time) == IF state = None THEN TRUE ELSE hour - state.at >= time

\* No gate blocks a cycle that starts at the hour; the interval is drawn anew
\* at every look.
MayReflect(hour, state) ==
    /\ ~InQuietHours(hour)
    /\ CountToday(hour, state) < DailyCap
    /\ Elapsed(hour, state, Cooldown)
    /\ \E jittered \in JitteredIntervals : Elapsed(hour, state, jittered)

\* reflect: a forced cycle passes every gate but a state that cannot be read, and
\* that one too in the quiet hours, which are looked at first: they alone block it
\* then. A cycle that is blocked changes nothing.
Passes(p, op) ==
    /\ schedule = Corrupt => op # "check" /\ InQuietHours(now)
    /\ op = "check" => MayReflect(now, schedule)
    /\ at' = [at EXCEPT ![p].op = op, ![p].step = "list", ![p].from = now, ![p].saw = schedule]

-----------------------------------------------------------------------------
(* The organizer *)

Organized(p) ==
    IF at[p].op = "organize" THEN Ends(p)
    ELSE at' = [at EXCEPT ![p].step = IF at[p].last THEN "count" ELSE "generate",
                          ![p].last = ~@, ![p].listed = Rest.listed,
                          ![p].groups = {}, ![p].duplicates = {}]

Pending == {e \in Entries : entries[e] # None /\ entries[e].status = "pending"}

\* Ways to group entries by the likeness of their texts; an entry that is like no
\* other stays alone.
Groupings(set) ==
    {groups \in SUBSET {g \in SUBSET set : Cardinality(g) >= 2} :
        \A g, h \in groups : g = h \/ g \cap h = {}}

List(p) ==
    /\ at[p].step = "list"
    /\ \E groups \in Groupings(Pending) :
          at' = [at EXCEPT ![p].step = "merge", ![p].groups = groups,
                           ![p].listed = [e \in Entries |->
                               IF e \in Pending THEN entries[e] ELSE None]]
    /\ UNCHANGED <<now, stored, bounds, history>>

\* The entry with the best score, the latest of them.
Primary(p, group) ==
    CHOOSE e \in group : \A f \in group :
       LET better == at[p].listed[e].score - at[p].listed[f].score IN
       better > 0 \/ (better = 0 /\ e >= f)

\* What an earlier merge noted in a duplicate may be cut off with its text.
Carried(p, duplicates) ==
    {duplicates \cup kept :
        kept \in SUBSET UNION {at[p].listed[e].notes : e \in duplicates}}

Overwrites(p, e) == entries[e] # at[p].listed[e]

\* Fault: the duplicates are archived first, and their notes saved with the last of them.
ArchiveFirst(p) ==
    /\ at[p].step = "merge"
    /\ \/ at[p].groups = {} /\ Organized(p) /\ UNCHANGED <<entries, clobbered>>
       \/ \E group \in at[p].groups :
             /\ UNCHANGED <<entries, clobbered>>
             /\ at' = [at EXCEPT ![p].step = "fold", ![p].groups = @ \ {group},
                                 ![p].duplicates = group \ {Primary(p, group)}]
    /\ UNCHANGED <<now, schedule, inbox, requested, promoted, bounds, published, merged, crossed>>

\* The primary entry takes up the notes of its duplicates and is saved first.
Merge(p) ==
    /\ at[p].step = "merge"
    /\ \/ at[p].groups = {} /\ Organized(p) /\ UNCHANGED <<entries, clobbered>>
       \/ \E group \in at[p].groups :
          LET primary == Primary(p, group)
              duplicates == group \ {primary} IN
          /\ \E notes \in Carried(p, duplicates) :
                entries' = [entries EXCEPT ![primary] =
                   [status |-> "pending", notes |-> at[p].listed[primary].notes \cup notes,
                    score |-> Max({at[p].listed[e].score : e \in group})]]
          /\ clobbered' = (clobbered \/ Overwrites(p, primary))
          /\ at' = [at EXCEPT ![p].step = "fold", ![p].groups = @ \ {group},
                              ![p].duplicates = duplicates]
    /\ UNCHANGED <<now, schedule, inbox, requested, promoted, bounds, published, merged, crossed>>

\* Then its duplicates are archived, one save each, as they were listed.
Fold(p) ==
    /\ at[p].step = "fold"
    /\ \/ at[p].duplicates = {} /\ To(p, "merge") /\ UNCHANGED <<entries, merged, clobbered>>
       \/ \E e \in at[p].duplicates :
             /\ entries' = [entries EXCEPT ![e] = [at[p].listed[e] EXCEPT !.status = "archived"]]
             /\ merged' = merged \cup {e}
             /\ clobbered' = (clobbered \/ Overwrites(p, e))
             /\ at' = [at EXCEPT ![p].duplicates = @ \ {e}]
    /\ UNCHANGED <<now, schedule, inbox, requested, promoted, bounds, published, crossed>>

\* The organizer raises: the cycle goes on without it.
OrganizerFails(p) ==
    /\ at[p].step \in {"list", "merge", "fold"} /\ Fails
    /\ Organized(p)
    /\ UNCHANGED <<now, stored, made, operations, history>>

-----------------------------------------------------------------------------
(* The cycle *)

Check ==
    /\ at[Daemon].step = "idle" /\ Passes(Daemon, "check")
    /\ UNCHANGED <<now, stored, bounds, history>>

\* Cycles that may yet store an entry.
Ahead == {p \in Procs : at[p].step \in {"discuss", "save"}}

\* Without context, with an agent that fails or an answer without ideas there is no
\* candidate.
Candidates == {"none", "best"}

\* The relevance gate filters the candidate, by its answer, because of a cooldown or because
\* its agent failed; lets it pass; or wants it discussed.
Relevances == {"filtered", "passed", "discussed"}

Generate(p) ==
    /\ at[p].step = "generate"
    /\ \E candidate \in Candidates, relevance \in Relevances :
          IF candidate = "none" \/ relevance = "filtered" THEN Ends(p)
          ELSE /\ made + Cardinality(Ahead) < MaxEntries
               /\ IF relevance = "passed" THEN To(p, "save")
                  ELSE \E selected \in Selections :
                          at' = [at EXCEPT ![p].step = "discuss", ![p].selected = selected,
                                           ![p].turn = 1]
    /\ UNCHANGED <<now, stored, bounds, history>>

\* Fault: another candidate is tried in the same cycle.
TryAnother(p) ==
    at' = [at EXCEPT ![p].step = "generate", ![p].selected = <<>>, ![p].turn = 0,
                     ![p].emergent = Nobody]

Reject(p) == Ends(p)

\* One turn of the discussion. The scores of the last one decide.
Discuss(p) ==
    /\ at[p].step = "discuss"
    /\ LET heard == ParticipantsForTurn(at[p].selected, at[p].emergent) IN
       \E judgment \in Judgments, approved \in {Approved(s) : s \in Scorings(heard)} :
          CASE ~LastTurn(at[p].turn, judgment) ->
                  at' = [at EXCEPT ![p].turn = @ + 1, ![p].emergent = Called(judgment, @)]
            [] LastTurn(at[p].turn, judgment) /\ ~approved -> Reject(p)
            [] OTHER -> at' = [at EXCEPT ![p].step = "save", ![p].selected = <<>>,
                                         ![p].turn = 0, ![p].emergent = Nobody]
    /\ UNCHANGED <<now, stored, bounds, history>>

\* The entry is stored and traced; the pending entries are organized again.
SaveEntry(p) ==
    /\ at[p].step = "save"
    /\ made' = made + 1
    /\ \E score \in 1..2 :
          entries' = [entries EXCEPT ![made'] =
                         [status |-> "pending", score |-> score, notes |-> {}]]
    /\ at' = [at EXCEPT ![p].entry = made', ![p].last = TRUE, ![p].step = "list"]
    /\ UNCHANGED <<now, schedule, inbox, requested, promoted, operations, failures, history>>

\* Fault: the cycle that is about to be shown is not counted.
Uncounted(p) ==
    /\ at[p].step = "count"
    /\ IF schedule = Corrupt THEN Ends(p)
       ELSE at' = [at EXCEPT ![p].step = "stamp",
                             ![p].count = CountToday(at[p].from, schedule)]
    /\ UNCHANGED <<now, stored, bounds, history>>

\* _write_last_reflection reads the state again, and raises if it cannot.
Count(p) ==
    /\ at[p].step = "count"
    /\ IF schedule = Corrupt THEN Ends(p)
       ELSE at' = [at EXCEPT ![p].step = "stamp",
                             ![p].count = CountToday(at[p].from, schedule) + 1]
    /\ UNCHANGED <<now, stored, bounds, history>>

Stamp(p) ==
    /\ at[p].step = "stamp" /\ To(p, "publish")
    /\ schedule' = [at |-> at[p].from, count |-> at[p].count, day |-> Day(at[p].from)]
    /\ crossed' = (crossed \/ schedule # at[p].saw)
    /\ UNCHANGED <<now, entries, inbox, requested, promoted, bounds, published, merged, clobbered>>

\* The inbox item, and the request of its delivery.
Publish(p) ==
    /\ at[p].step = "publish" /\ Ends(p)
    /\ inbox' = inbox \cup {at[p].entry}
    /\ requested' = IF AutoNotify THEN requested \cup {at[p].entry} ELSE requested
    /\ published' = IF Unforced(p) THEN published \cup {<<at[p].entry, at[p].from>>}
                    ELSE published
    /\ UNCHANGED <<now, schedule, entries, promoted, bounds, merged, crossed, clobbered>>

-----------------------------------------------------------------------------
(* Users *)

Begin(u, verb) ==
    /\ at[u].step = "idle" /\ operations < MaxOperations
    /\ operations' = operations + 1
    /\ IF verb = "run" THEN Passes(u, verb)
       ELSE at' = [at EXCEPT ![u].op = verb,
                             ![u].step = IF verb = "organize" THEN "list" ELSE "load"]
    /\ UNCHANGED <<now, stored, made, failures, history>>

\* The entry is found by its id or its place in the list; one that cannot be
\* promoted, or is not there, ends the operation.
Load(u) ==
    /\ at[u].step = "load"
    /\ \/ Ends(u)
       \/ \E e \in Stored :
             /\ at[u].op = "promote" => entries[e].status = "pending"
             /\ at' = [at EXCEPT ![u].step = "close", ![u].entry = e,
                                 ![u].listed = [Rest.listed EXCEPT ![e] = entries[e]]]
    /\ UNCHANGED <<now, stored, bounds, history>>

\* A promoted entry stays pending; the status of any other is changed in the copy.
Close(u) ==
    /\ at[u].step = "close" /\ Ends(u)
    /\ LET e == at[u].entry IN
       IF at[u].op = "promote"
       THEN promoted' = promoted \cup {e} /\ UNCHANGED <<entries, clobbered>>
       ELSE /\ entries' = [entries EXCEPT ![e] = [at[u].listed[e] EXCEPT !.status =
                              IF at[u].op = "dismiss" THEN "dismissed" ELSE "archived"]]
            /\ clobbered' = (clobbered \/ Overwrites(u, e))
            /\ UNCHANGED promoted
    /\ UNCHANGED <<now, schedule, inbox, requested, bounds, published, merged, crossed>>

-----------------------------------------------------------------------------

\* A process dies, or a call raises.
Crash(p) ==
    /\ at[p].step # "idle" /\ Fails /\ Ends(p)
    /\ UNCHANGED <<now, stored, made, operations, history>>

\* The record of the schedule is damaged, or of a version that is not known.
Damage ==
    /\ schedule \notin {None, Corrupt} /\ Fails
    /\ schedule' = Corrupt
    /\ UNCHANGED <<now, entries, inbox, requested, promoted, at, made, operations, history>>

Tick ==
    /\ now < MaxHours /\ now' = now + 1
    /\ UNCHANGED <<stored, at, bounds, history>>

Cycle(p) ==
    \/ Generate(p) \/ Discuss(p) \/ SaveEntry(p)
    \/ Count(p) \/ Stamp(p) \/ Publish(p)
Organize(p) == List(p) \/ Merge(p) \/ Fold(p) \/ OrganizerFails(p)
Work(p) == Cycle(p) \/ Organize(p) \/ (p \in Users /\ (Load(p) \/ Close(p)))

Next ==
    \/ \E p \in Procs : Work(p) \/ Crash(p)
    \/ \E u \in Users, verb \in Verbs : Begin(u, verb)
    \/ Check \/ Damage \/ Tick

Spec == Init /\ [][Next]_vars

\* A process that has begun goes on: nothing in an operation waits for another.
FairSpec == Spec /\ \A p \in Procs : WF_vars(Work(p))

-----------------------------------------------------------------------------
(* Properties *)

Shown(hours) == Cardinality({r \in published : r[2] \in hours})
Gap == Max({Cooldown, Interval - Jitter})

\* However often the daemon dies between two of its writes, the cycles it ran
\* unforced and published keep the daily cap and their distance, as long as no
\* cycle wrote the schedule behind another's back: the schedule is written before
\* anything is shown (scheduler.py, reflect).
Paced ==
    ~crossed =>
       \A h \in Hours :
          /\ Shown({k \in Hours : Day(k) = Day(h)}) <= DailyCap
          /\ Shown({k \in Hours : h <= k /\ k < h + Gap}) <= 1

\* An idea the organizer put away as a duplicate is noted in another entry, also
\* when it is interrupted between its saves; only a save of an older copy of an
\* entry can lose the note.
MergedIsNoted ==
    ~clobbered => \A e \in merged : \E f \in Stored \ {e} : e \in entries[f].notes

\* A cycle ends: the discussion in it has a last turn (discussion.py, discuss).
CycleEnds == \A p \in Procs : at[p].step # "idle" ~> at[p].step = "idle"

-----------------------------------------------------------------------------
(* Said of the code, and not true of it: TLC has a counterexample to each. *)

\* reflection.md: the daily cap, when a forced cycle runs beside the daemon's.
CapAlways == \A h \in Hours : Shown({k \in Hours : Day(k) = Day(h)}) <= DailyCap

\* reflection.md: a published reflection reaches the inbox.
EveryReflectionTold ==
    (\A p \in Procs : at[p].step = "idle") => Stored \subseteq inbox

\* A dismissed reflection stays dismissed.
DismissedForGood ==
    [][\A e \in Stored : entries[e].status = "dismissed" => entries'[e].status = "dismissed"]_vars
=============================================================================
