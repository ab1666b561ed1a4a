--------------------------- MODULE SchemaMigrations ---------------------------
(***************************************************************************)
(* The migrations of the database (scripts/database_migrations): which     *)
(* edges lead from one version to another, when an edge refuses, and what  *)
(* the last of them makes of a conversation that is partly curated. What   *)
(* an edge does to the form of a record is left out.                       *)
(***************************************************************************)
EXTENDS Integers, Sequences, FiniteSets, SequencesExt, FiniteSetsExt

CONSTANTS
    Current,        \* SQLITE_SCHEMA_VERSION
    Absent

Baseline == 3       \* the first version an edge leads back to
Compact == 4        \* the first version with one table of records

Newest == 7         \* the last version an edge is written for

ASSUME VersionAssumption == Current \in Nat /\ Current > Compact /\ Current <= Newest

Versions == 1..Current
Up(n) == [from |-> n, to |-> n + 1]
Down(n) == [from |-> n + 1, to |-> n]

\* The versions applied, and how many there are. A history with a gap, or one that
\* ends behind the current version, is refused.
Whole(history) == \E v \in Versions : history = 1..v
VersionOf(db) == Cardinality(db.history)

\* The edges from one version to another, or Absent if one of them does not exist.
Plan(current, target) ==
    CASE target >= current -> [i \in 1..(target - current) |-> Up(current + i - 1)]
      [] target < current /\ target < Baseline -> Absent
      [] OTHER -> [i \in 1..(current - target) |-> Down(current - i)]

-----------------------------------------------------------------------------
(* The edge to version 7: messages that were not curated become observations *)

Range2(start, end) == [start |-> start, end |-> end]
Messages(range) == range.start..(range.end - 1)

\* A range that is empty is not published.
Publish(start, end, status) ==
    IF end > start THEN {[range |-> Range2(start, end), status |-> status]} ELSE {}

ObservationStatus == {"pending", "processed"}
Plans == [start : Nat, end : Nat]
Histories ==
    [from : Nat, to : Nat, cursor : Nat, plan : {Absent} \cup Plans,
     observations : SUBSET [range : Plans, status : ObservationStatus]]

First(conversation) == Max({conversation.from, conversation.cursor})

\* Fault: the messages behind a plan are published, curated or not.
FromThePlan(conversation) ==
    LET plan == conversation.plan IN
    IF plan = Absent THEN Publish(First(conversation), conversation.to, "pending")
    ELSE Publish(Max({First(conversation), plan.start}), plan.end, "pending")
         \cup Publish(plan.end, conversation.to, "pending")

\* The range of the plan, if it is not behind the cursor, and what follows it.
Uncurated(conversation) ==
    LET plan == conversation.plan IN
    IF plan = Absent THEN Publish(First(conversation), conversation.to, "pending")
    ELSE Publish(Max({First(conversation), plan.start}), plan.end, "pending")
         \cup Publish(Max({First(conversation), plan.end}), conversation.to, "pending")

\* An observation that is there in another state is a collision.
Collides(conversation) ==
    \E new \in Uncurated(conversation), old \in conversation.observations :
       new.range = old.range /\ new # old

\* Cursors are deleted, and a plan is kept under the name of its observation.
ToObservations(conversation) ==
    [conversation EXCEPT !.observations = @ \cup Uncurated(conversation),
                         !.cursor = 0, !.plan = Absent]

-----------------------------------------------------------------------------
(* One edge *)

\* Edges that find what they do not expect raise: workspace entries on the way back
\* from the first compact version, or an observation that collides.
Refused(edge, db) ==
    \/ edge = Down(Baseline) /\ db.workspace # 0
    \/ edge = Up(6) /\ Collides(db.conversation)

Applied(edge, db) ==
    [db EXCEPT !.history = IF edge.to > edge.from THEN @ \cup {edge.to} ELSE @ \ {edge.from},
               !.conversation = IF edge = Up(6) THEN ToObservations(@) ELSE @]
=============================================================================
