--------------------------- MODULE ReflectionProofs ---------------------------
(***************************************************************************)
(* MergedIsNoted and Paced of Reflection, for any number of processes,     *)
(* reflections and operations, any quiet hours, intervals and caps, and    *)
(* whatever dies in between.                                               *)
(***************************************************************************)
EXTENDS Reflection, FiniteSetTheorems, WellFoundedInduction, TLAPS

Schedules == [at : Nat, count : Nat, day : Nat] \cup {None, Corrupt}
Listings == [Entries -> Entry \cup {None}]
Activities ==
    [op : Verbs \cup {"none", "check"},
     step : {"idle", "list", "merge", "fold", "generate", "discuss", "save", "count", "stamp",
             "publish", "load", "close"},
     last : BOOLEAN, from : Nat, saw : Schedules, listed : Listings,
     groups : SUBSET SUBSET Entries, duplicates : SUBSET Entries, entry : Nat, count : Nat,
     selected : Selections \cup {<<>>}, turn : Nat, emergent : Emergent \cup {Nobody}]

\* The types the proofs need.
ReflectionTypes ==
    /\ now \in Nat /\ schedule \in Schedules
    /\ entries \in Listings
    /\ at \in [Procs -> Activities]
    /\ made \in Nat /\ merged \subseteq Entries /\ clobbered \in BOOLEAN

\* Entry e is noted in another one.
NotedIn(e, kept) == \E f \in Entries \ {e} : kept[f] # None /\ e \in kept[f].notes

\* What a process has listed is still stored, in whatever state. It archives only what is
\* noted elsewhere, unless somebody has saved an older copy.
Mindful(doing, kept, lost) ==
    /\ \A e \in Entries : doing.listed[e] # None => kept[e] # None
    /\ \A group \in doing.groups : group # {} /\ \A e \in group : doing.listed[e] # None
    /\ \A e \in doing.duplicates : doing.listed[e] # None /\ (~lost => NotedIn(e, kept))
    /\ doing.groups # {} => doing.step \in {"merge", "fold"}
    /\ doing.duplicates # {} => doing.step = "fold"
    /\ doing.step = "close" => doing.entry \in Entries /\ doing.listed[doing.entry] # None

MergeInv ==
    /\ ReflectionTypes
    /\ \A e \in Entries : entries[e] # None => e <= made
    /\ \A p \in Procs : Mindful(at[p], entries, clobbered)
    /\ ~clobbered => \A e \in merged : NotedIn(e, entries)

-----------------------------------------------------------------------------
(* Numbers *)

LEMMA Least ==
    ASSUME NEW S \in SUBSET Nat, S # {}
    PROVE  \E n \in S : \A m \in S : n <= m
<1> DEFINE R == OpToRel(<, Nat)
<1>1. \A x, y \in Nat : <<x, y>> \in R <=> x < y
    BY DEF OpToRel
<1>2. IsWellFoundedOn(R, Nat)
    BY NatLessThanWellFounded
<1> HIDE DEF R
<1>3. \E x \in S : \A y \in S : ~(<<y, x>> \in R)
    BY <1>2, WFMin
<1>4. PICK x \in S : \A y \in S : ~(<<y, x>> \in R)
    BY <1>3
<1>5. x \in Nat /\ \A y \in S : y \in Nat /\ ~(y < x)
    BY <1>1, <1>4
<1>6. \A y \in S : x <= y
    BY <1>5
<1> QED BY <1>6

LEMMA Greatest ==
    ASSUME NEW S \in SUBSET Nat, S # {}, NEW bound \in Nat, \A n \in S : n <= bound
    PROVE  \E n \in S : \A m \in S : m <= n
<1> DEFINE T == {k \in Nat : \A n \in S : n <= k}
<1>1. PICK k \in T : \A m \in T : k <= m
  <2>1. T \in SUBSET Nat /\ bound \in T
    OBVIOUS
  <2> HIDE DEF T
  <2> QED BY <2>1, Least
<1>2. CASE k \in S
    BY <1>2
<1>3. CASE k \notin S
  <2>1. \A n \in S : n \in Nat /\ n < k
    BY <1>1, <1>3
  <2>2. PICK n \in S : n \in Nat /\ n < k
    BY <2>1
  <2>3. k \in Nat /\ k - 1 \in Nat
    BY <2>2
  <2>4. k - 1 \in T
    BY <2>1, <2>3
  <2> QED BY <1>1, <2>3, <2>4
<1> QED BY <1>2, <1>3

-----------------------------------------------------------------------------
(* The primary entry of a group *)

\* A group has an entry that is better than the others, or as good and later.
LEMMA PrimaryIn ==
    ASSUME ReflectionTypes, NEW p \in Procs, NEW group \in SUBSET Entries, group # {},
           \A e \in group : at[p].listed[e] # None
    PROVE  Primary(p, group) \in group
<1> DEFINE listed == at[p].listed
           Best(e) == \A f \in group :
              LET better == listed[e].score - listed[f].score IN
              better > 0 \/ (better = 0 /\ e >= f)
<1>1. \A e \in group : e \in Nat /\ e <= MaxEntries /\ listed[e].score \in 1..2
    BY BoundsAssumption DEF ReflectionTypes, Activities, Listings, Entry, Entries
<1>2. \E e \in group : Best(e)
  <2> DEFINE top == {e \in group : listed[e].score = 2}
  <2>1. CASE top # {}
    <3>1. PICK e \in top : \A f \in top : f <= e
      <4>1. top \in SUBSET Nat /\ \A f \in top : f <= MaxEntries
        BY <1>1
      <4> HIDE DEF top
      <4> QED BY <2>1, <4>1, Greatest, BoundsAssumption
    <3>2. \A f \in group : listed[f].score = 2 \/ listed[f].score = 1
      BY <1>1
    <3>3. Best(e)
      BY <1>1, <3>1, <3>2
    <3> QED BY <3>1, <3>3
  <2>2. CASE top = {}
    <3>1. PICK e \in group : \A f \in group : f <= e
      BY <1>1, Greatest, BoundsAssumption
    <3>2. \A f \in group : listed[f].score = 1
      BY <1>1, <2>2
    <3>3. Best(e)
      BY <1>1, <3>1, <3>2
    <3> QED BY <3>3
  <2> QED BY <2>1, <2>2
<1>3. Primary(p, group) = CHOOSE e \in group : Best(e)
    BY DEF Primary
<1> HIDE DEF Best
<1> QED BY <1>2, <1>3

-----------------------------------------------------------------------------
(* What every step keeps *)

\* Nothing stored is lost, and no note of it unless an older copy is saved.
Grows(kept, later, lost) ==
    \A e \in Entries : kept[e] # None =>
       later[e] # None /\ (~lost => kept[e].notes \subseteq later[e].notes)

\* What was noted stays noted.
LEMMA StaysNoted ==
    ASSUME NEW kept, NEW later, NEW e \in Entries, Grows(kept, later, FALSE), NotedIn(e, kept)
    PROVE  NotedIn(e, later)
BY DEF Grows, NotedIn

\* Whoever was mindful of the entries is so of what they have grown to.
LEMMA StaysMindful ==
    ASSUME NEW r \in Activities, NEW kept, NEW later, NEW lost \in BOOLEAN,
           NEW lostLater \in BOOLEAN, lost => lostLater, Grows(kept, later, lostLater),
           Mindful(r, kept, lost)
    PROVE  Mindful(r, later, lostLater)
<1>1. \A e \in Entries : kept[e] # None => later[e] # None
    BY DEF Grows
<1>2. \A e \in r.duplicates : e \in Entries
    BY DEF Activities
<1>3. \A e \in r.duplicates : r.listed[e] # None /\ (~lostLater => NotedIn(e, later))
  <2>1. SUFFICES ASSUME NEW e \in r.duplicates, ~lostLater PROVE NotedIn(e, later)
    BY DEF Mindful
  <2>2. lost = FALSE /\ lostLater = FALSE
    BY <2>1
  <2> QED BY <1>2, <2>1, <2>2, StaysNoted DEF Mindful
<1> QED BY <1>1, <1>3 DEF Mindful

\* A step of one process, that is mindful of the entries it leaves behind.
LEMMA StepKeeps ==
    ASSUME MergeInv, NEW p \in Procs, NEW r \in Activities,
           at' = [at EXCEPT ![p] = r], Mindful(r, entries', clobbered'),
           now' \in Nat, schedule' \in Schedules, entries' \in Listings, made' \in Nat,
           merged' \subseteq Entries, clobbered' \in BOOLEAN, clobbered => clobbered',
           Grows(entries, entries', clobbered'),
           \A e \in Entries : entries'[e] # None => e <= made',
           ~clobbered' => \A e \in merged' \ merged : NotedIn(e, entries')
    PROVE  MergeInv'
<1>1. at \in [Procs -> Activities] /\ clobbered \in BOOLEAN /\ merged \subseteq Entries
    BY DEF MergeInv, ReflectionTypes
<1>2. ReflectionTypes'
    BY <1>1 DEF ReflectionTypes
<1>3. \A q \in Procs : Mindful(at'[q], entries', clobbered')
  <2>1. TAKE q \in Procs
  <2>2. at[q] \in Activities /\ Mindful(at[q], entries, clobbered)
    BY <1>1 DEF MergeInv
  <2>3. Mindful(at[q], entries', clobbered')
    BY <1>1, <2>2, StaysMindful
  <2> QED BY <1>1, <2>3
<1>4. ~clobbered' => \A e \in merged' : NotedIn(e, entries')
  <2>1. SUFFICES ASSUME ~clobbered', NEW e \in merged PROVE NotedIn(e, entries')
    OBVIOUS
  <2>2. clobbered' = FALSE /\ clobbered = FALSE
    BY <1>1, <2>1
  <2>3. e \in Entries /\ NotedIn(e, entries)
    BY <1>1, <2>1, <2>2 DEF MergeInv
  <2> QED BY <2>2, <2>3, StaysNoted
<1> QED BY <1>2, <1>3, <1>4 DEF MergeInv

\* The same, when the step saves no entry.
LEMMA QuietStep ==
    ASSUME MergeInv, NEW p \in Procs, NEW r \in Activities,
           at' = [at EXCEPT ![p] = r], Mindful(r, entries, clobbered),
           now' \in Nat, schedule' \in Schedules,
           UNCHANGED <<entries, made, merged, clobbered>>
    PROVE  MergeInv'
<1>1. Grows(entries, entries, clobbered)
    BY DEF Grows
<1>2. Mindful(r, entries', clobbered') /\ Grows(entries, entries', clobbered')
    BY <1>1
<1>3. entries' \in Listings /\ made' \in Nat /\ merged' \subseteq Entries /\ clobbered' \in BOOLEAN
    BY DEF MergeInv, ReflectionTypes
<1>4. \A e \in Entries : entries'[e] # None => e <= made'
    BY DEF MergeInv
<1> QED BY <1>2, <1>3, <1>4, StepKeeps

\* A process that only moves on to another step, or rests, is as mindful as before.
LEMMA RestingMindful == Rest \in Activities /\ \A kept, lost : Mindful(Rest, kept, lost)
<1>1. Rest \in Activities
    BY DEF Rest, Activities, Schedules, Listings
<1>2. \A kept, lost : Mindful(Rest, kept, lost)
    BY DEF Rest, Mindful
<1> QED BY <1>1, <1>2

LEMMA RestKeeps ==
    ASSUME MergeInv, NEW p \in Procs, Ends(p), now' \in Nat, schedule' \in Schedules,
           UNCHANGED <<entries, made, merged, clobbered>>
    PROVE  MergeInv'
BY RestingMindful, QuietStep DEF Ends

LEMMA MoveKeeps ==
    ASSUME MergeInv, NEW p \in Procs,
           NEW s \in {"list", "merge", "fold", "generate", "discuss", "save", "count", "stamp",
                      "publish"},
           To(p, s), at[p].duplicates = {}, at[p].groups = {} \/ s = "merge",
           now' \in Nat, schedule' \in Schedules,
           UNCHANGED <<entries, made, merged, clobbered>>
    PROVE  MergeInv'
<1> DEFINE r == [at[p] EXCEPT !.step = s]
<1>1. at[p] \in Activities /\ Mindful(at[p], entries, clobbered)
    BY DEF MergeInv, ReflectionTypes
<1>2. r \in Activities /\ at' = [at EXCEPT ![p] = r]
    BY <1>1 DEF Activities, To
<1>3. Mindful(r, entries, clobbered)
    BY <1>1 DEF Mindful, Activities
<1> HIDE DEF r
<1> QED BY <1>2, <1>3, QuietStep

-----------------------------------------------------------------------------
(* The organizer *)

LEMMA OrganizedKeeps ==
    ASSUME MergeInv, NEW p \in Procs, Organized(p),
           UNCHANGED <<now, schedule, entries, made, merged, clobbered>>
    PROVE  MergeInv'
<1>1. now' \in Nat /\ schedule' \in Schedules
    BY DEF MergeInv, ReflectionTypes
<1>2. CASE at[p].op = "organize"
    BY <1>1, <1>2, RestKeeps DEF Organized
<1>3. CASE at[p].op # "organize"
  <2> DEFINE s == IF at[p].last THEN "count" ELSE "generate"
             r == [at[p] EXCEPT !.step = s, !.last = ~@, !.listed = Rest.listed,
                                !.groups = {}, !.duplicates = {}]
  <2>1. at[p] \in Activities
    BY DEF MergeInv, ReflectionTypes
  <2>2. Rest.listed = [e \in Entries |-> None] /\ Rest.listed \in Listings
    BY DEF Rest, Listings
  <2>3. s \in {"count", "generate"}
    OBVIOUS
  <2>4. r \in Activities /\ at' = [at EXCEPT ![p] = r]
    <3>1. at' = [at EXCEPT ![p] = r]
      BY <1>3 DEF Organized
    <3>2. r \in Activities
      <4> HIDE DEF s
      <4> QED BY <2>1, <2>2, <2>3 DEF Activities
    <3> QED BY <3>1, <3>2
  <2>5. r.groups = {} /\ r.duplicates = {} /\ r.step \in {"count", "generate"}
        /\ r.listed = [e \in Entries |-> None]
    <3> HIDE DEF s
    <3> QED BY <2>1, <2>2, <2>3 DEF Activities
  <2> HIDE DEF r
  <2>6. Mindful(r, entries, clobbered)
    BY <2>5 DEF Mindful
  <2> QED BY <1>1, <2>4, <2>6, QuietStep
<1> QED BY <1>2, <1>3

\* The groups of a list are of the entries in it.
LEMMA ListKeeps == ASSUME MergeInv, NEW p \in Procs, List(p) PROVE MergeInv'
<1>1. PICK groups \in Groupings(Pending) :
          at' = [at EXCEPT ![p].step = "merge", ![p].groups = groups,
                           ![p].listed = [e \in Entries |->
                               IF e \in Pending THEN entries[e] ELSE None]]
    BY DEF List
<1> DEFINE copies == [e \in Entries |-> IF e \in Pending THEN entries[e] ELSE None]
           r == [at[p] EXCEPT !.step = "merge", !.groups = groups, !.listed = copies]
<1>2. at[p] \in Activities /\ entries \in Listings /\ Mindful(at[p], entries, clobbered)
    BY DEF MergeInv, ReflectionTypes
<1>3. Pending \subseteq Entries
    BY DEF Pending
<1>4. groups \in SUBSET SUBSET Entries /\ \A g \in groups : g # {} /\ g \subseteq Pending
  <2>1. groups \in SUBSET {g \in SUBSET Pending : Cardinality(g) >= 2}
    BY DEF Groupings
  <2>2. \A g \in groups : g \subseteq Pending /\ Cardinality(g) >= 2
    BY <2>1
  <2>3. ~(Cardinality({}) >= 2)
    BY FS_EmptySet
  <2>4. \A g \in groups : g # {}
    BY <2>2, <2>3
  <2> QED BY <1>3, <2>2, <2>4
<1>5. copies \in Listings
    BY <1>2 DEF Listings
<1> HIDE DEF copies
<1>6. r \in Activities /\ at' = [at EXCEPT ![p] = r]
    BY <1>1, <1>2, <1>4, <1>5 DEF Activities, copies
<1>7. r.groups = groups /\ r.listed = copies /\ r.step = "merge"
      /\ r.duplicates = at[p].duplicates
    BY <1>2 DEF Activities
<1> HIDE DEF r
<1>8. \A e \in Pending : copies[e] = entries[e] /\ entries[e] # None
    BY <1>3 DEF copies, Pending
<1>9. Mindful(r, entries, clobbered)
  <2>1. \A e \in Entries : r.listed[e] # None => entries[e] # None
    BY <1>7, <1>8 DEF copies
  <2>2. r.duplicates = {}
    BY <1>2, <1>7 DEF Mindful, List
  <2> QED BY <1>4, <1>7, <1>8, <2>1, <2>2 DEF Mindful
<1> QED BY <1>6, <1>9, QuietStep DEF List, stored, bounds, history, MergeInv, ReflectionTypes

\* A step of the organizer that saves one entry, kept as it was listed but for what the save
\* adds to it.
LEMMA SaveKeeps ==
    ASSUME MergeInv, NEW p \in Procs, NEW e \in Entries, NEW saved \in Entry,
           NEW r \in Activities, at' = [at EXCEPT ![p] = r],
           at[p].listed[e] # None, at[p].listed[e].notes \subseteq saved.notes,
           entries' = [entries EXCEPT ![e] = saved],
           clobbered' = (clobbered \/ Overwrites(p, e)),
           r.listed = at[p].listed, r.groups \subseteq at[p].groups, r.step = "fold",
           \A d \in r.duplicates :
              r.listed[d] # None /\ (~clobbered' => NotedIn(d, entries')),
           merged' \subseteq Entries,
           ~clobbered' => \A d \in merged' \ merged : NotedIn(d, entries'),
           UNCHANGED <<now, schedule, made>>
    PROVE  MergeInv'
<1>1. /\ at[p] \in Activities /\ entries \in Listings /\ Mindful(at[p], entries, clobbered)
      /\ clobbered \in BOOLEAN /\ now \in Nat /\ schedule \in Schedules /\ made \in Nat
      /\ \A d \in Entries : entries[d] # None => d <= made
    BY DEF MergeInv, ReflectionTypes
<1>2. saved # None
    BY NoneAssumption
<1>3. entries' \in Listings /\ clobbered' \in BOOLEAN /\ entries[e] # None
    BY <1>1 DEF Listings, Mindful
<1>4. Grows(entries, entries', clobbered')
  <2>1. SUFFICES ASSUME NEW d \in Entries, entries[d] # None
                 PROVE  entries'[d] # None
                        /\ (~clobbered' => entries[d].notes \subseteq entries'[d].notes)
    BY DEF Grows
  <2>2. CASE d = e
    <3>1. entries'[d] = saved
      BY <1>1, <2>2 DEF Listings
    <3>2. ~clobbered' => entries[d].notes \subseteq saved.notes
      BY <2>2 DEF Overwrites
    <3> QED BY <1>2, <3>1, <3>2
  <2>3. CASE d # e
    BY <1>1, <2>1, <2>3 DEF Listings
  <2> QED BY <2>2, <2>3
<1>5. Mindful(r, entries', clobbered')
  <2>1. \A d \in Entries : r.listed[d] # None => entries'[d] # None
    BY <1>1, <1>4 DEF Mindful, Grows
  <2>2. \A group \in r.groups : group # {} /\ \A d \in group : r.listed[d] # None
    BY <1>1 DEF Mindful
  <2> QED BY <2>1, <2>2 DEF Mindful
<1>6. \A d \in Entries : entries'[d] # None => d <= made'
    BY <1>1, <1>3 DEF Listings
<1>7. clobbered => clobbered'
    OBVIOUS
<1> QED BY <1>1, <1>3, <1>4, <1>5, <1>6, <1>7, StepKeeps

\* The primary is saved with its duplicates in its notes, before any of them is touched.
LEMMA MergeKeeps == ASSUME MergeInv, NEW p \in Procs, Merge(p) PROVE MergeInv'
<1>1. CASE at[p].groups = {} /\ Organized(p) /\ UNCHANGED <<entries, clobbered>>
    BY <1>1, OrganizedKeeps DEF Merge, bounds
<1>2. CASE \E group \in at[p].groups :
             LET primary == Primary(p, group)
                 duplicates == group \ {primary} IN
             /\ \E notes \in Carried(p, duplicates) :
                   entries' = [entries EXCEPT ![primary] =
                      [status |-> "pending", notes |-> at[p].listed[primary].notes \cup notes,
                       score |-> Max({at[p].listed[e].score : e \in group})]]
             /\ clobbered' = (clobbered \/ Overwrites(p, primary))
             /\ at' = [at EXCEPT ![p].step = "fold", ![p].groups = @ \ {group},
                                 ![p].duplicates = duplicates]
  <2>1. PICK group \in at[p].groups :
             LET primary == Primary(p, group)
                 duplicates == group \ {primary} IN
             /\ \E notes \in Carried(p, duplicates) :
                   entries' = [entries EXCEPT ![primary] =
                      [status |-> "pending", notes |-> at[p].listed[primary].notes \cup notes,
                       score |-> Max({at[p].listed[e].score : e \in group})]]
             /\ clobbered' = (clobbered \/ Overwrites(p, primary))
             /\ at' = [at EXCEPT ![p].step = "fold", ![p].groups = @ \ {group},
                                 ![p].duplicates = duplicates]
    BY <1>2
  <2> DEFINE primary == Primary(p, group)
             duplicates == group \ {primary}
             best == Max({at[p].listed[e].score : e \in group})
  <2>2. PICK notes \in Carried(p, duplicates) :
           entries' = [entries EXCEPT ![primary] =
              [status |-> "pending", notes |-> at[p].listed[primary].notes \cup notes,
               score |-> best]]
    BY <2>1
  <2> DEFINE saved == [status |-> "pending",
                       notes |-> at[p].listed[primary].notes \cup notes, score |-> best]
             r == [at[p] EXCEPT !.step = "fold", !.groups = @ \ {group},
                                !.duplicates = duplicates]
  <2>3. at[p] \in Activities /\ entries \in Listings /\ Mindful(at[p], entries, clobbered)
    BY DEF MergeInv, ReflectionTypes
  <2>4. group \subseteq Entries /\ group # {} /\ \A e \in group : at[p].listed[e] # None
    BY <2>3 DEF Activities, Mindful
  <2>5. primary \in group
    BY <2>4, PrimaryIn DEF MergeInv
  <2>6. \A e \in group : at[p].listed[e] \in Entry
    BY <2>3, <2>4 DEF Activities, Listings
  <2>7. best \in 1..2
    <3> DEFINE found == {at[p].listed[e].score : e \in group}
    <3>1. found \subseteq 1..2 /\ found # {}
      BY <2>4, <2>6 DEF Entry
    <3>2. \E x \in found : \A y \in found : x >= y
      <4>1. found \in SUBSET Nat /\ \A n \in found : n <= 2
        BY <3>1
      <4>2. PICK x \in found : \A y \in found : y <= x
        <5> HIDE DEF found
        <5> QED BY <3>1, <4>1, Greatest
      <4> QED BY <4>1, <4>2
    <3>3. best = CHOOSE x \in found : \A y \in found : x >= y
      BY DEF Max
    <3> HIDE DEF found
    <3> QED BY <3>1, <3>2, <3>3
  <2> HIDE DEF best
  <2>8. duplicates \subseteq notes /\ notes \subseteq Entries
    <3>1. PICK kept \in SUBSET UNION {at[p].listed[e].notes : e \in duplicates} :
             notes = duplicates \cup kept
      BY <2>2 DEF Carried
    <3>2. \A e \in duplicates : at[p].listed[e].notes \subseteq Entries
      BY <2>6 DEF Entry
    <3> QED BY <2>4, <3>1, <3>2
  <2>9. saved \in Entry
    <3>1. at[p].listed[primary].notes \subseteq Entries
      BY <2>5, <2>6 DEF Entry
    <3> QED BY <2>7, <2>8, <3>1 DEF Entry, Statuses
  <2>10. r \in Activities /\ at' = [at EXCEPT ![p] = r]
    <3>1. at[p].groups \ {group} \in SUBSET SUBSET Entries /\ duplicates \in SUBSET Entries
      BY <2>3, <2>4 DEF Activities
    <3>2. at' = [at EXCEPT ![p] = r]
      BY <2>1
    <3> HIDE DEF duplicates
    <3> QED BY <2>3, <3>1, <3>2 DEF Activities
  <2>11. /\ r.listed = at[p].listed /\ r.groups = at[p].groups \ {group} /\ r.step = "fold"
         /\ r.duplicates = duplicates
    BY <2>3 DEF Activities
  <2>12. clobbered' = (clobbered \/ Overwrites(p, primary)) /\ saved.notes =
            at[p].listed[primary].notes \cup notes
    BY <2>1
  <2>13. entries' = [entries EXCEPT ![primary] = saved] /\ saved # None
    BY <2>2, <2>9, NoneAssumption
  <2> HIDE DEF saved, r, primary
  <2>14. \A d \in duplicates : NotedIn(d, entries')
    <3>1. \A d \in duplicates : primary \in Entries \ {d} /\ d \in saved.notes
      BY <2>4, <2>5, <2>8, <2>12
    <3>2. entries'[primary] = saved
      BY <2>3, <2>4, <2>5, <2>13 DEF Listings
    <3> QED BY <2>13, <3>1, <3>2 DEF NotedIn
  <2>15. \A d \in r.duplicates : r.listed[d] # None /\ (~clobbered' => NotedIn(d, entries'))
    BY <2>4, <2>11, <2>14
  <2>16. UNCHANGED <<now, schedule, made, merged>> /\ merged \subseteq Entries
    BY DEF Merge, bounds, MergeInv, ReflectionTypes
  <2>17. at[p].listed[primary] # None /\ primary \in Entries
         /\ at[p].listed[primary].notes \subseteq saved.notes
    BY <2>4, <2>5, <2>12
  <2> QED BY <2>9, <2>10, <2>11, <2>12, <2>13, <2>15, <2>16, <2>17, SaveKeeps
<1> QED BY <1>1, <1>2 DEF Merge

\* A duplicate is archived with the notes it was listed with.
LEMMA FoldKeeps == ASSUME MergeInv, NEW p \in Procs, Fold(p) PROVE MergeInv'
<1>1. /\ at[p] \in Activities /\ entries \in Listings /\ Mindful(at[p], entries, clobbered)
      /\ merged \subseteq Entries /\ now \in Nat /\ schedule \in Schedules
      /\ clobbered \in BOOLEAN
    BY DEF MergeInv, ReflectionTypes
<1>2. UNCHANGED <<now, schedule, made>>
    BY DEF Fold, bounds
<1>3. CASE at[p].duplicates = {} /\ To(p, "merge") /\ UNCHANGED <<entries, merged, clobbered>>
    BY <1>1, <1>2, <1>3, MoveKeeps
<1>4. ASSUME NEW e \in at[p].duplicates,
             entries' = [entries EXCEPT ![e] = [at[p].listed[e] EXCEPT !.status = "archived"]],
             merged' = merged \cup {e},
             clobbered' = (clobbered \/ Overwrites(p, e)),
             at' = [at EXCEPT ![p].duplicates = @ \ {e}]
      PROVE  MergeInv'
  <2> DEFINE saved == [at[p].listed[e] EXCEPT !.status = "archived"]
             r == [at[p] EXCEPT !.duplicates = @ \ {e}]
  <2>1. e \in Entries /\ at[p].listed[e] # None /\ at[p].listed[e] \in Entry
    BY <1>1, <1>4 DEF Activities, Mindful, Listings
  <2>2. saved \in Entry /\ saved.notes = at[p].listed[e].notes
    BY <2>1 DEF Entry, Statuses
  <2>3. r \in Activities /\ at' = [at EXCEPT ![p] = r]
    <3>1. r \in Activities
      BY <1>1 DEF Activities
    <3>2. at' = [at EXCEPT ![p] = r]
      BY <1>4
    <3> QED BY <3>1, <3>2
  <2>4. /\ r.listed = at[p].listed /\ r.groups = at[p].groups /\ r.step = at[p].step
        /\ r.duplicates = at[p].duplicates \ {e}
    BY <1>1 DEF Activities
  <2>5. at[p].step = "fold"
    BY DEF Fold
  <2>6. entries' = [entries EXCEPT ![e] = saved]
    BY <1>4
  <2> HIDE DEF saved, r
  <2>7. ~clobbered' => Grows(entries, entries', FALSE)
    <3>1. SUFFICES ASSUME ~clobbered', NEW d \in Entries, entries[d] # None
                   PROVE  entries'[d] # None /\ entries[d].notes \subseteq entries'[d].notes
      BY DEF Grows
    <3>2. entries[e] = at[p].listed[e] /\ saved # None
      BY <1>4, <2>2, <3>1, NoneAssumption DEF Overwrites
    <3> QED BY <1>1, <2>1, <2>2, <2>6, <3>1, <3>2 DEF Listings
  <2>8. \A d \in at[p].duplicates : ~clobbered' => NotedIn(d, entries')
    <3>1. SUFFICES ASSUME NEW d \in at[p].duplicates, ~clobbered' PROVE NotedIn(d, entries')
      OBVIOUS
    <3>2. d \in Entries /\ NotedIn(d, entries)
      BY <1>1, <1>4, <3>1 DEF Mindful, Activities
    <3> QED BY <2>7, <3>1, <3>2, StaysNoted
  <2>9. \A d \in r.duplicates : r.listed[d] # None /\ (~clobbered' => NotedIn(d, entries'))
    BY <1>1, <2>4, <2>8 DEF Mindful
  <2>10. merged' \subseteq Entries /\ (~clobbered' => \A d \in merged' \ merged :
            NotedIn(d, entries'))
    BY <1>1, <1>4, <2>1, <2>8
  <2>11. /\ at[p].listed[e].notes \subseteq saved.notes /\ r.groups \subseteq at[p].groups
         /\ r.step = "fold" /\ r.listed = at[p].listed
    BY <2>2, <2>4, <2>5
  <2>12. clobbered' = (clobbered \/ Overwrites(p, e)) /\ UNCHANGED <<now, schedule, made>>
    BY <1>2, <1>4
  <2>13. merged' \subseteq Entries
    BY <2>10
  <2>14. ~clobbered' => \A d \in merged' \ merged : NotedIn(d, entries')
    BY <2>10
  <2> QED BY <2>1, <2>2, <2>3, <2>6, <2>9, <2>11, <2>12, <2>13, <2>14, SaveKeeps
<1>5. \/ at[p].duplicates = {} /\ To(p, "merge") /\ UNCHANGED <<entries, merged, clobbered>>
      \/ \E e \in at[p].duplicates :
            /\ entries' = [entries EXCEPT ![e] = [at[p].listed[e] EXCEPT !.status = "archived"]]
            /\ merged' = merged \cup {e}
            /\ clobbered' = (clobbered \/ Overwrites(p, e))
            /\ at' = [at EXCEPT ![p].duplicates = @ \ {e}]
    BY DEF Fold
<1> QED BY <1>3, <1>4, <1>5

LEMMA OrganizerFailsKeeps ==
    ASSUME MergeInv, NEW p \in Procs, OrganizerFails(p) PROVE MergeInv'
BY OrganizedKeeps DEF OrganizerFails, stored, history

-----------------------------------------------------------------------------
(* The cycle *)

\* A cycle whose gate has opened, or a command that has begun.
LEMMA BegunKeeps ==
    ASSUME MergeInv, NEW p \in Procs, NEW r \in Activities, at[p].step = "idle",
           at' = [at EXCEPT ![p] = r], r.listed = at[p].listed, r.groups = at[p].groups,
           r.duplicates = at[p].duplicates, r.step \in {"list", "load"},
           UNCHANGED <<now, stored, made, history>>
    PROVE  MergeInv'
<1>1. Mindful(at[p], entries, clobbered) /\ now \in Nat /\ schedule \in Schedules
    BY DEF MergeInv, ReflectionTypes
<1>2. Mindful(r, entries, clobbered)
    BY <1>1 DEF Mindful
<1> QED BY <1>1, <1>2, QuietStep DEF stored, history

LEMMA PassesKeeps ==
    ASSUME MergeInv, NEW p \in Procs, NEW op \in Verbs \cup {"check"}, at[p].step = "idle",
           Passes(p, op), UNCHANGED <<now, stored, made, history>>
    PROVE  MergeInv'
<1> DEFINE r == [at[p] EXCEPT !.op = op, !.step = "list", !.from = now, !.saw = schedule]
<1>1. at[p] \in Activities /\ now \in Nat /\ schedule \in Schedules
    BY DEF MergeInv, ReflectionTypes
<1>2. r \in Activities /\ at' = [at EXCEPT ![p] = r]
    BY <1>1 DEF Activities, Passes
<1>3. /\ r.listed = at[p].listed /\ r.groups = at[p].groups /\ r.step = "list"
      /\ r.duplicates = at[p].duplicates
    BY <1>1 DEF Activities
<1> HIDE DEF r
<1> QED BY <1>2, <1>3, BegunKeeps

LEMMA CheckKeeps == ASSUME MergeInv, Check PROVE MergeInv'
BY PassesKeeps DEF Check, Procs, bounds

LEMMA BeginKeeps ==
    ASSUME MergeInv, NEW u \in Users, NEW verb \in Verbs, Begin(u, verb) PROVE MergeInv'
<1>1. u \in Procs /\ UNCHANGED <<now, stored, made, history>> /\ at[u].step = "idle"
    BY DEF Procs, Begin
<1>2. CASE verb = "run"
    BY <1>1, <1>2, PassesKeeps DEF Begin
<1>3. CASE verb # "run"
  <2> DEFINE s == IF verb = "organize" THEN "list" ELSE "load"
             r == [at[u] EXCEPT !.op = verb, !.step = s]
  <2>1. at[u] \in Activities
    BY <1>1 DEF MergeInv, ReflectionTypes
  <2>2. at' = [at EXCEPT ![u] = r] /\ s \in {"list", "load"}
    BY <1>3 DEF Begin
  <2> HIDE DEF s
  <2>3. r \in Activities
    BY <2>1, <2>2 DEF Activities
  <2>4. /\ r.listed = at[u].listed /\ r.groups = at[u].groups /\ r.step = s
        /\ r.duplicates = at[u].duplicates
    BY <2>1 DEF Activities
  <2> HIDE DEF r
  <2> QED BY <1>1, <2>2, <2>3, <2>4, BegunKeeps
<1> QED BY <1>2, <1>3

LEMMA GenerateKeeps == ASSUME MergeInv, NEW p \in Procs, Generate(p) PROVE MergeInv'
<1>1. /\ at[p] \in Activities /\ Mindful(at[p], entries, clobbered) /\ at[p].duplicates = {}
      /\ at[p].groups = {}
      /\ now \in Nat /\ schedule \in Schedules
    BY DEF Generate, Mindful, MergeInv, ReflectionTypes
<1>2. UNCHANGED <<now, schedule, entries, made, merged, clobbered>>
    BY DEF Generate, stored, bounds, history
<1>3. CASE Ends(p)
    BY <1>1, <1>2, <1>3, RestKeeps
<1>4. CASE To(p, "save")
    BY <1>1, <1>2, <1>4, MoveKeeps
<1>5. ASSUME NEW selected \in Selections,
             at' = [at EXCEPT ![p].step = "discuss", ![p].selected = selected, ![p].turn = 1]
      PROVE  MergeInv'
  <2> DEFINE r == [at[p] EXCEPT !.step = "discuss", !.selected = selected, !.turn = 1]
  <2>1. r \in Activities /\ at' = [at EXCEPT ![p] = r]
    BY <1>1, <1>5 DEF Activities
  <2>2. Mindful(r, entries, clobbered)
    BY <1>1 DEF Mindful, Activities
  <2> HIDE DEF r
  <2> QED BY <1>1, <1>2, <2>1, <2>2, QuietStep
<1> QED BY <1>3, <1>4, <1>5 DEF Generate

LEMMA DiscussKeeps == ASSUME MergeInv, NEW p \in Procs, Discuss(p) PROVE MergeInv'
<1>1. /\ at[p] \in Activities /\ Mindful(at[p], entries, clobbered) /\ at[p].duplicates = {}
      /\ at[p].groups = {}
      /\ now \in Nat /\ schedule \in Schedules
    BY DEF Discuss, Mindful, MergeInv, ReflectionTypes
<1>2. UNCHANGED <<now, schedule, entries, made, merged, clobbered>>
    BY DEF Discuss, stored, bounds, history
<1>3. CASE Reject(p)
    BY <1>1, <1>2, <1>3, RestKeeps DEF Reject
<1>4. ASSUME NEW judgment \in Judgments,
             at' = [at EXCEPT ![p].turn = @ + 1, ![p].emergent = Called(judgment, @)]
      PROVE  MergeInv'
  <2> DEFINE who == Called(judgment, at[p].emergent)
             r == [at[p] EXCEPT !.turn = @ + 1, !.emergent = who]
  <2>1. who \in Emergent \cup {Nobody} /\ at[p].turn + 1 \in Nat
    BY <1>1 DEF Called, Judgments, Activities
  <2>2. at' = [at EXCEPT ![p] = r]
    BY <1>4
  <2> HIDE DEF who
  <2>3. r \in Activities
    BY <1>1, <2>1 DEF Activities
  <2>4. Mindful(r, entries, clobbered)
    BY <1>1 DEF Mindful, Activities
  <2> HIDE DEF r
  <2> QED BY <1>1, <1>2, <2>2, <2>3, <2>4, QuietStep
<1>5. ASSUME at' = [at EXCEPT ![p].step = "save", ![p].selected = <<>>,
                              ![p].turn = 0, ![p].emergent = Nobody]
      PROVE  MergeInv'
  <2> DEFINE r == [at[p] EXCEPT !.step = "save", !.selected = <<>>,
                                !.turn = 0, !.emergent = Nobody]
  <2>1. r \in Activities
    BY <1>1 DEF Activities
  <2>2. Mindful(r, entries, clobbered)
    BY <1>1 DEF Mindful, Activities
  <2>3. at' = [at EXCEPT ![p] = r]
    BY <1>5
  <2> HIDE DEF r
  <2> QED BY <1>1, <1>2, <2>1, <2>2, <2>3, QuietStep
<1> QED BY <1>3, <1>4, <1>5 DEF Discuss

\* The new entry takes a place where nothing was stored.
LEMMA SaveEntryKeeps == ASSUME MergeInv, NEW p \in Procs, SaveEntry(p) PROVE MergeInv'
<1>1. /\ at[p] \in Activities /\ Mindful(at[p], entries, clobbered) /\ at[p].duplicates = {}
      /\ at[p].groups = {}
      /\ now \in Nat /\ schedule \in Schedules /\ made \in Nat /\ entries \in Listings
      /\ merged \subseteq Entries /\ clobbered \in BOOLEAN
      /\ \A e \in Entries : entries[e] # None => e <= made
    BY DEF SaveEntry, Mindful, MergeInv, ReflectionTypes
<1>2. UNCHANGED <<now, schedule, merged, clobbered>> /\ made' = made + 1
    BY DEF SaveEntry, history
<1>3. PICK score \in 1..2 :
         entries' = [entries EXCEPT ![made'] =
                        [status |-> "pending", score |-> score, notes |-> {}]]
    BY DEF SaveEntry
<1> DEFINE saved == [status |-> "pending", score |-> score, notes |-> {}]
           r == [at[p] EXCEPT !.entry = made', !.last = TRUE, !.step = "list"]
<1>4. saved \in Entry /\ saved # None
    BY NoneAssumption DEF Entry, Statuses
<1>5. r \in Activities /\ at' = [at EXCEPT ![p] = r]
  <2>1. made' \in Nat
    BY <1>1, <1>2
  <2>2. at' = [at EXCEPT ![p] = r]
    BY DEF SaveEntry
  <2> QED BY <1>1, <2>1, <2>2 DEF Activities
<1>6. /\ r.listed = at[p].listed /\ r.groups = at[p].groups /\ r.step = "list"
      /\ r.duplicates = {}
    BY <1>1 DEF Activities
<1>7. entries' = [entries EXCEPT ![made'] = saved]
    BY <1>3
<1> HIDE DEF saved, r
<1>8. \A e \in Entries : e = made' => entries[e] = None
    BY <1>1, <1>2
<1>9. entries' \in Listings
    BY <1>1, <1>4, <1>7 DEF Listings
<1>10. \A e \in Entries : entries[e] # None => entries'[e] = entries[e]
    BY <1>1, <1>7, <1>8 DEF Listings
<1>11. Grows(entries, entries', clobbered')
    BY <1>10 DEF Grows
<1>12. \A e \in Entries : entries'[e] # None => e <= made'
  <2>1. SUFFICES ASSUME NEW e \in Entries, entries'[e] # None PROVE e <= made'
    OBVIOUS
  <2>2. CASE e = made'
    BY <1>1, <1>2, <2>2
  <2>3. CASE e # made'
    <3>1. entries'[e] = entries[e]
      BY <1>1, <1>7, <2>3 DEF Listings
    <3> QED BY <1>1, <1>2, <2>1, <3>1, BoundsAssumption DEF Entries
  <2> QED BY <2>2, <2>3
<1>13. Mindful(at[p], entries', clobbered')
    BY <1>1, <1>2, <1>11, StaysMindful
<1>14. Mindful(r, entries', clobbered')
    BY <1>1, <1>6, <1>13 DEF Mindful
<1>15. /\ now' \in Nat /\ schedule' \in Schedules /\ made' \in Nat
       /\ merged' \subseteq Entries
       /\ merged' \ merged = {}
    BY <1>1, <1>2
<1>16. clobbered' \in BOOLEAN /\ (clobbered => clobbered')
    BY <1>1, <1>2
<1> QED BY <1>5, <1>9, <1>11, <1>12, <1>14, <1>15, <1>16, StepKeeps

LEMMA CountKeeps == ASSUME MergeInv, NEW p \in Procs, Count(p) PROVE MergeInv'
<1>1. /\ at[p] \in Activities /\ Mindful(at[p], entries, clobbered) /\ at[p].duplicates = {}
      /\ at[p].groups = {}
      /\ now \in Nat /\ schedule \in Schedules
    BY DEF Count, Mindful, MergeInv, ReflectionTypes
<1>2. UNCHANGED <<now, schedule, entries, made, merged, clobbered>>
    BY DEF Count, stored, bounds, history
<1>3. CASE schedule = Corrupt
    BY <1>1, <1>2, <1>3, RestKeeps DEF Count
<1>4. CASE schedule # Corrupt
  <2> DEFINE n == CountToday(at[p].from, schedule) + 1
             r == [at[p] EXCEPT !.step = "stamp", !.count = n]
  <2>1. n \in Nat
    BY <1>1, <1>4 DEF CountToday, Schedules
  <2>2. at' = [at EXCEPT ![p] = r]
    BY <1>4 DEF Count
  <2> HIDE DEF n
  <2>3. r \in Activities
    BY <1>1, <2>1 DEF Activities
  <2>4. Mindful(r, entries, clobbered)
    BY <1>1 DEF Mindful, Activities
  <2> HIDE DEF r
  <2> QED BY <1>1, <1>2, <2>2, <2>3, <2>4, QuietStep
<1> QED BY <1>3, <1>4

LEMMA StampKeeps == ASSUME MergeInv, NEW p \in Procs, Stamp(p) PROVE MergeInv'
<1>1. /\ at[p] \in Activities /\ at[p].duplicates = {} /\ at[p].groups = {} /\ now \in Nat
    BY DEF Stamp, Mindful, MergeInv, ReflectionTypes
<1>2. at[p].from \in Nat /\ at[p].count \in Nat
    BY <1>1 DEF Activities
<1>3. Day(at[p].from) \in Nat
    BY <1>2, ScheduleAssumption DEF Day
<1>4. schedule' \in Schedules
    BY <1>2, <1>3 DEF Stamp, Schedules
<1> QED BY <1>1, <1>4, MoveKeeps DEF Stamp, bounds

LEMMA PublishKeeps == ASSUME MergeInv, NEW p \in Procs, Publish(p) PROVE MergeInv'
BY RestKeeps DEF Publish, bounds, MergeInv, ReflectionTypes

LEMMA CrashKeeps == ASSUME MergeInv, NEW p \in Procs, Crash(p) PROVE MergeInv'
BY RestKeeps DEF Crash, stored, history, MergeInv, ReflectionTypes

-----------------------------------------------------------------------------
(* Users *)

LEMMA LoadKeeps == ASSUME MergeInv, NEW u \in Users, Load(u) PROVE MergeInv'
<1>1. /\ u \in Procs /\ at[u] \in Activities /\ Mindful(at[u], entries, clobbered)
      /\ at[u].duplicates = {} /\ at[u].groups = {} /\ now \in Nat /\ schedule \in Schedules /\ entries \in Listings
    BY DEF Load, Procs, Mindful, MergeInv, ReflectionTypes
<1>2. UNCHANGED <<now, schedule, entries, made, merged, clobbered>>
    BY DEF Load, stored, bounds, history
<1>3. CASE Ends(u)
    BY <1>1, <1>2, <1>3, RestKeeps
<1>4. ASSUME NEW e \in Stored,
             at' = [at EXCEPT ![u].step = "close", ![u].entry = e,
                              ![u].listed = [Rest.listed EXCEPT ![e] = entries[e]]]
      PROVE  MergeInv'
  <2> DEFINE copies == [Rest.listed EXCEPT ![e] = entries[e]]
             r == [at[u] EXCEPT !.step = "close", !.entry = e, !.listed = copies]
  <2>1. e \in Entries /\ entries[e] # None /\ e \in Nat
    BY DEF Stored, Entries
  <2>2. Rest.listed = [f \in Entries |-> None]
    BY DEF Rest
  <2>3. copies = [f \in Entries |-> IF f = e THEN entries[e] ELSE None]
    BY <2>2
  <2>4. copies \in Listings /\ copies[e] = entries[e]
    BY <1>1, <2>1, <2>3 DEF Listings
  <2>5. \A f \in Entries : copies[f] # None => entries[f] # None
    BY <2>1, <2>3
  <2>6. at' = [at EXCEPT ![u] = r]
    BY <1>4
  <2> HIDE DEF copies
  <2>7. r \in Activities
    BY <1>1, <2>1, <2>4 DEF Activities
  <2>8. /\ r.listed = copies /\ r.groups = at[u].groups /\ r.entry = e
        /\ r.duplicates = {} /\ r.step = "close"
    BY <1>1 DEF Activities
  <2> HIDE DEF r
  <2>9. Mindful(r, entries, clobbered)
    BY <1>1, <2>1, <2>4, <2>5, <2>8 DEF Mindful
  <2> QED BY <1>1, <1>2, <2>6, <2>7, <2>9, QuietStep
<1> QED BY <1>3, <1>4 DEF Load

\* The entry is saved as it was when it was loaded, in another state.
LEMMA CloseKeeps == ASSUME MergeInv, NEW u \in Users, Close(u) PROVE MergeInv'
<1>1. /\ u \in Procs /\ at[u] \in Activities /\ Mindful(at[u], entries, clobbered)
      /\ now \in Nat /\ schedule \in Schedules /\ entries \in Listings /\ made \in Nat
      /\ merged \subseteq Entries /\ clobbered \in BOOLEAN /\ at[u].step = "close"
      /\ \A d \in Entries : entries[d] # None => d <= made
    BY DEF Close, Procs, MergeInv, ReflectionTypes
<1>2. UNCHANGED <<now, schedule, made, merged>> /\ Ends(u)
    BY DEF Close, bounds
<1>3. CASE at[u].op = "promote"
    BY <1>1, <1>2, <1>3, RestKeeps DEF Close
<1>4. CASE at[u].op # "promote"
  <2> DEFINE e == at[u].entry
             s == IF at[u].op = "dismiss" THEN "dismissed" ELSE "archived"
             saved == [at[u].listed[e] EXCEPT !.status = s]
  <2>1. e \in Entries /\ at[u].listed[e] # None /\ at[u].listed[e] \in Entry
    BY <1>1 DEF Mindful, Activities, Listings
  <2>2. saved \in Entry /\ saved.notes = at[u].listed[e].notes
    BY <2>1 DEF Entry, Statuses
  <2>3. entries' = [entries EXCEPT ![e] = saved]
    BY <1>4 DEF Close
  <2>4. clobbered' = (clobbered \/ Overwrites(u, e))
    BY <1>4 DEF Close
  <2> HIDE DEF saved, e, s
  <2>5. saved # None /\ entries[e] # None
    BY <1>1, <2>1, <2>2, NoneAssumption DEF Mindful
  <2>6. entries' \in Listings
    BY <1>1, <2>1, <2>2, <2>3 DEF Listings
  <2>7. \A d \in Entries : d # e => entries'[d] = entries[d]
    BY <1>1, <2>3 DEF Listings
  <2>8. entries'[e] = saved
    BY <1>1, <2>1, <2>3 DEF Listings
  <2>9. Grows(entries, entries', clobbered')
    <3>1. ~clobbered' => entries[e].notes \subseteq saved.notes
      BY <2>2, <2>4 DEF Overwrites
    <3> QED BY <2>5, <2>7, <2>8, <3>1 DEF Grows
  <2>10. \A d \in Entries : entries'[d] # None => d <= made'
    <3>1. \A d \in Entries : entries'[d] # None => entries[d] # None
      BY <2>5, <2>7
    <3> QED BY <1>1, <1>2, <3>1
  <2>11. clobbered' \in BOOLEAN /\ (clobbered => clobbered')
    BY <2>4
  <2>12. /\ now' \in Nat /\ schedule' \in Schedules /\ made' \in Nat
         /\ merged' \subseteq Entries
         /\ merged' \ merged = {}
    BY <1>1, <1>2
  <2>13. at' = [at EXCEPT ![u] = Rest]
    BY <1>2 DEF Ends
  <2> QED BY <1>1, <2>6, <2>9, <2>10, <2>11, <2>12, <2>13, RestingMindful, StepKeeps
<1> QED BY <1>3, <1>4

-----------------------------------------------------------------------------
(* The theorems *)

LEMMA InitMindful == Init => MergeInv
<1> SUFFICES ASSUME Init PROVE MergeInv
    OBVIOUS
<1>1. entries = [e \in Entries |-> None] /\ at = [p \in Procs |-> Rest]
    BY DEF Init
<1>2. ReflectionTypes
    BY <1>1, RestingMindful DEF Init, ReflectionTypes, Listings, Schedules
<1>3. \A p \in Procs : Mindful(at[p], entries, clobbered)
    BY <1>1, RestingMindful
<1>4. (\A e \in Entries : entries[e] = None) /\ merged = {}
    BY <1>1 DEF Init
<1> QED BY <1>2, <1>3, <1>4 DEF MergeInv

LEMMA NextMindful == MergeInv /\ [Next]_vars => MergeInv'
<1> SUFFICES ASSUME MergeInv, [Next]_vars PROVE MergeInv'
    OBVIOUS
<1>1. CASE UNCHANGED vars
  <2>1. UNCHANGED <<now, schedule, entries, at, made, merged, clobbered>>
    BY <1>1 DEF vars, stored, bounds, history
  <2> QED BY <2>1 DEF MergeInv, ReflectionTypes, Mindful, NotedIn
<1>2. ASSUME NEW p \in Procs, Cycle(p) PROVE MergeInv'
    BY <1>2, GenerateKeeps, DiscussKeeps, SaveEntryKeeps, CountKeeps, StampKeeps, PublishKeeps
       DEF Cycle
<1>3. ASSUME NEW p \in Procs, Organize(p) PROVE MergeInv'
    BY <1>3, ListKeeps, MergeKeeps, FoldKeeps, OrganizerFailsKeeps DEF Organize
<1>4. ASSUME NEW u \in Users, Load(u) \/ Close(u) PROVE MergeInv'
    BY <1>4, LoadKeeps, CloseKeeps
<1>5. CASE Damage
  <2>1. UNCHANGED <<now, entries, at, made, merged, clobbered>> /\ schedule' \in Schedules
    BY <1>5 DEF Damage, history, Schedules
  <2> QED BY <2>1 DEF MergeInv, ReflectionTypes, Mindful, NotedIn
<1>6. CASE Tick
  <2>1. /\ UNCHANGED <<schedule, entries, at, made, merged, clobbered>>
        /\ now \in Nat /\ now' = now + 1
    BY <1>6 DEF Tick, stored, bounds, history, MergeInv, ReflectionTypes
  <2>2. now' \in Nat
    BY <2>1
  <2> QED BY <2>1, <2>2 DEF MergeInv, ReflectionTypes, Mindful, NotedIn
<1>7. ASSUME NEW p \in Procs, Crash(p) PROVE MergeInv'
    BY <1>7, CrashKeeps
<1>8. ASSUME NEW u \in Users, NEW verb \in Verbs, Begin(u, verb) PROVE MergeInv'
    BY <1>8, BeginKeeps
<1>9. CASE Check
    BY <1>9, CheckKeeps
<1> QED BY <1>1, <1>2, <1>3, <1>4, <1>5, <1>6, <1>7, <1>8, <1>9 DEF Next, Work

\* A process that organizes keeps what it is about to archive noted in a stored entry,
\* between any two saves and whoever else saves (organizer.py, organize_pending).
THEOREM OrganizesMindfully == Spec => []MergeInv
<1>1. Init => MergeInv
    BY InitMindful
<1>2. MergeInv /\ [Next]_vars => MergeInv'
    BY NextMindful
<1> QED BY <1>1, <1>2, PTL DEF Spec

\* An idea put away as a duplicate is noted in another reflection that is stored, however
\* many processes organize, dismiss and die, as long as none saves over a newer copy
\* (organizer.py, _merge_entries: the primary is saved before its duplicates are archived).
THEOREM MergedStaysNoted == Spec => []MergedIsNoted
<1>1. MergeInv => MergedIsNoted
  <2>1. SUFFICES ASSUME MergeInv, ~clobbered, NEW e \in merged
                 PROVE  \E f \in Stored \ {e} : e \in entries[f].notes
    BY DEF MergedIsNoted
  <2>2. NotedIn(e, entries)
    BY <2>1 DEF MergeInv
  <2> QED BY <2>2 DEF NotedIn, Stored
<1> QED BY <1>1, OrganizesMindfully, PTL

-----------------------------------------------------------------------------
(* The pace of the daemon's cycles *)

Written == [at : Nat, count : Nat, day : Nat]
Legible == Written \cup {None}
Dated(s) == s # None => s.day = Day(s.at)

\* Schedule s was written before t, or is t.
Comes(s, t) ==
    s = None \/ (t # None /\ (s.at < t.at \/ (s.at = t.at /\ s.count <= t.count)))

Underway == {"list", "merge", "fold", "generate", "discuss", "save", "count", "stamp"}
CycleSteps == {"generate", "discuss", "save", "count", "stamp", "publish"}

\* What a cycle knows of the schedule: its gate saw one that was written before, and it
\* counts from one in between. A forced cycle whose gate saw none that can be read finds
\* none to count from, unless another cycle has written one.
Timely(doing, written, time, lost) ==
    /\ doing.from <= time
    /\ doing.step \in CycleSteps => doing.op # "organize"
    /\ doing.op # "organize" /\ doing.step \in Underway =>
          /\ doing.saw = Corrupt => doing.op # "check"
          /\ doing.saw = Corrupt /\ ~lost => written = Corrupt /\ doing.step # "stamp"
          /\ doing.saw # Corrupt => doing.saw \in Legible /\ Dated(doing.saw)
          /\ doing.saw \notin {None, Corrupt} => doing.saw.at <= doing.from
          /\ doing.op = "check" => MayReflect(doing.from, doing.saw)
          /\ ~lost /\ written # Corrupt =>
                /\ Comes(doing.saw, written)
                /\ doing.step = "stamp" =>
                      \E x \in Legible : /\ Dated(x) /\ Comes(doing.saw, x) /\ Comes(x, written)
                                         /\ doing.count = CountToday(doing.from, x) + 1

\* The reflection that is about to be shown counts as shown.
Due == IF at[Daemon].step = "publish" /\ Unforced(Daemon)
       THEN {<<at[Daemon].entry, at[Daemon].from>>} ELSE {}
Held == published \cup Due

Among(set, hours) == Cardinality({r \in set : r[2] \in hours})
HoursOf(day) == {k \in Nat : Day(k) = day}
Within(h) == {k \in Nat : h <= k /\ k < h + Gap}

\* What is shown or about to be is in the schedule, and keeps the cap and the distance.
Spread(held, written) ==
    /\ written = None => held = {}
    /\ written \in Written =>
          /\ \A r \in held : r[2] <= written.at
          /\ Among(held, HoursOf(written.day)) <= written.count
    /\ \A d \in Nat : Among(held, HoursOf(d)) <= DailyCap
    /\ \A h \in Nat : Among(held, Within(h)) <= 1

PaceInv ==
    /\ IsFiniteSet(published) /\ \A r \in published : r[2] \in Nat
    /\ \A p \in Procs : Timely(at[p], schedule, now, crossed)
    /\ (\A u \in Users : ~Unforced(u)) /\ crossed \in BOOLEAN
    /\ schedule \in Written => schedule.at <= now /\ Dated(schedule)
    /\ ~crossed => Spread(Held, schedule)

LEMMA NoSchedule == None \notin Written /\ Corrupt \notin Legible /\ Schedules = Legible \cup {Corrupt}
BY NoneAssumption DEF Written, Legible, Schedules

LEMMA DaysGrow ==
    ASSUME NEW m \in Nat, NEW n \in Nat, m <= n
    PROVE  Day(m) \in Nat /\ Day(n) \in Nat /\ Day(m) <= Day(n)
<1> DEFINE H == HoursPerDay
<1>1. H \in Nat \ {0}
    BY ScheduleAssumption
<1>2. PICK a, b : a = m \div H /\ b = n \div H
    OBVIOUS
<1>3. a \in Nat /\ b \in Nat /\ H * a <= m /\ n < H * b + H
    BY <1>1, <1>2
<1>4. a <= b
  <2>1. SUFFICES ASSUME b + 1 <= a PROVE FALSE
    BY <1>3
  <2>2. H * (b + 1) <= H * a
    BY <1>1, <1>3, <2>1
  <2>3. H * (b + 1) = H * b + H
    BY <1>1, <1>3
  <2>4. H * a \in Nat /\ H * b \in Nat
    BY <1>1, <1>3
  <2> QED BY <1>1, <1>3, <2>2, <2>3, <2>4
<1> QED BY <1>2, <1>3, <1>4 DEF Day

LEMMA ComesOn ==
    ASSUME NEW s \in Legible, NEW t \in Legible, NEW u \in Legible, Comes(s, t), Comes(t, u)
    PROVE  Comes(s, u)
BY DEF Comes, Legible, Written

LEMMA SameSchedule ==
    ASSUME NEW s \in Legible, NEW t \in Legible, Dated(s), Dated(t), Comes(s, t), Comes(t, s)
    PROVE  s = t
<1>1. CASE s = None \/ t = None
    BY <1>1 DEF Comes
<1>2. CASE s # None /\ t # None
  <2>1. s \in Written /\ t \in Written
    BY <1>2 DEF Legible
  <2>2. s.at = t.at /\ s.count = t.count
    BY <1>2, <2>1 DEF Comes, Written
  <2>3. s.day = t.day
    BY <1>2, <2>2 DEF Dated
  <2> QED BY <2>1, <2>2, <2>3 DEF Written
<1> QED BY <1>1, <1>2

\* A cycle that passes its gates begins a gap after the last.
LEMMA Distance ==
    ASSUME NEW s \in Written, NEW hour \in Nat, MayReflect(hour, s)
    PROVE  Gap \in Int /\ hour - s.at >= Gap
<1>1. PICK a, b : a = Cooldown /\ b = Interval - Jitter
    OBVIOUS
<1>2. a \in Int /\ b \in Int /\ Jitter \in Int
    BY <1>1, ScheduleAssumption DEF Jitter
<1>3. s # None /\ s.at \in Nat
    BY NoSchedule DEF Written
<1>4. hour - s.at >= a
    BY <1>1, <1>3 DEF MayReflect, Elapsed
<1>5. hour - s.at >= b
  <2>1. PICK jittered \in JitteredIntervals : Elapsed(hour, s, jittered)
    BY DEF MayReflect
  <2>2. jittered \in Int /\ b <= jittered
    BY <1>1, <1>2, <2>1, ScheduleAssumption DEF JitteredIntervals
  <2>3. hour - s.at >= jittered
    BY <1>3, <2>1 DEF Elapsed
  <2> QED BY <1>2, <1>3, <2>2, <2>3
<1>6. Gap \in {a, b}
  <2>1. \E x \in {a, b} : \A y \in {a, b} : x >= y
    BY <1>2
  <2> QED BY <1>1, <2>1 DEF Gap, Max
<1> QED BY <1>2, <1>4, <1>5, <1>6

\* Counting
LEMMA AmongFewer ==
    ASSUME NEW T, IsFiniteSet(T), NEW S, S \subseteq T, NEW A, NEW B,
           \A r \in S : r[2] \in A => r[2] \in B
    PROVE  Among(S, A) \in Nat /\ Among(T, B) \in Nat /\ Among(S, A) <= Among(T, B)
<1> DEFINE inS == {r \in S : r[2] \in A}
           inT == {r \in T : r[2] \in B}
<1>1. inT \subseteq T /\ inS \subseteq inT
    OBVIOUS
<1>2. IsFiniteSet(inT)
    BY <1>1, FS_Subset
<1>3. IsFiniteSet(inS) /\ Cardinality(inS) <= Cardinality(inT)
    BY <1>1, <1>2, FS_Subset
<1> QED BY <1>2, <1>3, FS_CardinalityType DEF Among

LEMMA AmongNone ==
    ASSUME NEW S, NEW A, \A r \in S : r[2] \notin A
    PROVE  Among(S, A) = 0
<1>1. {r \in S : r[2] \in A} = {}
    OBVIOUS
<1> QED BY <1>1, FS_EmptySet DEF Among

LEMMA AmongMore ==
    ASSUME NEW S, IsFiniteSet(S), NEW r, NEW A
    PROVE  /\ Among(S, A) \in Nat /\ Among(S \cup {r}, A) \in Nat
           /\ Among(S \cup {r}, A) <= Among(S, A) + 1
           /\ r[2] \notin A => Among(S \cup {r}, A) = Among(S, A)
<1> DEFINE inS == {x \in S : x[2] \in A}
           more == {x \in S \cup {r} : x[2] \in A}
<1>1. more = IF r[2] \in A THEN inS \cup {r} ELSE inS
    OBVIOUS
<1>2. IsFiniteSet(inS)
  <2>1. inS \subseteq S
    OBVIOUS
  <2> QED BY <2>1, FS_Subset
<1>3. Cardinality(inS) \in Nat
    BY <1>2, FS_CardinalityType
<1>4. /\ Cardinality(inS \cup {r}) \in Nat
      /\ Cardinality(inS \cup {r}) <= Cardinality(inS) + 1
  <2> HIDE DEF inS
  <2>1. Cardinality(inS \cup {r}) = IF r \in inS THEN Cardinality(inS) ELSE Cardinality(inS) + 1
    BY <1>2, FS_AddElement
  <2> QED BY <1>3, <2>1
<1>5. Among(S, A) = Cardinality(inS) /\ Among(S \cup {r}, A) = Cardinality(more)
    BY DEF Among
<1> HIDE DEF inS, more
<1> QED BY <1>1, <1>3, <1>4, <1>5

\* The schedule written by a cycle whose gate saw the schedule there was.
LEMMA Stamped ==
    ASSUME NEW held, IsFiniteSet(held), \A r \in held : r[2] \in Nat,
           NEW saw \in Legible, Dated(saw), Spread(held, saw),
           NEW from \in Nat, saw # None => saw.at <= from,
           NEW new, new = [at |-> from, count |-> CountToday(from, saw) + 1, day |-> Day(from)]
    PROVE  /\ new \in Written /\ Dated(new) /\ Comes(saw, new) /\ Spread(held, new)
           /\ MayReflect(from, saw) => \A e : Spread(held \cup {<<e, from>>}, new)
<1>1. CountToday(from, saw) \in Nat /\ Day(from) \in Nat
    BY DaysGrow DEF CountToday, Legible, Written
<1>2. /\ new \in Written /\ new # None /\ new.at = from /\ new.day = Day(from)
      /\ new.count = CountToday(from, saw) + 1
    BY <1>1, NoSchedule DEF Written
<1>3. Dated(new)
    BY <1>2 DEF Dated
<1>4. Comes(saw, new)
  <2>1. CASE saw = None
    BY <2>1 DEF Comes
  <2>2. CASE saw # None
    <3>1. saw \in Written /\ saw.at <= from /\ saw.day = Day(saw.at)
      BY <2>2 DEF Legible, Dated
    <3>2. saw.at = from => CountToday(from, saw) = saw.count
      BY <2>2, <3>1 DEF CountToday
    <3> QED BY <1>2, <3>1, <3>2 DEF Comes, Written
  <2> QED BY <2>1, <2>2
<1>5. \A r \in held : r[2] <= from
  <2>1. CASE saw = None
    BY <2>1 DEF Spread
  <2>2. CASE saw # None
    <3>1. saw \in Written /\ saw.at \in Nat /\ saw.at <= from
      BY <2>2 DEF Legible, Written
    <3> QED BY <3>1 DEF Spread
  <2> QED BY <2>1, <2>2
<1>6. Among(held, HoursOf(Day(from))) \in Nat
      /\ Among(held, HoursOf(Day(from))) <= CountToday(from, saw)
  <2>1. Among(held, HoursOf(Day(from))) \in Nat
    BY AmongMore
  <2>2. CASE saw = None
    <3>1. held = {}
      BY <2>2 DEF Spread
    <3>2. Among(held, HoursOf(Day(from))) = 0
      BY <3>1, AmongNone
    <3> QED BY <1>1, <3>2
  <2>3. CASE saw # None /\ saw.day = Day(from)
    <3>1. saw \in Written /\ CountToday(from, saw) = saw.count
      BY <2>3 DEF Legible, CountToday
    <3> QED BY <2>1, <2>3, <3>1 DEF Spread
  <2>4. CASE saw # None /\ saw.day # Day(from)
    <3>1. saw \in Written /\ saw.at \in Nat /\ saw.at <= from /\ saw.day = Day(saw.at)
      BY <2>4 DEF Legible, Written, Dated
    <3>2. ASSUME NEW r \in held PROVE r[2] \notin HoursOf(Day(from))
      <4>1. r[2] \in Nat /\ r[2] <= saw.at
        BY <3>1 DEF Spread
      <4>2. /\ Day(r[2]) \in Nat /\ Day(saw.at) \in Nat /\ Day(from) \in Nat
            /\ Day(r[2]) <= Day(saw.at) /\ Day(saw.at) <= Day(from)
        BY <3>1, <4>1, DaysGrow
      <4>3. Day(r[2]) # Day(from)
        BY <2>4, <3>1, <4>2
      <4> QED BY <4>3 DEF HoursOf
    <3> QED BY <1>1, <3>2, AmongNone
  <2> QED BY <2>1, <2>2, <2>3, <2>4
<1>7. Spread(held, new)
    BY <1>1, <1>2, <1>5, <1>6 DEF Spread
<1>8. ASSUME MayReflect(from, saw), NEW e PROVE Spread(held \cup {<<e, from>>}, new)
  <2>1. PICK r : r = <<e, from>>
    OBVIOUS
  <2>2. r[2] = from
    BY <2>1
  <2>3. \A x \in held \cup {r} : x[2] <= from
    BY <1>5, <2>2
  <2>4. Among(held \cup {r}, HoursOf(Day(from))) \in Nat
        /\ Among(held \cup {r}, HoursOf(Day(from))) <= CountToday(from, saw) + 1
    <3>1. Among(held \cup {r}, HoursOf(Day(from))) \in Nat
          /\ Among(held \cup {r}, HoursOf(Day(from))) <= Among(held, HoursOf(Day(from))) + 1
      BY AmongMore
    <3> QED BY <1>1, <1>6, <3>1
  <2>5. ASSUME NEW d \in Nat PROVE Among(held \cup {r}, HoursOf(d)) <= DailyCap
    <3>1. CASE d = Day(from)
      <4>1. CountToday(from, saw) < DailyCap
        BY <1>8 DEF MayReflect
      <4> QED BY <1>1, <2>4, <3>1, <4>1, ScheduleAssumption
    <3>2. CASE d # Day(from)
      <4>1. r[2] \notin HoursOf(d)
        BY <2>2, <3>2 DEF HoursOf
      <4>2. Among(held \cup {r}, HoursOf(d)) = Among(held, HoursOf(d))
        BY <4>1, AmongMore
      <4> QED BY <4>2 DEF Spread
    <3> QED BY <3>1, <3>2
  <2>6. ASSUME NEW h \in Nat PROVE Among(held \cup {r}, Within(h)) <= 1
    <3>1. CASE from \in Within(h)
      <4>1. ASSUME NEW x \in held PROVE x[2] \notin Within(h)
        <5>1. saw \in Written /\ saw.at \in Nat /\ x[2] \in Nat /\ x[2] <= saw.at
          BY DEF Spread, Legible, Written
        <5>2. Gap \in Int /\ from - saw.at >= Gap
          BY <1>8, <5>1, Distance
        <5>3. from < h + Gap
          BY <3>1 DEF Within
        <5>4. ~(h <= x[2])
          BY <5>1, <5>2, <5>3
        <5> QED BY <5>4 DEF Within
      <4>2. Among(held, Within(h)) = 0
        BY <4>1, AmongNone
      <4>3. /\ Among(held \cup {r}, Within(h)) \in Nat
            /\ Among(held \cup {r}, Within(h)) <= Among(held, Within(h)) + 1
        BY AmongMore
      <4> QED BY <4>2, <4>3
    <3>2. CASE from \notin Within(h)
      <4>1. Among(held \cup {r}, Within(h)) = Among(held, Within(h))
        BY <2>2, <3>2, AmongMore
      <4> QED BY <4>1 DEF Spread
    <3> QED BY <3>1, <3>2
  <2>7. Spread(held \cup {r}, new)
    BY <1>2, <2>3, <2>4, <2>5, <2>6 DEF Spread
  <2> QED BY <2>1, <2>7
<1> QED BY <1>2, <1>3, <1>4, <1>7, <1>8

-----------------------------------------------------------------------------
(* The pace through every step *)

LEMMA HeldFinite ==
    ASSUME ReflectionTypes, PaceInv
    PROVE  IsFiniteSet(Held) /\ \A r \in Held : r[2] \in Nat
<1> DEFINE d == <<at[Daemon].entry, at[Daemon].from>>
<1>1. at[Daemon] \in Activities
    BY DEF ReflectionTypes, Procs
<1>2. d[2] \in Nat
    BY <1>1 DEF Activities
<1>3. Held = published \/ Held = published \cup {d}
    BY DEF Held, Due
<1> HIDE DEF d
<1>4. IsFiniteSet(published) /\ IsFiniteSet(published \cup {d})
    BY FS_AddElement DEF PaceInv
<1> QED BY <1>2, <1>3, <1>4 DEF PaceInv

\* Less that is shown is as well spread.
LEMMA SpreadFewer ==
    ASSUME NEW T, IsFiniteSet(T), NEW S, S \subseteq T, NEW s, Spread(T, s)
    PROVE  Spread(S, s)
<1>1. \A A : Among(S, A) \in Nat /\ Among(T, A) \in Nat /\ Among(S, A) <= Among(T, A)
    BY AmongFewer
<1>2. s = None => S = {}
    BY DEF Spread
<1>3. s \in Written => /\ \A r \in S : r[2] <= s.at
                       /\ Among(S, HoursOf(s.day)) <= s.count
  <2>1. SUFFICES ASSUME s \in Written PROVE Among(S, HoursOf(s.day)) <= s.count
    BY DEF Spread
  <2>2. s.count \in Nat /\ Among(T, HoursOf(s.day)) <= s.count
    BY <2>1 DEF Written, Spread
  <2> QED BY <1>1, <2>2
<1>4. ASSUME NEW d \in Nat PROVE Among(S, HoursOf(d)) <= DailyCap
  <2>1. Among(T, HoursOf(d)) <= DailyCap
    BY DEF Spread
  <2> QED BY <1>1, <2>1, ScheduleAssumption
<1>5. ASSUME NEW h \in Nat PROVE Among(S, Within(h)) <= 1
  <2>1. Among(T, Within(h)) <= 1
    BY DEF Spread
  <2> QED BY <1>1, <2>1
<1> QED BY <1>2, <1>3, <1>4, <1>5 DEF Spread

\* A step that leaves the schedule alone, and shows no more than was due.
LEMMA StepPaces ==
    ASSUME ReflectionTypes, PaceInv, NEW p \in Procs, NEW r, at' = [at EXCEPT ![p] = r],
           UNCHANGED <<now, schedule, crossed>>, Timely(r, schedule, now, crossed),
           r.step # "publish", p \in Users => r.op # "check",
           published' = published \/ (p = Daemon /\ published' = Held)
    PROVE  PaceInv'
<1>1. at \in [Procs -> Activities] /\ Daemon \in Procs /\ Users \subseteq Procs
    BY DEF ReflectionTypes, Procs
<1>2. IsFiniteSet(Held) /\ (\A x \in Held : x[2] \in Nat) /\ published \subseteq Held
    BY HeldFinite DEF Held
<1>3. published' \subseteq Held
    BY <1>2
<1>4. IsFiniteSet(published') /\ \A x \in published' : x[2] \in Nat
    BY <1>2, <1>3, FS_Subset
<1>5. Held' \subseteq Held
  <2>1. CASE p = Daemon
    <3>1. Due' = {}
      BY <1>1, <2>1 DEF Due
    <3> QED BY <1>3, <3>1 DEF Held
  <2>2. CASE p # Daemon
    <3>1. Due' = Due
      BY <1>1, <2>2 DEF Due, Unforced
    <3> QED BY <2>2, <3>1 DEF Held
  <2> QED BY <2>1, <2>2
<1>6. \A q \in Procs : Timely(at'[q], schedule', now', crossed')
    BY <1>1 DEF PaceInv
<1>7. \A u \in Users : ~Unforced(u)'
    BY <1>1 DEF PaceInv, Unforced
<1>8. ~crossed => Spread(Held', schedule)
    BY <1>2, <1>5, SpreadFewer DEF PaceInv
<1>9. schedule' \in Written => schedule'.at <= now' /\ Dated(schedule')
    BY DEF PaceInv
<1>10. ~crossed' => Spread(Held', schedule')
    BY <1>8
<1> QED BY <1>4, <1>6, <1>7, <1>9, <1>10 DEF PaceInv

LEMMA RestTimely == \A s, l : \A time \in Nat : Timely(Rest, s, time, l)
BY DEF Rest, Timely, Underway, CycleSteps

LEMMA RestPaces ==
    ASSUME ReflectionTypes, PaceInv, NEW p \in Procs, Ends(p),
           UNCHANGED <<now, schedule, crossed>>,
           published' = published \/ (p = Daemon /\ published' = Held)
    PROVE  PaceInv'
<1>1. Timely(Rest, schedule, now, crossed)
    BY RestTimely DEF ReflectionTypes
<1>2. Rest.step # "publish" /\ Rest.op # "check"
    BY DEF Rest
<1> QED BY <1>1, <1>2, StepPaces DEF Ends

\* A step that goes on with the same cycle, or leaves it.
LEMMA GoesPaces ==
    ASSUME ReflectionTypes, PaceInv, NEW p \in Procs, NEW r, at' = [at EXCEPT ![p] = r],
           UNCHANGED <<now, schedule, crossed, published>>,
           r.op = at[p].op, r.from = at[p].from, r.saw = at[p].saw,
           r.step \notin {"stamp", "publish"},
           r.step \in CycleSteps => at[p].op # "organize",
           r.step \in Underway => at[p].step \in Underway
    PROVE  PaceInv'
<1>1. Timely(at[p], schedule, now, crossed)
    BY DEF PaceInv
<1>2. Timely(r, schedule, now, crossed)
    BY <1>1 DEF Timely
<1>3. p \in Users => r.op # "check"
    BY DEF PaceInv, Unforced
<1> QED BY <1>2, <1>3, StepPaces

LEMMA OrganizedPaces ==
    ASSUME ReflectionTypes, PaceInv, NEW p \in Procs, Organized(p),
           at[p].step \in {"list", "merge", "fold"},
           UNCHANGED <<now, schedule, crossed, published>>
    PROVE  PaceInv'
<1>1. CASE at[p].op = "organize"
    BY <1>1, RestPaces DEF Organized
<1>2. CASE at[p].op # "organize"
  <2> DEFINE s == IF at[p].last THEN "count" ELSE "generate"
             r == [at[p] EXCEPT !.step = s, !.last = ~@, !.listed = Rest.listed,
                                !.groups = {}, !.duplicates = {}]
  <2>1. at[p] \in Activities /\ s \in {"count", "generate"} /\ at' = [at EXCEPT ![p] = r]
    BY <1>2 DEF ReflectionTypes, Organized
  <2> HIDE DEF s
  <2>2. /\ r.op = at[p].op /\ r.from = at[p].from /\ r.saw = at[p].saw
        /\ r.step \in {"count", "generate"}
    BY <2>1 DEF Activities
  <2> HIDE DEF r
  <2>3. at[p].step \in Underway
    BY DEF Underway
  <2> QED BY <1>2, <2>1, <2>2, <2>3, GoesPaces
<1> QED BY <1>1, <1>2

LEMMA OrganizePaces ==
    ASSUME ReflectionTypes, PaceInv, NEW p \in Procs, Organize(p)
    PROVE  PaceInv'
<1>1. at[p] \in Activities /\ UNCHANGED <<now, schedule, crossed, published>>
    BY DEF Organize, List, Merge, Fold, OrganizerFails, stored, history, ReflectionTypes
<1>2. ASSUME NEW r, at' = [at EXCEPT ![p] = r], r.step \in {"merge", "fold"},
             at[p].step \in {"list", "merge", "fold"},
             r.op = at[p].op, r.from = at[p].from, r.saw = at[p].saw
      PROVE  PaceInv'
  <2>1. r.step \notin CycleSteps /\ at[p].step \in Underway
    BY <1>2 DEF CycleSteps, Underway
  <2> QED BY <1>1, <1>2, <2>1, GoesPaces
<1>3. CASE List(p)
  <2>1. PICK groups \in Groupings(Pending) :
           at' = [at EXCEPT ![p].step = "merge", ![p].groups = groups,
                            ![p].listed = [e \in Entries |->
                                IF e \in Pending THEN entries[e] ELSE None]]
    BY <1>3 DEF List
  <2> DEFINE copies == [e \in Entries |-> IF e \in Pending THEN entries[e] ELSE None]
             r == [at[p] EXCEPT !.step = "merge", !.groups = groups, !.listed = copies]
  <2>2. at' = [at EXCEPT ![p] = r]
    BY <2>1
  <2> HIDE DEF copies
  <2>3. r.step = "merge" /\ r.op = at[p].op /\ r.from = at[p].from /\ r.saw = at[p].saw
    BY <1>1 DEF Activities
  <2> HIDE DEF r
  <2> QED BY <1>2, <1>3, <2>2, <2>3 DEF List
<1>4. CASE Merge(p)
  <2>1. CASE Organized(p)
    BY <1>1, <1>4, <2>1, OrganizedPaces DEF Merge
  <2>2. ASSUME NEW group \in at[p].groups,
               at' = [at EXCEPT ![p].step = "fold", ![p].groups = @ \ {group},
                                ![p].duplicates = group \ {Primary(p, group)}]
        PROVE  PaceInv'
    <3> DEFINE d == group \ {Primary(p, group)}
               g == at[p].groups \ {group}
               r == [at[p] EXCEPT !.step = "fold", !.groups = g, !.duplicates = d]
    <3>1. at' = [at EXCEPT ![p] = r]
      BY <2>2
    <3> HIDE DEF d, g
    <3>2. r.step = "fold" /\ r.op = at[p].op /\ r.from = at[p].from /\ r.saw = at[p].saw
      BY <1>1 DEF Activities
    <3> HIDE DEF r
    <3> QED BY <1>2, <1>4, <3>1, <3>2 DEF Merge
  <2> QED BY <1>4, <2>1, <2>2 DEF Merge
<1>5. CASE Fold(p)
  <2>1. CASE To(p, "merge")
    <3> DEFINE r == [at[p] EXCEPT !.step = "merge"]
    <3>1. at' = [at EXCEPT ![p] = r]
      BY <2>1 DEF To
    <3>2. r.step = "merge" /\ r.op = at[p].op /\ r.from = at[p].from /\ r.saw = at[p].saw
      BY <1>1 DEF Activities
    <3> HIDE DEF r
    <3> QED BY <1>2, <1>5, <3>1, <3>2 DEF Fold
  <2>2. ASSUME NEW e, at' = [at EXCEPT ![p].duplicates = @ \ {e}] PROVE PaceInv'
    <3> DEFINE d == at[p].duplicates \ {e}
               r == [at[p] EXCEPT !.duplicates = d]
    <3>1. at' = [at EXCEPT ![p] = r]
      BY <2>2
    <3> HIDE DEF d
    <3>2. r.step = at[p].step /\ r.op = at[p].op /\ r.from = at[p].from /\ r.saw = at[p].saw
      BY <1>1 DEF Activities
    <3> HIDE DEF r
    <3> QED BY <1>2, <1>5, <3>1, <3>2 DEF Fold
  <2> QED BY <1>5, <2>1, <2>2 DEF Fold
<1>6. CASE OrganizerFails(p)
    BY <1>1, <1>6, OrganizedPaces DEF OrganizerFails
<1> QED BY <1>3, <1>4, <1>5, <1>6 DEF Organize

\* The steps of a cycle that write no schedule.
LEMMA ComposePaces ==
    ASSUME ReflectionTypes, PaceInv, NEW p \in Procs, Generate(p) \/ Discuss(p) \/ SaveEntry(p)
    PROVE  PaceInv'
<1>1. at[p] \in Activities /\ UNCHANGED <<now, schedule, crossed, published>>
    BY DEF Generate, Discuss, SaveEntry, stored, history, ReflectionTypes
<1>2. at[p].step \in {"generate", "discuss", "save"} /\ at[p].step \in Underway
      /\ at[p].op # "organize"
    BY DEF Generate, Discuss, SaveEntry, Underway, CycleSteps, PaceInv, Timely
<1>3. CASE Ends(p)
    BY <1>1, <1>3, RestPaces
<1>4. ASSUME NEW r, at' = [at EXCEPT ![p] = r], r.step \in {"discuss", "save", "list"},
             r.op = at[p].op, r.from = at[p].from, r.saw = at[p].saw
      PROVE  PaceInv'
    BY <1>1, <1>2, <1>4, GoesPaces
<1>5. CASE Generate(p)
  <2>1. CASE To(p, "save")
    <3> DEFINE r == [at[p] EXCEPT !.step = "save"]
    <3>1. at' = [at EXCEPT ![p] = r]
      BY <2>1 DEF To
    <3>2. r.step = "save" /\ r.op = at[p].op /\ r.from = at[p].from /\ r.saw = at[p].saw
      BY <1>1 DEF Activities
    <3> HIDE DEF r
    <3> QED BY <1>4, <3>1, <3>2
  <2>2. ASSUME NEW selected \in Selections,
               at' = [at EXCEPT ![p].step = "discuss", ![p].selected = selected, ![p].turn = 1]
        PROVE  PaceInv'
    <3> DEFINE r == [at[p] EXCEPT !.step = "discuss", !.selected = selected, !.turn = 1]
    <3>1. at' = [at EXCEPT ![p] = r]
      BY <2>2
    <3>2. r.step = "discuss" /\ r.op = at[p].op /\ r.from = at[p].from /\ r.saw = at[p].saw
      BY <1>1 DEF Activities
    <3> HIDE DEF r
    <3> QED BY <1>4, <3>1, <3>2
  <2> QED BY <1>3, <1>5, <2>1, <2>2 DEF Generate
<1>6. CASE Discuss(p)
  <2>1. ASSUME NEW judgment \in Judgments,
               at' = [at EXCEPT ![p].turn = @ + 1, ![p].emergent = Called(judgment, @)]
        PROVE  PaceInv'
    <3> DEFINE who == Called(judgment, at[p].emergent)
               next == at[p].turn + 1
               r == [at[p] EXCEPT !.turn = next, !.emergent = who]
    <3>1. at' = [at EXCEPT ![p] = r]
      BY <2>1
    <3> HIDE DEF who, next
    <3>2. r.step = at[p].step /\ r.op = at[p].op /\ r.from = at[p].from /\ r.saw = at[p].saw
      BY <1>1 DEF Activities
    <3>3. at[p].step = "discuss"
      BY <1>6 DEF Discuss
    <3> HIDE DEF r
    <3> QED BY <1>4, <3>1, <3>2, <3>3
  <2>2. ASSUME at' = [at EXCEPT ![p].step = "save", ![p].selected = <<>>,
                                ![p].turn = 0, ![p].emergent = Nobody]
        PROVE  PaceInv'
    <3> DEFINE r == [at[p] EXCEPT !.step = "save", !.selected = <<>>,
                                  !.turn = 0, !.emergent = Nobody]
    <3>1. at' = [at EXCEPT ![p] = r]
      BY <2>2
    <3>2. r.step = "save" /\ r.op = at[p].op /\ r.from = at[p].from /\ r.saw = at[p].saw
      BY <1>1 DEF Activities
    <3> HIDE DEF r
    <3> QED BY <1>4, <3>1, <3>2
  <2>3. CASE Reject(p)
    BY <1>3, <2>3 DEF Reject
  <2> QED BY <1>6, <2>1, <2>2, <2>3 DEF Discuss
<1>7. CASE SaveEntry(p)
  <2> DEFINE r == [at[p] EXCEPT !.entry = made', !.last = TRUE, !.step = "list"]
  <2>1. at' = [at EXCEPT ![p] = r]
    BY <1>7 DEF SaveEntry
  <2>2. r.step = "list" /\ r.op = at[p].op /\ r.from = at[p].from /\ r.saw = at[p].saw
    BY <1>1 DEF Activities
  <2> HIDE DEF r
  <2> QED BY <1>4, <2>1, <2>2
<1> QED BY <1>5, <1>6, <1>7

\* The schedule a process reads, when it can.
LEMMA SeenLegible ==
    ASSUME ReflectionTypes, PaceInv, schedule # Corrupt
    PROVE  /\ schedule \in Legible /\ Dated(schedule) /\ Comes(schedule, schedule)
           /\ schedule # None => schedule.at <= now
<1>1. schedule \in Legible
    BY NoSchedule DEF ReflectionTypes
<1>2. schedule \in Written => schedule.at \in Nat /\ schedule.count \in Nat
    BY DEF Written
<1> QED BY <1>1, <1>2 DEF PaceInv, Legible, Dated, Comes

LEMMA PassesPaces ==
    ASSUME ReflectionTypes, PaceInv, NEW p \in Procs, NEW op \in Verbs \cup {"check"},
           op # "organize", p \in Users => op # "check", Passes(p, op),
           UNCHANGED <<now, schedule, crossed, published>>
    PROVE  PaceInv'
<1> DEFINE r == [at[p] EXCEPT !.op = op, !.step = "list", !.from = now, !.saw = schedule]
<1>1. at[p] \in Activities /\ at' = [at EXCEPT ![p] = r] /\ now \in Nat
    BY DEF ReflectionTypes, Passes
<1>2. r.op = op /\ r.step = "list" /\ r.from = now /\ r.saw = schedule
    BY <1>1 DEF Activities
<1> HIDE DEF r
<1>3. schedule # Corrupt =>
        /\ schedule \in Legible /\ Dated(schedule) /\ Comes(schedule, schedule)
        /\ schedule # None => schedule.at <= now
    BY SeenLegible
<1>4. Timely(r, schedule, now, crossed)
    BY <1>1, <1>2, <1>3 DEF Timely, CycleSteps, Passes
<1> QED BY <1>1, <1>2, <1>4, StepPaces

LEMMA BeginPaces ==
    ASSUME ReflectionTypes, PaceInv, NEW u \in Users, NEW verb \in Verbs, Begin(u, verb)
    PROVE  PaceInv'
<1>1. /\ u \in Procs /\ verb # "check" /\ UNCHANGED <<now, schedule, crossed, published>>
      /\ at[u] \in Activities
    BY BoundsAssumption DEF Procs, Begin, stored, history, ReflectionTypes
<1>2. CASE verb = "run"
    BY <1>1, <1>2, PassesPaces DEF Begin
<1>3. CASE verb # "run"
  <2> DEFINE s == IF verb = "organize" THEN "list" ELSE "load"
             r == [at[u] EXCEPT !.op = verb, !.step = s]
  <2>1. at' = [at EXCEPT ![u] = r] /\ s \in {"list", "load"}
        /\ (s = "list" => verb = "organize")
    BY <1>3 DEF Begin
  <2> HIDE DEF s
  <2>2. r.op = verb /\ r.step = s /\ r.from = at[u].from
    BY <1>1 DEF Activities
  <2> HIDE DEF r
  <2>3. Timely(r, schedule, now, crossed)
    BY <1>1, <2>1, <2>2 DEF Timely, Underway, CycleSteps, PaceInv
  <2> QED BY <1>1, <2>1, <2>2, <2>3, StepPaces
<1> QED BY <1>2, <1>3

LEMMA CheckPaces == ASSUME ReflectionTypes, PaceInv, Check PROVE PaceInv'
<1>1. Daemon \in Procs /\ Daemon \notin Users
    BY BoundsAssumption DEF Procs
<1> QED BY <1>1, PassesPaces DEF Check, stored, history

\* The cycle counts from the schedule it reads now.
LEMMA CountPaces == ASSUME ReflectionTypes, PaceInv, NEW p \in Procs, Count(p) PROVE PaceInv'
<1>1. /\ at[p] \in Activities /\ UNCHANGED <<now, schedule, crossed, published>>
      /\ at[p].step = "count" /\ Timely(at[p], schedule, now, crossed)
    BY DEF Count, stored, history, ReflectionTypes, PaceInv
<1>2. CASE schedule = Corrupt
    BY <1>1, <1>2, RestPaces DEF Count
<1>3. CASE schedule # Corrupt
  <2> DEFINE n == CountToday(at[p].from, schedule) + 1
             r == [at[p] EXCEPT !.step = "stamp", !.count = n]
  <2>1. at' = [at EXCEPT ![p] = r]
    BY <1>3 DEF Count
  <2>2. /\ r.step = "stamp" /\ r.count = n
        /\ r.op = at[p].op /\ r.from = at[p].from /\ r.saw = at[p].saw
    <3> HIDE DEF n
    <3> QED BY <1>1 DEF Activities
  <2> HIDE DEF r
  <2>3. /\ schedule \in Legible /\ Dated(schedule) /\ Comes(schedule, schedule)
    BY <1>3, SeenLegible
  <2>4. /\ at[p].op # "organize" /\ at[p].step \in Underway
    BY <1>1 DEF Timely, CycleSteps, Underway
  <2>5. Timely(r, schedule, now, crossed)
    BY <1>1, <1>3, <2>2, <2>3, <2>4 DEF Timely
  <2>6. p \in Users => r.op # "check"
    BY <2>2 DEF PaceInv, Unforced
  <2> QED BY <1>1, <2>1, <2>2, <2>5, <2>6, StepPaces
<1> QED BY <1>2, <1>3

\* The cycle that writes the schedule saw the one it replaces, unless another came between:
\* schedules only come later, so the one it saw at its gate is the one it counted from.
LEMMA StampPaces == ASSUME ReflectionTypes, PaceInv, NEW p \in Procs, Stamp(p) PROVE PaceInv'
<1> DEFINE a == at[p]
           r == [at[p] EXCEPT !.step = "publish"]
           new == [at |-> a.from, count |-> a.count, day |-> Day(a.from)]
<1>1. /\ at \in [Procs -> Activities] /\ a \in Activities /\ now \in Nat
      /\ Timely(a, schedule, now, crossed)
      /\ a.step = "stamp" /\ at' = [at EXCEPT ![p] = r] /\ now' = now /\ published' = published
      /\ schedule' = new /\ crossed' = (crossed \/ schedule # a.saw)
      /\ crossed \in BOOLEAN
    BY DEF Stamp, To, ReflectionTypes, PaceInv
<1>2. a.from \in Nat /\ a.count \in Nat
    BY <1>1 DEF Activities
<1>3. /\ r.step = "publish" /\ r.op = a.op /\ r.from = a.from /\ r.entry = a.entry
    BY <1>1 DEF Activities
<1>4. /\ a.from <= now /\ a.op # "organize"
      /\ a.saw = Corrupt => crossed
      /\ a.saw # Corrupt => a.saw \in Legible /\ Dated(a.saw)
      /\ a.saw \notin {None, Corrupt} => a.saw.at <= a.from
      /\ a.op = "check" => MayReflect(a.from, a.saw)
      /\ ~crossed /\ schedule # Corrupt =>
           \E x \in Legible : /\ Dated(x) /\ Comes(a.saw, x) /\ Comes(x, schedule)
                              /\ a.count = CountToday(a.from, x) + 1
    BY <1>1 DEF Timely, CycleSteps, Underway
<1> HIDE DEF a, r
<1>5. Day(a.from) \in Nat
    BY <1>2, DaysGrow
<1>6. new \in Written /\ new.at = a.from /\ new.day = Day(a.from)
    BY <1>2, <1>5 DEF Written
<1>7. schedule' \in Written => schedule'.at <= now' /\ Dated(schedule')
    BY <1>1, <1>4, <1>6 DEF Dated
<1>8. ASSUME ~crossed'
      PROVE  /\ ~crossed /\ schedule = a.saw /\ Comes(schedule, new) /\ Spread(Held, new)
             /\ a.op = "check" => \A e : Spread(Held \cup {<<e, a.from>>}, new)
  <2>1. ~crossed /\ schedule = a.saw
    BY <1>1, <1>8
  <2>2. /\ schedule # Corrupt /\ a.saw \in Legible /\ Dated(a.saw)
        /\ a.saw # None => a.saw.at <= a.from
    BY <1>4, <2>1
  <2>3. PICK x \in Legible : /\ Dated(x) /\ Comes(a.saw, x) /\ Comes(x, schedule)
                             /\ a.count = CountToday(a.from, x) + 1
    BY <1>4, <2>1, <2>2
  <2>4. x = a.saw
    BY <2>1, <2>2, <2>3, SameSchedule
  <2>5. new = [at |-> a.from, count |-> CountToday(a.from, a.saw) + 1, day |-> Day(a.from)]
    BY <2>3, <2>4
  <2>6. Spread(Held, a.saw) /\ IsFiniteSet(Held) /\ \A y \in Held : y[2] \in Nat
    BY <2>1, HeldFinite DEF PaceInv
  <2> HIDE DEF new
  <2>7. /\ Comes(a.saw, new) /\ Spread(Held, new)
        /\ MayReflect(a.from, a.saw) => \A e : Spread(Held \cup {<<e, a.from>>}, new)
    BY <1>2, <2>2, <2>5, <2>6, Stamped
  <2> QED BY <1>4, <2>1, <2>7
<1> HIDE DEF new
<1>9. Held' = Held \/ (a.op = "check" /\ Held' = Held \cup {<<a.entry, a.from>>})
  <2>1. CASE p = Daemon
    <3>1. Held = published
      BY <1>1, <2>1 DEF Held, Due, a
    <3>2. at'[Daemon] = r
      BY <1>1, <2>1
    <3>3. Due' = IF a.op = "check" THEN {<<a.entry, a.from>>} ELSE {}
      BY <1>3, <3>2 DEF Due, Unforced
    <3> QED BY <1>1, <3>1, <3>3 DEF Held
  <2>2. CASE p # Daemon
    <3>1. Due' = Due
      BY <1>1, <2>2 DEF Due, Unforced, Procs
    <3> QED BY <1>1, <3>1 DEF Held
  <2> QED BY <2>1, <2>2
<1>10. ~crossed' => Spread(Held', schedule')
    BY <1>1, <1>8, <1>9
<1>11. \A q \in Procs : Timely(at'[q], schedule', now', crossed')
  <2>1. TAKE q \in Procs
  <2>2. CASE q = p
    BY <1>1, <1>3, <1>4, <2>2 DEF Timely, Underway
  <2>3. CASE q # p
    <3>1. at'[q] = at[q] /\ Timely(at[q], schedule, now, crossed)
      BY <1>1, <2>3 DEF PaceInv
    <3>2. ASSUME ~crossed' PROVE \A x \in Legible : Comes(x, schedule) => Comes(x, new)
      <4>1. schedule \in Legible /\ new \in Legible /\ Comes(schedule, new)
        BY <1>4, <1>6, <1>8, <3>2 DEF Legible
      <4> QED BY <4>1, ComesOn
    <3>3. ~crossed' => ~crossed /\ schedule # Corrupt
      BY <1>4, <1>8
    <3> QED BY <1>1, <3>1, <3>2, <3>3 DEF Timely
  <2> QED BY <2>2, <2>3
<1>12. \A u \in Users : ~Unforced(u)'
    BY <1>1, <1>3 DEF PaceInv, Unforced, Procs, a
<1>13. crossed' \in BOOLEAN /\ IsFiniteSet(published') /\ \A y \in published' : y[2] \in Nat
    BY <1>1 DEF PaceInv
<1> QED BY <1>7, <1>10, <1>11, <1>12, <1>13 DEF PaceInv

\* What the daemon shows was due.
LEMMA PublishPaces ==
    ASSUME ReflectionTypes, PaceInv, NEW p \in Procs, Publish(p) PROVE PaceInv'
<1>1. UNCHANGED <<now, schedule, crossed>> /\ Ends(p)
    BY DEF Publish
<1>2. CASE Unforced(p)
  <2>1. p = Daemon
    BY <1>2 DEF PaceInv, Procs
  <2>2. published' = Held
    BY <1>2, <2>1 DEF Publish, Held, Due
  <2> QED BY <1>1, <2>1, <2>2, RestPaces
<1>3. CASE ~Unforced(p)
    BY <1>1, <1>3, RestPaces DEF Publish
<1> QED BY <1>2, <1>3

LEMMA LoadPaces == ASSUME ReflectionTypes, PaceInv, NEW u \in Users, Load(u) PROVE PaceInv'
<1>1. /\ u \in Procs /\ at[u] \in Activities
      /\ UNCHANGED <<now, schedule, crossed, published>>
    BY DEF Procs, Load, stored, history, ReflectionTypes
<1>2. CASE Ends(u)
    BY <1>1, <1>2, RestPaces
<1>3. ASSUME NEW e \in Stored,
             at' = [at EXCEPT ![u].step = "close", ![u].entry = e,
                              ![u].listed = [Rest.listed EXCEPT ![e] = entries[e]]]
      PROVE  PaceInv'
  <2> DEFINE copies == [Rest.listed EXCEPT ![e] = entries[e]]
             r == [at[u] EXCEPT !.step = "close", !.entry = e, !.listed = copies]
  <2>1. at' = [at EXCEPT ![u] = r]
    BY <1>3
  <2> HIDE DEF copies
  <2>2. r.step = "close" /\ r.op = at[u].op /\ r.from = at[u].from /\ r.saw = at[u].saw
    BY <1>1 DEF Activities
  <2> HIDE DEF r
  <2> QED BY <1>1, <2>1, <2>2, GoesPaces DEF CycleSteps, Underway
<1> QED BY <1>2, <1>3 DEF Load

LEMMA EndsPaces ==
    ASSUME ReflectionTypes, PaceInv, NEW p \in Procs, Crash(p) \/ (p \in Users /\ Close(p))
    PROVE  PaceInv'
BY RestPaces DEF Crash, Close, stored, history, bounds

LEMMA ElsewherePaces == ASSUME ReflectionTypes, PaceInv, Damage \/ Tick PROVE PaceInv'
<1>1. /\ UNCHANGED <<at, published, crossed>> /\ now \in Nat /\ now' \in Nat /\ now <= now'
      /\ schedule' = schedule \/ (now' = now /\ schedule' = Corrupt)
    BY DEF Damage, Tick, stored, history, bounds, ReflectionTypes
<1>2. Held' = Held
    BY <1>1 DEF Held, Due, Unforced
<1>3. \A p \in Procs : Timely(at[p], schedule', now', crossed)
  <2>1. TAKE p \in Procs
  <2>2. Timely(at[p], schedule, now, crossed) /\ at[p].from \in Nat
    BY DEF PaceInv, ReflectionTypes, Activities
  <2> QED BY <1>1, <2>2 DEF Timely
<1>4. ~crossed => Spread(Held, schedule')
  <2>1. Corrupt # None /\ Corrupt \notin Written
    BY NoSchedule DEF Legible
  <2>2. ASSUME Spread(Held, schedule) PROVE Spread(Held, Corrupt)
    BY <2>1, <2>2 DEF Spread
  <2> QED BY <1>1, <2>2 DEF PaceInv
<1>5. schedule' \in Written => schedule'.at <= now' /\ Dated(schedule')
  <2>1. SUFFICES ASSUME schedule' \in Written PROVE schedule'.at <= now' /\ Dated(schedule')
    OBVIOUS
  <2>2. schedule' = schedule /\ schedule.at \in Nat
    BY <1>1, <2>1, NoSchedule DEF Written, Legible
  <2> QED BY <1>1, <2>1, <2>2 DEF PaceInv
<1> QED BY <1>1, <1>2, <1>3, <1>4, <1>5 DEF PaceInv, Unforced

LEMMA InitPaces == Init => PaceInv
<1> SUFFICES ASSUME Init PROVE PaceInv
    OBVIOUS
<1>1. /\ schedule = None /\ published = {} /\ crossed = FALSE /\ now = 0
      /\ at = [p \in Procs |-> Rest]
    BY DEF Init
<1>2. \A p \in Procs : at[p] = Rest
    BY <1>1
<1>3. Daemon \in Procs /\ Users \subseteq Procs /\ 0 \in Nat
    BY DEF Procs
<1>4. Rest.step = "idle" /\ Rest.op = "none"
    BY DEF Rest
<1>5. Held = {}
    BY <1>1, <1>2, <1>3, <1>4 DEF Held, Due
<1>6. \A A : Among({}, A) = 0
    BY AmongNone
<1>7. Spread({}, None)
    BY <1>6, NoSchedule, ScheduleAssumption DEF Spread
<1>8. \A p \in Procs : Timely(at[p], schedule, now, crossed)
    BY <1>1, <1>2, <1>3, RestTimely
<1>9. \A u \in Users : ~Unforced(u)
    BY <1>2, <1>3, <1>4 DEF Unforced
<1>10. IsFiniteSet(published) /\ \A r \in published : r[2] \in Nat
    BY <1>1, FS_EmptySet
<1>11. schedule \notin Written
    BY <1>1, NoSchedule
<1> QED BY <1>1, <1>5, <1>7, <1>8, <1>9, <1>10, <1>11 DEF PaceInv

LEMMA NextPaces == MergeInv /\ PaceInv /\ [Next]_vars => PaceInv'
<1> SUFFICES ASSUME MergeInv, PaceInv, [Next]_vars PROVE PaceInv'
    OBVIOUS
<1>0. ReflectionTypes
    BY DEF MergeInv
<1>1. CASE UNCHANGED vars
  <2>1. UNCHANGED <<now, schedule, at, published, crossed>>
    BY <1>1 DEF vars, stored, bounds, history
  <2> QED BY <2>1 DEF PaceInv, Held, Due, Unforced
<1>2. ASSUME NEW p \in Procs, Cycle(p) PROVE PaceInv'
    BY <1>0, <1>2, ComposePaces, CountPaces, StampPaces, PublishPaces DEF Cycle
<1>3. ASSUME NEW p \in Procs, Organize(p) PROVE PaceInv'
    BY <1>0, <1>3, OrganizePaces
<1>4. ASSUME NEW u \in Users, Load(u) PROVE PaceInv'
    BY <1>0, <1>4, LoadPaces
<1>5. ASSUME NEW p \in Procs, Crash(p) \/ (p \in Users /\ Close(p)) PROVE PaceInv'
    BY <1>0, <1>5, EndsPaces
<1>6. CASE Damage \/ Tick
    BY <1>0, <1>6, ElsewherePaces
<1>7. ASSUME NEW u \in Users, NEW verb \in Verbs, Begin(u, verb) PROVE PaceInv'
    BY <1>0, <1>7, BeginPaces
<1>8. CASE Check
    BY <1>0, <1>8, CheckPaces
<1> QED BY <1>1, <1>2, <1>3, <1>4, <1>5, <1>6, <1>7, <1>8 DEF Next, Work

\* What was shown, and what is about to be, is in the schedule and spread as its gates say,
\* and every cycle knows a schedule that was written before the one there is (scheduler.py,
\* reflect and _write_last_reflection).
THEOREM KeepsPace == Spec => []PaceInv
<1>1. Init => PaceInv
    BY InitPaces
<1>2. MergeInv /\ PaceInv /\ [Next]_vars => PaceInv'
    BY NextPaces
<1> QED BY <1>1, <1>2, OrganizesMindfully, PTL DEF Spec

\* The cycles the daemon ran unforced and published keep the daily cap and their distance,
\* wherever it died between two of its writes, as long as no cycle wrote the schedule behind
\* another's back (scheduler.py, reflect: the schedule is written before anything is shown).
THEOREM PacedAlways == Spec => []Paced
<1>1. ReflectionTypes /\ PaceInv => Paced
  <2>1. SUFFICES ASSUME ReflectionTypes, PaceInv, ~crossed, NEW h \in Hours
                 PROVE  /\ Shown({k \in Hours : Day(k) = Day(h)}) <= DailyCap
                        /\ Shown({k \in Hours : h <= k /\ k < h + Gap}) <= 1
    BY DEF Paced
  <2>2. h \in Nat /\ Hours \subseteq Nat
    BY BoundsAssumption DEF Hours
  <2>3. Day(h) \in Nat
    BY <2>2, DaysGrow
  <2>4. IsFiniteSet(Held) /\ published \subseteq Held
    BY <2>1, HeldFinite DEF Held
  <2>5. ASSUME NEW A PROVE Shown(A) = Among(published, A)
    BY DEF Shown, Among
  <2>6. Among(Held, HoursOf(Day(h))) <= DailyCap /\ Among(Held, Within(h)) <= 1
    BY <2>1, <2>2, <2>3 DEF PaceInv, Spread
  <2>7. Shown({k \in Hours : Day(k) = Day(h)}) <= DailyCap
    <3> DEFINE A == {k \in Hours : Day(k) = Day(h)}
    <3>1. \A r \in published : r[2] \in A => r[2] \in HoursOf(Day(h))
      BY <2>2 DEF HoursOf
    <3> HIDE DEF A
    <3>2. /\ Among(published, A) \in Nat /\ Among(Held, HoursOf(Day(h))) \in Nat
          /\ Among(published, A) <= Among(Held, HoursOf(Day(h)))
      BY <2>4, <3>1, AmongFewer
    <3>3. Shown(A) <= DailyCap
      BY <2>5, <2>6, <3>2, ScheduleAssumption
    <3> QED BY <3>3 DEF A
  <2>8. Shown({k \in Hours : h <= k /\ k < h + Gap}) <= 1
    <3> DEFINE A == {k \in Hours : h <= k /\ k < h + Gap}
    <3>1. \A r \in published : r[2] \in A => r[2] \in Within(h)
      BY <2>2 DEF Within
    <3> HIDE DEF A
    <3>2. /\ Among(published, A) \in Nat /\ Among(Held, Within(h)) \in Nat
          /\ Among(published, A) <= Among(Held, Within(h))
      BY <2>4, <3>1, AmongFewer
    <3>3. Shown(A) <= 1
      BY <2>5, <2>6, <3>2
    <3> QED BY <3>3 DEF A
  <2> QED BY <2>7, <2>8
<1>2. MergeInv => ReflectionTypes
    BY DEF MergeInv
<1> QED BY <1>1, <1>2, OrganizesMindfully, KeepsPace, PTL

=============================================================================
