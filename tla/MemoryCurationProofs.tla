------------------------ MODULE MemoryCurationProofs ------------------------
(***************************************************************************)
(* Proofs about MemoryCuration for every set of observations, curators and *)
(* users and every value of the bounds.                                    *)
(***************************************************************************)
EXTENDS MemoryCurationProperties, FiniteSetTheorems, SequenceTheorems, TLAPS

Decided == {"act", "accept", "commit", "complete"}
CuratorSteps == {"idle", "read", "decide"} \cup Decided
Reviewing == {"commit", "reject", "edit"}
ReviewerSteps == {"idle", "save"} \cup Reviewing
Bounds == {"decisions", "deferrals", "reviews", "discards", "edits", "crashes", "refusals"}
Places == [on : Observations \cup Candidates \cup {None}, k : Nat \ {0},
           target : Targets \cup {None}, plan : Plans \cup {None}]

\* What curators, users and the store may hold of candidate c. What an accepted entry
\* brought is in its item, as long as nobody edits entries and the item is there.
Copy(c, d) ==
    /\ d \in CandidateRecords
    /\ d.action = "create" => c \notin Proposals
    /\ d.kind = "entry" /\ d.target \in Nat => d.target <= entries
    /\ d.kind = "entry" /\ d.state = "accepted" =>
          /\ d.target \in Nat
          /\ spent.edits = 0 /\ d.target \in Known => Contains(items[d.target], c)

StoreTypes ==
    /\ observation \in [Observations -> {"absent", "pending", "processed"}]
    /\ plan \in [Observations -> Plans \cup {None}]
    /\ \A o \in Observations : plan[o] # None => Len(plan[o].actions) <= MaxActions
    /\ candidate \in [Candidates -> CandidateRecords \cup {None}]
    /\ \A x \in Known : x \in Targets /\ items[x] \in Seq(Candidates)
    /\ entries \in Nat /\ KnownEntries \subseteq 1..entries

ActorTypes ==
    /\ lock \in [Observations -> Curators \cup {None}]
    /\ listed \in [Curators -> SUBSET Observations]
    /\ pc \in [Actors -> CuratorSteps \cup ReviewerSteps]
    /\ at \in [Actors -> Places]
    /\ seen \in [Actors -> CandidateRecords \cup Seq(Candidates) \cup {None}]
    /\ spent \in [Bounds -> Nat]

CuratorAt(p) ==
    /\ pc[p] \in CuratorSteps
    /\ pc[p] # "idle" => at[p].on \in Observations /\ lock[at[p].on] = p
    /\ pc[p] \in {"idle", "read", "decide"} => at[p].k = 1
    /\ pc[p] \in Decided => at[p].plan \in Plans /\ Len(at[p].plan.actions) <= MaxActions
    /\ pc[p] \in {"accept", "commit"} => HasAction(p)
    /\ pc[p] = "commit" => Copy(TheCandidate(p), seen[p]) /\ seen[p].state = "pending"

ReviewerAt(r) ==
    /\ pc[r] \in ReviewerSteps
    /\ pc[r] \in Reviewing => /\ at[r].on \in Candidates /\ Copy(at[r].on, seen[r])
                              /\ spent.reviews > 0
    /\ pc[r] = "commit" => seen[r].state = "pending"
    /\ pc[r] = "save" => /\ at[r].target \in 1..entries /\ seen[r] \in Seq(Candidates)
                         /\ spent.edits > 0

MemoryInv ==
    /\ StoreTypes /\ ActorTypes
    /\ \A c \in Candidates : candidate[c] # None => Copy(c, candidate[c])
    /\ \A p \in Curators : CuratorAt(p)
    /\ \A r \in Reviewers : ReviewerAt(r)

\* Entries are numbered upwards, and while nobody edits, an entry that is there was there
\* before and has kept its sources.
Grows ==
    /\ entries' >= entries
    /\ \A b \in Bounds : spent'[b] >= spent[b]
    /\ spent'.edits = 0 =>
          \A x \in DOMAIN items' \cap (1..entries) :
             /\ x \in Known
             /\ \A c \in Candidates : Contains(items[x], c) => Contains(items'[x], c)

LEMMA BoundsOfLimit == DOMAIN Limit = Bounds
BY DEF Limit, Bounds

LEMMA SpendFacts ==
    ASSUME ActorTypes, NEW b \in Bounds, Spend(b)
    PROVE  /\ spent' \in [Bounds -> Nat] /\ spent'[b] = spent[b] + 1
           /\ \A a \in Bounds : spent'[a] >= spent[a]
           /\ spent[b] < Limit[b]
BY DEF Spend, ActorTypes

\* A copy stays what it was.
LEMMA CopyKept ==
    ASSUME StoreTypes, ActorTypes, StoreTypes', ActorTypes', Grows,
           NEW c \in Candidates, NEW d, Copy(c, d)
    PROVE  Copy(c, d)'
<1>1. d \in CandidateRecords /\ (d.action = "create" => c \notin Proposals)
    BY DEF Copy
<1>2. d.kind = "entry" /\ d.target \in Nat => d.target <= entries'
    BY DEF Copy, Grows, StoreTypes
<1>3. ASSUME d.kind = "entry", d.state = "accepted", spent'.edits = 0, d.target \in DOMAIN items'
      PROVE  Contains(items'[d.target], c)
  <2>1. spent.edits = 0
    <3>1. "edits" \in Bounds
      BY DEF Bounds
    <3>2. spent'.edits >= spent.edits /\ spent.edits \in Nat
      BY <3>1 DEF Grows, ActorTypes
    <3> QED BY <1>3, <3>2
  <2>2. d.target \in 1..entries
    <3>1. d.target \in Nat /\ d.target <= entries
      BY <1>3 DEF Copy
    <3>2. d.target \notin Observations
      BY <3>1, IdentityAssumption
    <3>3. d.target \in KnownEntries'
      BY <1>3, <3>2 DEF KnownEntries, Known
    <3>4. d.target \in 1..entries'
      BY <3>3 DEF StoreTypes
    <3> QED BY <3>1, <3>4 DEF StoreTypes
  <2>3. d.target \in Known /\ (Contains(items[d.target], c) => Contains(items'[d.target], c))
    BY <1>3, <2>2 DEF Grows
  <2> QED BY <1>3, <2>1, <2>3 DEF Copy
<1> QED BY <1>1, <1>2, <1>3 DEF Copy, Known

\* What TheCandidate of a curator is.
LEMMA CandidateAt ==
    ASSUME MemoryInv, NEW p \in Curators, pc[p] \in Decided, HasAction(p)
    PROVE  /\ TheCandidate(p) \in Candidates /\ TheCandidate(p) \notin Proposals
           /\ at[p].on \in Observations /\ at[p].k \in 1..MaxActions
           /\ TheAction(p) \in Actions
<1>1. /\ at[p] \in Places /\ at[p].on \in Observations /\ at[p].plan \in Plans
      /\ Len(at[p].plan.actions) <= MaxActions
    BY DEF MemoryInv, ActorTypes, CuratorAt, Actors, Decided
<1>2. /\ at[p].k \in Nat \ {0} /\ at[p].plan.actions \in Seq(Actions)
      /\ Len(at[p].plan.actions) \in Nat
    BY <1>1 DEF Places, Plans
<1>3. at[p].k \in 1..MaxActions /\ at[p].k \in DOMAIN at[p].plan.actions
    BY <1>1, <1>2, BoundsAssumption DEF HasAction
<1> QED BY <1>1, <1>2, <1>3, IdentityAssumption DEF TheCandidate, TheAction, Candidates

\* The actors that do not move stay where they were.
LEMMA OthersKept ==
    ASSUME MemoryInv, StoreTypes', ActorTypes', Grows, NEW Moved \in SUBSET Actors,
           \A a \in Actors \ Moved : pc'[a] = pc[a] /\ at'[a] = at[a] /\ seen'[a] = seen[a],
           \A p \in Curators \ Moved : pc[p] # "idle" => lock'[at[p].on] = lock[at[p].on],
           \A c \in Candidates : \/ candidate'[c] = candidate[c]
                                 \/ (candidate[c] # None => Copy(c, candidate[c]))',
           \A p \in Curators \cap Moved : CuratorAt(p)',
           \A r \in Reviewers \cap Moved : ReviewerAt(r)'
    PROVE  MemoryInv'
<1>1. StoreTypes /\ ActorTypes
    BY DEF MemoryInv
<1>2. ASSUME NEW c \in Candidates, candidate'[c] # None PROVE Copy(c, candidate[c])'
  <2>1. CASE candidate'[c] = candidate[c]
    <3>1. Copy(c, candidate[c])
      BY <1>2, <2>1 DEF MemoryInv
    <3>2. PICK d : d = candidate[c]
      OBVIOUS
    <3>3. Copy(c, d)'
      BY <1>1, <3>1, <3>2, CopyKept
    <3>4. candidate'[c] = d
      BY <2>1, <3>2
    <3> QED BY <3>3, <3>4 DEF Copy
  <2> QED BY <1>2, <2>1
<1>3. ASSUME NEW p \in Curators \ Moved PROVE CuratorAt(p)'
  <2>1. CuratorAt(p) /\ pc'[p] = pc[p] /\ at'[p] = at[p] /\ seen'[p] = seen[p]
    BY DEF MemoryInv, Actors
  <2>2. HasAction(p)' <=> HasAction(p)
    BY <2>1 DEF HasAction
  <2>3. ASSUME pc[p] = "commit" PROVE Copy(TheCandidate(p), seen[p])'
    <3>1. TheCandidate(p) \in Candidates /\ Copy(TheCandidate(p), seen[p])
      BY <2>1, <2>3, CandidateAt DEF CuratorAt, Decided
    <3>2. PICK c, d : c \in Candidates /\ c = TheCandidate(p) /\ d = seen[p]
      BY <3>1
    <3>3. Copy(c, d)'
      BY <1>1, <3>1, <3>2, CopyKept
    <3>4. TheCandidate(p)' = c /\ seen'[p] = d
      BY <2>1, <3>2 DEF TheCandidate
    <3> QED BY <3>3, <3>4 DEF Copy
  <2>4. pc[p] # "idle" => lock'[at[p].on] = p
    BY <2>1 DEF CuratorAt
  <2> QED BY <2>1, <2>2, <2>3, <2>4 DEF CuratorAt
<1>4. ASSUME NEW r \in Reviewers \ Moved PROVE ReviewerAt(r)'
  <2>1. ReviewerAt(r) /\ pc'[r] = pc[r] /\ at'[r] = at[r] /\ seen'[r] = seen[r]
    BY DEF MemoryInv, Actors
  <2>2. /\ spent'.reviews >= spent.reviews /\ spent'.edits >= spent.edits
        /\ spent.reviews \in Nat /\ spent.edits \in Nat
        /\ spent'.reviews \in Nat /\ spent'.edits \in Nat
    BY <1>1 DEF Grows, Bounds, ActorTypes
  <2>3. ASSUME pc[r] \in Reviewing PROVE Copy(at[r].on, seen[r])'
    <3>1. PICK c, d : c \in Candidates /\ c = at[r].on /\ d = seen[r]
      BY <2>1, <2>3 DEF ReviewerAt
    <3>2. Copy(c, d)
      BY <2>1, <2>3, <3>1 DEF ReviewerAt
    <3>3. Copy(c, d)'
      BY <1>1, <3>1, <3>2, CopyKept
    <3> QED BY <2>1, <3>1, <3>3 DEF Copy
  <2>4. pc[r] \in Reviewing => spent'.reviews > 0
    BY <2>1, <2>2 DEF ReviewerAt
  <2>5. pc[r] = "save" => /\ at[r].target \in 1..entries' /\ seen[r] \in Seq(Candidates)
                          /\ spent'.edits > 0
    <3>1. entries' >= entries /\ entries \in Nat /\ entries' \in Nat
      BY <1>1 DEF Grows, StoreTypes
    <3> QED BY <2>1, <2>2, <3>1 DEF ReviewerAt
  <2> QED BY <2>1, <2>3, <2>4, <2>5 DEF ReviewerAt
<1> QED BY <1>2, <1>3, <1>4 DEF MemoryInv

-----------------------------------------------------------------------------
(* The transaction of accept and merge *)

LEMMA AppendContains ==
    ASSUME NEW s \in Seq(Candidates), NEW c \in Candidates
    PROVE  /\ Append(s, c) \in Seq(Candidates) /\ Contains(Append(s, c), c)
           /\ \A e \in Candidates : Contains(s, e) => Contains(Append(s, c), e)
<1>1. /\ Append(s, c) \in Seq(Candidates) /\ Len(Append(s, c)) = Len(s) + 1
      /\ \A i \in 1..Len(s) : Append(s, c)[i] = s[i]
      /\ Append(s, c)[Len(s) + 1] = c /\ Len(s) \in Nat
    OBVIOUS
<1>2. Len(s) + 1 \in 1..Len(Append(s, c)) /\ 1..Len(s) \subseteq 1..Len(Append(s, c))
    BY <1>1
<1> QED BY <1>1, <1>2 DEF Contains

LEMMA SingleContains ==
    ASSUME NEW c \in Candidates
    PROVE  <<c>> \in Seq(Candidates) /\ Contains(<<c>>, c)
<1>1. <<c>> \in Seq(Candidates) /\ Len(<<c>>) = 1 /\ <<c>>[1] = c
    OBVIOUS
<1>2. 1 \in 1..Len(<<c>>)
    BY <1>1
<1> QED BY <1>1, <1>2 DEF Contains

\* The item a candidate goes to, and what it then holds.
LEMMA TransactionFacts ==
    ASSUME StoreTypes, ActorTypes, NEW c \in Candidates, NEW read, Copy(c, read),
           NEW target \in Targets \cup {None}, Transaction(c, read, target),
           observation' = observation, plan' = plan, spent' = spent
    PROVE  /\ StoreTypes' /\ Grows
           /\ \A e \in Candidates \ {c} : candidate'[e] = candidate[e]
           /\ candidate'[c] = candidate[c] \/ Copy(c, candidate[c])'
<1> DEFINE x == Destination(c, read, target)
           creates == read.action = "create" /\ target = None
           deletes == read.action = "delete" /\ target = None
           new == [read EXCEPT !.state = "accepted", !.target = x]
<1>1. /\ read \in CandidateRecords /\ (read.action = "create" => c \notin Proposals)
      /\ entries \in Nat /\ KnownEntries \subseteq 1..entries
      /\ \A y \in Known : y \in Targets /\ items[y] \in Seq(Candidates)
    BY DEF Copy, StoreTypes
<1>2. \A b \in Bounds : spent'[b] >= spent[b]
    BY DEF ActorTypes
<1>3. CASE UNCHANGED <<candidate, items, entries>>
  <2>1. StoreTypes'
    BY <1>3 DEF StoreTypes, Known, KnownEntries
  <2>2. Grows
    BY <1>1, <1>2, <1>3 DEF Grows, Known
  <2> QED BY <1>3, <2>1, <2>2
<1>4. CASE /\ creates \/ Finds(read, x)
           /\ items' = CASE creates -> With(x, <<c>>)
                         [] deletes -> [y \in Known \ {x} |-> items[y]]
                         [] OTHER -> Merged(x, c)
           /\ entries' = IF creates /\ x \notin Observations THEN x ELSE entries
           /\ candidate' = [candidate EXCEPT ![c] = new]
  <2>1. x \in Targets
    <3>1. CASE creates
      <4>1. c \in Observations \X (1..MaxActions)
        BY <1>1, <3>1 DEF Candidates
      <4> QED BY <1>1, <3>1, <4>1 DEF Destination, NewItem, Targets
    <3> QED BY <1>1, <1>4, <3>1 DEF Finds
  <2>2. /\ new \in CandidateRecords /\ new.action = read.action /\ new.kind = read.kind
        /\ new.state = "accepted" /\ new.target = x
    <3> HIDE DEF x
    <3> QED BY <1>1, <2>1 DEF CandidateRecords
  <2>3. candidate' \in [Candidates -> CandidateRecords \cup {None}] /\ candidate'[c] = new
        /\ \A e \in Candidates \ {c} : candidate'[e] = candidate[e]
    <3> HIDE DEF new
    <3> QED BY <1>4, <2>2 DEF StoreTypes
  <2> HIDE DEF new
  <2>4. CASE creates
    <3>1. items' = With(x, <<c>>)
      BY <1>4, <2>4
    <3>2. IF read.kind = "profile" THEN x = c[1] ELSE x = entries + 1
      BY <2>4 DEF Destination, NewItem
    <3>3. c \in Observations \X (1..MaxActions)
      BY <1>1, <2>4 DEF Candidates
    <3>4. IF read.kind = "profile" THEN x \in Observations
          ELSE x = entries + 1 /\ x \notin Observations
      BY <1>1, <3>2, <3>3, IdentityAssumption
    <3>5. entries' = IF x \in Observations THEN entries ELSE x
      BY <1>4, <2>4
    <3> HIDE DEF x
    <3>6. entries' \in Nat /\ entries' >= entries
      BY <1>1, <3>4, <3>5
    <3>7. /\ DOMAIN items' = Known \cup {x} /\ items'[x] = <<c>>
          /\ \A y \in Known : y # x => items'[y] = items[y]
      BY <3>1 DEF With
    <3>8. x \notin 1..entries
      <4>1. CASE x \in Observations
        <5>1. x \notin Nat
          BY <4>1, IdentityAssumption
        <5> QED BY <1>1, <5>1
      <4>2. CASE x = entries + 1
        BY <1>1, <4>2
      <4> QED BY <3>4, <4>1, <4>2
    <3>9. KnownEntries' \subseteq 1..entries'
      <4> SUFFICES ASSUME NEW y \in KnownEntries' PROVE y \in 1..entries'
        OBVIOUS
      <4>1. y \notin Observations /\ (y \in Known \/ y = x)
        BY <3>7 DEF KnownEntries, Known
      <4>2. y \in Known => y \in 1..entries
        BY <1>1, <4>1 DEF KnownEntries
      <4> QED BY <1>1, <3>4, <3>5, <3>6, <4>1, <4>2
    <3>10. \A y \in Known' : y \in Targets /\ items'[y] \in Seq(Candidates)
      BY <1>1, <2>1, <3>7, SingleContains DEF Known
    <3>11. StoreTypes'
      BY <2>3, <3>6, <3>9, <3>10 DEF StoreTypes
    <3>12. Grows
      BY <1>2, <3>6, <3>7, <3>8 DEF Grows
    <3>13. Copy(c, candidate[c])'
      <4>1. new.kind = "entry" => new.target \in Nat /\ new.target <= entries'
        BY <1>1, <2>2, <3>4, <3>5
      <4>2. Contains(items'[new.target], c)
        BY <2>2, <3>7, SingleContains
      <4> QED BY <1>1, <2>2, <2>3, <4>1, <4>2 DEF Copy
    <3> QED BY <2>3, <3>11, <3>12, <3>13
  <2>5. CASE ~creates
    <3>1. /\ x \in Known /\ (read.kind = "profile" <=> x \in Observations)
          /\ entries' = entries
      BY <1>4, <2>5 DEF Finds
    <3>2. read.kind # "profile" => x \in 1..entries
      BY <1>1, <3>1 DEF KnownEntries
    <3>3. \/ items' = [y \in Known \ {x} |-> items[y]]
          \/ items' = With(x, Append(items[x], c))
      BY <1>4, <2>5 DEF Merged
    <3> HIDE DEF x
    <3>4. \/ /\ DOMAIN items' = Known \ {x}
             /\ \A y \in Known \ {x} : items'[y] = items[y]
          \/ /\ DOMAIN items' = Known /\ items'[x] = Append(items[x], c)
             /\ \A y \in Known \ {x} : items'[y] = items[y]
      BY <3>1, <3>3 DEF With
    <3>5. \A y \in Known' :
             /\ y \in Known /\ items'[y] \in Seq(Candidates)
             /\ \A e \in Candidates : Contains(items[y], e) => Contains(items'[y], e)
      <4>1. /\ Append(items[x], c) \in Seq(Candidates)
            /\ \A e \in Candidates : Contains(items[x], e) => Contains(Append(items[x], c), e)
        BY <1>1, <3>1, AppendContains
      <4>2. ASSUME NEW y \in Known', y # x
            PROVE  y \in Known /\ items'[y] = items[y]
        BY <3>4, <4>2 DEF Known
      <4>3. ASSUME x \in Known' PROVE items'[x] = Append(items[x], c)
        BY <3>4, <4>3 DEF Known
      <4> QED BY <1>1, <3>1, <4>1, <4>2, <4>3
    <3>6. x \in Known' => Contains(items'[x], c)
      <4>1. x \in Known' => items'[x] = Append(items[x], c)
        BY <3>4 DEF Known
      <4>2. Contains(Append(items[x], c), c)
        BY <1>1, <3>1, AppendContains
      <4> QED BY <4>1, <4>2
    <3>7. StoreTypes'
      BY <1>1, <2>3, <3>1, <3>5 DEF StoreTypes, KnownEntries
    <3>8. Grows
      BY <1>1, <1>2, <3>1, <3>5 DEF Grows, Known
    <3>9. Copy(c, candidate[c])'
      BY <1>1, <2>2, <2>3, <3>1, <3>2, <3>6 DEF Copy, CandidateRecords
    <3> QED BY <2>3, <3>7, <3>8, <3>9
  <2> QED BY <2>4, <2>5
<1> QED BY <1>3, <1>4 DEF Transaction

-----------------------------------------------------------------------------
(* Every step keeps the invariant *)

LEMMA StillStored ==
    ASSUME StoreTypes, UNCHANGED <<plan, candidate, items, entries>>,
           observation' \in [Observations -> {"absent", "pending", "processed"}]
    PROVE  StoreTypes'
BY DEF StoreTypes, Known, KnownEntries

LEMMA StillGrown ==
    ASSUME StoreTypes, UNCHANGED <<items, entries>>,
           \A b \in Bounds : spent'[b] >= spent[b]
    PROVE  Grows
BY DEF StoreTypes, Grows, Known

LEMMA Unspent == ASSUME ActorTypes, spent' = spent PROVE \A b \in Bounds : spent'[b] >= spent[b]
BY DEF ActorTypes

\* A curator moves, and what it does to candidates is seen to.
LEMMA CuratorMoves ==
    ASSUME MemoryInv, StoreTypes', ActorTypes', Grows, NEW p \in Curators, CuratorAt(p)',
           \A a \in Actors \ {p} : pc'[a] = pc[a] /\ at'[a] = at[a] /\ seen'[a] = seen[a],
           \A o \in Observations : lock[o] \in Curators \ {p} => lock'[o] = lock[o],
           \A c \in Candidates : \/ candidate'[c] = candidate[c]
                                 \/ (candidate[c] # None => Copy(c, candidate[c]))'
    PROVE  MemoryInv'
<1>1. \A q \in Curators \ {p} : pc[q] # "idle" => lock'[at[q].on] = lock[at[q].on]
  <2> SUFFICES ASSUME NEW q \in Curators \ {p}, pc[q] # "idle"
               PROVE  lock'[at[q].on] = lock[at[q].on]
    OBVIOUS
  <2>1. at[q].on \in Observations /\ lock[at[q].on] = q
    BY DEF MemoryInv, CuratorAt
  <2> QED BY <2>1
<1>2. \A r \in Reviewers : r \in Actors \ {p}
    BY ActorsAssumption DEF Actors
<1>3. {p} \in SUBSET Actors /\ Reviewers \cap {p} = {} /\ Curators \cap {p} = {p}
    BY <1>2 DEF Actors
<1> QED BY <1>1, <1>3, OthersKept

\* A user moves.
LEMMA ReviewerMoves ==
    ASSUME MemoryInv, StoreTypes', ActorTypes', Grows, NEW r \in Reviewers, ReviewerAt(r)',
           \A a \in Actors \ {r} : pc'[a] = pc[a] /\ at'[a] = at[a] /\ seen'[a] = seen[a],
           lock' = lock,
           \A c \in Candidates : \/ candidate'[c] = candidate[c]
                                 \/ (candidate[c] # None => Copy(c, candidate[c]))'
    PROVE  MemoryInv'
<1>1. {r} \in SUBSET Actors /\ Reviewers \cap {r} = {r} /\ Curators \cap {r} = {}
    BY ActorsAssumption DEF Actors
<1> QED BY <1>1, OthersKept

\* Nobody moves.
LEMMA NobodyMoves ==
    ASSUME MemoryInv, StoreTypes', Grows, UNCHANGED <<lock, pc, at, seen>>,
           listed' \in [Curators -> SUBSET Observations], spent' \in [Bounds -> Nat],
           \A c \in Candidates : \/ candidate'[c] = candidate[c]
                                 \/ (candidate[c] # None => Copy(c, candidate[c]))'
    PROVE  MemoryInv'
<1>1. ActorTypes'
    BY DEF MemoryInv, ActorTypes
<1>2. {} \in SUBSET Actors
    OBVIOUS
<1> QED BY <1>1, <1>2, OthersKept

LEMMA AtRestTyped == AtRest \in Places
BY DEF AtRest, Places

LEMMA LeaveKeeps ==
    ASSUME MemoryInv, NEW p \in Curators, pc[p] # "idle", Leave(p), listed' = listed, seen' = seen,
           candidate' = candidate, StoreTypes', Grows, spent' \in [Bounds -> Nat]
    PROVE  MemoryInv'
<1>1. at[p].on \in Observations /\ lock[at[p].on] = p /\ p \in Actors /\ ActorTypes
    BY DEF MemoryInv, CuratorAt, Actors
<1>2. /\ lock' = [lock EXCEPT ![at[p].on] = None] /\ at' = [at EXCEPT ![p] = AtRest]
      /\ pc' = [pc EXCEPT ![p] = "idle"]
    BY DEF Leave, Goto
<1>3. ActorTypes'
    BY <1>1, <1>2, AtRestTyped DEF ActorTypes, CuratorSteps
<1>4. CuratorAt(p)'
    BY <1>1, <1>2 DEF CuratorAt, ActorTypes, CuratorSteps, AtRest, Decided
<1>5. \A o \in Observations : lock[o] \in Curators \ {p} => lock'[o] = lock[o]
    BY <1>1, <1>2 DEF ActorTypes
<1>6. \A a \in Actors \ {p} : pc'[a] = pc[a] /\ at'[a] = at[a] /\ seen'[a] = seen[a]
    BY <1>1, <1>2 DEF ActorTypes
<1> QED BY <1>3, <1>4, <1>5, <1>6, CuratorMoves

\* A curator goes on to its next action.
LEMMA NextActionKeeps ==
    ASSUME MemoryInv, NEW p \in Curators, pc[p] \in Decided, NextAction(p),
           lock' = lock, listed' = listed,
           seen' = seen \/ seen' = [seen EXCEPT ![p] = None],
           StoreTypes', Grows, spent' \in [Bounds -> Nat],
           \A c \in Candidates : \/ candidate'[c] = candidate[c]
                                 \/ (candidate[c] # None => Copy(c, candidate[c]))'
    PROVE  MemoryInv'
<1>1. /\ at[p].on \in Observations /\ lock[at[p].on] = p /\ p \in Actors /\ ActorTypes
      /\ at[p].plan \in Plans /\ Len(at[p].plan.actions) <= MaxActions /\ at[p] \in Places
    BY DEF MemoryInv, CuratorAt, Actors, ActorTypes, Decided
<1>2. pc' = [pc EXCEPT ![p] = "act"] /\ at' = [at EXCEPT ![p].k = @ + 1]
    BY DEF NextAction, Goto
<1>3. /\ at'[p] \in Places /\ at'[p].on = at[p].on /\ at'[p].plan = at[p].plan
      /\ pc'[p] = "act"
  <2>1. at'[p] = [at[p] EXCEPT !.k = @ + 1] /\ pc'[p] = "act"
    BY <1>1, <1>2 DEF ActorTypes
  <2>2. at[p].k + 1 \in Nat \ {0}
    BY <1>1 DEF Places
  <2> QED BY <1>1, <2>1, <2>2 DEF Places
<1>4. \A a \in Actors \ {p} : pc'[a] = pc[a] /\ at'[a] = at[a] /\ seen'[a] = seen[a]
    BY <1>1, <1>2 DEF ActorTypes
<1>5. ActorTypes'
  <2>1. at' \in [Actors -> Places]
    BY <1>1, <1>2, <1>3 DEF ActorTypes
  <2>2. seen' \in [Actors -> CandidateRecords \cup Seq(Candidates) \cup {None}]
    BY <1>1 DEF ActorTypes
  <2>3. pc' \in [Actors -> CuratorSteps \cup ReviewerSteps]
    BY <1>1, <1>2 DEF ActorTypes, CuratorSteps, Decided
  <2> QED BY <1>1, <2>1, <2>2, <2>3 DEF ActorTypes
<1>6. CuratorAt(p)'
    BY <1>1, <1>3 DEF CuratorAt, CuratorSteps, Decided
<1> QED BY <1>4, <1>5, <1>6, CuratorMoves

\* A curator goes to another step of its action.
LEMMA GotoKeeps ==
    ASSUME MemoryInv, NEW p \in Curators, pc[p] \in Decided, NEW step \in Decided, Goto(p, step),
           lock' = lock, listed' = listed, at' = at,
           NEW copy \in CandidateRecords \cup {None},
           seen' = seen \/ seen' = [seen EXCEPT ![p] = copy],
           step \in {"accept", "commit"} => HasAction(p),
           step = "commit" => /\ seen' = [seen EXCEPT ![p] = copy]
                              /\ Copy(TheCandidate(p), copy)' /\ copy.state = "pending",
           StoreTypes', Grows, spent' \in [Bounds -> Nat],
           \A c \in Candidates : \/ candidate'[c] = candidate[c]
                                 \/ (candidate[c] # None => Copy(c, candidate[c]))'
    PROVE  MemoryInv'
<1>1. /\ at[p].on \in Observations /\ lock[at[p].on] = p /\ p \in Actors /\ ActorTypes
      /\ at[p].plan \in Plans /\ Len(at[p].plan.actions) <= MaxActions
    BY DEF MemoryInv, CuratorAt, Actors, Decided
<1>2. pc' = [pc EXCEPT ![p] = step]
    BY DEF Goto
<1>3. pc'[p] = step /\ (step = "commit" => seen'[p] = copy)
    BY <1>1, <1>2 DEF ActorTypes
<1>4. \A a \in Actors \ {p} : pc'[a] = pc[a] /\ at'[a] = at[a] /\ seen'[a] = seen[a]
    BY <1>1, <1>2 DEF ActorTypes
<1>5. ActorTypes'
  <2>1. seen' \in [Actors -> CandidateRecords \cup Seq(Candidates) \cup {None}]
    BY <1>1 DEF ActorTypes
  <2>2. pc' \in [Actors -> CuratorSteps \cup ReviewerSteps]
    BY <1>1, <1>2 DEF ActorTypes, CuratorSteps
  <2> QED BY <1>1, <2>1, <2>2 DEF ActorTypes
<1>6. HasAction(p)' <=> HasAction(p)
    BY DEF HasAction
<1>7. CuratorAt(p)'
    BY <1>1, <1>3, <1>6 DEF CuratorAt, CuratorSteps, Decided, TheCandidate, Copy
<1> QED BY <1>4, <1>5, <1>7, CuratorMoves

\* What the proofs of the steps begin with.
LEMMA Apart ==
    ASSUME MemoryInv
    PROVE  /\ StoreTypes /\ ActorTypes
           /\ \A p \in Curators : CuratorAt(p) /\ p \in Actors /\ p \notin Reviewers
           /\ \A r \in Reviewers : ReviewerAt(r) /\ r \in Actors /\ r \notin Curators
BY ActorsAssumption DEF MemoryInv, Actors

LEMMA ObserveKeeps == ASSUME MemoryInv, NEW o \in Observations, Observe(o) PROVE MemoryInv'
<1>1. /\ StoreTypes /\ ActorTypes /\ UNCHANGED <<plan, candidate, items, entries, actors, spent>>
      /\ observation' \in [Observations -> {"absent", "pending", "processed"}]
    BY DEF MemoryInv, Observe, StoreTypes
<1>2. StoreTypes' /\ Grows
    BY <1>1, StillStored, StillGrown, Unspent
<1> QED BY <1>1, <1>2, NobodyMoves DEF ActorTypes, actors

LEMMA ListKeeps == ASSUME MemoryInv, NEW p \in Curators, List(p) PROVE MemoryInv'
<1>1. /\ StoreTypes /\ ActorTypes /\ UNCHANGED <<memory, lock, pc, at, seen, spent>>
      /\ listed' \in [Curators -> SUBSET Observations]
    BY DEF MemoryInv, ActorTypes, List, Pending
<1>2. StoreTypes' /\ Grows
    BY <1>1, StillStored, StillGrown, Unspent DEF memory, StoreTypes
<1> QED BY <1>1, <1>2, NobodyMoves DEF ActorTypes, memory

LEMMA RunOnceKeeps ==
    ASSUME MemoryInv, NEW p \in Curators, NEW o \in Observations, RunOnce(p, o)
    PROVE  MemoryInv'
<1>1. /\ StoreTypes /\ ActorTypes /\ CuratorAt(p) /\ p \in Actors
      /\ UNCHANGED <<memory, seen, spent>> /\ pc[p] = "idle"
      /\ listed' = [listed EXCEPT ![p] = @ \ {o}]
    BY Apart DEF RunOnce
<1>2. StoreTypes' /\ Grows
    BY <1>1, StillStored, StillGrown, Unspent DEF memory, StoreTypes
<1>3. listed' \in [Curators -> SUBSET Observations]
    BY <1>1 DEF ActorTypes
<1>4. CASE UNCHANGED <<lock, at, pc>>
    BY <1>1, <1>2, <1>3, <1>4, NobodyMoves DEF ActorTypes, memory
<1>5. CASE /\ LockFree(o) /\ lock' = [lock EXCEPT ![o] = p] /\ at' = [at EXCEPT ![p].on = o]
           /\ Goto(p, "read")
  <2>1. /\ at'[p] \in Places /\ at'[p].on = o /\ at'[p].k = at[p].k /\ at'[p].plan = at[p].plan
        /\ pc'[p] = "read" /\ at[p].k = 1
    BY <1>1, <1>5 DEF ActorTypes, Places, Goto, CuratorAt
  <2>2. \A a \in Actors \ {p} : pc'[a] = pc[a] /\ at'[a] = at[a] /\ seen'[a] = seen[a]
    BY <1>1, <1>5 DEF ActorTypes, Goto
  <2>3. lock'[o] = p /\ \A x \in Observations : lock[x] \in Curators \ {p} => lock'[x] = lock[x]
    BY <1>1, <1>5, ActorsAssumption DEF ActorTypes, LockFree, Actors
  <2>4. ActorTypes'
    <3>1. at' \in [Actors -> Places]
      BY <1>1, <1>5, <2>1 DEF ActorTypes
    <3>2. pc' \in [Actors -> CuratorSteps \cup ReviewerSteps]
      BY <1>1, <1>5 DEF ActorTypes, Goto, CuratorSteps
    <3> QED BY <1>1, <1>3, <1>5, <3>1, <3>2 DEF ActorTypes
  <2>5. CuratorAt(p)'
    BY <2>1, <2>3 DEF CuratorAt, CuratorSteps, Decided
  <2> QED BY <1>1, <1>2, <2>2, <2>3, <2>4, <2>5, CuratorMoves DEF memory
<1> QED BY <1>4, <1>5 DEF RunOnce

LEMMA ReadKeeps == ASSUME MemoryInv, NEW p \in Curators, Read(p) PROVE MemoryInv'
<1>1. /\ StoreTypes /\ ActorTypes /\ CuratorAt(p) /\ p \in Actors
      /\ UNCHANGED <<memory, listed, seen, spent>> /\ pc[p] = "read"
    BY Apart DEF Read
<1>2. StoreTypes' /\ Grows
    BY <1>1, StillStored, StillGrown, Unspent DEF memory, StoreTypes
<1>3. CASE Leave(p)
    BY <1>1, <1>2, <1>3, LeaveKeeps DEF ActorTypes, memory
<1>4. CASE /\ Goto(p, IF plan[at[p].on] = None THEN "decide" ELSE "act")
           /\ at' = [at EXCEPT ![p].plan = plan[at[p].on]]
           /\ UNCHANGED lock
  <2> DEFINE step == IF plan[at[p].on] = None THEN "decide" ELSE "act"
  <2>1. at[p].on \in Observations /\ lock[at[p].on] = p /\ at[p] \in Places
        /\ plan[at[p].on] \in Plans \cup {None} /\ at[p].k = 1
    BY <1>1 DEF CuratorAt, ActorTypes, StoreTypes
  <2>2. /\ at'[p] \in Places /\ at'[p].on = at[p].on /\ at'[p].k = 1
        /\ at'[p].plan = plan[at[p].on] /\ pc'[p] = step
    BY <1>1, <1>4, <2>1 DEF ActorTypes, Places, Goto
  <2>3. \A a \in Actors \ {p} : pc'[a] = pc[a] /\ at'[a] = at[a] /\ seen'[a] = seen[a]
    BY <1>1, <1>4 DEF ActorTypes, Goto
  <2>4. ActorTypes'
    <3>1. at' \in [Actors -> Places]
      BY <1>1, <1>4, <2>2 DEF ActorTypes
    <3>2. pc' \in [Actors -> CuratorSteps \cup ReviewerSteps]
      BY <1>1, <1>4 DEF ActorTypes, Goto, CuratorSteps, Decided
    <3> QED BY <1>1, <1>4, <3>1, <3>2 DEF ActorTypes
  <2>5. step = "act" => plan[at[p].on] \in Plans /\ Len(plan[at[p].on].actions) <= MaxActions
    BY <1>1, <2>1 DEF StoreTypes
  <2>6. CuratorAt(p)'
    BY <1>4, <2>1, <2>2, <2>5 DEF CuratorAt, CuratorSteps, Decided
  <2> QED BY <1>1, <1>2, <1>4, <2>3, <2>4, <2>6, CuratorMoves DEF memory
<1> QED BY <1>3, <1>4 DEF Read

LEMMA PassOverKeeps == ASSUME MemoryInv, NEW p \in Curators, PassOver(p) PROVE MemoryInv'
<1>1. /\ StoreTypes /\ ActorTypes /\ pc[p] = "decide" /\ Leave(p)
      /\ UNCHANGED <<plan, candidate, items, entries, listed, seen, spent>>
      /\ observation' \in [Observations -> {"absent", "pending", "processed"}]
    BY Apart DEF PassOver, StoreTypes
<1>2. StoreTypes' /\ Grows
    BY <1>1, StillStored, StillGrown, Unspent
<1> QED BY <1>1, <1>2, LeaveKeeps DEF ActorTypes

LEMMA DeferKeeps == ASSUME MemoryInv, NEW p \in Curators, Defer(p) PROVE MemoryInv'
<1>1. /\ StoreTypes /\ ActorTypes /\ pc[p] = "decide" /\ Leave(p) /\ Spend("deferrals")
      /\ UNCHANGED <<memory, listed, seen>>
    BY Apart DEF Defer
<1>2. spent' \in [Bounds -> Nat] /\ \A b \in Bounds : spent'[b] >= spent[b]
    BY <1>1, SpendFacts DEF Bounds
<1>3. StoreTypes' /\ Grows
    BY <1>1, <1>2, StillStored, StillGrown DEF memory, StoreTypes
<1> QED BY <1>1, <1>2, <1>3, LeaveKeeps DEF memory

LEMMA BatchesTyped ==
    ASSUME StoreTypes, NEW actions \in Batches
    PROVE  actions \in Seq(Actions) /\ Len(actions) <= MaxActions
<1>1. PICK n \in 1..MaxActions :
         actions \in [1..n -> [action : {"create"}, kind : Kinds, target : {None}]
                                \cup [action : {"update"}, kind : {"entry"}, target : KnownEntries]
                                \cup [action : {"ignore"}, kind : {"entry"}, target : {None}]]
    BY DEF Batches
<1>2. n \in Nat /\ n <= MaxActions
    BY BoundsAssumption
<1>3. KnownEntries \subseteq Nat
    BY DEF StoreTypes
<1>4. actions \in [1..n -> Actions]
    BY <1>1, <1>3 DEF Actions
<1> QED BY <1>2, <1>4

LEMMA DecideKeeps ==
    ASSUME MemoryInv, NEW p \in Curators, NEW actions \in Batches, Decide(p, actions)
    PROVE  MemoryInv'
<1> DEFINE made == [id |-> spent'.decisions, actions |-> actions]
<1>1. /\ StoreTypes /\ ActorTypes /\ CuratorAt(p) /\ p \in Actors /\ pc[p] = "decide"
      /\ Spend("decisions") /\ plan' = [plan EXCEPT ![at[p].on] = made]
      /\ at' = [at EXCEPT ![p].plan = plan'[at[p].on]] /\ Goto(p, "act")
      /\ UNCHANGED <<observation, candidate, items, entries, lock, listed, seen>>
    BY Apart DEF Decide
<1>2. /\ spent' \in [Bounds -> Nat] /\ \A b \in Bounds : spent'[b] >= spent[b]
      /\ spent'.decisions = spent.decisions + 1 /\ spent.decisions < MaxDecisions
  <2>1. "decisions" \in Bounds /\ Limit["decisions"] = MaxDecisions
    BY DEF Bounds, Limit
  <2> QED BY <1>1, <2>1, SpendFacts
<1>3. made \in Plans /\ Len(made.actions) <= MaxActions
  <2>1. spent.decisions \in Nat
    BY <1>1 DEF ActorTypes, Bounds
  <2>2. spent'.decisions \in 1..MaxDecisions
    BY <1>2, <2>1, BoundsAssumption
  <2> QED BY <1>1, <2>2, BatchesTyped DEF Plans
<1> HIDE DEF made
<1>4. at[p].on \in Observations /\ lock[at[p].on] = p /\ at[p] \in Places /\ at[p].k = 1
    BY <1>1 DEF CuratorAt, ActorTypes
<1>5. /\ plan'[at[p].on] = made /\ plan' \in [Observations -> Plans \cup {None}]
      /\ \A o \in Observations : o # at[p].on => plan'[o] = plan[o]
    BY <1>1, <1>3, <1>4 DEF StoreTypes
<1>6. StoreTypes'
    BY <1>1, <1>3, <1>5 DEF StoreTypes, Known, KnownEntries
<1>7. Grows
    BY <1>1, <1>2, StillGrown
<1>8. /\ at'[p] = [at[p] EXCEPT !.plan = made] /\ pc'[p] = "act"
      /\ \A a \in Actors \ {p} : pc'[a] = pc[a] /\ at'[a] = at[a] /\ seen'[a] = seen[a]
    BY <1>1, <1>5 DEF ActorTypes, Goto
<1>9. /\ at'[p] \in Places /\ at'[p].on = at[p].on /\ at'[p].plan = made
    BY <1>3, <1>4, <1>8 DEF Places
<1>10. ActorTypes'
  <2>1. at' \in [Actors -> Places]
    BY <1>1, <1>9 DEF ActorTypes
  <2>2. pc' \in [Actors -> CuratorSteps \cup ReviewerSteps]
    BY <1>1 DEF ActorTypes, Goto, CuratorSteps, Decided
  <2> QED BY <1>1, <1>2, <2>1, <2>2 DEF ActorTypes
<1>11. CuratorAt(p)'
    BY <1>1, <1>3, <1>4, <1>8, <1>9 DEF CuratorAt, CuratorSteps, Decided
<1> QED BY <1>1, <1>6, <1>7, <1>8, <1>10, <1>11, CuratorMoves

LEMMA IgnoreKeeps == ASSUME MemoryInv, NEW p \in Curators, Ignore(p) PROVE MemoryInv'
<1>1. /\ StoreTypes /\ ActorTypes /\ pc[p] \in Decided /\ NextAction(p)
      /\ UNCHANGED <<memory, lock, listed, seen, spent>>
    BY Apart DEF Ignore, Decided
<1>2. StoreTypes' /\ Grows
    BY <1>1, StillStored, StillGrown, Unspent DEF memory, StoreTypes
<1> QED BY <1>1, <1>2, NextActionKeeps DEF ActorTypes, memory

LEMMA FindStagedKeeps == ASSUME MemoryInv, NEW p \in Curators, FindStaged(p) PROVE MemoryInv'
<1>1. /\ StoreTypes /\ ActorTypes /\ pc[p] \in Decided /\ HasAction(p)
      /\ UNCHANGED <<memory, lock, listed, seen, spent>>
    BY Apart DEF FindStaged, Decided
<1>2. StoreTypes' /\ Grows
    BY <1>1, StillStored, StillGrown, Unspent DEF memory, StoreTypes
<1>3. CASE NextAction(p)
    BY <1>1, <1>2, <1>3, NextActionKeeps DEF ActorTypes, memory
<1>4. CASE Goto(p, "accept") /\ UNCHANGED at
  <2>1. "accept" \in Decided
    BY DEF Decided
  <2> QED BY <1>1, <1>2, <1>4, <2>1, GotoKeeps DEF ActorTypes, memory
<1> QED BY <1>3, <1>4 DEF FindStaged

LEMMA StageKeeps ==
    ASSUME MemoryInv, NEW p \in Curators, NEW action \in {"create", "update"},
           NEW kind \in Kinds \cup {"entry"}, NEW target \in KnownEntries \cup {None},
           Stage(p, action, kind, target)
    PROVE  MemoryInv'
<1> DEFINE staged == [action |-> action, kind |-> kind, target |-> target,
                     plan |-> at[p].plan.id, state |-> "pending"]
<1>14. PICK c : c = TheCandidate(p)
    OBVIOUS
<1>1. /\ StoreTypes /\ ActorTypes /\ CuratorAt(p) /\ pc[p] \in Decided /\ HasAction(p)
      /\ candidate' = [candidate EXCEPT ![c] = staged]
      /\ UNCHANGED <<observation, plan, items, entries, lock, listed, seen, spent>>
    BY <1>14, Apart DEF Stage, Decided
<1>2. c \in Candidates /\ c \notin Proposals
    BY <1>14, <1>1, CandidateAt
<1>3. staged \in CandidateRecords
  <2>1. kind \in {"entry", "profile"} /\ target \in Targets \cup {None}
    BY <1>1, SettingsAssumption DEF StoreTypes, Targets
  <2>2. at[p].plan.id \in 0..MaxDecisions
    BY <1>1, BoundsAssumption DEF CuratorAt, Plans
  <2> QED BY <2>1, <2>2 DEF CandidateRecords
<1>4. staged.target \in Nat => staged.target <= entries
    BY <1>1, IdentityAssumption DEF StoreTypes
<1>5. /\ candidate' \in [Candidates -> CandidateRecords \cup {None}] /\ candidate'[c] = staged
      /\ \A e \in Candidates \ {c} : candidate'[e] = candidate[e]
  <2> HIDE DEF staged
  <2> QED BY <1>1, <1>2, <1>3 DEF StoreTypes
<1>6. Copy(c, candidate[c])'
    BY <1>1, <1>2, <1>3, <1>4, <1>5 DEF Copy
<1>7. StoreTypes'
    BY <1>1, <1>5 DEF StoreTypes, Known, KnownEntries
<1>8. Grows
    BY <1>1, StillGrown, Unspent
<1>9. \A e \in Candidates : \/ candidate'[e] = candidate[e]
                            \/ (candidate[e] # None => Copy(e, candidate[e]))'
    BY <1>5, <1>6
<1>10. CASE NextAction(p)
    BY <1>1, <1>7, <1>8, <1>9, <1>10, NextActionKeeps DEF ActorTypes
<1>11. CASE Goto(p, "accept") /\ UNCHANGED at
  <2>1. "accept" \in Decided
    BY DEF Decided
  <2> QED BY <1>1, <1>7, <1>8, <1>9, <1>11, <2>1, GotoKeeps DEF ActorTypes
<1> QED BY <1>10, <1>11 DEF Stage

LEMMA AcceptReadsKeeps == ASSUME MemoryInv, NEW p \in Curators, AcceptReads(p) PROVE MemoryInv'
<1> DEFINE c == TheCandidate(p)
<1>1. /\ StoreTypes /\ ActorTypes /\ CuratorAt(p) /\ pc[p] \in Decided /\ HasAction(p)
      /\ UNCHANGED <<memory, lock, listed, spent>>
    BY Apart DEF AcceptReads, Decided, CuratorAt
<1>2. c \in Candidates
    BY <1>1, CandidateAt
<1>3. StoreTypes' /\ Grows
    BY <1>1, StillStored, StillGrown, Unspent DEF memory, StoreTypes
<1>4. CASE NextAction(p) /\ UNCHANGED seen
    BY <1>1, <1>3, <1>4, NextActionKeeps DEF ActorTypes, memory
<1>5. CASE /\ candidate[c] # None /\ candidate[c].state = "pending"
           /\ seen' = [seen EXCEPT ![p] = candidate[c]] /\ Goto(p, "commit") /\ UNCHANGED at
  <2>1. "commit" \in Decided
    BY DEF Decided
  <2>2. Copy(c, candidate[c]) /\ candidate[c] \in CandidateRecords
    BY <1>2, <1>5 DEF MemoryInv, Copy
  <2>3. PICK copy \in CandidateRecords \cup {None} : copy = candidate[c]
    BY <2>2
  <2>4. Copy(c, copy)'
    BY <1>1, <1>5, <2>2, <2>3 DEF Copy, Known, memory, TheCandidate
  <2>5. Copy(TheCandidate(p), copy)'
    BY <2>4
  <2> QED BY <1>1, <1>3, <1>5, <2>1, <2>3, <2>5, GotoKeeps DEF ActorTypes, memory
<1> QED BY <1>4, <1>5 DEF AcceptReads

LEMMA AcceptCommitsKeeps == ASSUME MemoryInv, NEW p \in Curators, AcceptCommits(p) PROVE MemoryInv'
<1>1. /\ StoreTypes /\ ActorTypes /\ CuratorAt(p) /\ pc[p] \in Decided /\ HasAction(p)
      /\ pc[p] = "commit" /\ Transaction(TheCandidate(p), seen[p], None) /\ NextAction(p)
      /\ seen' = [seen EXCEPT ![p] = None]
      /\ UNCHANGED <<observation, plan, lock, listed, spent>>
    BY Apart DEF AcceptCommits, Decided, CuratorAt
<1>2. PICK c, read : c = TheCandidate(p) /\ read = seen[p]
    OBVIOUS
<1>3. c \in Candidates /\ Copy(c, read) /\ Transaction(c, read, None)
    BY <1>1, <1>2, CandidateAt DEF CuratorAt
<1>4. /\ StoreTypes' /\ Grows
      /\ \A e \in Candidates \ {c} : candidate'[e] = candidate[e]
      /\ candidate'[c] = candidate[c] \/ Copy(c, candidate[c])'
    BY <1>1, <1>3, TransactionFacts
<1>5. \A e \in Candidates : \/ candidate'[e] = candidate[e]
                            \/ (candidate[e] # None => Copy(e, candidate[e]))'
    BY <1>4
<1> QED BY <1>1, <1>4, <1>5, NextActionKeeps DEF ActorTypes

LEMMA AcceptRaisesKeeps == ASSUME MemoryInv, NEW p \in Curators, AcceptRaises(p) PROVE MemoryInv'
<1>1. /\ StoreTypes /\ ActorTypes /\ pc[p] \in Decided /\ Spend("refusals") /\ NextAction(p)
      /\ seen' = [seen EXCEPT ![p] = None] /\ UNCHANGED <<memory, lock, listed>>
    BY Apart DEF AcceptRaises, Decided
<1>2. spent' \in [Bounds -> Nat] /\ \A b \in Bounds : spent'[b] >= spent[b]
    BY <1>1, SpendFacts DEF Bounds
<1>3. StoreTypes' /\ Grows
    BY <1>1, <1>2, StillStored, StillGrown DEF memory, StoreTypes
<1> QED BY <1>1, <1>2, <1>3, NextActionKeeps DEF memory

LEMMA MarkProcessedKeeps == ASSUME MemoryInv, NEW p \in Curators, MarkProcessed(p) PROVE MemoryInv'
<1>1. /\ StoreTypes /\ ActorTypes /\ pc[p] \in Decided /\ Goto(p, "complete")
      /\ UNCHANGED <<plan, candidate, items, entries, lock, listed, at, seen, spent>>
      /\ observation' \in [Observations -> {"absent", "pending", "processed"}]
    BY Apart DEF MarkProcessed, Decided, StoreTypes
<1>2. StoreTypes' /\ Grows
    BY <1>1, StillStored, StillGrown, Unspent
<1>3. "complete" \in Decided
    BY DEF Decided
<1> QED BY <1>1, <1>2, <1>3, GotoKeeps DEF ActorTypes

LEMMA CompletePlanKeeps == ASSUME MemoryInv, NEW p \in Curators, CompletePlan(p) PROVE MemoryInv'
<1>1. /\ StoreTypes /\ ActorTypes /\ CuratorAt(p) /\ pc[p] = "complete" /\ Leave(p)
      /\ plan' = [plan EXCEPT ![at[p].on] = None]
      /\ UNCHANGED <<observation, candidate, items, entries, listed, seen, spent>>
    BY Apart DEF CompletePlan
<1>2. StoreTypes'
    BY <1>1 DEF StoreTypes, Known, KnownEntries
<1>3. Grows
    BY <1>1, StillGrown, Unspent
<1> QED BY <1>1, <1>2, <1>3, LeaveKeeps DEF ActorTypes

LEMMA CrashCuratorKeeps == ASSUME MemoryInv, NEW p \in Curators, CrashCurator(p) PROVE MemoryInv'
<1>1. /\ StoreTypes /\ ActorTypes /\ CuratorAt(p) /\ p \in Actors /\ Spend("crashes")
      /\ lock' = [o \in Observations |-> IF lock[o] = p THEN None ELSE lock[o]]
      /\ listed' = [listed EXCEPT ![p] = {}] /\ at' = [at EXCEPT ![p] = AtRest]
      /\ seen' = [seen EXCEPT ![p] = None] /\ Goto(p, "idle") /\ UNCHANGED memory
    BY Apart DEF CrashCurator
<1>2. spent' \in [Bounds -> Nat] /\ \A b \in Bounds : spent'[b] >= spent[b]
    BY <1>1, SpendFacts DEF Bounds
<1>3. StoreTypes' /\ Grows
    BY <1>1, <1>2, StillStored, StillGrown DEF memory, StoreTypes
<1>4. at'[p] = AtRest /\ pc'[p] = "idle"
    BY <1>1 DEF ActorTypes, Goto
<1>5. ActorTypes'
    BY <1>1, <1>2, AtRestTyped DEF ActorTypes, Goto, CuratorSteps
<1>6. CuratorAt(p)'
    BY <1>4 DEF CuratorAt, CuratorSteps, AtRest, Decided
<1>7. \A a \in Actors \ {p} : pc'[a] = pc[a] /\ at'[a] = at[a] /\ seen'[a] = seen[a]
    BY <1>1 DEF ActorTypes, Goto
<1>8. \A o \in Observations : lock[o] \in Curators \ {p} => lock'[o] = lock[o]
    BY <1>1
<1> QED BY <1>1, <1>3, <1>5, <1>6, <1>7, <1>8, CuratorMoves DEF memory

LEMMA DiscardKeeps == ASSUME MemoryInv, NEW o \in Observations, Discard(o) PROVE MemoryInv'
<1>1. /\ StoreTypes /\ ActorTypes /\ Spend("discards") /\ plan' = [plan EXCEPT ![o] = None]
      /\ UNCHANGED <<observation, candidate, items, entries, actors>>
    BY Apart DEF Discard
<1>2. spent' \in [Bounds -> Nat] /\ \A b \in Bounds : spent'[b] >= spent[b]
    BY <1>1, SpendFacts DEF Bounds
<1>3. StoreTypes'
    BY <1>1 DEF StoreTypes, Known, KnownEntries
<1>4. Grows
    BY <1>1, <1>2, StillGrown
<1> QED BY <1>1, <1>2, <1>3, <1>4, NobodyMoves DEF actors, ActorTypes

LEMMA ReviewReadsKeeps ==
    ASSUME MemoryInv, NEW r \in Reviewers, NEW c \in Candidates, NEW step \in Reviewing,
           NEW target \in Known \cup {None}, ReviewReads(r, c, step, target)
    PROVE  MemoryInv'
<1>1. /\ StoreTypes /\ ActorTypes /\ ReviewerAt(r) /\ r \in Actors /\ Spend("reviews")
      /\ candidate[c] # None /\ (step = "commit" => candidate[c].state = "pending")
      /\ seen' = [seen EXCEPT ![r] = candidate[c]]
      /\ at' = [at EXCEPT ![r].on = c, ![r].target = target] /\ Goto(r, step)
      /\ UNCHANGED <<memory, lock, listed>>
    BY Apart DEF ReviewReads
<1>2. /\ spent' \in [Bounds -> Nat] /\ spent'.reviews > 0
      /\ \A b \in Bounds : spent'[b] >= spent[b]
  <2>1. "reviews" \in Bounds
    BY DEF Bounds
  <2> QED BY <1>1, <2>1, SpendFacts DEF ActorTypes
<1>3. StoreTypes' /\ Grows
    BY <1>1, <1>2, StillStored, StillGrown DEF memory, StoreTypes
<1>4. PICK d : d = candidate[c]
    OBVIOUS
<1>5. Copy(c, d) /\ d \in CandidateRecords
    BY <1>1, <1>4 DEF MemoryInv, Copy
<1>6. /\ at'[r] \in Places /\ at'[r].on = c /\ pc'[r] = step /\ seen'[r] = d
  <2>1. at[r] \in Places /\ target \in Targets \cup {None}
    BY <1>1 DEF ActorTypes, StoreTypes
  <2>2. at'[r] = [at[r] EXCEPT !.on = c, !.target = target] /\ pc'[r] = step /\ seen'[r] = d
    BY <1>1, <1>4 DEF ActorTypes, Goto
  <2> QED BY <2>1, <2>2 DEF Places
<1>7. ActorTypes'
  <2>1. at' \in [Actors -> Places]
    BY <1>1, <1>6 DEF ActorTypes
  <2>2. seen' \in [Actors -> CandidateRecords \cup Seq(Candidates) \cup {None}]
    BY <1>1, <1>4, <1>5 DEF ActorTypes
  <2>3. pc' \in [Actors -> CuratorSteps \cup ReviewerSteps]
    BY <1>1 DEF ActorTypes, Goto, ReviewerSteps
  <2> QED BY <1>1, <1>2, <2>1, <2>2, <2>3 DEF ActorTypes
<1>8. Copy(c, d)'
  <2>1. spent'.edits = 0 => spent.edits = 0
    BY <1>1, <1>2 DEF ActorTypes, Bounds
  <2> QED BY <1>1, <1>5, <2>1 DEF Copy, Known, memory
<1>9. ReviewerAt(r)'
  <2>1. Copy(at[r].on, seen[r])'
    BY <1>6, <1>8 DEF Copy
  <2> QED BY <1>1, <1>2, <1>4, <1>6, <2>1 DEF ReviewerAt, ReviewerSteps, Reviewing
<1>10. \A a \in Actors \ {r} : pc'[a] = pc[a] /\ at'[a] = at[a] /\ seen'[a] = seen[a]
    BY <1>1 DEF ActorTypes, Goto
<1> QED BY <1>1, <1>3, <1>7, <1>9, <1>10, ReviewerMoves DEF memory

LEMMA RestsKeeps ==
    ASSUME MemoryInv, NEW r \in Reviewers, Rests(r), UNCHANGED <<lock, listed>>,
           StoreTypes', Grows, spent' \in [Bounds -> Nat],
           \A c \in Candidates : \/ candidate'[c] = candidate[c]
                                 \/ (candidate[c] # None => Copy(c, candidate[c]))'
    PROVE  MemoryInv'
<1>1. /\ ActorTypes /\ r \in Actors /\ at' = [at EXCEPT ![r] = AtRest]
      /\ seen' = [seen EXCEPT ![r] = None] /\ pc' = [pc EXCEPT ![r] = "idle"]
    BY Apart DEF Rests, Goto
<1>2. ActorTypes'
    BY <1>1, AtRestTyped DEF ActorTypes, CuratorSteps
<1>3. ReviewerAt(r)'
    BY <1>1 DEF ReviewerAt, ReviewerSteps, Reviewing, ActorTypes
<1>4. \A a \in Actors \ {r} : pc'[a] = pc[a] /\ at'[a] = at[a] /\ seen'[a] = seen[a]
    BY <1>1 DEF ActorTypes
<1> QED BY <1>2, <1>3, <1>4, ReviewerMoves

LEMMA ReviewCommitsKeeps ==
    ASSUME MemoryInv, NEW r \in Reviewers, ReviewCommits(r)
    PROVE  MemoryInv'
<1>1. /\ StoreTypes /\ ActorTypes /\ ReviewerAt(r) /\ r \in Actors /\ pc[r] = "commit"
      /\ Transaction(at[r].on, seen[r], at[r].target) /\ Rests(r)
      /\ UNCHANGED <<observation, plan, lock, listed, spent>>
    BY Apart DEF ReviewCommits
<1>2. PICK c, read, target : c = at[r].on /\ read = seen[r] /\ target = at[r].target
    OBVIOUS
<1>3. /\ c \in Candidates /\ Copy(c, read) /\ Transaction(c, read, target)
      /\ target \in Targets \cup {None}
    BY <1>1, <1>2 DEF ReviewerAt, Reviewing, ActorTypes, Places
<1>4. /\ StoreTypes' /\ Grows
      /\ \A e \in Candidates \ {c} : candidate'[e] = candidate[e]
      /\ candidate'[c] = candidate[c] \/ Copy(c, candidate[c])'
    BY <1>1, <1>3, TransactionFacts
<1>5. \A e \in Candidates : \/ candidate'[e] = candidate[e]
                            \/ (candidate[e] # None => Copy(e, candidate[e]))'
    BY <1>4
<1> QED BY <1>1, <1>4, <1>5, RestsKeeps DEF ActorTypes

LEMMA RewritesKeeps == ASSUME MemoryInv, NEW r \in Reviewers, Rewrites(r) PROVE MemoryInv'
<1>1. /\ StoreTypes /\ ActorTypes /\ ReviewerAt(r) /\ pc[r] \in Reviewing /\ Rests(r)
      /\ candidate' = [candidate EXCEPT ![at[r].on] =
            IF pc[r] = "reject" THEN [seen[r] EXCEPT !.state = "rejected"] ELSE seen[r]]
      /\ UNCHANGED <<observation, plan, items, entries, lock, listed, spent>>
    BY Apart DEF Rewrites, Reviewing
<1>2. PICK c, read : c = at[r].on /\ read = seen[r]
    OBVIOUS
<1>3. PICK d : d = IF pc[r] = "reject" THEN [read EXCEPT !.state = "rejected"] ELSE read
    OBVIOUS
<1>4. c \in Candidates /\ Copy(c, read) /\ candidate' = [candidate EXCEPT ![c] = d]
    BY <1>1, <1>2, <1>3 DEF ReviewerAt
<1>5. Copy(c, d)
    BY <1>3, <1>4 DEF Copy, CandidateRecords
<1>6. /\ candidate' \in [Candidates -> CandidateRecords \cup {None}] /\ candidate'[c] = d
      /\ \A e \in Candidates \ {c} : candidate'[e] = candidate[e]
    BY <1>1, <1>4, <1>5 DEF StoreTypes, Copy
<1>7. StoreTypes'
    BY <1>1, <1>6 DEF StoreTypes, Known, KnownEntries
<1>8. Grows
    BY <1>1, StillGrown, Unspent
<1>9. Copy(c, candidate[c])'
    BY <1>1, <1>5, <1>6 DEF Copy, Known
<1> QED BY <1>1, <1>6, <1>7, <1>8, <1>9, RestsKeeps DEF ActorTypes

LEMMA DeleteCandidateKeeps ==
    ASSUME MemoryInv, NEW c \in Candidates, DeleteCandidate(c)
    PROVE  MemoryInv'
<1>1. /\ StoreTypes /\ ActorTypes /\ Spend("reviews") /\ candidate' = [candidate EXCEPT ![c] = None]
      /\ UNCHANGED <<observation, plan, items, entries, actors>>
    BY Apart DEF DeleteCandidate
<1>2. spent' \in [Bounds -> Nat] /\ \A b \in Bounds : spent'[b] >= spent[b]
    BY <1>1, SpendFacts DEF Bounds
<1>3. StoreTypes'
    BY <1>1 DEF StoreTypes, Known, KnownEntries
<1>4. Grows
    BY <1>1, <1>2, StillGrown
<1>5. \A e \in Candidates : candidate'[e] = candidate[e] \/ candidate'[e] = None
    BY <1>1 DEF StoreTypes
<1> QED BY <1>1, <1>2, <1>3, <1>4, <1>5, NobodyMoves DEF actors, ActorTypes

LEMMA DeleteItemKeeps == ASSUME MemoryInv, NEW x \in Known, DeleteItem(x) PROVE MemoryInv'
<1>1. /\ StoreTypes /\ ActorTypes /\ Spend("reviews")
      /\ items' = [y \in Known \ {x} |-> items[y]]
      /\ UNCHANGED <<observation, plan, candidate, entries, actors>>
    BY Apart DEF DeleteItem
<1>2. spent' \in [Bounds -> Nat] /\ \A b \in Bounds : spent'[b] >= spent[b]
    BY <1>1, SpendFacts DEF Bounds
<1>3. DOMAIN items' = Known \ {x} /\ \A y \in Known \ {x} : items'[y] = items[y]
    BY <1>1
<1>4. StoreTypes'
    BY <1>1, <1>3 DEF StoreTypes, Known, KnownEntries
<1>5. Grows
    BY <1>1, <1>2, <1>3 DEF Grows, StoreTypes
<1> QED BY <1>1, <1>2, <1>4, <1>5, NobodyMoves DEF actors, ActorTypes

LEMMA AddEntryKeeps == ASSUME MemoryInv, AddEntry PROVE MemoryInv'
<1>1. /\ StoreTypes /\ ActorTypes /\ Spend("reviews")
      /\ items' = With(entries + 1, << >>) /\ entries' = entries + 1
      /\ UNCHANGED <<observation, plan, candidate, actors>>
    BY Apart DEF AddEntry
<1>2. spent' \in [Bounds -> Nat] /\ \A b \in Bounds : spent'[b] >= spent[b]
    BY <1>1, SpendFacts DEF Bounds
<1>3. /\ DOMAIN items' = Known \cup {entries + 1} /\ items'[entries + 1] = << >>
      /\ \A y \in Known : y # entries + 1 => items'[y] = items[y]
    BY <1>1 DEF With
<1>4. entries \in Nat /\ entries + 1 \in Targets /\ << >> \in Seq(Candidates)
    BY <1>1 DEF StoreTypes, Targets
<1>5. \A y \in Known' : y \in Targets /\ items'[y] \in Seq(Candidates)
    BY <1>1, <1>3, <1>4 DEF StoreTypes, Known
<1>6. KnownEntries' \subseteq 1..entries'
    BY <1>1, <1>3, <1>4 DEF StoreTypes, Known, KnownEntries
<1>7. StoreTypes'
    BY <1>1, <1>4, <1>5, <1>6 DEF StoreTypes
<1>8. Grows
    BY <1>1, <1>2, <1>3, <1>4 DEF Grows
<1> QED BY <1>1, <1>2, <1>7, <1>8, NobodyMoves DEF actors, ActorTypes

LEMMA EntryReadsKeeps ==
    ASSUME MemoryInv, NEW r \in Reviewers, NEW e \in KnownEntries, EntryReads(r, e)
    PROVE  MemoryInv'
<1>1. /\ StoreTypes /\ ActorTypes /\ ReviewerAt(r) /\ r \in Actors /\ Spend("edits")
      /\ seen' = [seen EXCEPT ![r] = items[e]] /\ at' = [at EXCEPT ![r].target = e]
      /\ Goto(r, "save") /\ UNCHANGED <<memory, lock, listed>>
    BY Apart DEF EntryReads
<1>2. /\ spent' \in [Bounds -> Nat] /\ spent'.edits > 0
      /\ \A b \in Bounds : spent'[b] >= spent[b]
  <2>1. "edits" \in Bounds
    BY DEF Bounds
  <2> QED BY <1>1, <2>1, SpendFacts DEF ActorTypes
<1>3. StoreTypes' /\ Grows
    BY <1>1, <1>2, StillStored, StillGrown DEF memory, StoreTypes
<1>4. e \in 1..entries /\ e \in Targets /\ items[e] \in Seq(Candidates)
    BY <1>1 DEF StoreTypes, KnownEntries
<1>5. /\ at'[r] \in Places /\ at'[r].target = e /\ pc'[r] = "save" /\ seen'[r] = items[e]
  <2>1. /\ at[r] \in Places /\ at'[r] = [at[r] EXCEPT !.target = e] /\ pc'[r] = "save"
        /\ seen'[r] = items[e]
    BY <1>1 DEF ActorTypes, Goto
  <2> QED BY <1>4, <2>1 DEF Places
<1>6. ActorTypes'
  <2>1. at' \in [Actors -> Places]
    BY <1>1, <1>5 DEF ActorTypes
  <2>2. seen' \in [Actors -> CandidateRecords \cup Seq(Candidates) \cup {None}]
    BY <1>1, <1>4 DEF ActorTypes
  <2>3. pc' \in [Actors -> CuratorSteps \cup ReviewerSteps]
    BY <1>1 DEF ActorTypes, Goto, ReviewerSteps
  <2> QED BY <1>1, <1>2, <2>1, <2>2, <2>3 DEF ActorTypes
<1>7. ReviewerAt(r)'
    BY <1>1, <1>2, <1>4, <1>5 DEF ReviewerAt, ReviewerSteps, Reviewing, memory
<1>8. \A a \in Actors \ {r} : pc'[a] = pc[a] /\ at'[a] = at[a] /\ seen'[a] = seen[a]
    BY <1>1 DEF ActorTypes, Goto
<1> QED BY <1>1, <1>3, <1>6, <1>7, <1>8, ReviewerMoves DEF memory

LEMMA EntrySavesKeeps == ASSUME MemoryInv, NEW r \in Reviewers, EntrySaves(r) PROVE MemoryInv'
<1>1. /\ StoreTypes /\ ActorTypes /\ ReviewerAt(r) /\ pc[r] = "save" /\ Rests(r)
      /\ items' = With(at[r].target, seen[r])
      /\ UNCHANGED <<observation, plan, candidate, entries, lock, listed, spent>>
    BY Apart DEF EntrySaves
<1>2. at[r].target \in 1..entries /\ seen[r] \in Seq(Candidates) /\ spent.edits > 0
    BY <1>1 DEF ReviewerAt
<1>3. /\ DOMAIN items' = Known \cup {at[r].target} /\ items'[at[r].target] = seen[r]
      /\ \A y \in Known : y # at[r].target => items'[y] = items[y]
    BY <1>1 DEF With
<1>4. at[r].target \in Targets /\ entries \in Nat
    BY <1>1, <1>2 DEF StoreTypes, Targets
<1>5. StoreTypes'
    BY <1>1, <1>2, <1>3, <1>4 DEF StoreTypes, Known, KnownEntries
<1>6. Grows
    BY <1>1, <1>2, <1>4, Unspent DEF Grows
<1> QED BY <1>1, <1>5, <1>6, RestsKeeps DEF ActorTypes

LEMMA OptimizeKeeps ==
    ASSUME MemoryInv, NEW c \in Proposals, NEW action \in {"update", "delete"},
           NEW kind \in Kinds, NEW e \in KnownEntries, Optimize(c, action, kind, e)
    PROVE  MemoryInv'
<1> DEFINE staged == [action |-> action, kind |-> kind, target |-> e, plan |-> 0,
                      state |-> "pending"]
<1>1. /\ StoreTypes /\ ActorTypes /\ Spend("reviews") /\ candidate' = [candidate EXCEPT ![c] = staged]
      /\ UNCHANGED <<observation, plan, items, entries, actors>> /\ c \in Candidates
    BY Apart DEF Optimize, Candidates
<1>2. spent' \in [Bounds -> Nat] /\ \A b \in Bounds : spent'[b] >= spent[b]
    BY <1>1, SpendFacts DEF Bounds
<1>3. e \in Nat /\ e <= entries /\ kind \in {"entry", "profile"}
    BY <1>1, SettingsAssumption DEF StoreTypes
<1>4. staged \in CandidateRecords
    BY <1>3, BoundsAssumption DEF CandidateRecords, Targets
<1>5. /\ candidate' \in [Candidates -> CandidateRecords \cup {None}] /\ candidate'[c] = staged
      /\ \A d \in Candidates \ {c} : candidate'[d] = candidate[d]
  <2> HIDE DEF staged
  <2> QED BY <1>1, <1>4 DEF StoreTypes
<1>6. StoreTypes'
    BY <1>1, <1>5 DEF StoreTypes, Known, KnownEntries
<1>7. Grows
    BY <1>1, <1>2, StillGrown
<1>8. Copy(c, candidate[c])'
    BY <1>1, <1>3, <1>4, <1>5 DEF Copy
<1> QED BY <1>1, <1>2, <1>5, <1>6, <1>7, <1>8, NobodyMoves DEF actors, ActorTypes

LEMMA InitMemory == Init => MemoryInv
<1> SUFFICES ASSUME Init PROVE MemoryInv
    OBVIOUS
<1>1. PICK known \in 0..1 : entries = known /\ items = [e \in 1..known |-> << >>]
    BY DEF Init
<1>2. Known = 1..known /\ known \in Nat /\ \A e \in Known : items[e] = << >>
    BY <1>1 DEF Known
<1>3. StoreTypes
  <2>1. \A x \in Known : x \in Targets /\ items[x] \in Seq(Candidates)
    <3>1. << >> \in Seq(Candidates) /\ 1..known \subseteq Targets
      BY DEF Targets
    <3> QED BY <1>2, <3>1
  <2>2. KnownEntries \subseteq 1..entries
    BY <1>1, <1>2 DEF KnownEntries
  <2> QED BY <1>1, <1>2, <2>1, <2>2 DEF Init, StoreTypes
<1>4. ActorTypes
    BY AtRestTyped, BoundsOfLimit DEF Init, ActorTypes, CuratorSteps
<1>5. \A a \in Actors : pc[a] = "idle" /\ at[a].k = 1
    BY DEF Init, AtRest
<1>6. \A p \in Curators : CuratorAt(p)
    BY <1>5 DEF CuratorAt, CuratorSteps, Decided, Actors
<1>7. \A r \in Reviewers : ReviewerAt(r)
    BY <1>5 DEF ReviewerAt, ReviewerSteps, Reviewing, Actors
<1>8. \A c \in Candidates : candidate[c] = None
    BY DEF Init
<1> QED BY <1>3, <1>4, <1>6, <1>7, <1>8 DEF MemoryInv

LEMMA CuratesKeeps == ASSUME MemoryInv, NEW p \in Curators, Curates(p) PROVE MemoryInv'
<1>1. CASE \E o \in Observations : RunOnce(p, o)
    BY <1>1, RunOnceKeeps
<1>2. CASE \E actions \in Batches : Decide(p, actions)
    BY <1>2, DecideKeeps
<1>3. CASE \E action \in {"create", "update"}, kind \in Kinds \cup {"entry"},
              target \in KnownEntries \cup {None} : Stage(p, action, kind, target)
    BY <1>3, StageKeeps
<1> QED BY <1>1, <1>2, <1>3, ReadKeeps, PassOverKeeps, DeferKeeps, IgnoreKeeps, FindStagedKeeps,
           AcceptReadsKeeps, AcceptCommitsKeeps, AcceptRaisesKeeps, MarkProcessedKeeps,
           CompletePlanKeeps DEF Curates

LEMMA StepMemory == MemoryInv /\ [Next]_vars => MemoryInv'
<1> SUFFICES ASSUME MemoryInv, [Next]_vars PROVE MemoryInv'
    OBVIOUS
<1>1. CASE \E o \in Observations : Observe(o) \/ Discard(o)
    BY <1>1, ObserveKeeps, DiscardKeeps
<1>2. CASE \E p \in Curators : List(p) \/ Curates(p) \/ CrashCurator(p)
    BY <1>2, ListKeeps, CuratesKeeps, CrashCuratorKeeps
<1>3. CASE \E r \in Reviewers, c \in Candidates, step \in {"commit", "reject", "edit"},
              target \in Known \cup {None} : ReviewReads(r, c, step, target)
    BY <1>3, ReviewReadsKeeps DEF Reviewing
<1>4. CASE \E r \in Reviewers : ReviewCommits(r) \/ Rewrites(r) \/ EntrySaves(r)
    BY <1>4, ReviewCommitsKeeps, RewritesKeeps, EntrySavesKeeps
<1>5. CASE \E r \in Reviewers, e \in KnownEntries : EntryReads(r, e)
    BY <1>5, EntryReadsKeeps
<1>6. CASE AddEntry
    BY <1>6, AddEntryKeeps
<1>7. CASE \E c \in Candidates : DeleteCandidate(c)
    BY <1>7, DeleteCandidateKeeps
<1>8. CASE \E x \in Known : DeleteItem(x)
    BY <1>8, DeleteItemKeeps
<1>9. CASE \E c \in Proposals, action \in {"update", "delete"}, kind \in Kinds,
              e \in KnownEntries : Optimize(c, action, kind, e)
    BY <1>9, OptimizeKeeps
<1>10. CASE UNCHANGED vars
  <2>1. UNCHANGED <<observation, plan, candidate, items, entries, lock, listed, pc, at, seen, spent>>
    BY <1>10 DEF vars, memory, actors
  <2>2. StoreTypes /\ ActorTypes
    BY DEF MemoryInv
  <2>3. StoreTypes' /\ Grows
    BY <2>1, <2>2, StillStored, StillGrown, Unspent DEF StoreTypes
  <2> QED BY <2>1, <2>2, <2>3, NobodyMoves DEF ActorTypes
<1> QED BY <1>1, <1>2, <1>3, <1>4, <1>5, <1>6, <1>7, <1>8, <1>9, <1>10 DEF Next

\* What the store, the curators and the users hold fits together in every reachable state:
\* a curator that works has the lock of its observation, and every copy of a candidate that
\* is in somebody's hands names an entry that was there, however old the copy is.
THEOREM CopiesFit == Spec => []MemoryInv
<1> QED BY InitMemory, StepMemory, PTL DEF Spec

-----------------------------------------------------------------------------
(* As long as no user reviews or discards, curators carry out what they decide *)

\* What went into item x are candidates accepted for it, each once.
Homes(s, x) ==
    \A i \in DOMAIN s :
       /\ Accepted(s[i]) /\ candidate[s[i]].target = x
       /\ \A j \in DOMAIN s : s[i] = s[j] => i = j

Once ==
    /\ \A x \in Known : Homes(items[x], x)
    /\ \A r \in Reviewers : pc[r] = "save" => Homes(seen[r], at[r].target)

\* A profile item is the last fact its observation has brought.
Facts ==
    /\ \A o \in Known \cap Observations :
          \E d \in Candidates : /\ items[o] = <<d>> /\ Accepted(d)
                               /\ candidate[d].action = "create" /\ candidate[d].target = o
    /\ \A c \in Candidates : Accepted(c) /\ candidate[c].kind = "profile"
                                => candidate[c].target \in Observations

\* Until its observation is processed, a candidate is of the plan that is stored.
StagedFrom(c) ==
    LET d == candidate[c]  o == c[1] IN
    d # None =>
       /\ c \notin Proposals /\ d.state \in {"pending", "accepted"}
       /\ \/ d.action = "create"
          \/ d.action = "update" /\ d.kind = "entry" /\ d.target \in KnownEntries
       /\ observation[o] # "processed" =>
             /\ plan[o] # None /\ d.plan = plan[o].id
             /\ c[2] <= Len(plan[o].actions) /\ plan[o].actions[c[2]].action # "ignore"

\* The k-th action of the plan of curator p, before and after the curator came past it.
Undertaken(p, k) ==
    LET done == at[p].plan  a == done.actions[k]  c == candidate[<<at[p].on, k>>] IN
    /\ c # None => c.plan = done.id /\ a.action # "ignore"
    /\ k < at[p].k =>
          /\ a.action = "create" => c # None
          /\ c # None /\ AutoAccept /\ spent.refusals = 0 => c.state = "accepted"

\* A curator carries out the stored plan of an observation nobody else has marked.
Carrying(p) ==
    LET o == at[p].on IN
    /\ pc[p] = "decide" => plan[o] = None
    /\ pc[p] \in {"decide", "act", "accept", "commit"} => observation[o] # "processed"
    /\ pc[p] = "complete" => observation[o] = "processed" /\ ~HasAction(p)
    /\ pc[p] \in Decided =>
          plan[o] = at[p].plan /\ \A k \in 1..Len(at[p].plan.actions) : Undertaken(p, k)
    /\ pc[p] = "accept" => candidate[TheCandidate(p)] # None
    /\ pc[p] = "commit" => candidate[TheCandidate(p)] = seen[p]

Undisturbed ==
    /\ Once /\ Facts
    /\ \A c \in Candidates : StagedFrom(c)
    /\ \A p \in Curators : Carrying(p)

\* A candidate that is not in memory changes, or none.
LEMMA HomesKept ==
    ASSUME NEW s \in Seq(Candidates), NEW x, Homes(s, x), NEW c, ~Accepted(c),
           \A e \in Candidates \ {c} : candidate'[e] = candidate[e]
    PROVE  Homes(s, x)' /\ \A i \in DOMAIN s : s[i] # c
<1>1. \A i \in DOMAIN s : s[i] \in Candidates
    OBVIOUS
<1>2. \A i \in DOMAIN s : s[i] # c
    BY DEF Homes
<1>3. \A i \in DOMAIN s : candidate'[s[i]] = candidate[s[i]]
    BY <1>1, <1>2
<1> QED BY <1>2, <1>3 DEF Homes, Accepted

LEMMA OnceKept ==
    ASSUME MemoryInv, Once, UNCHANGED items, NEW c, ~Accepted(c),
           \A e \in Candidates \ {c} : candidate'[e] = candidate[e],
           \A r \in Reviewers : pc'[r] = pc[r] /\ seen'[r] = seen[r] /\ at'[r] = at[r]
    PROVE  Once'
<1>1. ASSUME NEW x \in Known' PROVE Homes(items[x], x)'
  <2>1. PICK s : s = items[x]
    OBVIOUS
  <2>2. s \in Seq(Candidates) /\ Homes(s, x)
    BY <2>1 DEF Once, Known, MemoryInv, StoreTypes
  <2>3. Homes(s, x)'
    BY <2>2, HomesKept
  <2> QED BY <2>1, <2>3 DEF Homes
<1>2. ASSUME NEW r \in Reviewers, pc'[r] = "save" PROVE Homes(seen[r], at[r].target)'
  <2>1. PICK s, x : s = seen[r] /\ x = at[r].target
    OBVIOUS
  <2>2. s \in Seq(Candidates) /\ Homes(s, x)
    BY <1>2, <2>1 DEF Once, MemoryInv, ReviewerAt
  <2>3. Homes(s, x)'
    BY <2>2, HomesKept
  <2>4. seen'[r] = s /\ at'[r].target = x
    BY <2>1
  <2> QED BY <2>3, <2>4 DEF Homes
<1> QED BY <1>1, <1>2 DEF Once

LEMMA FactsStay ==
    ASSUME Facts, UNCHANGED items, NEW c, ~Accepted(c), ~Accepted(c)',
           \A e \in Candidates \ {c} : candidate'[e] = candidate[e]
    PROVE  Facts'
<1>1. ASSUME NEW o \in Known' \cap Observations
      PROVE  \E d \in Candidates : /\ items'[o] = <<d>> /\ Accepted(d)'
                                  /\ candidate'[d].action = "create" /\ candidate'[d].target = o
  <2>1. PICK d \in Candidates : /\ items[o] = <<d>> /\ Accepted(d)
                               /\ candidate[d].action = "create" /\ candidate[d].target = o
    BY DEF Facts, Known
  <2>2. d # c
    BY <2>1
  <2> QED BY <2>1, <2>2 DEF Accepted
<1>2. ASSUME NEW e \in Candidates, Accepted(e)', candidate'[e].kind = "profile"
      PROVE  candidate'[e].target \in Observations
  <2>1. e # c
    BY <1>2
  <2>2. candidate'[e] = candidate[e]
    BY <2>1
  <2> QED BY <1>2, <2>2 DEF Facts, Accepted
<1> QED BY <1>1, <1>2 DEF Facts

\* Who stages or accepts nothing leaves what was staged.
LEMMA StagedKept ==
    ASSUME NEW c \in Candidates, StagedFrom(c), candidate'[c] = candidate[c],
           KnownEntries \subseteq KnownEntries',
           c \notin Proposals /\ observation'[c[1]] # "processed" =>
              observation[c[1]] # "processed" /\ plan'[c[1]] = plan[c[1]]
    PROVE  StagedFrom(c)'
BY DEF StagedFrom

\* What is stored of observation o stays.
Same(o) ==
    /\ plan'[o] = plan[o] /\ (observation'[o] = "processed" <=> observation[o] = "processed")
    /\ \A k \in 1..MaxActions : candidate'[<<o, k>>] = candidate[<<o, k>>]

LEMMA CarryingKept ==
    ASSUME MemoryInv, NEW q \in Curators, Carrying(q),
           pc'[q] = pc[q], at'[q] = at[q], seen'[q] = seen[q],
           pc[q] # "idle" => Same(at[q].on),
           spent'.refusals = 0 => spent.refusals = 0
    PROVE  Carrying(q)'
<1>1. CASE pc[q] = "idle"
    BY <1>1 DEF Carrying, Decided
<1>2. CASE pc[q] # "idle"
  <2>1. /\ plan'[at[q].on] = plan[at[q].on]
        /\ observation'[at[q].on] = "processed" <=> observation[at[q].on] = "processed"
        /\ \A k \in 1..MaxActions : candidate'[<<at[q].on, k>>] = candidate[<<at[q].on, k>>]
    BY <1>2 DEF Same
  <2>2. HasAction(q)' <=> HasAction(q)
    BY DEF HasAction
  <2>3. pc[q] \in {"accept", "commit"} => candidate'[<<at[q].on, at[q].k>>] = candidate[<<at[q].on, at[q].k>>]
    <3>1. pc[q] \in {"accept", "commit"} => at[q].k \in 1..MaxActions
      BY CandidateAt, Apart DEF CuratorAt, Decided
    <3> QED BY <2>1, <3>1
  <2>4. ASSUME pc[q] \in Decided, NEW k \in 1..Len(at[q].plan.actions) PROVE Undertaken(q, k)'
    <3>1. Undertaken(q, k)
      BY <2>4 DEF Carrying
    <3>2. k \in 1..MaxActions
      <4>1. Len(at[q].plan.actions) \in Nat /\ Len(at[q].plan.actions) <= MaxActions
        BY <2>4, Apart DEF CuratorAt, Plans
      <4> QED BY <4>1, BoundsAssumption
    <3>3. candidate'[<<at[q].on, k>>] = candidate[<<at[q].on, k>>]
      BY <2>1, <3>2
    <3> QED BY <3>1, <3>3 DEF Undertaken
  <2> QED BY <2>1, <2>2, <2>3, <2>4 DEF Carrying, TheCandidate
<1> QED BY <1>1, <1>2

\* A curator that moves touches what is stored of its own observation only.
LEMMA Carried ==
    ASSUME MemoryInv, \A q \in Curators : Carrying(q), NEW p \in Curators, Carrying(p)',
           \A a \in Actors \ {p} : pc'[a] = pc[a] /\ at'[a] = at[a] /\ seen'[a] = seen[a],
           \A o \in Observations : Same(o) \/ (pc[p] # "idle" /\ o = at[p].on),
           spent'.refusals = 0 => spent.refusals = 0
    PROVE  \A q \in Curators : Carrying(q)'
<1> SUFFICES ASSUME NEW q \in Curators, q # p PROVE Carrying(q)'
    OBVIOUS
<1>1. pc'[q] = pc[q] /\ at'[q] = at[q] /\ seen'[q] = seen[q]
    BY DEF Actors
<1>2. ASSUME pc[q] # "idle" PROVE Same(at[q].on)
  <2>1. at[q].on \in Observations /\ lock[at[q].on] = q
    BY <1>2, Apart DEF CuratorAt
  <2>2. pc[p] # "idle" => lock[at[p].on] = p
    BY Apart DEF CuratorAt
  <2> QED BY <2>1, <2>2
<1> QED BY <1>1, <1>2, CarryingKept

\* A step of curator p that writes neither candidates nor items.
LEMMA QuietlyKept ==
    ASSUME MemoryInv, Undisturbed, NEW p \in Curators, Carrying(p)',
           \A a \in Actors \ {p} : pc'[a] = pc[a] /\ at'[a] = at[a] /\ seen'[a] = seen[a],
           UNCHANGED <<candidate, items>>,
           \A o \in Observations :
              \/ plan'[o] = plan[o] /\ observation'[o] = observation[o]
              \/ pc[p] # "idle" /\ o = at[p].on /\ observation'[o] = "processed",
           spent'.refusals = 0 => spent.refusals = 0
    PROVE  Undisturbed'
<1>1. \A r \in Reviewers : pc'[r] = pc[r] /\ seen'[r] = seen[r] /\ at'[r] = at[r]
  <2>1. \A r \in Reviewers : r \in Actors \ {p}
    BY ActorsAssumption DEF Actors
  <2> QED BY <2>1
<1>2. Once'
    BY <1>1 DEF Undisturbed, Once, Known, Homes, Accepted
<1>3. Facts'
    BY DEF Undisturbed, Facts, Known, Accepted
<1>4. ASSUME NEW c \in Candidates PROVE StagedFrom(c)'
  <2>1. c \notin Proposals => c[1] \in Observations
    BY DEF Candidates
  <2>2. StagedFrom(c) /\ KnownEntries' = KnownEntries
    BY DEF Undisturbed, KnownEntries, Known
  <2> QED BY <2>1, <2>2, StagedKept
<1>5. \A o \in Observations : Same(o) \/ (pc[p] # "idle" /\ o = at[p].on)
    BY DEF Same
<1>6. \A q \in Curators : Carrying(q)'
    BY <1>5, Carried DEF Undisturbed
<1> QED BY <1>2, <1>3, <1>4, <1>6 DEF Undisturbed

LEMMA IdleCarries ==
    ASSUME NEW p \in Curators, pc'[p] \in {"idle", "read"}
    PROVE  Carrying(p)'
BY DEF Carrying, Decided

LEMMA OthersStay ==
    ASSUME ActorTypes, NEW a \in Actors, NEW step, pc' = [pc EXCEPT ![a] = step],
           NEW here, at' = [at EXCEPT ![a] = here],
           NEW copy, seen' = seen \/ seen' = [seen EXCEPT ![a] = copy]
    PROVE  /\ pc'[a] = step /\ at'[a] = here
           /\ seen' = seen \/ seen'[a] = copy
           /\ \A b \in Actors \ {a} : pc'[b] = pc[b] /\ at'[b] = at[b] /\ seen'[b] = seen[b]
BY DEF ActorTypes

\* A curator comes past an action, whose candidate c may be new or accepted now.
LEMMA NextCarries ==
    ASSUME MemoryInv, NEW p \in Curators, Carrying(p), pc[p] \in {"act", "accept", "commit"},
           HasAction(p), NextAction(p), UNCHANGED <<plan, observation>>,
           \A k \in 1..Len(at[p].plan.actions) :
              k # at[p].k => candidate'[<<at[p].on, k>>] = candidate[<<at[p].on, k>>],
           NEW c, c = candidate'[TheCandidate(p)],
           c # None => c.plan = at[p].plan.id /\ TheAction(p).action # "ignore",
           TheAction(p).action = "create" => c # None,
           c # None /\ AutoAccept /\ spent'.refusals = 0 => c.state = "accepted",
           spent'.refusals = 0 => spent.refusals = 0
    PROVE  Carrying(p)'
<1>1. /\ ActorTypes /\ p \in Actors /\ pc[p] \in Decided /\ at[p] \in Places
      /\ at[p].k \in Nat \ {0} /\ at[p].plan.actions \in Seq(Actions)
    BY Apart DEF Decided, ActorTypes, Places, CuratorAt, Plans
<1>2. /\ pc'[p] = "act" /\ at'[p].on = at[p].on /\ at'[p].plan = at[p].plan
      /\ at'[p].k = at[p].k + 1
  <2>1. pc'[p] = "act" /\ at'[p] = [at[p] EXCEPT !.k = @ + 1]
    BY <1>1 DEF NextAction, Goto, ActorTypes
  <2> QED BY <1>1, <2>1 DEF Places
<1>3. ASSUME NEW k \in 1..Len(at[p].plan.actions) PROVE Undertaken(p, k)'
  <2>1. Undertaken(p, k)
    BY <1>1 DEF Carrying
  <2>2. CASE k = at[p].k
    <3>1. candidate'[<<at[p].on, k>>] = c /\ at[p].plan.actions[k] = TheAction(p)
      BY <2>2 DEF TheCandidate, TheAction
    <3> QED BY <1>2, <3>1 DEF Undertaken
  <2>3. CASE k # at[p].k
    <3>1. k < at[p].k + 1 => k < at[p].k
      BY <1>1, <2>3
    <3> QED BY <1>2, <2>1, <2>3, <3>1 DEF Undertaken
  <2> QED BY <2>2, <2>3
<1>4. plan'[at[p].on] = at[p].plan /\ observation'[at[p].on] # "processed"
    BY <1>1 DEF Carrying
<1> QED BY <1>2, <1>3, <1>4 DEF Carrying

\* A curator goes to accept or commit the candidate of its action.
LEMMA GotoCarries ==
    ASSUME MemoryInv, NEW p \in Curators, Carrying(p), pc[p] \in {"act", "accept", "commit"},
           HasAction(p), NEW step \in {"accept", "commit"}, Goto(p, step),
           UNCHANGED <<plan, observation, at>>,
           \A k \in 1..Len(at[p].plan.actions) :
              k # at[p].k => candidate'[<<at[p].on, k>>] = candidate[<<at[p].on, k>>],
           NEW c, c = candidate'[TheCandidate(p)], c # None,
           c.plan = at[p].plan.id /\ TheAction(p).action # "ignore",
           step = "commit" => seen'[p] = c,
           spent'.refusals = 0 => spent.refusals = 0
    PROVE  Carrying(p)'
<1>1. /\ ActorTypes /\ p \in Actors /\ pc[p] \in Decided
      /\ at[p].k \in Nat \ {0} /\ at[p].plan.actions \in Seq(Actions)
    BY Apart DEF Decided, ActorTypes, Places, CuratorAt, Plans
<1>2. pc'[p] = step
    BY <1>1 DEF Goto, ActorTypes
<1>3. ASSUME NEW k \in 1..Len(at[p].plan.actions) PROVE Undertaken(p, k)'
  <2>1. Undertaken(p, k)
    BY <1>1 DEF Carrying
  <2>2. CASE k = at[p].k
    <3>1. candidate'[<<at[p].on, k>>] = c /\ at[p].plan.actions[k] = TheAction(p)
      BY <2>2 DEF TheCandidate, TheAction
    <3>2. ~(k < at[p].k)
      BY <1>1, <2>2
    <3> QED BY <3>1, <3>2 DEF Undertaken
  <2>3. CASE k # at[p].k
    BY <2>1, <2>3 DEF Undertaken
  <2> QED BY <2>2, <2>3
<1>4. plan'[at[p].on] = at[p].plan /\ observation'[at[p].on] # "processed"
    BY <1>1 DEF Carrying
<1> QED BY <1>2, <1>3, <1>4 DEF Carrying, TheCandidate

\* Nobody moves, and nothing is written but an observation that arrives.
LEMMA ArrivalUndisturbed ==
    ASSUME MemoryInv, Undisturbed, UNCHANGED <<plan, candidate, items, pc, at, seen, spent>>,
           \A o \in Observations :
              observation'[o] = "processed" <=> observation[o] = "processed"
    PROVE  Undisturbed'
<1>1. Once' /\ Facts'
    BY DEF Undisturbed, Once, Facts, Known, Homes, Accepted
<1>2. ASSUME NEW c \in Candidates PROVE StagedFrom(c)'
  <2>1. c \notin Proposals => c[1] \in Observations
    BY DEF Candidates
  <2>2. StagedFrom(c) /\ KnownEntries' = KnownEntries
    BY DEF Undisturbed, KnownEntries, Known
  <2> QED BY <2>1, <2>2, StagedKept
<1>3. ASSUME NEW q \in Curators PROVE Carrying(q)'
  <2>1. pc[q] # "idle" => Same(at[q].on)
    BY Apart DEF Same, CuratorAt
  <2> QED BY <2>1, CarryingKept DEF Undisturbed
<1> QED BY <1>1, <1>2, <1>3 DEF Undisturbed

LEMMA ObserveUndisturbed ==
    ASSUME MemoryInv, Undisturbed, NEW o \in Observations, Observe(o)
    PROVE  Undisturbed'
<1>1. \A x \in Observations : observation'[x] = "processed" <=> observation[x] = "processed"
    BY Apart DEF Observe, StoreTypes
<1> QED BY <1>1, ArrivalUndisturbed DEF Observe, actors

LEMMA ListUndisturbed ==
    ASSUME MemoryInv, Undisturbed, NEW p \in Curators, List(p)
    PROVE  Undisturbed'
BY ArrivalUndisturbed DEF List, memory

\* A curator leaves, and what it may have written is of an observation it has processed.
LEMMA LeaveUndisturbed ==
    ASSUME MemoryInv, Undisturbed, NEW p \in Curators, pc[p] # "idle",
           pc' = [pc EXCEPT ![p] = "idle"], at' = [at EXCEPT ![p] = AtRest],
           seen' = seen \/ seen' = [seen EXCEPT ![p] = None],
           UNCHANGED <<candidate, items>>,
           \A o \in Observations :
              \/ plan'[o] = plan[o] /\ observation'[o] = observation[o]
              \/ o = at[p].on /\ observation'[o] = "processed",
           spent'.refusals = 0 => spent.refusals = 0
    PROVE  Undisturbed'
<1>1. p \in Actors /\ ActorTypes
    BY Apart
<1>2. /\ pc'[p] = "idle"
      /\ \A a \in Actors \ {p} : pc'[a] = pc[a] /\ at'[a] = at[a] /\ seen'[a] = seen[a]
    BY <1>1, OthersStay
<1>3. Carrying(p)'
    BY <1>2, IdleCarries
<1> QED BY <1>2, <1>3, QuietlyKept

LEMMA RunOnceUndisturbed ==
    ASSUME MemoryInv, Undisturbed, NEW p \in Curators, NEW o \in Observations, RunOnce(p, o)
    PROVE  Undisturbed'
<1>1. /\ p \in Actors /\ ActorTypes /\ pc[p] = "idle" /\ UNCHANGED <<memory, seen, spent>>
    BY Apart DEF RunOnce
<1>2. CASE UNCHANGED <<lock, at, pc>>
    BY <1>1, <1>2, ArrivalUndisturbed DEF memory
<1>3. CASE at' = [at EXCEPT ![p].on = o] /\ Goto(p, "read")
  <2>1. /\ pc'[p] = "read"
        /\ \A a \in Actors \ {p} : pc'[a] = pc[a] /\ at'[a] = at[a] /\ seen'[a] = seen[a]
    BY <1>1, <1>3 DEF ActorTypes, Goto
  <2>2. Carrying(p)'
    BY <2>1, IdleCarries
  <2> QED BY <1>1, <2>1, <2>2, QuietlyKept DEF memory
<1> QED BY <1>2, <1>3 DEF RunOnce

\* What was staged of an observation agrees with the plan a curator reads.
LEMMA ReadUndisturbed ==
    ASSUME MemoryInv, Undisturbed, NEW p \in Curators, Read(p)
    PROVE  Undisturbed'
<1>1. /\ p \in Actors /\ ActorTypes /\ CuratorAt(p) /\ pc[p] = "read"
      /\ UNCHANGED <<memory, listed, seen, spent>>
    BY Apart DEF Read
<1>2. CASE Leave(p)
    BY <1>1, <1>2, LeaveUndisturbed DEF Leave, Goto, memory
<1>3. CASE /\ observation[at[p].on] # "processed"
           /\ Goto(p, IF plan[at[p].on] = None THEN "decide" ELSE "act")
           /\ at' = [at EXCEPT ![p].plan = plan[at[p].on]]
  <2> DEFINE step == IF plan[at[p].on] = None THEN "decide" ELSE "act"
  <2>1. /\ at[p].on \in Observations /\ at[p] \in Places /\ at[p].k = 1
        /\ plan[at[p].on] \in Plans \cup {None}
    BY <1>1, Apart DEF CuratorAt, ActorTypes, StoreTypes
  <2>2. /\ pc'[p] = step /\ at'[p] = [at[p] EXCEPT !.plan = plan[at[p].on]]
        /\ \A a \in Actors \ {p} : pc'[a] = pc[a] /\ at'[a] = at[a] /\ seen'[a] = seen[a]
    BY <1>1, <1>3 DEF ActorTypes, Goto
  <2>3. at'[p].on = at[p].on /\ at'[p].k = 1 /\ at'[p].plan = plan[at[p].on]
    BY <2>1, <2>2 DEF Places
  <2>4. ASSUME step = "act", NEW k \in 1..Len(plan[at[p].on].actions) PROVE Undertaken(p, k)'
    <3>1. /\ plan[at[p].on] \in Plans /\ Len(plan[at[p].on].actions) <= MaxActions
          /\ Len(plan[at[p].on].actions) \in Nat
      BY <2>1, <2>4, Apart DEF StoreTypes, Plans
    <3>2. k \in 1..MaxActions /\ ~(k < 1)
      BY <3>1, BoundsAssumption
    <3>3. <<at[p].on, k>> \in Candidates
      BY <2>1, <3>2 DEF Candidates
    <3>4. StagedFrom(<<at[p].on, k>>)
      BY <3>3 DEF Undisturbed
    <3>5. /\ candidate'[<<at'[p].on, k>>] = candidate[<<at[p].on, k>>]
          /\ at'[p].plan.actions[k] = plan[at[p].on].actions[k]
      BY <1>1, <2>3 DEF memory
    <3>6. candidate[<<at[p].on, k>>] # None =>
             /\ candidate[<<at[p].on, k>>].plan = plan[at[p].on].id
             /\ plan[at[p].on].actions[k].action # "ignore"
      BY <1>3, <3>4 DEF StagedFrom
    <3> QED BY <2>3, <3>2, <3>5, <3>6 DEF Undertaken
  <2>5. plan'[at[p].on] = plan[at[p].on] /\ observation'[at[p].on] # "processed"
    BY <1>1, <1>3 DEF memory
  <2>6. Carrying(p)'
    BY <2>2, <2>3, <2>4, <2>5 DEF Carrying, Decided
  <2> QED BY <1>1, <2>2, <2>6, QuietlyKept DEF memory
<1> QED BY <1>2, <1>3 DEF Read

LEMMA PassOverUndisturbed ==
    ASSUME MemoryInv, Undisturbed, NEW p \in Curators, PassOver(p)
    PROVE  Undisturbed'
<1>1. /\ pc[p] = "decide" /\ Leave(p) /\ UNCHANGED <<plan, candidate, items, entries, seen, spent>>
      /\ observation' = [observation EXCEPT ![at[p].on] = "processed"]
    BY DEF PassOver
<1>2. \A o \in Observations : \/ plan'[o] = plan[o] /\ observation'[o] = observation[o]
                              \/ o = at[p].on /\ observation'[o] = "processed"
    BY <1>1, Apart DEF StoreTypes
<1> QED BY <1>1, <1>2, LeaveUndisturbed DEF Leave, Goto

LEMMA RefusalsCount ==
    ASSUME MemoryInv, NEW b \in Bounds, Spend(b)
    PROVE  /\ spent'.refusals = 0 => spent.refusals = 0
           /\ b = "refusals" => spent'.refusals # 0
<1>1. "refusals" \in Bounds /\ ActorTypes
    BY Apart DEF Bounds
<1>2. spent.refusals \in Nat /\ spent'.refusals >= spent.refusals
    BY <1>1, SpendFacts DEF ActorTypes
<1>3. b = "refusals" => spent'.refusals = spent.refusals + 1
    BY <1>1, SpendFacts
<1> QED BY <1>2, <1>3

LEMMA DeferUndisturbed ==
    ASSUME MemoryInv, Undisturbed, NEW p \in Curators, Defer(p)
    PROVE  Undisturbed'
<1>1. /\ pc[p] = "decide" /\ Leave(p) /\ Spend("deferrals") /\ UNCHANGED <<memory, seen>>
    BY DEF Defer
<1>2. spent'.refusals = 0 => spent.refusals = 0
    BY <1>1, RefusalsCount DEF Bounds
<1> QED BY <1>1, <1>2, LeaveUndisturbed DEF Leave, Goto, memory

LEMMA CompletePlanUndisturbed ==
    ASSUME MemoryInv, Undisturbed, NEW p \in Curators, CompletePlan(p)
    PROVE  Undisturbed'
<1>1. /\ pc[p] = "complete" /\ Leave(p)
      /\ UNCHANGED <<observation, candidate, items, entries, seen, spent>>
      /\ plan' = [plan EXCEPT ![at[p].on] = None]
    BY DEF CompletePlan
<1>2. observation[at[p].on] = "processed"
    BY <1>1 DEF Undisturbed, Carrying
<1>3. \A o \in Observations : \/ plan'[o] = plan[o] /\ observation'[o] = observation[o]
                              \/ o = at[p].on /\ observation'[o] = "processed"
    BY <1>1, <1>2, Apart DEF StoreTypes
<1> QED BY <1>1, <1>3, LeaveUndisturbed DEF Leave, Goto

LEMMA CrashUndisturbed ==
    ASSUME MemoryInv, Undisturbed, NEW p \in Curators, CrashCurator(p)
    PROVE  Undisturbed'
<1>1. /\ pc[p] # "idle" /\ Spend("crashes") /\ at' = [at EXCEPT ![p] = AtRest]
      /\ seen' = [seen EXCEPT ![p] = None] /\ Goto(p, "idle") /\ UNCHANGED memory
    BY DEF CrashCurator
<1>2. spent'.refusals = 0 => spent.refusals = 0
    BY <1>1, RefusalsCount DEF Bounds
<1> QED BY <1>1, <1>2, LeaveUndisturbed DEF Goto, memory

\* Nothing was staged of an observation without a plan that is not processed.
LEMMA DecideUndisturbed ==
    ASSUME MemoryInv, Undisturbed, NEW p \in Curators, NEW actions \in Batches, Decide(p, actions)
    PROVE  Undisturbed'
<1> DEFINE made == [id |-> spent'.decisions, actions |-> actions]
<1>1. /\ p \in Actors /\ ActorTypes /\ CuratorAt(p) /\ pc[p] = "decide" /\ Spend("decisions")
      /\ plan' = [plan EXCEPT ![at[p].on] = made] /\ Goto(p, "act")
      /\ at' = [at EXCEPT ![p].plan = plan'[at[p].on]]
      /\ UNCHANGED <<observation, candidate, items, entries, lock, listed, seen>>
    BY Apart DEF Decide
<1>2. /\ at[p].on \in Observations /\ at[p] \in Places /\ at[p].k = 1
      /\ plan[at[p].on] = None /\ observation[at[p].on] # "processed"
    BY <1>1 DEF CuratorAt, ActorTypes, Undisturbed, Carrying
<1>3. ASSUME NEW c \in Candidates, c \notin Proposals, c[1] = at[p].on PROVE candidate[c] = None
    BY <1>2, <1>3 DEF Undisturbed, StagedFrom
<1>4. /\ plan'[at[p].on] = made
      /\ \A o \in Observations \ {at[p].on} : plan'[o] = plan[o]
    BY <1>1, <1>2, Apart DEF StoreTypes
<1>5. /\ pc'[p] = "act" /\ at'[p] = [at[p] EXCEPT !.plan = made]
      /\ \A a \in Actors \ {p} : pc'[a] = pc[a] /\ at'[a] = at[a] /\ seen'[a] = seen[a]
  <2> HIDE DEF made
  <2> QED BY <1>1, <1>4 DEF ActorTypes, Goto
<1>6. at'[p].on = at[p].on /\ at'[p].k = 1 /\ at'[p].plan = made
    BY <1>2, <1>5 DEF Places
<1>7. \A r \in Reviewers : pc'[r] = pc[r] /\ seen'[r] = seen[r] /\ at'[r] = at[r]
  <2>1. \A r \in Reviewers : r \in Actors \ {p}
    BY ActorsAssumption DEF Actors
  <2> QED BY <1>5, <2>1
<1>8. Once' /\ Facts'
    BY <1>1, <1>7 DEF Undisturbed, Once, Facts, Known, Homes, Accepted
<1>9. ASSUME NEW c \in Candidates PROVE StagedFrom(c)'
  <2>1. CASE candidate[c] = None
    BY <1>1, <2>1 DEF StagedFrom
  <2>2. CASE candidate[c] # None
    <3>1. c \notin Proposals => c[1] \in Observations \ {at[p].on}
      BY <1>3, <2>2 DEF Candidates
    <3>2. StagedFrom(c) /\ KnownEntries' = KnownEntries
      BY <1>1 DEF Undisturbed, KnownEntries, Known
    <3> QED BY <1>1, <1>4, <3>1, <3>2, StagedKept
  <2> QED BY <2>1, <2>2
<1>10. ASSUME NEW k \in 1..Len(made.actions) PROVE Undertaken(p, k)'
  <2>1. k \in 1..MaxActions /\ ~(k < 1)
    <3>1. actions \in Seq(Actions) /\ Len(actions) <= MaxActions
      BY Apart, BatchesTyped
    <3>2. Len(actions) \in Nat
      BY <3>1
    <3> QED BY <3>1, <3>2, BoundsAssumption
  <2>2. <<at[p].on, k>> \in Candidates /\ <<at[p].on, k>> \notin Proposals
    BY <1>2, <2>1, IdentityAssumption DEF Candidates
  <2>3. candidate[<<at[p].on, k>>] = None
    BY <1>3, <2>2
  <2> QED BY <1>1, <1>6, <2>1, <2>3 DEF Undertaken
<1>11. Carrying(p)'
  <2> HIDE DEF made
  <2> QED BY <1>1, <1>2, <1>4, <1>5, <1>6, <1>10 DEF Carrying, Decided
<1>12. \A o \in Observations : Same(o) \/ (pc[p] # "idle" /\ o = at[p].on)
    BY <1>1, <1>4 DEF Same
<1>13. spent'.refusals = 0 => spent.refusals = 0
    BY <1>1, RefusalsCount DEF Bounds
<1>14. \A q \in Curators : Carrying(q)'
    BY <1>5, <1>11, <1>12, <1>13, Carried DEF Undisturbed
<1> QED BY <1>8, <1>9, <1>14 DEF Undisturbed

\* A curator that works on a plan.
LEMMA AtAction ==
    ASSUME MemoryInv, Undisturbed, NEW p \in Curators, pc[p] \in {"act", "accept", "commit"},
           HasAction(p)
    PROVE  /\ p \in Actors /\ ActorTypes /\ pc[p] \in Decided
           /\ TheCandidate(p) \in Candidates /\ TheCandidate(p) \notin Proposals
           /\ at[p].on \in Observations /\ at[p].k \in 1..Len(at[p].plan.actions)
           /\ at[p].k \in Nat /\ plan[at[p].on] = at[p].plan /\ at[p].plan # None
           /\ observation[at[p].on] # "processed"
           /\ Carrying(p) /\ StagedFrom(TheCandidate(p))
           /\ candidate[TheCandidate(p)] # None =>
                 /\ candidate[TheCandidate(p)].plan = at[p].plan.id
                 /\ TheAction(p).action # "ignore"
                 /\ candidate[TheCandidate(p)].state \in {"pending", "accepted"}
<1>1. p \in Actors /\ ActorTypes /\ CuratorAt(p) /\ pc[p] \in Decided /\ Carrying(p)
    BY Apart DEF Decided, Undisturbed
<1>2. /\ TheCandidate(p) \in Candidates /\ TheCandidate(p) \notin Proposals
      /\ at[p].on \in Observations /\ at[p].k \in 1..MaxActions
    BY <1>1, CandidateAt
<1>3. at[p].plan \in Plans /\ at[p].plan # None /\ Len(at[p].plan.actions) \in Nat
    BY <1>1, IdentityAssumption DEF CuratorAt, Plans
<1>4. at[p].k \in Nat /\ at[p].k \in 1..Len(at[p].plan.actions)
    BY <1>2, <1>3, BoundsAssumption DEF HasAction
<1>5. plan[at[p].on] = at[p].plan /\ observation[at[p].on] # "processed" /\ Undertaken(p, at[p].k)
    BY <1>1, <1>4 DEF Carrying
<1>6. StagedFrom(TheCandidate(p))
    BY <1>2 DEF Undisturbed
<1> QED BY <1>1, <1>2, <1>3, <1>4, <1>5, <1>6 DEF Undertaken, StagedFrom, TheCandidate, TheAction

\* A curator goes on and writes nothing but the mark of its observation.
LEMMA GoesOn ==
    ASSUME MemoryInv, Undisturbed, NEW p \in Curators, Carrying(p)', pc[p] # "idle",
           UNCHANGED <<plan, candidate, items>>,
           \A o \in Observations :
              \/ observation'[o] = observation[o]
              \/ o = at[p].on /\ observation'[o] = "processed",
           NextAction(p) \/ (UNCHANGED at /\ \E step : Goto(p, step)),
           seen' = seen \/ \E copy : seen' = [seen EXCEPT ![p] = copy],
           spent'.refusals = 0 => spent.refusals = 0
    PROVE  Undisturbed'
<1>1. \A a \in Actors \ {p} : pc'[a] = pc[a] /\ at'[a] = at[a] /\ seen'[a] = seen[a]
    BY Apart DEF ActorTypes, Goto, NextAction
<1> QED BY <1>1, QuietlyKept

LEMMA IgnoreUndisturbed ==
    ASSUME MemoryInv, Undisturbed, NEW p \in Curators, Ignore(p)
    PROVE  Undisturbed'
<1>1. /\ pc[p] = "act" /\ HasAction(p) /\ NextAction(p) /\ UNCHANGED <<memory, seen, spent>>
      /\ \/ TheAction(p).action = "ignore"
         \/ TheAction(p).action = "update" /\ candidate[TheCandidate(p)] = None
    BY DEF Ignore
<1>2. PICK c : c = candidate'[TheCandidate(p)]
    OBVIOUS
<1>3. /\ c = None /\ TheAction(p).action # "create" /\ Carrying(p)
    BY <1>1, <1>2, AtAction DEF memory
<1>4. Carrying(p)'
    BY <1>1, <1>2, <1>3, NextCarries DEF memory
<1> QED BY <1>1, <1>4, GoesOn DEF memory

LEMMA FindStagedUndisturbed ==
    ASSUME MemoryInv, Undisturbed, NEW p \in Curators, FindStaged(p)
    PROVE  Undisturbed'
<1>1. /\ pc[p] = "act" /\ HasAction(p) /\ UNCHANGED <<memory, seen, spent>>
      /\ candidate[TheCandidate(p)] # None
    BY DEF FindStaged
<1>2. PICK c : c = candidate'[TheCandidate(p)]
    OBVIOUS
<1>3. /\ c = candidate[TheCandidate(p)] /\ c # None /\ Carrying(p) /\ c.plan = at[p].plan.id
      /\ TheAction(p).action # "ignore" /\ c.state \in {"pending", "accepted"}
    BY <1>1, <1>2, AtAction DEF memory
<1>4. CASE Goto(p, "accept") /\ UNCHANGED at
  <2>1. Carrying(p)'
    BY <1>1, <1>2, <1>3, <1>4, GotoCarries DEF memory
  <2> QED BY <1>1, <1>4, <2>1, GoesOn DEF memory
<1>5. CASE ~AcceptedLate(TheCandidate(p)) /\ NextAction(p)
  <2>1. AutoAccept => c.state = "accepted"
    BY <1>3, <1>5 DEF AcceptedLate
  <2>2. Carrying(p)'
    BY <1>1, <1>2, <1>3, <1>5, <2>1, NextCarries DEF memory
  <2> QED BY <1>1, <1>5, <2>2, GoesOn DEF memory
<1> QED BY <1>4, <1>5 DEF FindStaged

LEMMA AcceptReadsUndisturbed ==
    ASSUME MemoryInv, Undisturbed, NEW p \in Curators, AcceptReads(p)
    PROVE  Undisturbed'
<1>1. pc[p] = "accept" /\ UNCHANGED <<memory, spent>> /\ HasAction(p)
    BY Apart DEF AcceptReads, CuratorAt
<1>2. PICK c : c = candidate'[TheCandidate(p)]
    OBVIOUS
<1>3. /\ c = candidate[TheCandidate(p)] /\ Carrying(p) /\ c # None /\ p \in Actors /\ ActorTypes
      /\ c.plan = at[p].plan.id /\ TheAction(p).action # "ignore"
      /\ c.state \in {"pending", "accepted"}
    BY <1>1, <1>2, AtAction DEF memory, Carrying
<1>4. CASE /\ seen' = [seen EXCEPT ![p] = candidate[TheCandidate(p)]] /\ Goto(p, "commit")
           /\ UNCHANGED at
  <2>1. seen'[p] = c
    BY <1>3, <1>4 DEF ActorTypes
  <2>2. Carrying(p)'
    BY <1>1, <1>2, <1>3, <1>4, <2>1, GotoCarries DEF memory
  <2> QED BY <1>1, <1>4, <2>2, GoesOn DEF memory
<1>5. CASE ~(c # None /\ c.state = "pending") /\ NextAction(p) /\ UNCHANGED seen
  <2>1. c.state = "accepted"
    BY <1>3, <1>5
  <2>2. Carrying(p)'
    BY <1>1, <1>2, <1>3, <1>5, <2>1, NextCarries DEF memory
  <2> QED BY <1>1, <1>5, <2>2, GoesOn DEF memory
<1> QED BY <1>3, <1>4, <1>5 DEF AcceptReads

LEMMA AcceptRaisesUndisturbed ==
    ASSUME MemoryInv, Undisturbed, NEW p \in Curators, AcceptRaises(p)
    PROVE  Undisturbed'
<1>1. /\ pc[p] = "commit" /\ UNCHANGED memory /\ HasAction(p) /\ Spend("refusals")
      /\ NextAction(p) /\ seen' = [seen EXCEPT ![p] = None]
    BY Apart DEF AcceptRaises, CuratorAt
<1>2. PICK c : c = candidate'[TheCandidate(p)]
    OBVIOUS
<1>3. c = candidate[TheCandidate(p)] /\ Carrying(p)
    BY <1>1, <1>2, AtAction DEF memory
<1>4. c \in CandidateRecords
    BY <1>1, <1>3, Apart DEF Carrying, CuratorAt, Copy
<1>5. /\ c # None /\ c.plan = at[p].plan.id /\ TheAction(p).action # "ignore"
    BY <1>1, <1>3, <1>4, AtAction, IdentityAssumption
<1>6. spent'.refusals # 0
    BY <1>1, RefusalsCount DEF Bounds
<1>7. Carrying(p)'
    BY <1>1, <1>2, <1>3, <1>5, <1>6, NextCarries DEF memory
<1> QED BY <1>1, <1>6, <1>7, GoesOn DEF memory

LEMMA MarkProcessedUndisturbed ==
    ASSUME MemoryInv, Undisturbed, NEW p \in Curators, MarkProcessed(p)
    PROVE  Undisturbed'
<1>1. /\ pc[p] = "act" /\ ~HasAction(p) /\ Goto(p, "complete")
      /\ observation' = [observation EXCEPT ![at[p].on] = "processed"]
      /\ UNCHANGED <<plan, candidate, items, entries, at, seen, spent>>
      /\ p \in Actors /\ ActorTypes /\ at[p].on \in Observations
    BY Apart DEF MarkProcessed, CuratorAt
<1>2. /\ pc'[p] = "complete" /\ observation'[at[p].on] = "processed"
      /\ \A o \in Observations \ {at[p].on} : observation'[o] = observation[o]
    BY <1>1, Apart DEF ActorTypes, StoreTypes, Goto
<1>3. /\ plan[at[p].on] = at[p].plan
      /\ \A k \in 1..Len(at[p].plan.actions) : Undertaken(p, k)
    BY <1>1 DEF Undisturbed, Carrying, Decided
<1>4. ~HasAction(p)' /\ \A k \in 1..Len(at[p].plan.actions) : Undertaken(p, k)'
    BY <1>1, <1>3 DEF HasAction, Undertaken
<1>5. Carrying(p)'
    BY <1>1, <1>2, <1>3, <1>4 DEF Carrying, Decided
<1> QED BY <1>1, <1>2, <1>5, GoesOn

\* The candidates of other observations are not the curator's.
LEMMA SameElsewhere ==
    ASSUME MemoryInv, Undisturbed, NEW p \in Curators, pc[p] \in {"act", "accept", "commit"},
           HasAction(p), UNCHANGED <<plan, observation>>,
           \A e \in Candidates \ {TheCandidate(p)} : candidate'[e] = candidate[e]
    PROVE  /\ \A o \in Observations : Same(o) \/ (pc[p] # "idle" /\ o = at[p].on)
           /\ \A k \in 1..Len(at[p].plan.actions) :
                 k # at[p].k => candidate'[<<at[p].on, k>>] = candidate[<<at[p].on, k>>]
<1>1. ASSUME NEW o \in Observations, o # at[p].on PROVE Same(o)
  <2>1. \A k \in 1..MaxActions : <<o, k>> \in Candidates \ {TheCandidate(p)}
    BY <1>1 DEF Candidates, TheCandidate
  <2> QED BY <2>1 DEF Same
<1>2. ASSUME NEW k \in 1..Len(at[p].plan.actions), k # at[p].k
      PROVE  candidate'[<<at[p].on, k>>] = candidate[<<at[p].on, k>>]
  <2>1. /\ at[p].on \in Observations /\ Len(at[p].plan.actions) \in Nat
        /\ Len(at[p].plan.actions) <= MaxActions
    BY Apart DEF CuratorAt, Decided, Plans
  <2>2. k \in 1..MaxActions
    BY <2>1, BoundsAssumption
  <2>3. <<at[p].on, k>> \in Candidates \ {TheCandidate(p)}
    BY <1>2, <2>1, <2>2 DEF Candidates, TheCandidate
  <2> QED BY <2>3
<1> QED BY <1>1, <1>2

LEMMA StageUndisturbed ==
    ASSUME MemoryInv, Undisturbed, NEW p \in Curators, NEW action \in {"create", "update"},
           NEW kind \in Kinds \cup {"entry"}, NEW target \in KnownEntries \cup {None},
           Stage(p, action, kind, target)
    PROVE  Undisturbed'
<1>1. PICK c, staged :
         /\ c = TheCandidate(p)
         /\ staged = [action |-> action, kind |-> kind, target |-> target,
                      plan |-> at[p].plan.id, state |-> "pending"]
    OBVIOUS
<1>2. /\ pc[p] = "act" /\ HasAction(p) /\ candidate[c] = None
      /\ candidate' = [candidate EXCEPT ![c] = staged]
      /\ TheAction(p).action \in {"create", "update"}
      /\ \/ action = "create"
         \/ action = "update" /\ kind = "entry" /\ target \in KnownEntries
      /\ UNCHANGED <<observation, plan, items, entries, seen, spent>>
    BY <1>1 DEF Stage
<1>3. /\ p \in Actors /\ ActorTypes /\ c \in Candidates /\ c \notin Proposals /\ Carrying(p)
      /\ at[p].k \in 1..Len(at[p].plan.actions) /\ at[p].k <= Len(at[p].plan.actions)
      /\ plan[at[p].on] = at[p].plan /\ at[p].plan # None
    BY <1>1, <1>2, AtAction DEF HasAction
<1>4. /\ staged # None /\ staged.plan = at[p].plan.id /\ staged.state = "pending"
      /\ \/ staged.action = "create"
         \/ staged.action = "update" /\ staged.kind = "entry" /\ staged.target \in KnownEntries
  <2>1. staged \in CandidateRecords
    <3>1. kind \in {"entry", "profile"} /\ target \in Targets \cup {None}
      BY Apart, SettingsAssumption DEF StoreTypes, Targets
    <3>2. at[p].plan.id \in 0..MaxDecisions
      BY <1>2, Apart, BoundsAssumption DEF CuratorAt, Plans, Decided
    <3> QED BY <1>1, <3>1, <3>2 DEF CandidateRecords
  <2> QED BY <1>1, <1>2, <2>1, IdentityAssumption
<1>5. candidate'[c] = staged /\ \A e \in Candidates \ {c} : candidate'[e] = candidate[e]
    BY <1>2, <1>3, Apart DEF StoreTypes
<1>6. /\ \A o \in Observations : Same(o) \/ (pc[p] # "idle" /\ o = at[p].on)
      /\ \A k \in 1..Len(at[p].plan.actions) :
            k # at[p].k => candidate'[<<at[p].on, k>>] = candidate[<<at[p].on, k>>]
    BY <1>1, <1>2, <1>5, SameElsewhere
<1>7. Carrying(p)'
  <2>1. CASE Goto(p, "accept") /\ UNCHANGED at
    BY <1>1, <1>2, <1>3, <1>4, <1>5, <1>6, <2>1, GotoCarries
  <2>2. CASE ~AutoAccept /\ NextAction(p)
    BY <1>1, <1>2, <1>3, <1>4, <1>5, <1>6, <2>2, NextCarries
  <2> QED BY <2>1, <2>2 DEF Stage
<1>8. \A a \in Actors \ {p} : pc'[a] = pc[a] /\ at'[a] = at[a] /\ seen'[a] = seen[a]
    BY <1>2, <1>3 DEF Stage, ActorTypes, Goto, NextAction
<1>9. \A q \in Curators : Carrying(q)'
    BY <1>2, <1>6, <1>7, <1>8, Carried DEF Undisturbed
<1>10. \A r \in Reviewers : pc'[r] = pc[r] /\ seen'[r] = seen[r] /\ at'[r] = at[r]
  <2>1. \A r \in Reviewers : r \in Actors \ {p}
    BY ActorsAssumption DEF Actors
  <2> QED BY <1>8, <2>1
<1>11. ~Accepted(c) /\ ~Accepted(c)'
    BY <1>2, <1>4, <1>5 DEF Accepted
<1>12. Once' /\ Facts'
    BY <1>2, <1>5, <1>10, <1>11, OnceKept, FactsStay DEF Undisturbed
<1>13. ASSUME NEW e \in Candidates PROVE StagedFrom(e)'
  <2>1. KnownEntries' = KnownEntries
    BY <1>2 DEF KnownEntries, Known
  <2>2. CASE e = c
    <3>1. c[1] = at[p].on /\ c[2] = at[p].k /\ TheAction(p) = at[p].plan.actions[c[2]]
      BY <1>1 DEF TheCandidate, TheAction
    <3> QED BY <1>2, <1>3, <1>4, <1>5, <2>1, <2>2, <3>1 DEF StagedFrom
  <2>3. CASE e # c
    BY <1>2, <1>5, <2>1, <2>3, StagedKept DEF Undisturbed
  <2> QED BY <2>2, <2>3
<1> QED BY <1>9, <1>12, <1>13 DEF Undisturbed

\* A candidate that is accepted for item x becomes the only source of x, or the last one.
LEMMA HomesAdded ==
    ASSUME NEW s \in Seq(Candidates), NEW x, Homes(s, x), NEW c \in Candidates, ~Accepted(c),
           \A e \in Candidates \ {c} : candidate'[e] = candidate[e],
           Accepted(c)', candidate'[c].target = x
    PROVE  Homes(Append(s, c), x)' /\ Homes(<<c>>, x)'
<1>1. Homes(s, x)' /\ \A i \in DOMAIN s : s[i] # c
    BY HomesKept
<1>2. PICK t : t = Append(s, c)
    OBVIOUS
<1>3. /\ DOMAIN t = 1..(Len(s) + 1) /\ DOMAIN s = 1..Len(s) /\ Len(s) \in Nat
      /\ \A i \in 1..Len(s) : t[i] = s[i]
      /\ t[Len(s) + 1] = c
    BY <1>2
<1>4. \A i \in DOMAIN t : i \in DOMAIN s \/ i = Len(s) + 1
    BY <1>3
<1>5. Homes(t, x)'
  <2> SUFFICES ASSUME NEW i \in DOMAIN t
               PROVE  /\ Accepted(t[i])' /\ candidate'[t[i]].target = x
                      /\ \A j \in DOMAIN t : t[i] = t[j] => i = j
    BY DEF Homes
  <2>1. Accepted(t[i])' /\ candidate'[t[i]].target = x
    <3>1. CASE i \in DOMAIN s
      <4>1. t[i] = s[i]
        BY <1>3, <3>1
      <4> QED BY <1>1, <3>1, <4>1 DEF Homes, Accepted
    <3>2. CASE i = Len(s) + 1
      BY <1>3, <3>2 DEF Accepted
    <3> QED BY <1>4, <3>1, <3>2
  <2>2. \A j \in DOMAIN t : t[i] = t[j] => i = j
    BY <1>1, <1>3, <1>4 DEF Homes
  <2> QED BY <2>1, <2>2
<1>6. Homes(<<c>>, x)'
  <2>1. <<c>>[1] = c /\ DOMAIN <<c>> = {1}
    OBVIOUS
  <2> QED BY <2>1 DEF Homes, Accepted
<1> QED BY <1>2, <1>5, <1>6

\* The candidate of a curator goes into an item that is there, or into one of its own.
LEMMA CommitFacts ==
    ASSUME MemoryInv, Undisturbed, NEW p \in Curators, AcceptCommits(p),
           NEW c, c = TheCandidate(p)
    PROVE  /\ c \in Candidates /\ c \notin Proposals /\ candidate[c] # None /\ ~Accepted(c)
           /\ candidate[c].action \in {"create", "update"} /\ Accepted(c)'
           /\ candidate'[c].action = candidate[c].action
           /\ candidate'[c].kind = candidate[c].kind /\ candidate'[c].plan = candidate[c].plan
           /\ \A e \in Candidates \ {c} : candidate'[e] = candidate[e]
           /\ LET x == candidate'[c].target IN
              /\ DOMAIN items' = Known \cup {x}
              /\ \A y \in Known \ {x} : items'[y] = items[y]
              /\ candidate[c].action = "create" => items'[x] = <<c>>
              /\ candidate[c].action = "update" => /\ x \in KnownEntries
                                                   /\ items'[x] = Append(items[x], c)
              /\ candidate[c].kind = "profile" => x \in Observations /\ candidate[c].action = "create"
              /\ candidate[c].kind = "entry" => x \notin Observations
<1>1. /\ pc[p] = "commit" /\ HasAction(p) /\ pc[p] \in Decided
      /\ Transaction(c, seen[p], None)
    BY Apart DEF AcceptCommits, CuratorAt, Decided
<1>2. PICK read : read = candidate[c]
    OBVIOUS
<1>3. /\ c \in Candidates /\ c \notin Proposals /\ seen[p] = read /\ Copy(c, read)
      /\ read.state = "pending" /\ StagedFrom(c) /\ StoreTypes
    BY <1>1, <1>2, AtAction, Apart DEF Carrying, CuratorAt
<1>4. /\ read \in CandidateRecords /\ read # None /\ read.kind \in {"entry", "profile"}
      /\ \/ read.action = "create"
         \/ read.action = "update" /\ read.kind = "entry" /\ read.target \in KnownEntries
    BY <1>2, <1>3, IdentityAssumption DEF Copy, CandidateRecords, StagedFrom
<1>5. PICK x : x = Destination(c, read, None)
    OBVIOUS
<1>6. /\ read.action = "create" => x = IF read.kind = "profile" THEN c[1] ELSE entries + 1
      /\ read.action = "update" => x = read.target
    BY <1>5 DEF Destination, NewItem
<1>7. c[1] \in Observations /\ entries + 1 \notin Observations
    BY <1>3, IdentityAssumption DEF Candidates, StoreTypes
<1>8. PICK new : new = [read EXCEPT !.state = "accepted", !.target = x]
    OBVIOUS
<1>9. /\ items' = IF read.action = "create" THEN With(x, <<c>>) ELSE With(x, Append(items[x], c))
      /\ candidate' = [candidate EXCEPT ![c] = new]
  <2>1. read.action = "update" => Finds(read, x)
    BY <1>4, <1>6 DEF Finds, KnownEntries
  <2>2. /\ read.action = "create" \/ read.action = "update"
        /\ read.action = "create" => read.action # "delete"
    BY <1>4
  <2> QED BY <1>1, <1>3, <1>4, <1>5, <1>8, <2>1 DEF Transaction, Merged
<1>10. /\ new.state = "accepted" /\ new.target = x /\ new.action = read.action
       /\ new.kind = read.kind /\ new.plan = read.plan /\ new # None
  <2>1. x \in Targets
    BY <1>3, <1>4, <1>6, <1>7 DEF StoreTypes, Targets, KnownEntries
  <2>2. new \in CandidateRecords
    BY <1>4, <1>8, <2>1 DEF CandidateRecords
  <2> QED BY <1>4, <1>8, <2>2, IdentityAssumption DEF CandidateRecords
<1>11. candidate'[c] = new /\ \A e \in Candidates \ {c} : candidate'[e] = candidate[e]
    BY <1>3, <1>9 DEF StoreTypes
<1>12. /\ DOMAIN items' = Known \cup {x}
       /\ \A y \in Known \ {x} : items'[y] = items[y]
       /\ items'[x] = IF read.action = "create" THEN <<c>> ELSE Append(items[x], c)
    BY <1>9 DEF With
<1>13. ~Accepted(c) /\ Accepted(c)'
    BY <1>2, <1>3, <1>10, <1>11 DEF Accepted
<1>14. /\ read.action = "update" => x \in KnownEntries /\ x \notin Observations
       /\ read.kind = "profile" => x \in Observations /\ read.action = "create"
       /\ read.kind = "entry" => x \notin Observations
    BY <1>4, <1>6, <1>7 DEF KnownEntries
<1> QED BY <1>2, <1>3, <1>4, <1>10, <1>11, <1>12, <1>13, <1>14

LEMMA AcceptCommitsUndisturbed ==
    ASSUME MemoryInv, Undisturbed, NEW p \in Curators, AcceptCommits(p)
    PROVE  Undisturbed'
<1>1. /\ pc[p] = "commit" /\ HasAction(p) /\ NextAction(p) /\ seen' = [seen EXCEPT ![p] = None]
      /\ UNCHANGED <<observation, plan, spent>>
    BY Apart DEF AcceptCommits, CuratorAt
<1>2. PICK c, x : c = TheCandidate(p) /\ x = candidate'[c].target
    OBVIOUS
<1>3. /\ c \in Candidates /\ c \notin Proposals /\ candidate[c] # None /\ ~Accepted(c)
      /\ candidate[c].action \in {"create", "update"} /\ Accepted(c)'
      /\ candidate'[c].action = candidate[c].action
      /\ candidate'[c].kind = candidate[c].kind /\ candidate'[c].plan = candidate[c].plan
      /\ \A e \in Candidates \ {c} : candidate'[e] = candidate[e]
    BY <1>2, CommitFacts
<1>4. /\ DOMAIN items' = Known \cup {x}
      /\ \A y \in Known \ {x} : items'[y] = items[y]
      /\ candidate[c].action = "create" => items'[x] = <<c>>
      /\ candidate[c].action = "update" => /\ x \in KnownEntries
                                           /\ items'[x] = Append(items[x], c)
      /\ candidate[c].kind = "profile" => x \in Observations /\ candidate[c].action = "create"
      /\ candidate[c].kind = "entry" => x \notin Observations
    BY <1>2, CommitFacts
<1>5. /\ \A a \in Actors \ {p} : pc'[a] = pc[a] /\ at'[a] = at[a] /\ seen'[a] = seen[a]
      /\ \A r \in Reviewers : pc'[r] = pc[r] /\ at'[r] = at[r] /\ seen'[r] = seen[r]
  <2>1. \A r \in Reviewers : r \in Actors \ {p}
    BY ActorsAssumption DEF Actors
  <2>2. \A a \in Actors \ {p} : pc'[a] = pc[a] /\ at'[a] = at[a] /\ seen'[a] = seen[a]
    BY <1>1, Apart DEF ActorTypes, Goto, NextAction
  <2> QED BY <2>1, <2>2
<1>6. Once'
  <2>1. ASSUME NEW y \in Known' PROVE Homes(items[y], y)'
    <3>1. PICK s, t : s = items[y] /\ t = items'[y]
      OBVIOUS
    <3>2. y \in Known => s \in Seq(Candidates) /\ Homes(s, y)
      BY <3>1, Apart DEF Undisturbed, Once, StoreTypes
    <3>3. CASE y # x
      <4>1. y \in Known /\ t = s
        BY <1>4, <2>1, <3>1, <3>3 DEF Known
      <4>2. Homes(s, y)'
        BY <1>3, <3>2, <4>1, HomesKept
      <4> QED BY <3>1, <4>1, <4>2 DEF Homes
    <3>4. CASE y = x /\ candidate[c].action = "create"
      <4>1. << >> \in Seq(Candidates) /\ Homes(<< >>, y)
        BY DEF Homes
      <4>2. Homes(<<c>>, y)'
        BY <1>2, <1>3, <3>4, <4>1, HomesAdded
      <4>3. t = <<c>>
        BY <1>4, <3>1, <3>4
      <4> QED BY <3>1, <4>2, <4>3 DEF Homes
    <3>5. CASE y = x /\ candidate[c].action = "update"
      <4>1. y \in Known /\ t = Append(s, c)
        BY <1>4, <3>1, <3>5 DEF KnownEntries
      <4>2. Homes(Append(s, c), y)'
        BY <1>2, <1>3, <3>2, <3>5, <4>1, HomesAdded
      <4> QED BY <3>1, <4>1, <4>2 DEF Homes
    <3> QED BY <1>3, <3>3, <3>4, <3>5
  <2>2. ASSUME NEW r \in Reviewers, pc'[r] = "save" PROVE Homes(seen[r], at[r].target)'
    <3>1. PICK s, y : s = seen[r] /\ y = at[r].target
      OBVIOUS
    <3>2. s \in Seq(Candidates) /\ Homes(s, y)
      BY <1>5, <2>2, <3>1, Apart DEF Undisturbed, Once, ReviewerAt
    <3>3. Homes(s, y)'
      BY <1>3, <3>2, HomesKept
    <3>4. seen'[r] = s /\ at'[r].target = y
      BY <1>5, <3>1
    <3> QED BY <3>3, <3>4 DEF Homes
  <2> QED BY <2>1, <2>2 DEF Once
<1>7. Facts'
  <2>1. ASSUME NEW o \in Known' \cap Observations
        PROVE  \E d \in Candidates : /\ items'[o] = <<d>> /\ Accepted(d)'
                                    /\ candidate'[d].action = "create" /\ candidate'[d].target = o
    <3>1. CASE o = x
      <4>1. candidate[c].action = "create"
        BY <1>3, <1>4, <3>1 DEF KnownEntries
      <4> QED BY <1>2, <1>3, <1>4, <3>1, <4>1
    <3>2. CASE o # x
      <4>1. o \in Known /\ items'[o] = items[o]
        BY <1>4, <3>2 DEF Known
      <4>2. PICK d \in Candidates : /\ items[o] = <<d>> /\ Accepted(d)
                                   /\ candidate[d].action = "create" /\ candidate[d].target = o
        BY <4>1 DEF Undisturbed, Facts
      <4>3. candidate'[d] = candidate[d]
        BY <1>3, <4>2
      <4> QED BY <4>1, <4>2, <4>3 DEF Accepted
    <3> QED BY <3>1, <3>2
  <2>2. ASSUME NEW e \in Candidates, Accepted(e)', candidate'[e].kind = "profile"
        PROVE  candidate'[e].target \in Observations
    <3>1. CASE e = c
      BY <1>2, <1>3, <1>4, <2>2, <3>1
    <3>2. CASE e # c
      BY <1>3, <2>2, <3>2 DEF Undisturbed, Facts, Accepted
    <3> QED BY <3>1, <3>2
  <2> QED BY <2>1, <2>2 DEF Facts
<1>8. ASSUME NEW e \in Candidates PROVE StagedFrom(e)'
  <2>1. KnownEntries \subseteq KnownEntries'
    BY <1>4 DEF KnownEntries, Known
  <2>2. CASE e = c
    <3>1. candidate'[c].state = "accepted"
      BY <1>3 DEF Accepted
    <3>2. candidate[c].action = "update" => candidate[c].kind = "entry"
      BY <1>3 DEF Undisturbed, StagedFrom
    <3> QED BY <1>1, <1>2, <1>3, <1>4, <2>1, <2>2, <3>1, <3>2 DEF Undisturbed, StagedFrom
  <2>3. CASE e # c
    BY <1>1, <1>3, <2>1, <2>3, StagedKept DEF Undisturbed
  <2> QED BY <2>2, <2>3
<1>9. /\ \A o \in Observations : Same(o) \/ (pc[p] # "idle" /\ o = at[p].on)
      /\ \A k \in 1..Len(at[p].plan.actions) :
            k # at[p].k => candidate'[<<at[p].on, k>>] = candidate[<<at[p].on, k>>]
    BY <1>1, <1>2, <1>3, SameElsewhere
<1>10. Carrying(p)'
  <2>1. PICK d : d = candidate'[TheCandidate(p)]
    OBVIOUS
  <2>2. /\ d # None /\ d.plan = at[p].plan.id /\ d.state = "accepted"
        /\ TheAction(p).action # "ignore" /\ Carrying(p)
    BY <1>1, <1>2, <1>3, <2>1, AtAction DEF Accepted
  <2> QED BY <1>1, <1>9, <2>1, <2>2, NextCarries
<1>11. \A q \in Curators : Carrying(q)'
    BY <1>1, <1>5, <1>9, <1>10, Carried DEF Undisturbed
<1> QED BY <1>6, <1>7, <1>8, <1>11 DEF Undisturbed

\* A user that edits an entry holds its sources, and saves them into the same entry.
LEMMA EditorUndisturbed ==
    ASSUME MemoryInv, Undisturbed, NEW r \in Reviewers,
           \A a \in Actors \ {r} : pc'[a] = pc[a] /\ at'[a] = at[a] /\ seen'[a] = seen[a],
           UNCHANGED <<observation, plan, candidate>>, KnownEntries \subseteq KnownEntries',
           Once', Facts', spent'.refusals = 0 => spent.refusals = 0
    PROVE  Undisturbed'
<1>1. ASSUME NEW c \in Candidates PROVE StagedFrom(c)'
    BY StagedKept DEF Undisturbed
<1>2. ASSUME NEW q \in Curators PROVE Carrying(q)'
  <2>1. q \in Actors \ {r}
    BY Apart
  <2>2. pc'[q] = pc[q] /\ at'[q] = at[q] /\ seen'[q] = seen[q]
    BY <2>1
  <2>3. Same(at[q].on)
    BY DEF Same
  <2> QED BY <2>2, <2>3, CarryingKept DEF Undisturbed
<1> QED BY <1>1, <1>2 DEF Undisturbed

LEMMA EntryReadsUndisturbed ==
    ASSUME MemoryInv, Undisturbed, NEW r \in Reviewers, NEW e \in KnownEntries, EntryReads(r, e)
    PROVE  Undisturbed'
<1>1. /\ ActorTypes /\ r \in Actors /\ Spend("edits") /\ seen' = [seen EXCEPT ![r] = items[e]]
      /\ at' = [at EXCEPT ![r].target = e] /\ Goto(r, "save") /\ UNCHANGED <<memory, lock, listed>>
    BY Apart DEF EntryReads
<1>2. /\ \A a \in Actors \ {r} : pc'[a] = pc[a] /\ at'[a] = at[a] /\ seen'[a] = seen[a]
      /\ seen'[r] = items[e] /\ at'[r].target = e
    BY <1>1 DEF ActorTypes, Goto, Places
<1>3. Once'
  <2>1. ASSUME NEW q \in Reviewers, pc'[q] = "save" PROVE Homes(seen[q], at[q].target)'
    <3>1. CASE q = r
      <4>1. PICK s : s = items[e]
        OBVIOUS
      <4>2. Homes(s, e)
        BY <4>1 DEF Undisturbed, Once, KnownEntries
      <4>3. Homes(s, e)'
        BY <1>1, <4>2 DEF Homes, Accepted, memory
      <4>4. seen'[q] = s /\ at'[q].target = e
        BY <1>2, <3>1, <4>1
      <4> QED BY <4>3, <4>4 DEF Homes
    <3>2. CASE q # r
      <4>1. pc'[q] = pc[q] /\ at'[q] = at[q] /\ seen'[q] = seen[q]
        BY <1>2, <3>2, Apart
      <4>2. PICK s, x : s = seen[q] /\ x = at[q].target
        OBVIOUS
      <4>3. Homes(s, x)
        BY <2>1, <4>1, <4>2 DEF Undisturbed, Once
      <4>4. Homes(s, x)'
        BY <1>1, <4>3 DEF Homes, Accepted, memory
      <4>5. seen'[q] = s /\ at'[q].target = x
        BY <4>1, <4>2
      <4> QED BY <4>4, <4>5 DEF Homes
    <3> QED BY <3>1, <3>2
  <2>2. \A x \in Known' : Homes(items[x], x)'
    BY <1>1 DEF Undisturbed, Once, Homes, Accepted, Known, memory
  <2> QED BY <2>1, <2>2 DEF Once
<1>4. Facts'
    BY <1>1 DEF Undisturbed, Facts, Known, Accepted, memory
<1>5. spent'.refusals = 0 => spent.refusals = 0
    BY <1>1, RefusalsCount DEF Bounds
<1> QED BY <1>1, <1>2, <1>3, <1>4, <1>5, EditorUndisturbed DEF memory, KnownEntries, Known

LEMMA EntrySavesUndisturbed ==
    ASSUME MemoryInv, Undisturbed, NEW r \in Reviewers, EntrySaves(r)
    PROVE  Undisturbed'
<1>1. /\ ActorTypes /\ ReviewerAt(r) /\ r \in Actors /\ pc[r] = "save" /\ Rests(r)
      /\ items' = With(at[r].target, seen[r])
      /\ UNCHANGED <<observation, plan, candidate, entries, lock, listed, spent>>
    BY Apart DEF EntrySaves
<1>2. PICK s, e : s = seen[r] /\ e = at[r].target
    OBVIOUS
<1>3. /\ e \in Nat /\ e \notin Observations /\ Homes(s, e)
      /\ DOMAIN items' = Known \cup {e} /\ items'[e] = s
      /\ \A y \in Known \ {e} : items'[y] = items[y]
  <2>1. e \in 1..entries /\ Homes(s, e)
    BY <1>1, <1>2 DEF ReviewerAt, Undisturbed, Once
  <2> QED BY <1>1, <1>2, <2>1, Apart, IdentityAssumption DEF StoreTypes, With
<1>4. /\ \A a \in Actors \ {r} : pc'[a] = pc[a] /\ at'[a] = at[a] /\ seen'[a] = seen[a]
      /\ pc'[r] = "idle"
    BY <1>1 DEF ActorTypes, Goto, Rests
<1>5. Once'
  <2>1. ASSUME NEW q \in Reviewers, pc'[q] = "save" PROVE Homes(seen[q], at[q].target)'
    <3>1. q # r
      BY <1>4, <2>1
    <3>2. pc'[q] = pc[q] /\ at'[q] = at[q] /\ seen'[q] = seen[q]
      BY <1>4, <3>1, Apart
    <3> QED BY <1>1, <2>1, <3>2 DEF Undisturbed, Once, Homes, Accepted
  <2>2. ASSUME NEW x \in Known' PROVE Homes(items[x], x)'
    <3>1. CASE x = e
      BY <1>1, <1>3, <3>1 DEF Homes, Accepted
    <3>2. CASE x # e
      <4>1. x \in Known /\ items'[x] = items[x]
        BY <1>3, <2>2, <3>2 DEF Known
      <4> QED BY <1>1, <4>1 DEF Undisturbed, Once, Homes, Accepted
    <3> QED BY <3>1, <3>2
  <2> QED BY <2>1, <2>2 DEF Once
<1>6. Facts'
  <2>1. \A o \in Known' \cap Observations : o \in Known \cap Observations /\ items'[o] = items[o]
    BY <1>3 DEF Known
  <2> QED BY <1>1, <2>1 DEF Undisturbed, Facts, Accepted
<1>7. KnownEntries \subseteq KnownEntries'
    BY <1>3 DEF KnownEntries, Known
<1> QED BY <1>1, <1>4, <1>5, <1>6, <1>7, EditorUndisturbed

LEMMA CuratesUndisturbed ==
    ASSUME MemoryInv, Undisturbed, NEW p \in Curators, Curates(p) PROVE Undisturbed'
<1>1. CASE \E o \in Observations : RunOnce(p, o)
    BY <1>1, RunOnceUndisturbed
<1>2. CASE \E actions \in Batches : Decide(p, actions)
    BY <1>2, DecideUndisturbed
<1>3. CASE \E action \in {"create", "update"}, kind \in Kinds \cup {"entry"},
              target \in KnownEntries \cup {None} : Stage(p, action, kind, target)
    BY <1>3, StageUndisturbed
<1> QED BY <1>1, <1>2, <1>3, ReadUndisturbed, PassOverUndisturbed, DeferUndisturbed,
           IgnoreUndisturbed, FindStagedUndisturbed, AcceptReadsUndisturbed,
           AcceptCommitsUndisturbed, AcceptRaisesUndisturbed, MarkProcessedUndisturbed,
           CompletePlanUndisturbed DEF Curates

LEMMA InitUndisturbed == Init => Undisturbed
<1> SUFFICES ASSUME Init PROVE Undisturbed
    OBVIOUS
<1>1. PICK known \in 0..1 : items = [e \in 1..known |-> << >>]
    BY DEF Init
<1>2. Known = 1..known /\ \A e \in Known : items[e] = << >> /\ e \in Nat
    BY <1>1 DEF Known
<1>3. \A c \in Candidates : candidate[c] = None
    BY DEF Init
<1>4. \A a \in Actors : pc[a] = "idle"
    BY DEF Init
<1>5. Once
    BY <1>2, <1>4 DEF Once, Homes, Actors
<1>6. Facts
    BY <1>2, <1>3, IdentityAssumption DEF Facts, Accepted
<1>7. \A c \in Candidates : StagedFrom(c)
    BY <1>3 DEF StagedFrom
<1>8. \A p \in Curators : Carrying(p)
    BY <1>4 DEF Carrying, Decided, Actors
<1> QED BY <1>5, <1>6, <1>7, <1>8 DEF Undisturbed

\* What users have done is counted.
LEMMA ReviewsCount ==
    ASSUME MemoryInv, NEW b \in Bounds, Spend(b)
    PROVE  /\ b \in {"reviews", "discards"} => ~Unattended'
           /\ Unattended' => Unattended
<1>1. ActorTypes /\ {"reviews", "discards"} \subseteq Bounds
    BY Apart DEF Bounds
<1>2. /\ \A a \in Bounds : spent[a] \in Nat /\ spent'[a] \in Nat /\ spent'[a] >= spent[a]
      /\ spent'[b] = spent[b] + 1
    BY <1>1, SpendFacts DEF ActorTypes
<1>3. b \in {"reviews", "discards"} => spent'[b] # 0
    BY <1>2
<1>4. /\ spent'["reviews"] = 0 => spent["reviews"] = 0
      /\ spent'["discards"] = 0 => spent["discards"] = 0
    BY <1>1, <1>2
<1> QED BY <1>3, <1>4 DEF Unattended

LEMMA SpendsOrNot == [Next]_vars => spent' = spent \/ \E b \in Bounds : Spend(b)
<1> SUFFICES ASSUME [Next]_vars PROVE spent' = spent \/ \E b \in Bounds : Spend(b)
    OBVIOUS
<1>1. {"decisions", "deferrals", "reviews", "discards", "edits", "crashes", "refusals"} = Bounds
    BY DEF Bounds
<1>2. ASSUME NEW o \in Observations, Observe(o) \/ Discard(o)
      PROVE  spent' = spent \/ \E b \in Bounds : Spend(b)
    BY <1>1, <1>2 DEF Observe, Discard
<1>3. ASSUME NEW p \in Curators, Curates(p)
      PROVE  spent' = spent \/ \E b \in Bounds : Spend(b)
  <2>1. CASE \E o \in Observations : RunOnce(p, o)
    BY <2>1 DEF RunOnce
  <2>2. CASE Read(p) \/ PassOver(p) \/ Ignore(p) \/ FindStaged(p) \/ AcceptReads(p)
             \/ AcceptCommits(p) \/ MarkProcessed(p) \/ CompletePlan(p)
    BY <2>2 DEF Read, PassOver, Ignore, FindStaged, AcceptReads, AcceptCommits, MarkProcessed,
                CompletePlan
  <2>3. CASE Defer(p) \/ AcceptRaises(p) \/ \E actions \in Batches : Decide(p, actions)
    BY <1>1, <2>3 DEF Defer, AcceptRaises, Decide
  <2>4. CASE \E action \in {"create", "update"}, kind \in Kinds \cup {"entry"},
                target \in KnownEntries \cup {None} : Stage(p, action, kind, target)
    BY <2>4 DEF Stage
  <2> QED BY <1>3, <2>1, <2>2, <2>3, <2>4 DEF Curates
<1>4. ASSUME NEW p \in Curators, List(p) \/ CrashCurator(p)
      PROVE  spent' = spent \/ \E b \in Bounds : Spend(b)
    BY <1>1, <1>4 DEF List, CrashCurator
<1>5. ASSUME NEW r \in Reviewers, ReviewCommits(r) \/ Rewrites(r) \/ EntrySaves(r)
      PROVE  spent' = spent
    BY <1>5 DEF ReviewCommits, Rewrites, EntrySaves
<1>6. CASE \E r \in Reviewers, e \in KnownEntries : EntryReads(r, e)
    BY <1>1, <1>6 DEF EntryReads
<1>7. CASE \E r \in Reviewers, c \in Candidates, step \in {"commit", "reject", "edit"},
              target \in Known \cup {None} : ReviewReads(r, c, step, target)
    BY <1>1, <1>7 DEF ReviewReads
<1>8. CASE \/ AddEntry \/ \E c \in Candidates : DeleteCandidate(c)
           \/ \E x \in Known : DeleteItem(x)
           \/ \E c \in Proposals, action \in {"update", "delete"}, kind \in Kinds,
                 e \in KnownEntries : Optimize(c, action, kind, e)
    BY <1>1, <1>8 DEF AddEntry, DeleteCandidate, DeleteItem, Optimize
<1>9. CASE UNCHANGED vars
    BY <1>9 DEF vars
<1> QED BY <1>2, <1>3, <1>4, <1>5, <1>6, <1>7, <1>8, <1>9 DEF Next

\* While nobody reviews, memory is undisturbed.
CurationInv == Unattended => Undisturbed

LEMMA StepCuration == MemoryInv /\ CurationInv /\ [Next]_vars => CurationInv'
<1> SUFFICES ASSUME MemoryInv, CurationInv, [Next]_vars, Unattended' PROVE Undisturbed'
    BY DEF CurationInv
<1>1. Unattended
  <2>1. CASE spent' = spent
    BY <2>1 DEF Unattended
  <2>2. CASE \E b \in Bounds : Spend(b)
    BY <2>2, ReviewsCount
  <2> QED BY <2>1, <2>2, SpendsOrNot
<1>2. Undisturbed
    BY <1>1 DEF CurationInv
<1>3. ~Spend("reviews") /\ ~Spend("discards")
    BY ReviewsCount DEF Bounds
<1>4. \A r \in Reviewers : pc[r] \notin Reviewing
    BY <1>1, Apart DEF ReviewerAt, Unattended
<1>5. CASE \E o \in Observations : Observe(o) \/ Discard(o)
    BY <1>2, <1>3, <1>5, ObserveUndisturbed DEF Discard
<1>6. CASE \E p \in Curators : List(p) \/ Curates(p) \/ CrashCurator(p)
    BY <1>2, <1>6, ListUndisturbed, CuratesUndisturbed, CrashUndisturbed
<1>7. CASE \E r \in Reviewers, c \in Candidates, step \in {"commit", "reject", "edit"},
              target \in Known \cup {None} : ReviewReads(r, c, step, target)
    BY <1>3, <1>7 DEF ReviewReads
<1>8. CASE \E r \in Reviewers : ReviewCommits(r) \/ Rewrites(r) \/ EntrySaves(r)
    BY <1>2, <1>4, <1>8, EntrySavesUndisturbed DEF ReviewCommits, Rewrites, Reviewing
<1>9. CASE \E r \in Reviewers, e \in KnownEntries : EntryReads(r, e)
    BY <1>2, <1>9, EntryReadsUndisturbed
<1>10. CASE \/ AddEntry \/ \E c \in Candidates : DeleteCandidate(c)
            \/ \E x \in Known : DeleteItem(x)
            \/ \E c \in Proposals, action \in {"update", "delete"}, kind \in Kinds,
                  e \in KnownEntries : Optimize(c, action, kind, e)
    BY <1>3, <1>10 DEF AddEntry, DeleteCandidate, DeleteItem, Optimize
<1>11. CASE UNCHANGED vars
  <2>1. UNCHANGED <<observation, plan, candidate, items, pc, at, seen, spent>>
    BY <1>11 DEF vars, memory, actors
  <2> QED BY <1>2, <2>1, ArrivalUndisturbed
<1> QED BY <1>5, <1>6, <1>7, <1>8, <1>9, <1>10, <1>11 DEF Next

\* As long as no user reviews candidates or discards plans, the store and the curators agree
\* on every plan: a candidate belongs to the stored plan of its observation, a curator works
\* on that plan and has staged and accepted what it came past, and memory holds each
\* candidate once, in the item it was accepted for, however many curators died in between.
THEOREM PlansCarriedOut == Spec => []CurationInv
<1>1. Init => CurationInv
    BY InitUndisturbed DEF CurationInv
<1> QED BY <1>1, StepCuration, CopiesFit, PTL DEF Spec

LEMMA CandidatesOnce == MemoryInv /\ CurationInv => AppliedOnce
<1> SUFFICES ASSUME MemoryInv, Undisturbed, NEW c \in Candidates
             PROVE  Cardinality(Occurrences(c)) <= 1
    BY DEF CurationInv, AppliedOnce
<1>1. ASSUME NEW a \in Occurrences(c), NEW b \in Occurrences(c) PROVE a = b
  <2>1. PICK x, i : x \in Known /\ i \in DOMAIN items[x] /\ a = <<x, i>> /\ items[x][i] = c
    BY DEF Occurrences
  <2>2. PICK y, j : y \in Known /\ j \in DOMAIN items[y] /\ b = <<y, j>> /\ items[y][j] = c
    BY DEF Occurrences
  <2>3. x = y
    BY <2>1, <2>2 DEF Undisturbed, Once, Homes
  <2> QED BY <2>1, <2>2, <2>3 DEF Undisturbed, Once, Homes
<1>2. CASE Occurrences(c) = {}
    BY <1>2, FS_EmptySet
<1>3. CASE Occurrences(c) # {}
  <2>1. PICK a \in Occurrences(c) : TRUE
    BY <1>3
  <2>2. Occurrences(c) = {a}
    BY <1>1, <2>1
  <2> QED BY <2>2, FS_Singleton
<1> QED BY <1>2, <1>3

LEMMA NothingUndone == MemoryInv /\ CurationInv => CarriedOut
<1> SUFFICES ASSUME MemoryInv, Undisturbed, NEW p \in Curators, pc[p] = "complete",
                    NEW k \in 1..Len(at[p].plan.actions)
             PROVE  LET done == at[p].plan  a == done.actions[k]
                        c == candidate[<<at[p].on, k>>]
                    IN  /\ a.action = "create" => c # None
                        /\ c # None => c.plan = done.id
                              /\ (AutoAccept /\ spent.refusals = 0 => c.state = "accepted")
    BY DEF CurationInv, CarriedOut
<1>1. Undertaken(p, k) /\ ~HasAction(p)
    BY DEF Undisturbed, Carrying, Decided
<1>2. at[p].k \in Nat /\ Len(at[p].plan.actions) \in Nat
    BY Apart DEF CuratorAt, Decided, Plans, ActorTypes, Places
<1>3. k < at[p].k
    BY <1>1, <1>2 DEF HasAction
<1> QED BY <1>1, <1>3 DEF Undertaken

LEMMA AcceptedStays == MemoryInv /\ CurationInv => AcceptedIsKept
<1> SUFFICES ASSUME MemoryInv, CurationInv, NEW c \in Candidates, spent.edits = 0, Accepted(c),
                    OnlyFact(c), candidate[c].target \in Known
             PROVE  Contains(items[candidate[c].target], c)
    BY DEF AcceptedIsKept
<1>1. Copy(c, candidate[c]) /\ candidate[c].state = "accepted"
    BY DEF MemoryInv, Accepted
<1>2. CASE candidate[c].kind = "entry"
    BY <1>1, <1>2 DEF Copy
<1>3. CASE candidate[c].kind = "profile"
  <2>1. Unattended /\ Undisturbed
    BY <1>3 DEF OnlyFact, CurationInv
  <2>2. PICK o \in Observations : o = candidate[c].target
    BY <1>3, <2>1 DEF Undisturbed, Facts
  <2>3. PICK d \in Candidates : /\ items[o] = <<d>> /\ Accepted(d)
                               /\ candidate[d].action = "create" /\ candidate[d].target = o
    BY <2>1, <2>2 DEF Undisturbed, Facts
  <2>4. d = c
    BY <1>3, <2>2, <2>3 DEF OnlyFact
  <2> QED BY <2>2, <2>3, <2>4, SingleContains
<1> QED BY <1>1, <1>2, <1>3 DEF Copy, CandidateRecords

\* Curation is safe whatever dies and whoever else works on memory: a candidate goes into
\* memory once, a processed observation left nothing of its plan undone, and what was accepted
\* stays in its item.
THEOREM CurationIsSafe == Spec => []CurationSafe
<1>1. MemoryInv => TypeOK
    BY DEF MemoryInv, StoreTypes, ActorTypes, TypeOK, Known, CuratorSteps, ReviewerSteps, Decided,
           Reviewing
<1>2. MemoryInv /\ CurationInv => CurationSafe
    BY <1>1, CandidatesOnce, NothingUndone, AcceptedStays DEF CurationSafe
<1> QED BY <1>2, CopiesFit, PlansCarriedOut, PTL
=============================================================================
