-------------------------- MODULE LiveActivityProofs --------------------------
(***************************************************************************)
(* Proofs about a turn of the REPL and the log beneath it, for any number  *)
(* of events, notes, attempts, faults and interrupts.                      *)
(***************************************************************************)
EXTENDS LiveActivity, FiniteSetTheorems, SequenceTheorems, WellFoundedInduction, TLAPS

-----------------------------------------------------------------------------
(* The types *)

Piece == Records \X {1, 2}
Writings == [step : WriterSteps, record : Records \cup {None}, boundary : Nat]
Cursors == [identity : Nat \cup {None}, offset : Nat, seen : SUBSET Records,
            found : Nat \cup {None}, size : Nat]
Repls == [step : ClientSteps, after : ClientSteps, back : {"loop", "close"},
          exit : {None, "interrupted", "raised"}, attempt : Nat,
          subscribed : BOOLEAN, degraded : BOOLEAN, offer : BOOLEAN,
          before : Records \cup {None}, cursor : Cursors, shown : Seq(Events), since : Nat]
Turns == [step : {"none", "running", "suspended", "done", "dead"}, next : Nat \ {0},
          resumed : BOOLEAN]
Calls == [step : {"none", "started", "listed", "sent", "ending", "finished"},
          result : Results \cup {None}]
Tokens == [cancelled : BOOLEAN, listed : BOOLEAN, taken : BOOLEAN]
Subscriptions == [events : Seq(Events), dropped : Nat]

LogTyped ==
    /\ files \in Seq(Seq(Piece)) /\ Len(files) > 0 /\ exists \in BOOLEAN
    /\ lock \in Writers \cup {None} /\ writer \in [Writers -> Writings]
    /\ outcome \in [Records -> PersistenceOutcomes \cup {None}]

ActivityTyped ==
    /\ turn \in Turns /\ broker \in Subscriptions \cup {None} /\ client \in Repls
    /\ call \in Calls /\ token \in Tokens /\ closes \in Nat
    /\ told \subseteq Events /\ disturbed \in BOOLEAN

Typed == LogTyped /\ ActivityTyped

LEMMA Persons ==
    /\ Daemon \in Writers /\ Client \in Writers /\ Daemon # Client
    /\ Events \subseteq Records /\ Notes \subseteq Records /\ Events \cap Notes = {}
    /\ Events \subseteq Nat /\ Records = Events \cup Notes /\ Writers = {Daemon, Client}
    /\ None \notin Records /\ None \notin Writers /\ None \notin Nat
BY WritersAssumption, RecordsAssumption, NoneAssumption DEF Events

LEMMA Unbegun == Unwritten \in Writings /\ Unwritten.step = "idle" /\ Unwritten.record = None
BY DEF Unwritten, Writings, WriterSteps

-----------------------------------------------------------------------------
(* The steps of the log *)

\* A writer begins to append a record.
Begins(w, r) == Append_(w, r) /\ UNCHANGED <<files, exists, backup, lock, outcome>>

\* It goes on, its append being over.
GoesOn(w) ==
    /\ writer[w].step \in {"returned", "raised"}
    /\ writer' = [writer EXCEPT ![w] = Unwritten]
    /\ UNCHANGED <<files, exists, backup, lock, outcome>>

\* A writer at a step of its own: the record it puts at the end of a file, and what is left of
\* that file without it.
Active_(a, old) ==
    /\ a \in {Len(files), Len(files) + 1}
    /\ old = IF a = Len(files) THEN files[a] ELSE <<>>

Grown(a, old, piece) ==
    /\ Active_(a, old) /\ Len(files') = a /\ files' \in Seq(Seq(Piece))
    /\ files'[a] = Append(old, piece)
    /\ \A id \in DOMAIN files : id # a => files'[id] = files[id]

LEMMA Opened ==
    ASSUME LogTyped, NEW w \in Writers, writer[w].record \in Records, OpenLog(w)
    PROVE  \E a, old : /\ Grown(a, old, <<writer[w].record, 1>>) /\ old \in Seq(Piece)
                       /\ writer' = [writer EXCEPT ![w].step = "half", ![w].boundary = Len(old)]
<1> DEFINE p == <<writer[w].record, 1>>
<1>1. p \in Piece
    BY DEF Piece
<1>2. files \in Seq(Seq(Piece)) /\ Len(files) > 0 /\ Len(files) \in Nat
    BY DEF LogTyped
<1> HIDE DEF p
<1>3. CASE exists
  <2> DEFINE a == Len(files)
             old == files[a]
  <2>1. a \in DOMAIN files /\ old \in Seq(Piece) /\ DOMAIN files = 1..Len(files)
    BY <1>2
  <2>2. files' = [files EXCEPT ![a] = Append(@, p)]
        /\ writer' = [writer EXCEPT ![w].step = "half", ![w].boundary = Len(old)]
    BY <1>3 DEF OpenLog, p
  <2>3. Append(old, p) \in Seq(Piece)
    BY <1>1, <2>1
  <2>4. files' \in Seq(Seq(Piece)) /\ Len(files') = a /\ files'[a] = Append(old, p)
        /\ \A id \in DOMAIN files : id # a => files'[id] = files[id]
    BY <1>2, <2>1, <2>2, <2>3
  <2>5. Grown(a, old, p)
    BY <2>4 DEF Grown, Active_
  <2> QED BY <2>1, <2>2, <2>5 DEF p
<1>4. CASE ~exists
  <2> DEFINE a == Len(files) + 1
             opened == Append(files, <<>>)
  <2>1. opened \in Seq(Seq(Piece)) /\ Len(opened) = a /\ opened[a] = <<>>
        /\ \A id \in DOMAIN files : id # a /\ opened[id] = files[id]
    BY <1>2
  <2>2. files' = [opened EXCEPT ![a] = Append(@, p)]
        /\ writer' = [writer EXCEPT ![w].step = "half", ![w].boundary = Len(opened[a])]
    BY <1>4, <2>1 DEF OpenLog, p
  <2> HIDE DEF opened
  <2>3. PICK new : new = Append(<<>>, p)
    OBVIOUS
  <2>4. new \in Seq(Piece) /\ a \in DOMAIN opened /\ Append(opened[a], p) = new
    BY <1>1, <1>2, <2>1, <2>3
  <2>5. files' = [opened EXCEPT ![a] = new]
    BY <2>2, <2>4
  <2>6. files' \in Seq(Seq(Piece)) /\ Len(files') = a /\ files'[a] = new
        /\ \A id \in DOMAIN files : id # a => files'[id] = files[id]
    <3>1. PICK n : n = Len(files) + 1
      OBVIOUS
    <3>2. /\ opened \in Seq(Seq(Piece)) /\ n \in 1..Len(opened) /\ Len(opened) = n
          /\ files' = [opened EXCEPT ![n] = new] /\ n \in Nat
      BY <1>2, <2>1, <2>4, <2>5, <3>1
    <3>3. files' \in Seq(Seq(Piece)) /\ Len(files') = n /\ files'[n] = new
      BY <2>4, <3>2
    <3>4. \A id \in DOMAIN files : id # n => files'[id] = files[id]
      BY <1>2, <2>1, <3>1, <3>2
    <3> QED BY <3>1, <3>3, <3>4
  <2>7. Grown(a, <<>>, p)
    BY <1>2, <2>3, <2>6 DEF Grown, Active_
  <2>8. <<>> \in Seq(Piece)
    OBVIOUS
  <2> QED BY <2>1, <2>2, <2>7, <2>8 DEF p
<1> QED BY <1>3, <1>4 DEF LogTyped

LEMMA Finished ==
    ASSUME LogTyped, NEW w \in Writers, writer[w].record \in Records, WriteRest(w)
    PROVE  Grown(Active, files[Active], <<writer[w].record, 2>>) /\ files[Active] \in Seq(Piece)
<1> DEFINE p == <<writer[w].record, 2>>
<1>1. p \in Piece
    BY DEF Piece
<1>2. files \in Seq(Seq(Piece)) /\ Active \in DOMAIN files /\ Active = Len(files)
    BY DEF LogTyped, Active
<1>3. files' = [files EXCEPT ![Active] = Append(@, p)]
    BY DEF WriteRest
<1> HIDE DEF p
<1>4. files[Active] \in Seq(Piece) /\ Append(files[Active], p) \in Seq(Piece)
    BY <1>1, <1>2
<1>5. files' \in Seq(Seq(Piece)) /\ Len(files') = Active /\ files'[Active] = Append(files[Active], p)
      /\ \A id \in DOMAIN files : id # Active => files'[id] = files[id]
    BY <1>2, <1>3, <1>4
<1> QED BY <1>2, <1>4, <1>5 DEF Grown, Active_, p

LEMMA GrownFrom ==
    ASSUME LogTyped, NEW a, NEW old \in Seq(Piece), NEW p \in Piece, Grown(a, old, p)
    PROVE  /\ a \in {Len(files), Len(files) + 1} /\ Len(files') = a /\ files' \in Seq(Seq(Piece))
           /\ a = Len(files) => a \in DOMAIN files /\ old = files[a]
           /\ a # Len(files) => old = <<>>
           /\ files'[a] = Append(old, p) /\ files'[a] \in Seq(Piece)
           /\ \A id \in DOMAIN files : id # a => files'[id] = files[id]
           /\ \A id \in DOMAIN files' : id # a => id \in DOMAIN files /\ files'[id] = files[id]
<1>1. /\ a \in {Len(files), Len(files) + 1} /\ Len(files') = a /\ files' \in Seq(Seq(Piece))
      /\ \A id \in DOMAIN files : id # a => files'[id] = files[id]
    BY DEF Grown, Active_
<1>2. files'[a] = Append(old, p) /\ Append(old, p) \in Seq(Piece)
    BY DEF Grown
<1>3. a = Len(files) => old = files[a]
    BY DEF Grown, Active_
<1>4. a # Len(files) => old = <<>>
    BY DEF Grown, Active_
<1>5. a = Len(files) => a \in DOMAIN files
    BY DEF LogTyped
<1>6. DOMAIN files = 1..Len(files) /\ Len(files) \in Nat
    BY DEF LogTyped
<1>7. \A id \in DOMAIN files' : id # a => id \in DOMAIN files
    BY <1>1, <1>6
<1> QED BY <1>1, <1>2, <1>3, <1>4, <1>5, <1>7

\* A failed append leaves a part of the file, or all of it.
LEMMA Undone ==
    ASSUME LogTyped, NEW w \in Writers, writer[w].boundary <= Len(files[Active]), AppendFails(w)
    PROVE  /\ files' \in Seq(Seq(Piece)) /\ Len(files') = Len(files)
           /\ \A id \in DOMAIN files : id # Active => files'[id] = files[id]
           /\ \/ files'[Active] = files[Active]
              \/ /\ files'[Active] = RolledBack(w) /\ Len(files'[Active]) = writer[w].boundary
                 /\ \A i \in 1..writer[w].boundary : files'[Active][i] = files[Active][i]
<1>1. files \in Seq(Seq(Piece)) /\ Active \in DOMAIN files /\ Active = Len(files)
      /\ writer[w].boundary \in Nat
    BY DEF LogTyped, Active, Writings
<1>2. CASE files' = [files EXCEPT ![Active] = RolledBack(w)]
  <2>1. files[Active] \in Seq(Piece)
    BY <1>1
  <2>2. /\ RolledBack(w) \in Seq(Piece) /\ Len(RolledBack(w)) = writer[w].boundary
        /\ \A i \in 1..writer[w].boundary : RolledBack(w)[i] = files[Active][i]
    <3> DEFINE s == files[Active]
               b == writer[w].boundary
    <3>1. s \in Seq(Piece) /\ b \in Nat /\ b <= Len(s) /\ RolledBack(w) = SubSeq(s, 1, b)
      BY <1>1, <2>1 DEF RolledBack
    <3> HIDE DEF s, b
    <3>2. SubSeq(s, 1, b) \in Seq(Piece) /\ Len(SubSeq(s, 1, b)) = b
          /\ \A i \in 1..b : SubSeq(s, 1, b)[i] = s[i]
      BY <3>1
    <3> QED BY <3>1, <3>2 DEF s, b
  <2> QED BY <1>1, <1>2, <2>2
<1>3. CASE UNCHANGED files
    BY <1>1, <1>3
<1> QED BY <1>2, <1>3 DEF AppendFails

-----------------------------------------------------------------------------
(* What an append leaves in the log *)

Holding == {"rotate", "write", "half", "sync", "close"}
Touched(r) == \E id \in DOMAIN files : \E i \in DOMAIN files[id] : files[id][i][1] = r
Written(r) == \E id \in DOMAIN files : \E i \in 2..Len(files[id]) :
                 files[id][i - 1] = <<r, 1>> /\ files[id][i] = <<r, 2>>

\* A record is in the log only where its writer has just put it: at the end of the active
\* file, behind the boundary.
PutBy(w) ==
    LET pieces == files[Active]
        b == writer[w].boundary
        r == writer[w].record IN
    /\ Len(pieces) = b + (IF writer[w].step = "half" THEN 1 ELSE 2)
    /\ pieces[b + 1] = <<r, 1>> /\ (writer[w].step = "sync" => pieces[b + 2] = <<r, 2>>)
    /\ \A id \in DOMAIN files : \A i \in DOMAIN files[id] :
          files[id][i][1] = r => id = Active /\ i > b

\* What a writer has in hand.
InHand(w) ==
    /\ writer[w].step = "idle" => writer[w].record = None
    /\ writer[w].step # "idle" => writer[w].record \in (IF w = Daemon THEN Events ELSE Notes)
    /\ writer[w].step \in {"lock", "rotate", "write"} =>
          ~Touched(writer[w].record) /\ outcome[writer[w].record] = None
    /\ writer[w].step \in {"half", "sync"} => outcome[writer[w].record] = None /\ PutBy(w)
    /\ writer[w].step \in {"close", "returned"} => Written(writer[w].record)
    /\ writer[w].step \in {"close", "returned", "raised"} => outcome[writer[w].record] # None

Honest(r) ==
    /\ outcome[r] = "persisted" => Written(r)
    /\ outcome[r] = "not_persisted" => ~Touched(r)

LogInv ==
    /\ \A w \in Writers : (writer[w].step \in Holding <=> lock = w) /\ InHand(w)
    /\ \A e \in Events : Touched(e) \/ outcome[e] # None \/ writer[Daemon].record = e => e < turn.next
    /\ \A e \in Events : writer[Daemon].record = e => turn.next = e + 1
    /\ \A n \in Notes : Touched(n) => outcome[n] # None \/ writer[Client].record = n
    /\ \A r \in Records : Honest(r)

\* A step of one writer touches no record but its own.
OwnStep(w, r) ==
    /\ writer' = [writer EXCEPT ![w] = r]
    /\ r.step \in Holding <=> lock' = w
    /\ \A v \in Writers : v # w => (lock' = v <=> lock = v)
    /\ InHand(w)'
    /\ files' = files \/ lock = w
    /\ \A x \in Records : Touched(x)' => Touched(x) \/ x = writer[w].record
    /\ \A x \in Records : Written(x) => Written(x)' \/ x = writer[w].record
    /\ \A x \in Records : x # writer[w].record => outcome'[x] = outcome[x]
    /\ \A x \in Records : x = writer[w].record => Honest(x)'

LEMMA WriterKeeps ==
    ASSUME LogTyped, LogInv, NEW w \in Writers, NEW r \in Writings, OwnStep(w, r),
           turn.next \in Nat, turn'.next \in Nat,
           \A n \in Notes : n = writer[w].record /\ Touched(n)' => outcome'[n] # None \/ r.record = n,
           w = Daemon => turn.next <= turn'.next /\ \A e \in Events : r.record = e => turn'.next = e + 1,
           w # Daemon => turn'.next = turn.next
    PROVE  LogInv'
<1> DEFINE own == writer[w].record
<1>0. /\ writer' = [writer EXCEPT ![w] = r]
      /\ r.step \in Holding <=> lock' = w
      /\ \A v \in Writers : v # w => (lock' = v <=> lock = v)
      /\ InHand(w)'
      /\ files' = files \/ lock = w
      /\ \A x \in Records : Touched(x)' => Touched(x) \/ x = own
      /\ \A x \in Records : Written(x) => Written(x)' \/ x = own
      /\ \A x \in Records : x # own => outcome'[x] = outcome[x]
      /\ \A x \in Records : x = own => Honest(x)'
    BY DEF OwnStep
<1>1. /\ writer \in [Writers -> Writings] /\ InHand(w)
      /\ own \in (IF w = Daemon THEN Events ELSE Notes) \cup {None}
    BY DEF LogTyped, LogInv, InHand, Writings
<1> USE <1>0
<1>2. own \in Notes \/ own = None => own \notin Events
    BY Persons
<1>3. ASSUME NEW v \in Writers, v # w
      PROVE  (writer'[v].step \in Holding <=> lock' = v) /\ InHand(v)'
  <2>1. writer'[v] = writer[v] /\ (writer[v].step \in Holding <=> lock = v) /\ InHand(v)
    BY <1>1, <1>3 DEF LogInv
  <2>2. PICK his, step : his = writer[v].record /\ step = writer[v].step
    OBVIOUS
  <2>3. /\ step = "idle" => his = None
        /\ step # "idle" => his \in (IF v = Daemon THEN Events ELSE Notes)
        /\ step \in {"lock", "rotate", "write"} => ~Touched(his) /\ outcome[his] = None
        /\ step \in {"half", "sync"} => outcome[his] = None /\ PutBy(v)
        /\ step \in {"close", "returned"} => Written(his)
        /\ step \in {"close", "returned", "raised"} => outcome[his] # None
    BY <2>1, <2>2 DEF InHand
  <2>4. step # "idle" => his \in Records /\ his # own
    <3>1. CASE v = Daemon
      <4>1. own \in Notes \cup {None}
        BY <1>1, <1>3, <3>1
      <4> QED BY <2>3, <3>1, <4>1, Persons
    <3>2. CASE v # Daemon
      <4>1. own \in Events \cup {None}
        BY <1>1, <1>3, <3>2, Persons
      <4> QED BY <2>3, <3>2, <4>1, Persons
    <3> QED BY <3>1, <3>2
  <2>5. step \in {"half", "sync"} => files' = files
    <3>1. step \in {"half", "sync"} => lock = v
      BY <2>1, <2>2 DEF Holding
    <3> QED BY <1>3, <3>1
  <2>6. step \in {"half", "sync"} => PutBy(v)'
    BY <2>1, <2>2, <2>3, <2>5 DEF PutBy, Active
  <2>7. step # "idle" => /\ ~Touched(his) => ~Touched(his)'
                         /\ outcome'[his] = outcome[his]
                         /\ Written(his) => Written(his)'
    BY <2>4
  <2>8. writer'[v].record = his /\ writer'[v].step = step
    BY <2>1, <2>2
  <2>9. /\ step \in {"lock", "rotate", "write"} => ~Touched(his)' /\ outcome'[his] = None
        /\ step \in {"half", "sync"} => outcome'[his] = None /\ PutBy(v)'
        /\ step \in {"close", "returned"} => Written(his)'
        /\ step \in {"close", "returned", "raised"} => outcome'[his] # None
    BY <2>3, <2>6, <2>7
  <2>10. InHand(v)'
    BY <2>3, <2>8, <2>9 DEF InHand, Touched, Written
  <2> QED BY <1>3, <2>1, <2>10
<1>4. writer'[w] = r
    BY <1>1
<1>5. \A v \in Writers : (writer'[v].step \in Holding <=> lock' = v) /\ InHand(v)'
    BY <1>3, <1>4
<1>6. ASSUME NEW e \in Events, Touched(e)' \/ outcome'[e] # None \/ writer'[Daemon].record = e
      PROVE  e < turn'.next
  <2>1. e \in Records /\ e \in Nat
    BY Persons
  <2>2. CASE writer'[Daemon].record = e
    <3>1. CASE w = Daemon
      BY <1>4, <2>1, <2>2, <3>1
    <3>2. CASE w # Daemon
      BY <1>1, <2>2, <3>2, Persons DEF LogInv
    <3> QED BY <3>1, <3>2
  <2>3. CASE e = own
    <3>1. w = Daemon
      BY <1>1, <1>2, <2>3
    <3>2. e < turn.next
      BY <2>3, <3>1 DEF LogInv
    <3> QED BY <2>1, <3>1, <3>2
  <2>4. CASE e # own /\ (Touched(e)' \/ outcome'[e] # None)
    <3>1. Touched(e) \/ outcome[e] # None
      BY <2>1, <2>4
    <3>2. e < turn.next
      BY <3>1 DEF LogInv
    <3> QED BY <2>1, <3>2
  <2> QED BY <1>6, <2>2, <2>3, <2>4
<1>7. ASSUME NEW e \in Events, writer'[Daemon].record = e PROVE turn'.next = e + 1
  <2>1. CASE w = Daemon
    BY <1>4, <1>7, <2>1
  <2>2. CASE w # Daemon
    BY <1>1, <1>7, <2>2, Persons DEF LogInv
  <2> QED BY <2>1, <2>2
<1>8. ASSUME NEW n \in Notes, Touched(n)' PROVE outcome'[n] # None \/ writer'[Client].record = n
  <2>1. n \in Records /\ (n = own => w = Client)
    BY <1>1, Persons
  <2>2. CASE n = own
    BY <1>4, <1>8, <2>1, <2>2
  <2>3. CASE n # own
    <3>1. Touched(n) /\ outcome'[n] = outcome[n]
      BY <1>8, <2>1, <2>3
    <3>2. outcome[n] # None \/ writer[Client].record = n
      BY <3>1 DEF LogInv
    <3>3. writer[Client].record = n => Client # w
      BY <2>3
    <3> QED BY <1>1, <3>1, <3>2, <3>3, Persons
  <2> QED BY <2>2, <2>3
<1>9. ASSUME NEW x \in Records PROVE Honest(x)'
  <2>1. CASE x = own
    BY <2>1
  <2>2. CASE x # own
    <3>1. outcome'[x] = outcome[x] /\ (Written(x) => Written(x)') /\ (Touched(x)' => Touched(x))
      BY <2>2
    <3>2. Honest(x)
      BY DEF LogInv
    <3> QED BY <3>1, <3>2 DEF Honest
  <2> QED BY <2>1, <2>2
<1> QED BY <1>5, <1>6, <1>7, <1>8, <1>9 DEF LogInv

\* A piece at the end of a file touches no other record, and leaves what is written.
LEMMA GrownKeeps ==
    ASSUME LogTyped, NEW a, NEW old \in Seq(Piece), NEW p \in Piece, Grown(a, old, p)
    PROVE  /\ \A x : Touched(x)' => Touched(x) \/ x = p[1]
           /\ \A x : Written(x) => Written(x)'
           /\ a = Active' /\ a \in DOMAIN files' /\ Len(files'[a]) = Len(old) + 1 /\ files'[a][Len(old) + 1] = p
           /\ \A i \in 1..Len(old) : files'[a][i] = old[i] /\ a \in DOMAIN files /\ files[a] = old
<1>1. /\ files \in Seq(Seq(Piece)) /\ Len(files) \in Nat /\ Len(files) > 0
      /\ files' \in Seq(Seq(Piece)) /\ Len(files') = a /\ a \in {Len(files), Len(files) + 1}
      /\ old = IF a = Len(files) THEN files[a] ELSE <<>>
      /\ \A id \in DOMAIN files : id # a => files'[id] = files[id]
    BY DEF LogTyped, Grown, Active_
<1>2. PICK new : new = files'[a]
    OBVIOUS
<1>3. new = Append(old, p)
    BY <1>2 DEF Grown
<1>4. /\ new \in Seq(Piece) /\ Len(new) = Len(old) + 1 /\ new[Len(old) + 1] = p /\ Len(old) \in Nat
      /\ \A i \in 1..Len(old) : new[i] = old[i]
    BY <1>3
<1>5. a \in DOMAIN files' /\ \A id \in DOMAIN files' : id = a \/ (id \in DOMAIN files /\ id # a)
    BY <1>1
<1>6. ASSUME NEW x, Touched(x)' PROVE Touched(x) \/ x = p[1]
  <2>1. PICK id \in DOMAIN files' : \E i \in DOMAIN files'[id] : files'[id][i][1] = x
    BY <1>6 DEF Touched
  <2>2. PICK i \in DOMAIN files'[id] : files'[id][i][1] = x
    BY <2>1
  <2>3. CASE id # a
    <3>1. files'[id] = files[id] /\ id \in DOMAIN files
      BY <1>1, <1>5, <2>3
    <3> QED BY <2>2, <3>1 DEF Touched
  <2>4. CASE id = a
    <3>1. i \in 1..(Len(old) + 1) /\ new[i][1] = x
      BY <1>2, <1>4, <2>2, <2>4
    <3>2. CASE i = Len(old) + 1
      BY <1>4, <3>1, <3>2
    <3>3. CASE i \in 1..Len(old)
      <4>1. a = Len(files) /\ old = files[a]
        BY <1>1, <3>3
      <4>2. a \in DOMAIN files
        BY <1>1, <4>1
      <4>3. old[i][1] = x /\ i \in DOMAIN old
        BY <1>4, <3>1, <3>3
      <4> QED BY <4>1, <4>2, <4>3 DEF Touched
    <3> QED BY <1>4, <3>1, <3>2, <3>3
  <2> QED BY <2>3, <2>4
<1>7. ASSUME NEW x, Written(x) PROVE Written(x)'
  <2>1. PICK id \in DOMAIN files : \E i \in 2..Len(files[id]) :
                                      files[id][i - 1] = <<x, 1>> /\ files[id][i] = <<x, 2>>
    BY <1>7 DEF Written
  <2>2. PICK i \in 2..Len(files[id]) : files[id][i - 1] = <<x, 1>> /\ files[id][i] = <<x, 2>>
    BY <2>1
  <2>3. id \in DOMAIN files'
    BY <1>1
  <2>4. CASE id # a
    <3>1. files'[id] = files[id]
      BY <1>1, <2>4
    <3> QED BY <2>2, <2>3, <3>1 DEF Written
  <2>5. CASE id = a
    <3>1. old = files[id]
      BY <1>1, <2>5
    <3>2. i \in 2..Len(new) /\ i - 1 \in 1..Len(old) /\ i \in 1..Len(old)
      BY <1>4, <2>2, <3>1
    <3>3. new[i - 1] = <<x, 1>> /\ new[i] = <<x, 2>>
      BY <1>4, <2>2, <3>1, <3>2
    <3> QED BY <1>2, <2>3, <2>5, <3>2, <3>3 DEF Written
  <2> QED BY <2>4, <2>5
<1>8. \A i \in 1..Len(old) : a \in DOMAIN files /\ files[a] = old
    BY <1>1
<1> QED BY <1>1, <1>2, <1>4, <1>5, <1>6, <1>7, <1>8 DEF Active

\* What a failed append takes back is of its own record.
LEMMA UndoneKeeps ==
    ASSUME LogTyped, NEW w \in Writers, PutBy(w), writer[w].step \in {"half", "sync"}, AppendFails(w)
    PROVE  /\ files' \in Seq(Seq(Piece)) /\ Len(files') = Len(files)
           /\ \A x : Touched(x)' => Touched(x)
           /\ \A x : Written(x) => Written(x)' \/ x = writer[w].record
           /\ \A x : x = writer[w].record /\ outcome'[x] = "not_persisted" /\ x \in Records => ~Touched(x)'
<1> DEFINE b == writer[w].boundary
           own == writer[w].record
<1>1. /\ files \in Seq(Seq(Piece)) /\ Active \in DOMAIN files /\ Active = Len(files)
      /\ b \in Nat /\ outcome \in [Records -> PersistenceOutcomes \cup {None}]
      /\ files[Active] \in Seq(Piece)
    BY DEF LogTyped, Active, Writings
<1>2. PICK old : old = files[Active]
    OBVIOUS
<1>3. /\ old \in Seq(Piece) /\ old[b + 1] = <<own, 1>>
      /\ Len(old) = b + 1 \/ (Len(old) = b + 2 /\ old[b + 2] = <<own, 2>>)
      /\ \A id \in DOMAIN files : \A i \in DOMAIN files[id] :
            files[id][i][1] = own => id = Active /\ i > b
    BY <1>1, <1>2 DEF PutBy
<1>4. b <= Len(files[Active])
    BY <1>1, <1>2, <1>3
<1>5. PICK new : new = files'[Active]
    OBVIOUS
<1>6. /\ files' \in Seq(Seq(Piece)) /\ Len(files') = Len(files)
      /\ \A id \in DOMAIN files : id # Active => files'[id] = files[id]
      /\ \/ new = old
         \/ new = RolledBack(w) /\ Len(new) = b /\ \A i \in 1..b : new[i] = old[i]
    BY <1>2, <1>4, <1>5, Undone
<1>7. DOMAIN files' = DOMAIN files /\ new \in Seq(Piece)
    BY <1>1, <1>5, <1>6
<1> HIDE DEF b, own
<1>8. ASSUME NEW x, Touched(x)' PROVE Touched(x)
  <2>1. PICK id \in DOMAIN files' : \E i \in DOMAIN files'[id] : files'[id][i][1] = x
    BY <1>8 DEF Touched
  <2>2. PICK i \in DOMAIN files'[id] : files'[id][i][1] = x
    BY <2>1
  <2>3. CASE id # Active
    BY <1>6, <1>7, <2>2, <2>3 DEF Touched
  <2>4. CASE id = Active
    <3>1. i \in DOMAIN new /\ new[i][1] = x
      BY <1>5, <2>2, <2>4
    <3>2. i \in DOMAIN old /\ old[i][1] = x
      <4>1. CASE new = old
        BY <3>1, <4>1
      <4>2. CASE Len(new) = b /\ \A k \in 1..b : new[k] = old[k]
        <5>1. i \in 1..b /\ new[i] = old[i]
          BY <1>7, <3>1, <4>2
        <5>2. 1..b \subseteq DOMAIN old
          BY <1>1, <1>3
        <5> QED BY <3>1, <5>1, <5>2
      <4> QED BY <1>6, <4>1, <4>2
    <3> QED BY <1>1, <1>2, <3>2 DEF Touched
  <2> QED BY <2>3, <2>4
<1>9. ASSUME NEW x, Written(x), x # own PROVE Written(x)'
  <2>1. PICK id \in DOMAIN files : \E i \in 2..Len(files[id]) :
                                      files[id][i - 1] = <<x, 1>> /\ files[id][i] = <<x, 2>>
    BY <1>9 DEF Written
  <2>2. PICK i \in 2..Len(files[id]) : files[id][i - 1] = <<x, 1>> /\ files[id][i] = <<x, 2>>
    BY <2>1
  <2>3. CASE id # Active
    <3>1. id \in DOMAIN files' /\ files'[id] = files[id]
      BY <1>6, <1>7, <2>3
    <3> QED BY <2>2, <3>1 DEF Written
  <2>4. CASE id = Active
    <3>1. i \in 2..Len(old) /\ old[i - 1] = <<x, 1>> /\ old[i] = <<x, 2>>
      BY <1>2, <2>2, <2>4
    <3>2. i # b + 1 /\ i # b + 2
      BY <1>1, <1>3, <1>9, <3>1
    <3>3. i <= b /\ i - 1 \in 1..b /\ i \in 1..b
      BY <1>1, <1>3, <3>1, <3>2
    <3>4. i \in 2..Len(new) /\ new[i - 1] = old[i - 1] /\ new[i] = old[i]
      <4>1. CASE new = old
        BY <3>1, <4>1
      <4>2. CASE new = RolledBack(w) /\ Len(new) = b /\ \A k \in 1..b : new[k] = old[k]
        <5>1. i \in 2..Len(new)
          BY <1>1, <3>1, <3>3, <4>2
        <5> QED BY <3>3, <4>2, <5>1
      <4> QED BY <1>6, <4>1, <4>2
    <3>5. new[i - 1] = <<x, 1>> /\ new[i] = <<x, 2>> /\ Active \in DOMAIN files'
      BY <1>1, <1>7, <3>1, <3>4
    <3> QED BY <1>5, <3>4, <3>5 DEF Written
  <2> QED BY <2>3, <2>4
<1>10. ASSUME NEW x \in Records, x = own, outcome'[x] = "not_persisted" PROVE ~Touched(x)'
  <2>1. new = RolledBack(w) /\ Len(new) = b /\ \A i \in 1..b : new[i] = old[i]
    <3>1. PICK said \in {"not_persisted", "uncertain"} :
             /\ outcome' = [outcome EXCEPT ![own] = said]
             /\ said = "not_persisted" => files' = [files EXCEPT ![Active] = RolledBack(w)]
      BY DEF AppendFails, own
    <3>2. outcome'[own] = said
      BY <1>1, <1>10, <3>1
    <3>3. files' = [files EXCEPT ![Active] = RolledBack(w)]
      BY <1>10, <3>1, <3>2
    <3>4. new = RolledBack(w)
      BY <1>1, <1>5, <3>3
    <3>5. RolledBack(w) = SubSeq(old, 1, b) /\ Len(SubSeq(old, 1, b)) = b
          /\ \A i \in 1..b : SubSeq(old, 1, b)[i] = old[i]
      BY <1>1, <1>2, <1>3, <1>4 DEF RolledBack, b
    <3> QED BY <3>4, <3>5
  <2>2. ASSUME NEW id \in DOMAIN files', NEW i \in DOMAIN files'[id], files'[id][i][1] = own PROVE FALSE
    <3>1. CASE id # Active
      BY <1>3, <1>6, <1>7, <2>2, <3>1
    <3>2. CASE id = Active
      <4>1. i \in 1..b /\ new[i][1] = own
        <5>1. i \in DOMAIN new /\ new[i][1] = own
          BY <1>5, <2>2, <3>2
        <5> QED BY <1>7, <2>1, <5>1
      <4>2. old[i][1] = own /\ i \in DOMAIN old
        BY <1>1, <1>2, <1>3, <1>4, <2>1, <4>1
      <4> QED BY <1>1, <1>2, <1>3, <4>1, <4>2
    <3> QED BY <3>1, <3>2
  <2> QED BY <1>10, <2>2 DEF Touched
<1> QED BY <1>6, <1>8, <1>9, <1>10 DEF own

Gone(w, step, boundary, r) ==
    /\ writer' = [writer EXCEPT ![w] = r] /\ writer'[w] = r
    /\ r.step = step /\ r.record = writer[w].record /\ r.boundary = boundary
    /\ writer' \in [Writers -> Writings]

LEMMA Halves ==
    ASSUME LogTyped, NEW w \in Writers, NEW b \in Nat,
           writer' = [writer EXCEPT ![w].step = "half", ![w].boundary = b]
    PROVE  \E r \in Writings : Gone(w, "half", b, r)
<1>1. writer \in [Writers -> Writings] /\ writer[w] \in Writings
    BY DEF LogTyped
<1>2. PICK r : r = [writer[w] EXCEPT !.step = "half", !.boundary = b]
    OBVIOUS
<1>3. r \in Writings /\ r.step = "half" /\ r.record = writer[w].record /\ r.boundary = b
    BY <1>1, <1>2 DEF Writings, WriterSteps
<1>4. writer' = [writer EXCEPT ![w] = r]
    BY <1>1, <1>2 DEF Writings
<1> QED BY <1>1, <1>3, <1>4 DEF Gone

LEMMA Steps ==
    ASSUME LogTyped, NEW w \in Writers, NEW step \in WriterSteps, Step(w, step)
    PROVE  \E r \in Writings : Gone(w, step, writer[w].boundary, r)
<1>1. writer \in [Writers -> Writings] /\ writer[w] \in Writings
    BY DEF LogTyped
<1>2. PICK r : r = [writer[w] EXCEPT !.step = step]
    OBVIOUS
<1>3. r \in Writings /\ r.step = step /\ r.record = writer[w].record /\ r.boundary = writer[w].boundary
    BY <1>1, <1>2 DEF Writings
<1>4. writer' = [writer EXCEPT ![w] = r]
    BY <1>1, <1>2 DEF Step, Writings
<1> QED BY <1>1, <1>3, <1>4 DEF Gone

\* A step of an append: the record is the same, the turn does not move.
LEMMA AppendKeeps ==
    ASSUME LogTyped, LogInv, turn \in Turns, turn' = turn, NEW w \in Writers, NEW r \in Writings,
           OwnStep(w, r), r.record = writer[w].record
    PROVE  LogInv'
<1>1. turn.next \in Nat /\ turn'.next = turn.next
    BY DEF Turns
<1>2. w = Daemon => writer[Daemon].record = r.record
    OBVIOUS
<1>3. \A e \in Events : w = Daemon /\ r.record = e => turn'.next = e + 1
    BY <1>1, <1>2 DEF LogInv
<1>4. \A n \in Notes : n = writer[w].record /\ Touched(n)' => outcome'[n] # None \/ r.record = n
    OBVIOUS
<1>5. /\ w = Daemon => turn.next <= turn'.next /\ \A e \in Events : r.record = e => turn'.next = e + 1
      /\ w # Daemon => turn'.next = turn.next
    BY <1>1, <1>3
<1>6. turn'.next \in Nat
    BY <1>1
<1> QED BY <1>1, <1>4, <1>5, <1>6, WriterKeeps

\* Every step of an append, and every fault of it.
LEMMA LogMoves ==
    ASSUME LogTyped, LogInv, turn \in Turns, turn' = turn, NEW w \in Writers, WriterStep(w) \/ WriterFault(w)
    PROVE  LogTyped' /\ LogInv'
<1> DEFINE own == writer[w].record
           b == writer[w].boundary
<1>1. /\ files \in Seq(Seq(Piece)) /\ Len(files) > 0 /\ exists \in BOOLEAN
      /\ lock \in Writers \cup {None} /\ writer \in [Writers -> Writings]
      /\ outcome \in [Records -> PersistenceOutcomes \cup {None}] /\ b \in Nat
    BY DEF LogTyped, Writings
<1>2. (writer[w].step \in Holding <=> lock = w) /\ InHand(w)
    BY DEF LogInv
<1>3. writer[w].step # "idle"
    BY DEF WriterStep, WriterFault, LockLog, Rotate, OpenLog, WriteRest, SyncLog, CloseLog,
           RotateFails, AppendFails, CloseFails
<1>4. own \in (IF w = Daemon THEN Events ELSE Notes) /\ own \in Records
    BY <1>2, <1>3, Persons DEF InHand
<1>5. \A x \in Records : x = own => Honest(x)
    BY DEF LogInv
<1>6. None \notin Writers /\ None # "persisted" /\ None # "not_persisted"
    BY NoneAssumption DEF PersistenceOutcomes
<1> HIDE DEF own, b
<1>7. ASSUME LockLog(w) PROVE LogTyped' /\ LogInv'
  <2>1. writer[w].step = "lock" /\ lock = None /\ lock' = w /\ Step(w, "rotate")
        /\ UNCHANGED <<files, exists, backup, outcome>>
    BY <1>7 DEF LockLog
  <2>2. PICK r \in Writings : Gone(w, "rotate", b, r)
    BY <2>1, Steps DEF WriterSteps, b
  <2>3. InHand(w)'
    BY <1>2, <1>4, <2>1, <2>2 DEF InHand, own, Touched, Gone
  <2>4. OwnStep(w, r)
    BY <1>5, <1>6, <2>1, <2>2, <2>3 DEF OwnStep, Holding, Touched, Written, Honest, own, Gone
  <2>5. LogInv'
    BY <2>2, <2>4, AppendKeeps DEF own, Gone
  <2> QED BY <1>1, <2>1, <2>2, <2>5 DEF LogTyped, Gone, Gone
<1>8. ASSUME Rotate(w) \/ RotateFails(w) PROVE LogTyped' /\ LogInv'
  <2>1. writer[w].step = "rotate" /\ Step(w, "write") /\ exists' \in BOOLEAN /\ UNCHANGED <<files, lock, outcome>>
    BY <1>1, <1>8 DEF Rotate, RotateFails
  <2>2. PICK r \in Writings : Gone(w, "write", b, r)
    BY <2>1, Steps DEF WriterSteps, b
  <2>3. InHand(w)'
    BY <1>2, <1>4, <2>1, <2>2 DEF InHand, own, Touched, Gone
  <2>4. OwnStep(w, r)
    BY <1>2, <1>5, <1>6, <2>1, <2>2, <2>3 DEF OwnStep, Holding, Touched, Written, Honest, own, Gone
  <2>5. LogInv'
    BY <2>2, <2>4, AppendKeeps DEF own, Gone
  <2> QED BY <1>1, <2>1, <2>2, <2>5 DEF LogTyped, Gone
<1>9. ASSUME OpenLog(w) PROVE LogTyped' /\ LogInv'
  <2>1. writer[w].step = "write" /\ exists' = TRUE /\ UNCHANGED <<backup, lock, outcome>>
    BY <1>9 DEF OpenLog
  <2>2. PICK a, old : /\ Grown(a, old, <<own, 1>>) /\ old \in Seq(Piece)
                      /\ writer' = [writer EXCEPT ![w].step = "half", ![w].boundary = Len(old)]
    BY <1>4, <1>9, Opened DEF own
  <2>3. PICK p \in Piece : p = <<own, 1>>
    BY <1>4 DEF Piece
  <2>4. /\ \A x : Touched(x)' => Touched(x) \/ x = p[1]
        /\ \A x : Written(x) => Written(x)'
        /\ a = Active' /\ a \in DOMAIN files' /\ Len(files'[a]) = Len(old) + 1 /\ files'[a][Len(old) + 1] = p
        /\ \A i \in 1..Len(old) : files'[a][i] = old[i] /\ a \in DOMAIN files /\ files[a] = old
    BY <2>2, <2>3, GrownKeeps
  <2>5. PICK r \in Writings : Gone(w, "half", Len(old), r)
    <3>1. PICK n \in Nat : n = Len(old)
      BY <2>2
    <3>2. writer' = [writer EXCEPT ![w].step = "half", ![w].boundary = n]
      BY <2>2, <3>1
    <3>3. \E r \in Writings : Gone(w, "half", n, r)
      BY <3>2, Halves
    <3> QED BY <3>1, <3>3
  <2>6. ~Touched(own) /\ outcome[own] = None
    BY <1>2, <2>1 DEF InHand, own, Gone
  <2>7. ASSUME NEW id \in DOMAIN files', NEW i \in DOMAIN files'[id], files'[id][i][1] = own
        PROVE  id = a /\ i > Len(old)
    <3>1. CASE id # a
      <4>1. Grown(a, old, p) /\ old \in Seq(Piece)
        BY <2>2, <2>3
      <4>2. id \in DOMAIN files /\ files'[id] = files[id]
        BY <2>7, <3>1, <4>1, GrownFrom
      <4> QED BY <2>6, <2>7, <4>2 DEF Touched
    <3>2. CASE id = a /\ i \in 1..Len(old)
      <4>1. a \in DOMAIN files /\ files[a] = old /\ old[i][1] = own
        BY <2>4, <2>7, <3>2
      <4> QED BY <2>6, <3>2, <4>1 DEF Touched
    <3>3. i \in 1..(Len(old) + 1) /\ Len(old) \in Nat
      <4>1. files' \in Seq(Seq(Piece))
        BY <2>2 DEF Grown
      <4>2. files'[id] \in Seq(Piece) /\ i \in 1..Len(files'[id])
        BY <4>1
      <4> QED BY <2>2, <2>4, <3>1, <4>2
    <3> QED BY <3>1, <3>2, <3>3
  <2>8. PutBy(w)'
    BY <2>3, <2>4, <2>5, <2>7 DEF PutBy, Gone, own
  <2>9. InHand(w)'
    BY <1>4, <2>1, <2>5, <2>6, <2>8 DEF InHand, own, Gone
  <2>10. OwnStep(w, r)
    <3>1. \A x \in Records : x = own => Honest(x)'
      BY <1>6, <2>1, <2>6 DEF Honest
    <3> QED BY <1>2, <1>6, <2>1, <2>3, <2>4, <2>5, <2>9, <3>1 DEF OwnStep, Holding, own, Gone
  <2>11. LogInv'
    BY <2>5, <2>10, AppendKeeps DEF own, Gone
  <2>12. files' \in Seq(Seq(Piece)) /\ Len(files') > 0
    BY <1>1, <2>2 DEF Grown, Active_
  <2> QED BY <1>1, <2>1, <2>5, <2>11, <2>12 DEF LogTyped, Gone
<1>10. ASSUME WriteRest(w) PROVE LogTyped' /\ LogInv'
  <2>1. writer[w].step = "half" /\ Step(w, "sync") /\ UNCHANGED <<exists, backup, lock, outcome>>
    BY <1>10 DEF WriteRest
  <2>2. PICK a, old : /\ a = Active /\ old = files[a] /\ old \in Seq(Piece)
                      /\ Grown(a, old, <<own, 2>>)
    <3>1. Grown(Active, files[Active], <<own, 2>>) /\ files[Active] \in Seq(Piece)
      BY <1>4, <1>10, Finished DEF own
    <3>2. PICK a, old : a = Active /\ old = files[Active]
      OBVIOUS
    <3> QED BY <3>1, <3>2
  <2>3. PICK p \in Piece : p = <<own, 2>>
    BY <1>4 DEF Piece
  <2>4. /\ \A x : Touched(x)' => Touched(x) \/ x = p[1]
        /\ \A x : Written(x) => Written(x)'
        /\ a = Active' /\ a \in DOMAIN files' /\ Len(files'[a]) = Len(old) + 1
        /\ files'[a][Len(old) + 1] = p
        /\ \A i \in 1..Len(old) : files'[a][i] = old[i] /\ a \in DOMAIN files /\ files[a] = old
    <3>1. Grown(a, old, p)
      BY <2>2, <2>3
    <3>2. old \in Seq(Piece)
      BY <2>2
    <3> QED BY <3>1, <3>2, GrownKeeps
  <2>5. PICK r \in Writings : Gone(w, "sync", b, r)
    BY <2>1, Steps DEF WriterSteps, b
  <2>6. outcome[own] = None /\ PutBy(w)
    BY <1>2, <2>1 DEF InHand, own
  <2>7. /\ Len(old) = b + 1 /\ old[b + 1] = <<own, 1>>
        /\ \A id \in DOMAIN files : \A i \in DOMAIN files[id] :
              files[id][i][1] = own => id = a /\ i > b
    BY <2>1, <2>2, <2>6 DEF PutBy, own, b
  <2>8. ASSUME NEW id \in DOMAIN files', NEW i \in DOMAIN files'[id], files'[id][i][1] = own
        PROVE  id = a /\ i > b
    <3>1. CASE id # a
      <4>1. Grown(a, old, p) /\ old \in Seq(Piece)
        BY <2>2, <2>3
      <4>2. id \in DOMAIN files /\ files'[id] = files[id]
        BY <2>8, <3>1, <4>1, GrownFrom
      <4> QED BY <2>7, <2>8, <4>2
    <3>2. CASE id = a /\ i \in 1..Len(old)
      <4>1. files[a][i][1] = own /\ i \in DOMAIN files[a] /\ a \in DOMAIN files
        BY <1>1, <2>2, <2>4, <2>8, <3>2 DEF Active
      <4> QED BY <2>7, <3>2, <4>1
    <3>3. CASE id = a /\ i \notin 1..Len(old)
      <4>1. files' \in Seq(Seq(Piece))
        BY <2>2 DEF Grown
      <4>2. files'[id] \in Seq(Piece) /\ i \in 1..Len(files'[id])
        BY <4>1
      <4> QED BY <1>1, <2>2, <2>4, <2>7, <3>3, <4>2
    <3> QED BY <3>1, <3>2, <3>3
  <2>9. PutBy(w)'
    <3>1. Len(files'[a]) = b + 2 /\ files'[a][b + 1] = <<own, 1>> /\ files'[a][b + 2] = <<own, 2>>
      <4>1. Len(old) + 1 = b + 2 /\ b + 1 \in 1..Len(old)
        BY <1>1, <2>7
      <4> QED BY <2>3, <2>4, <2>7, <4>1
    <3> QED BY <2>4, <2>5, <2>8, <3>1 DEF PutBy, Gone, own
  <2>10. InHand(w)'
    BY <1>4, <2>1, <2>5, <2>6, <2>9 DEF InHand, own, Gone
  <2>11. OwnStep(w, r)
    <3>1. \A x \in Records : x = own => Honest(x)'
      BY <1>6, <2>1, <2>6 DEF Honest
    <3> QED BY <1>2, <1>6, <2>1, <2>3, <2>4, <2>5, <2>10, <3>1 DEF OwnStep, Holding, own, Gone
  <2>12. LogInv'
    BY <2>5, <2>11, AppendKeeps DEF own, Gone
  <2>13. files' \in Seq(Seq(Piece)) /\ Len(files') > 0
    BY <1>1, <2>2 DEF Grown, Active_
  <2> QED BY <1>1, <2>1, <2>5, <2>12, <2>13 DEF LogTyped, Gone
<1>11. ASSUME SyncLog(w) PROVE LogTyped' /\ LogInv'
  <2>1. writer[w].step = "sync" /\ Step(w, "close") /\ UNCHANGED <<files, exists, backup, lock>>
        /\ outcome' = [outcome EXCEPT ![own] = "persisted"]
    BY <1>11 DEF SyncLog, own
  <2>2. PICK r \in Writings : Gone(w, "close", b, r)
    BY <2>1, Steps DEF WriterSteps, b
  <2>3. PutBy(w)
    BY <1>2, <2>1 DEF InHand
  <2>4. Written(own)
    <3>1. /\ Len(files[Active]) = b + 2
          /\ files[Active][b + 1] = <<own, 1>> /\ files[Active][b + 2] = <<own, 2>>
      BY <2>1, <2>3 DEF PutBy, own, b
    <3>2. b + 2 \in 2..Len(files[Active]) /\ (b + 2) - 1 = b + 1 /\ Active \in DOMAIN files
      BY <1>1, <3>1 DEF Active
    <3> QED BY <3>1, <3>2 DEF Written
  <2>5. /\ outcome'[own] = "persisted" /\ \A x \in Records : x # own => outcome'[x] = outcome[x]
        /\ outcome' \in [Records -> PersistenceOutcomes \cup {None}]
    BY <1>1, <1>4, <2>1 DEF PersistenceOutcomes
  <2>6. InHand(w)'
    <3>1. writer'[w].record = own /\ writer'[w].step = "close"
      BY <2>2 DEF Gone, own
    <3>2. \A x : Written(x)' <=> Written(x)
      BY <2>1 DEF Written
    <3> QED BY <1>4, <1>6, <2>4, <2>5, <3>1, <3>2 DEF InHand, Written
  <2>7. OwnStep(w, r)
    <3>1. \A x : (Written(x)' <=> Written(x)) /\ (Touched(x)' <=> Touched(x))
      BY <2>1 DEF Written, Touched
    <3>2. \A x \in Records : x = own => Honest(x)'
      BY <2>4, <2>5, <3>1 DEF Honest
    <3> QED BY <1>2, <1>6, <2>1, <2>2, <2>5, <2>6, <3>1, <3>2 DEF OwnStep, Holding, own, Gone
  <2>8. LogInv'
    BY <2>2, <2>7, AppendKeeps DEF own, Gone
  <2> QED BY <1>1, <2>1, <2>2, <2>5, <2>8 DEF LogTyped, Gone
<1>12. ASSUME AppendFails(w) PROVE LogTyped' /\ LogInv'
  <2>1. writer[w].step \in {"half", "sync"} /\ Step(w, "raised") /\ lock' = None /\ UNCHANGED <<exists, backup>>
    BY <1>12 DEF AppendFails
  <2>2. PICK r \in Writings : Gone(w, "raised", b, r)
    BY <2>1, Steps DEF WriterSteps, b
  <2>3. PutBy(w) /\ lock = w
    BY <1>2, <2>1 DEF InHand, Holding
  <2>4. /\ files' \in Seq(Seq(Piece)) /\ Len(files') = Len(files)
        /\ \A x : Touched(x)' => Touched(x)
        /\ \A x : Written(x) => Written(x)' \/ x = own
        /\ \A x : x = own /\ outcome'[x] = "not_persisted" /\ x \in Records => ~Touched(x)'
    BY <1>12, <2>1, <2>3, UndoneKeeps DEF own
  <2>5. PICK said \in {"not_persisted", "uncertain"} : outcome' = [outcome EXCEPT ![own] = said]
    BY <1>12 DEF AppendFails, own
  <2>6. /\ outcome'[own] = said /\ \A x \in Records : x # own => outcome'[x] = outcome[x]
        /\ outcome' \in [Records -> PersistenceOutcomes \cup {None}]
    BY <1>1, <1>4, <2>5 DEF PersistenceOutcomes
  <2>7. said # None
    BY NoneAssumption, <2>5 DEF PersistenceOutcomes
  <2>8. InHand(w)'
    <3>1. writer'[w].record = own /\ writer'[w].step = "raised"
      BY <2>2 DEF Gone, own
    <3> QED BY <1>4, <2>6, <2>7, <3>1 DEF InHand
  <2>9. OwnStep(w, r)
    <3>1. \A x \in Records : x = own => Honest(x)'
      BY <2>4, <2>5, <2>6 DEF Honest
    <3> QED BY <1>2, <1>6, <2>1, <2>2, <2>3, <2>4, <2>6, <2>8, <3>1 DEF OwnStep, Holding, own, Gone
  <2>10. LogInv'
    BY <2>2, <2>9, AppendKeeps DEF own, Gone
  <2> QED BY <1>1, <2>1, <2>2, <2>4, <2>6, <2>10 DEF LogTyped, Gone
<1>13. ASSUME NEW step \in {"returned", "raised"}, writer[w].step = "close", Step(w, step), lock' = None,
              UNCHANGED <<files, exists, backup, outcome>>
       PROVE  LogTyped' /\ LogInv'
  <2>1. PICK r \in Writings : Gone(w, step, b, r)
    BY <1>13, Steps DEF WriterSteps, b
  <2>2. lock = w /\ Written(own) /\ outcome[own] # None
    BY <1>2, <1>13 DEF InHand, Holding, own
  <2>3. \A x : (Written(x)' <=> Written(x)) /\ (Touched(x)' <=> Touched(x))
    BY <1>13 DEF Written, Touched
  <2>4. InHand(w)'
    <3>1. writer'[w].record = own /\ writer'[w].step = step
      BY <2>1 DEF Gone, own
    <3> QED BY <1>4, <1>13, <2>2, <2>3, <3>1 DEF InHand, Written
  <2>5. OwnStep(w, r)
    <3>1. \A x \in Records : x = own => Honest(x)'
      BY <1>5, <1>13, <2>3 DEF Honest
    <3> QED BY <1>2, <1>6, <1>13, <2>1, <2>2, <2>3, <2>4, <3>1 DEF OwnStep, Holding, own, Gone
  <2>6. LogInv'
    BY <2>1, <2>5, AppendKeeps DEF own, Gone
  <2> QED BY <1>1, <1>13, <2>1, <2>6 DEF LogTyped, Gone
<1>14. CloseLog(w) \/ CloseFails(w) => LogTyped' /\ LogInv'
  BY <1>13 DEF CloseLog, CloseFails
<1> QED BY <1>7, <1>8, <1>9, <1>10, <1>11, <1>12, <1>14 DEF WriterStep, WriterFault

\* The log is the same: nothing else matters to it but the count of the turn.
LEMMA LogRests ==
    ASSUME LogTyped, LogInv, UNCHANGED <<files, exists, lock, writer, outcome>>, turn'.next = turn.next
    PROVE  LogTyped' /\ LogInv'
<1>1. LogTyped'
  BY DEF LogTyped
<1>2. \A x : (Written(x)' <=> Written(x)) /\ (Touched(x)' <=> Touched(x))
  BY DEF Written, Touched
<1>3. ASSUME NEW w \in Writers PROVE (writer'[w].step \in Holding <=> lock' = w) /\ InHand(w)'
  <2>1. (writer[w].step \in Holding <=> lock = w) /\ InHand(w)
    BY DEF LogInv
  <2>2. PutBy(w)' <=> PutBy(w)
    BY DEF PutBy, Active
  <2>3. InHand(w)'
    BY <1>2, <2>1, <2>2 DEF InHand, Touched, Written
  <2> QED BY <2>1, <2>3
<1>4. \A r \in Records : Honest(r)'
  BY <1>2 DEF LogInv, Honest
<1> QED BY <1>1, <1>2, <1>3, <1>4 DEF LogInv

\* A record is new to the log when its append begins: an event because the turn counts on, a note
\* because nobody has written it.
LEMMA BeginsKeeps ==
    ASSUME LogTyped, LogInv, turn \in Turns, NEW w \in Writers, NEW x \in Records, Begins(w, x),
           writer[w].step = "idle", x \in (IF w = Daemon THEN Events ELSE Notes),
           w = Daemon => x = turn.next /\ turn'.next = turn.next + 1,
           w # Daemon => turn'.next = turn.next /\ outcome[x] = None
    PROVE  LogTyped' /\ LogInv'
<1>1. /\ writer \in [Writers -> Writings] /\ (writer[w].step \in Holding <=> lock = w)
      /\ writer[w].record = None /\ turn.next \in Nat /\ None \notin Records
    BY Persons DEF LogTyped, LogInv, InHand, Turns
<1>2. UNCHANGED <<files, exists, backup, lock, outcome>> /\ Append_(w, x)
    BY DEF Begins
<1>3. PICK r : r = [step |-> "lock", record |-> x, boundary |-> 0]
    OBVIOUS
<1>4. r \in Writings /\ r.step = "lock" /\ r.record = x
    BY <1>3 DEF Writings, WriterSteps
<1>5. writer' = [writer EXCEPT ![w] = r] /\ writer'[w] = r /\ writer' \in [Writers -> Writings]
    BY <1>1, <1>2, <1>3, <1>4 DEF Append_
<1>6. ~Touched(x) /\ outcome[x] = None
  <2>1. CASE w = Daemon
    BY <1>1, <2>1 DEF LogInv
  <2>2. CASE w # Daemon
    <3>1. w = Client /\ x \in Notes
      BY <2>2, Persons
    <3> QED BY <1>1, <2>2, <3>1 DEF LogInv
  <2> QED BY <2>1, <2>2
<1>7. \A y : (Written(y)' <=> Written(y)) /\ (Touched(y)' <=> Touched(y))
  BY <1>2 DEF Written, Touched
<1>8. InHand(w)'
  BY <1>2, <1>4, <1>5, <1>6, <1>7 DEF InHand, Touched
<1>9. OwnStep(w, r)
  BY <1>1, <1>2, <1>4, <1>5, <1>7, <1>8 DEF OwnStep, Holding
<1>10. /\ \A n \in Notes : n = writer[w].record /\ Touched(n)' => outcome'[n] # None \/ r.record = n
       /\ w = Daemon => turn.next <= turn'.next /\ \A e \in Events : r.record = e => turn'.next = e + 1
       /\ w # Daemon => turn'.next = turn.next
       /\ turn'.next \in Nat /\ turn.next \in Nat
  BY <1>1, <1>4, Persons
<1>11. LogInv'
  BY <1>4, <1>9, <1>10, WriterKeeps
<1> QED BY <1>2, <1>5, <1>11 DEF LogTyped

\* The append is over, or the process is.
LEMMA EndsKeep ==
    ASSUME LogTyped, LogInv, turn \in Turns, NEW w \in Writers, GoesOn(w) \/ (Killed(w) /\ w = Daemon),
           turn'.next = turn.next
    PROVE  LogTyped' /\ LogInv'
<1>1. /\ writer \in [Writers -> Writings] /\ (writer[w].step \in Holding <=> lock = w) /\ InHand(w)
      /\ turn.next \in Nat /\ lock \in Writers \cup {None}
    BY DEF LogTyped, LogInv, Turns
<1>2. UNCHANGED <<files, exists, backup, outcome>> /\ writer' = [writer EXCEPT ![w] = Unwritten]
    BY DEF GoesOn, Killed
<1>3. PICK r \in Writings : r = Unwritten
    BY Unbegun
<1>4. r.step = "idle" /\ r.record = None /\ writer'[w] = r /\ writer' \in [Writers -> Writings]
      /\ writer' = [writer EXCEPT ![w] = r]
    BY <1>1, <1>2, <1>3, Unbegun
<1>5. lock' # w /\ lock' \in Writers \cup {None} /\ \A v \in Writers : v # w => (lock' = v <=> lock = v)
    BY <1>1, Persons DEF GoesOn, Killed, Holding
<1>6. \A y : (Written(y)' <=> Written(y)) /\ (Touched(y)' <=> Touched(y))
  BY <1>2 DEF Written, Touched
<1>7. InHand(w)'
  BY <1>4 DEF InHand
<1>8. OwnStep(w, r)
  <2>1. \A x \in Records : Honest(x)'
    BY <1>2, <1>6 DEF LogInv, Honest
  <2> QED BY <1>2, <1>4, <1>5, <1>6, <1>7, <2>1 DEF OwnStep, Holding
<1>9. ASSUME NEW n \in Notes, n = writer[w].record PROVE outcome'[n] # None
  <2>1. n # None /\ n \notin Events
    BY Persons
  <2>2. w # Daemon
    BY <1>1, <1>9, <2>1 DEF InHand
  <2> QED BY <1>1, <1>2, <1>9, <2>2 DEF InHand, GoesOn
<1>10. /\ \A n \in Notes : n = writer[w].record /\ Touched(n)' => outcome'[n] # None \/ r.record = n
       /\ w = Daemon => turn.next <= turn'.next /\ \A e \in Events : r.record = e => turn'.next = e + 1
       /\ w # Daemon => turn'.next = turn.next
       /\ turn'.next \in Nat /\ turn.next \in Nat
  BY <1>1, <1>4, <1>9, Persons
<1>11. LogInv'
  BY <1>8, <1>10, WriterKeeps
<1> QED BY <1>1, <1>2, <1>4, <1>5, <1>11 DEF LogTyped

-----------------------------------------------------------------------------
(* Numbers in their order *)

LEMMA LeastOf ==
    ASSUME NEW S \in SUBSET Nat, S # {}
    PROVE  \E n \in S : \A m \in S : n <= m
<1> DEFINE R == OpToRel(<, Nat)
<1>1. \A x, y \in Nat : <<x, y>> \in R <=> x < y
    BY DEF OpToRel
<1>2. IsWellFoundedOn(R, Nat)
    BY NatLessThanWellFounded
<1> HIDE DEF R
<1>3. \E x \in S : \A y \in S : ~(<<y, x>> \in R)
    BY <1>2, WFMin
<1>4. PICK x \in S : \A y \in S : ~(<<y, x>> \in R)
    BY <1>3
<1>5. x \in Nat /\ \A y \in S : y \in Nat /\ ~(y < x)
    BY <1>1, <1>4
<1>6. \A y \in S : x <= y
    BY <1>5
<1> QED BY <1>6

LEMMA MaxOf ==
    ASSUME NEW S \in SUBSET Nat, S # {}, NEW bound \in Nat, \A n \in S : n <= bound
    PROVE  Max(S) \in S /\ \A m \in S : m <= Max(S)
<1> DEFINE T == {k \in Nat : \A n \in S : n <= k}
<1>1. PICK k \in T : \A m \in T : k <= m
  <2>1. T \in SUBSET Nat /\ bound \in T
    OBVIOUS
  <2> HIDE DEF T
  <2> QED BY <2>1, LeastOf
<1>2. k \in S
  <2>1. SUFFICES ASSUME k \notin S PROVE FALSE
    OBVIOUS
  <2>2. \A n \in S : n \in Nat /\ n < k
    BY <1>1, <2>1
  <2>3. PICK n \in S : n \in Nat /\ n < k
    BY <2>2
  <2>4. k \in Nat /\ k - 1 \in Nat
    BY <2>3
  <2>5. k - 1 \in T
    BY <2>2, <2>4
  <2> QED BY <1>1, <2>4, <2>5
<1>3. \E x \in S : \A y \in S : x >= y
    BY <1>1, <1>2
<1>4. Max(S) \in S /\ \A y \in S : Max(S) >= y
    BY <1>3 DEF Max
<1> QED BY <1>4

Increasing(s) == \A i, j \in DOMAIN s : i < j => s[i] < s[j]

\* The least of a set, then the rest of it in order.
LEMMA OneMore ==
    ASSUME NEW n \in Nat, NEW S \in SUBSET Nat, NEW least \in S, \A m \in S : least <= m,
           NEW t \in [1..n -> S \ {least}], Increasing(t)
    PROVE  \E s \in [1..(n + 1) -> S] : Increasing(s)
<1>1. PICK s : s = [i \in 1..(n + 1) |-> IF i = 1 THEN least ELSE t[i - 1]]
    OBVIOUS
<1>2. \A i \in 1..(n + 1) : i = 1 \/ i - 1 \in 1..n
    OBVIOUS
<1>3. s \in [1..(n + 1) -> S] /\ \A i \in 1..(n + 1) : s[i] = IF i = 1 THEN least ELSE t[i - 1]
    BY <1>1, <1>2
<1>4. ASSUME NEW i \in 1..(n + 1), NEW j \in 1..(n + 1), i < j PROVE s[i] < s[j]
  <2>1. j - 1 \in 1..n /\ s[j] = t[j - 1] /\ t[j - 1] \in Nat /\ t[j - 1] # least /\ least \in Nat
    <3>1. j # 1 /\ j - 1 \in 1..n
      BY <1>2, <1>4
    <3>2. t[j - 1] \in S \ {least}
      BY <3>1
    <3> QED BY <1>3, <3>1, <3>2
  <2>2. CASE i = 1
    <3>1. least <= t[j - 1]
      <4>1. t[j - 1] \in S
        BY <2>1
      <4> QED BY <4>1
    <3> QED BY <1>3, <2>1, <2>2, <3>1
  <2>3. CASE i # 1
    <3>1. i - 1 \in 1..n /\ s[i] = t[i - 1] /\ i - 1 < j - 1
      BY <1>3, <1>4, <2>3
    <3> QED BY <2>1, <3>1 DEF Increasing
  <2> QED BY <2>2, <2>3
<1> QED BY <1>3, <1>4 DEF Increasing

LEMMA Enumerated ==
    ASSUME NEW S \in SUBSET Nat, IsFiniteSet(S)
    PROVE  \E s \in [1..Cardinality(S) -> S] : Increasing(s)
<1> DEFINE Fits(T) == \E s \in [1..Cardinality(T) -> T] : Increasing(s)
           Bad == {n \in Nat : \E T \in SUBSET Nat : IsFiniteSet(T) /\ Cardinality(T) = n /\ ~Fits(T)}
<1>1. SUFFICES ASSUME ~Fits(S) PROVE FALSE
    OBVIOUS
<1>2. Cardinality(S) \in Bad
    BY <1>1, FS_CardinalityType
<1>3. PICK n \in Bad : \A m \in Bad : n <= m
  <2>1. Bad \in SUBSET Nat
    OBVIOUS
  <2> HIDE DEF Bad
  <2> QED BY <1>2, <2>1, LeastOf
<1>4. PICK T \in SUBSET Nat : IsFiniteSet(T) /\ Cardinality(T) = n /\ ~Fits(T)
    BY <1>3
<1>5. CASE T = {}
  <2>1. n = 0
    BY <1>4, <1>5, FS_EmptySet
  <2>2. PICK s : s = [i \in 1..0 |-> 0]
    OBVIOUS
  <2>3. s \in [1..0 -> T] /\ Increasing(s)
    BY <2>2 DEF Increasing
  <2> QED BY <1>4, <2>1, <2>3
<1>6. CASE T # {}
  <2>1. PICK least \in T : \A m \in T : least <= m
    BY <1>6, LeastOf
  <2>2. PICK U : U = T \ {least}
    OBVIOUS
  <2>3. IsFiniteSet(U) /\ Cardinality(U) = n - 1 /\ U \in SUBSET Nat /\ Cardinality(U) \in Nat
    BY <1>4, <2>2, FS_RemoveElement, FS_CardinalityType
  <2>4. Fits(U)
    <3>1. n - 1 \in Nat /\ n - 1 \notin Bad
      BY <1>3, <2>3
    <3> QED BY <2>3, <3>1
  <2>5. PICK t \in [1..(n - 1) -> U] : Increasing(t)
    BY <2>3, <2>4
  <2>6. \E s \in [1..((n - 1) + 1) -> T] : Increasing(s)
    BY <2>1, <2>2, <2>3, <2>5, OneMore
  <2> QED BY <1>3, <1>4, <2>6
<1> QED BY <1>5, <1>6

\* What is read of the log is shown once, in the order in which it happened.
LEMMA InOrder ==
    ASSUME NEW S \in SUBSET Events
    PROVE  /\ ByTime(S) \in Seq(Events) /\ Range(ByTime(S)) = S
           /\ \A i, j \in DOMAIN ByTime(S) : i # j => ByTime(S)[i] # ByTime(S)[j]
<1>1. IsFiniteSet(S) /\ S \in SUBSET Nat
  <2>1. IsFiniteSet(Events)
    BY LimitsAssumption, FS_Interval DEF Events
  <2> QED BY <2>1, FS_Subset, Persons
<1>2. PICK n : n = Cardinality(S)
    OBVIOUS
<1>3. n \in Nat
    BY <1>1, <1>2, FS_CardinalityType
<1>4. PICK s : s = ByTime(S)
    OBVIOUS
<1>5. s \in [1..n -> S] /\ \A i, j \in DOMAIN s : i < j => s[i] < s[j]
  <2>1. \E t \in [1..n -> S] : \A i, j \in DOMAIN t : i < j => t[i] < t[j]
    BY <1>1, <1>2, Enumerated DEF Increasing
  <2> QED BY <1>2, <1>4, <2>1 DEF ByTime
<1>6. s \in Seq(Events) /\ DOMAIN s = 1..n
    BY <1>3, <1>5
<1>7. ASSUME NEW i \in 1..n, NEW j \in 1..n, i # j PROVE s[i] # s[j]
  <2>1. s[i] \in Nat /\ s[j] \in Nat
    BY <1>1, <1>5
  <2>2. i < j \/ j < i
    BY <1>3, <1>7
  <2> QED BY <1>5, <1>6, <2>1, <2>2
<1>8. Range(s) = S
  <2>1. s \in Injection(1..n, S)
    BY <1>5, <1>7 DEF Injection, IsInjective
  <2>2. Cardinality(1..n) = n
    BY <1>3, FS_Interval
  <2>3. s \in Surjection(1..n, S)
    BY <1>1, <1>2, <2>1, <2>2, FS_Injection
  <2> QED BY <1>5, <2>3 DEF Surjection, Range
<1> QED BY <1>4, <1>6, <1>7, <1>8

-----------------------------------------------------------------------------
(* What a cursor reads *)

LEMMA Onwards ==
    ASSUME NEW T, NEW s \in Seq(T), NEW n \in Nat
    PROVE  /\ From(s, n) \in Seq(T)
           /\ Len(From(s, n)) = IF n < Len(s) THEN Len(s) - n ELSE 0
           /\ \A i \in 1..Len(From(s, n)) : n + i \in 1..Len(s) /\ From(s, n)[i] = s[n + i]
<1>1. Len(s) \in Nat
    OBVIOUS
<1>2. From(s, n) \in Seq(T) /\ Len(From(s, n)) = IF n < Len(s) THEN Len(s) - n ELSE 0
    BY <1>1 DEF From
<1>3. ASSUME NEW i \in 1..Len(From(s, n)) PROVE n + i \in 1..Len(s) /\ From(s, n)[i] = s[n + i]
  <2>1. n < Len(s) /\ i \in 1..(Len(s) - n)
    BY <1>1, <1>2
  <2>2. n + i \in 1..Len(s) /\ (n + 1) + i - 1 = n + i
    BY <1>1, <2>1
  <2>3. SubSeq(s, n + 1, Len(s))[i] = s[(n + 1) + i - 1]
    BY <1>1, <2>1
  <2> QED BY <2>2, <2>3 DEF From
<1> QED BY <1>2, <1>3

LEMMA Complete ==
    ASSUME NEW s \in Seq(Piece)
    PROVE  /\ CompleteLength(s) \in 0..Len(s)
           /\ CompleteLength(s) # 0 => s[CompleteLength(s)][2] = 2
           /\ \A i \in DOMAIN s : s[i][2] = 2 => i <= CompleteLength(s)
<1>1. PICK S : S = {0} \cup {i \in DOMAIN s : s[i][2] = 2}
    OBVIOUS
<1>2. S \in SUBSET Nat /\ S # {} /\ Len(s) \in Nat /\ (\A n \in S : n <= Len(s)) /\ DOMAIN s = 1..Len(s)
    BY <1>1
<1>3. Max(S) \in S /\ \A m \in S : m <= Max(S)
    BY <1>2, MaxOf
<1>4. CompleteLength(s) = Max(S)
    BY <1>1 DEF CompleteLength
<1> QED BY <1>1, <1>2, <1>3, <1>4

LEMMA ReadTyped ==
    ASSUME LogTyped, NEW c \in Cursors
    PROVE  /\ NewRecords(c) \subseteq Records /\ ReadFrom(c) \in Nat /\ ReadOn(c) \in Cursors
           /\ ReadOn(c).seen = c.seen \cup NewRecords(c)
<1>1. NewRecords(c) \subseteq Records
    BY DEF NewRecords, Rest, Parsed
<1>2. ReadFrom(c) \in Nat
    BY DEF ReadFrom, Cursors
<1>3. files[Active] \in Seq(Piece)
    BY DEF LogTyped, Active
<1>4. CompleteLength(From(files[Active], ReadFrom(c))) \in Nat
  <2>1. PICK s \in Seq(Piece) : s = From(files[Active], ReadFrom(c))
    BY <1>2, <1>3, Onwards
  <2>2. CompleteLength(s) \in 0..Len(s) /\ Len(s) \in Nat
    BY Complete
  <2> QED BY <2>1, <2>2
<1> QED BY <1>1, <1>2, <1>4 DEF ReadOn, Cursors

LEMMA CursorTyped ==
    ASSUME LogTyped, NEW c \in Cursors
    PROVE  CursorFromProject \in Cursors /\ Found(c) \in Cursors /\ StartOver(c) \in Cursors /\ NoCursor \in Cursors
<1>1. Active \in Nat /\ Len(files[Active]) \in Nat
    BY DEF LogTyped, Active
<1>2. CursorFromProject \in Cursors /\ NoCursor \in Cursors
    BY <1>1 DEF CursorFromProject, NoCursor, Cursors
<1>3. Found(c) \in Cursors /\ StartOver(c) \in Cursors
    BY <1>1 DEF Found, StartOver, Cursors
<1> QED BY <1>2, <1>3

-----------------------------------------------------------------------------
(* The types of a turn *)

LEMMA DaemonTyped ==
    ASSUME Typed, LogInv, BeginEvent \/ PublishEvent \/ TurnStops \/ DaemonDies \/ Expire
    PROVE  ActivityTyped'
<1>1. ActivityTyped
    BY DEF Typed
<1>2. CASE BeginEvent
    BY <1>1, <1>2 DEF BeginEvent, ActivityTyped, Turns, history
<1>3. CASE TurnStops
    BY <1>1, <1>3 DEF TurnStops, ActivityTyped, Turns, history
<1>4. CASE DaemonDies
    BY <1>1, <1>4 DEF DaemonDies, ActivityTyped, Turns, Killed
<1>5. CASE Expire
    BY <1>1, <1>5 DEF Expire, ActivityTyped, history
<1>6. CASE PublishEvent
  <2>1. PICK e : e = writer[Daemon].record
    OBVIOUS
  <2>2. e \in Events
    BY <1>6, <2>1, Persons DEF PublishEvent, LogInv, InHand
  <2>3. ASSUME NEW b \in Subscriptions PROVE Delivered(b, e) \in Subscriptions
    <3>1. b.events \in Seq(Events) /\ b.dropped \in Nat /\ MaxEvents # 0
      BY LimitsAssumption DEF Subscriptions
    <3>2. Append(b.events, e) \in Seq(Events)
      BY <2>2, <3>1
    <3>3. CASE Len(b.events) = MaxEvents
      <4>1. Tail(b.events) \in Seq(Events)
        BY <3>1, <3>3
      <4>2. Append(Tail(b.events), e) \in Seq(Events)
        BY <2>2, <4>1
      <4> QED BY <3>1, <3>3, <4>2 DEF Delivered, Subscriptions
    <3> QED BY <3>1, <3>2, <3>3 DEF Delivered, Subscriptions
  <2>4. broker' \in Subscriptions \cup {None} /\ told' \subseteq Events
    BY <1>1, <1>6, <2>1, <2>2, <2>3 DEF PublishEvent, ActivityTyped
  <2> QED BY <1>1, <1>6, <2>4 DEF PublishEvent, ActivityTyped
<1> QED BY <1>2, <1>3, <1>4, <1>5, <1>6

LEMMA CallTyped ==
    ASSUME Typed, Register \/ Request \/ Receive \/ EndCall \/ Lose
    PROVE  ActivityTyped'
<1>1. ActivityTyped
    BY DEF Typed
<1>2. CASE Register
  <2>1. call' \in Calls /\ closes' \in Nat
    BY <1>1, <1>2 DEF Register, ActivityTyped, Calls, Results
  <2>2. token' \in Tokens
    BY <1>1, <1>2 DEF Register, ActivityTyped, Tokens
  <2> QED BY <1>1, <1>2, <2>1, <2>2 DEF Register, CallUnchanged, ActivityTyped, history
<1>3. CASE Request
    BY <1>1, <1>3 DEF Request, CallUnchanged, ActivityTyped, Calls, Turns, history
<1>4. CASE Receive
    BY <1>1, <1>4 DEF Receive, CallUnchanged, ActivityTyped, Calls, Results, history
<1>5. CASE EndCall
    BY <1>1, <1>5 DEF EndCall, Discard, CallUnchanged, ActivityTyped, Calls, Tokens, history
<1>6. CASE Lose
    BY <1>1, <1>6 DEF Lose, ActivityTyped, Calls, Results, history
<1> QED BY <1>2, <1>3, <1>4, <1>5, <1>6

\* The REPL is where it was, but for its step, its note and how it goes on.
LEMMA Moved ==
    ASSUME NEW c \in Repls, NEW step \in ClientSteps, NEW after \in ClientSteps
    PROVE  /\ [c EXCEPT !.step = step] \in Repls
           /\ [c EXCEPT !.step = step, !.after = after] \in Repls
BY DEF Repls

LEMMA WithNoteTyped ==
    ASSUME NEW c \in Repls, NEW next \in ClientSteps, WithNote(next, c)
    PROVE  /\ client' \in Repls
           /\ \/ client' = [c EXCEPT !.step = next] /\ UNCHANGED writer
              \/ /\ client' = [c EXCEPT !.step = "note", !.after = next]
                 /\ \E n \in Notes : outcome[n] = None /\ Append_(Client, n)
<1>1. CASE Unused = {}
    BY <1>1, Moved DEF WithNote
<1>2. CASE Unused # {}
  <2>1. (CHOOSE n \in Unused : TRUE) \in Unused
    BY <1>2
  <2>2. PICK n \in Unused : Append_(Client, n)
    BY <1>2, <2>1 DEF WithNote
  <2>3. n \in Notes /\ outcome[n] = None
    BY DEF Unused
  <2>4. client' = [c EXCEPT !.step = "note", !.after = next]
    BY <1>2 DEF WithNote
  <2>5. client' \in Repls
    BY <2>4, Moved DEF ClientSteps
  <2> QED BY <2>2, <2>3, <2>4, <2>5
<1> QED BY <1>1, <1>2

LEMMA PresentTyped ==
    ASSUME NEW c \in Repls, NEW events \in Seq(Events)
    PROVE  Present(c, events) \in Repls
<1>1. Range(events) \subseteq Records
    BY Persons DEF Range
<1>2. MarkSeen(c.cursor, Range(events)) \in Cursors
    BY <1>1 DEF MarkSeen, Repls, Cursors
<1>3. c.shown \o events \in Seq(Events)
    BY DEF Repls
<1> QED BY <1>2, <1>3 DEF Present, Repls

LEMMA ExitTyped ==
    ASSUME NEW c \in Repls, NEW reason \in {"interrupted", "raised"}
    PROVE  Exit(c, reason) \in Repls
<1>1. PICK step \in ClientSteps : step = IF c.back = "loop" THEN "cancel" ELSE "ended"
    BY DEF ClientSteps
<1>2. "loop" \in {"loop", "close"}
    OBVIOUS
<1>3. [c EXCEPT !.exit = reason, !.step = step, !.back = "loop"] \in Repls
    BY <1>2 DEF Repls
<1> QED BY <1>1, <1>3 DEF Exit

LEMMA SendTyped ==
    ASSUME Typed, Send \/ OpenActivity \/ StartCall \/ CloseActivity \/ Finish
    PROVE  ActivityTyped'
<1>1. ActivityTyped /\ LogTyped /\ client \in Repls /\ client.cursor \in Cursors
    BY DEF Typed, ActivityTyped, Repls
<1>2. CASE Send
  <2>1. CursorFromProject \in Cursors
    BY <1>1, CursorTyped
  <2>2. client' \in Repls
    BY <1>1, <1>2, <2>1 DEF Send, Repls, ClientSteps
  <2> QED BY <1>1, <1>2, <2>2 DEF Send, ActivityTyped
<1>3. CASE OpenActivity
  <2>1. PICK asked : asked = [client EXCEPT !.since = Len(client.shown), !.degraded = FALSE,
                                            !.before = writer[Daemon].record]
    OBVIOUS
  <2>2. asked \in Repls
    <3>1. Len(client.shown) \in Nat /\ writer[Daemon].record \in Records \cup {None}
      BY <1>1, Persons DEF Repls, LogTyped, Writings
    <3> QED BY <1>1, <2>1, <3>1 DEF Repls
  <2>3. /\ [asked EXCEPT !.subscribed = FALSE, !.degraded = TRUE] \in Repls
        /\ [asked EXCEPT !.step = "start", !.subscribed = TRUE] \in Repls
    BY <2>2 DEF Repls, ClientSteps
  <2>4. client' \in Repls /\ broker' \in Subscriptions \cup {None} /\ told' = {}
    <3>1. CASE broker' = [events |-> <<>>, dropped |-> 0] /\ client' = [asked EXCEPT !.step = "start", !.subscribed = TRUE]
      BY <1>3, <2>3, <3>1 DEF OpenActivity, Subscriptions
    <3>2. CASE broker' = None /\ WithNote("start", [asked EXCEPT !.subscribed = FALSE, !.degraded = TRUE])
      <4>1. client' \in Repls
        BY <2>3, <3>2, WithNoteTyped DEF ClientSteps
      <4> QED BY <1>3, <3>2, <4>1 DEF OpenActivity
    <3> QED BY <1>3, <2>1, <3>1, <3>2 DEF OpenActivity
  <2> QED BY <1>1, <1>3, <2>4 DEF OpenActivity, ActivityTyped
<1>4. CASE StartCall
  <2>1. client' \in Repls
    BY <1>1, <1>4 DEF StartCall, Repls, ClientSteps
  <2> QED BY <1>1, <1>4, <2>1 DEF StartCall, ActivityTyped, Calls, Tokens, FreshToken, history
<1>5. CASE CloseActivity
  <2>1. client' \in Repls
    BY <1>1, <1>5 DEF CloseActivity, Repls, ClientSteps
  <2> QED BY <1>1, <1>5, <2>1 DEF CloseActivity, ActivityTyped, history
<1>6. CASE Finish
  <2>1. client' \in Repls
    <3>1. CASE call.result = "effect"
      BY <1>1, <1>6, <3>1 DEF Finish, Repls, ClientSteps
    <3>2. CASE call.result # "effect" /\ call.result = "lost" /\ client.attempt < MaxAttempts
      <4>1. [client EXCEPT !.attempt = @ + 1] \in Repls
        BY <1>1 DEF Repls
      <4> QED BY <1>6, <3>2, <4>1, WithNoteTyped DEF Finish, ClientSteps
    <3>3. CASE call.result # "effect" /\ ~(call.result = "lost" /\ client.attempt < MaxAttempts)
      <4>1. client' = [AtPrompt(client) EXCEPT !.offer = call.result = "lost"]
        BY <1>6, <3>3 DEF Finish
      <4>2. AtPrompt(client) \in Repls
        BY <1>1, CursorTyped DEF AtPrompt, Repls, ClientSteps
      <4>3. (call.result = "lost") \in BOOLEAN
        OBVIOUS
      <4> QED BY <4>1, <4>2, <4>3 DEF Repls
    <3> QED BY <3>1, <3>2, <3>3
  <2> QED BY <1>1, <1>6, <2>1 DEF Finish, ActivityTyped, history
<1> QED BY <1>2, <1>3, <1>4, <1>5, <1>6

LEMMA DegradeTyped ==
    ASSUME Typed, NEW back \in {"loop", "close"}, Degrade(back)
    PROVE  ActivityTyped'
<1>1. ActivityTyped /\ client \in Repls
    BY DEF Typed, ActivityTyped
<1>2. [client EXCEPT !.subscribed = FALSE, !.degraded = TRUE, !.back = back] \in Repls
    BY <1>1 DEF Repls
<1>3. client' \in Repls
    BY <1>2, WithNoteTyped DEF Degrade, ClientSteps
<1> QED BY <1>1, <1>3 DEF Degrade, ActivityTyped, history

LEMMA FollowTyped ==
    ASSUME Typed, PollBatch \/ PollFails \/ Sleep \/ Outcome \/ Drain \/ Stat \/ Read \/ NoteWritten
    PROVE  ActivityTyped'
<1>1. /\ ActivityTyped /\ LogTyped /\ client \in Repls /\ client.cursor \in Cursors
      /\ broker \in Subscriptions \cup {None}
    BY DEF Typed, ActivityTyped, Repls
<1>2. ASSUME NEW back \in {"loop", "close"}, ReadLog(back) PROVE ActivityTyped'
  <2>1. client' \in Repls
    BY <1>1, <1>2 DEF ReadLog, Repls, ClientSteps
  <2> QED BY <1>1, <1>2, <2>1 DEF ReadLog, Quiet, ActivityTyped, history
<1>3. CASE PollBatch
  <2>1. PICK n : n = Len(SubSeq(broker.events, 1, Min({Limit, Len(broker.events)})))
    OBVIOUS
  <2>2. PICK k : k = Min({Limit, Len(broker.events)})
    OBVIOUS
  <2>3. broker \in Subscriptions /\ broker.events \in Seq(Events) /\ broker.dropped \in Nat
    BY <1>1, <1>3 DEF PollBatch, Subscriptions
  <2>4. k \in 0..Len(broker.events)
    <3>1. PICK l : l = Len(broker.events)
      OBVIOUS
    <3>2. l \in Nat /\ Limit \in Nat
      BY <2>3, <3>1, LimitsAssumption
    <3>3. k = Min({Limit, l})
      BY <2>2, <3>1
    <3>4. k \in {Limit, l} /\ k <= l /\ k <= Limit
      <4>1. \E x \in {Limit, l} : \A y \in {Limit, l} : x <= y
        BY <3>2
      <4> QED BY <3>3, <4>1 DEF Min
    <3> QED BY <3>1, <3>2, <3>4
  <2>5. SubSeq(broker.events, 1, k) \in Seq(Events)
    BY <2>3, <2>4
  <2>6. n \in Nat
    BY <2>1, <2>2, <2>5
  <2>7. From(broker.events, n) \in Seq(Events)
    BY <2>3, <2>6, Onwards
  <2>8. client' \in Repls
    BY <1>1, <1>3, <2>2, <2>5, PresentTyped DEF PollBatch
  <2>9. broker' = [broker EXCEPT !.events = From(broker.events, n)]
    BY <1>3, <2>1 DEF PollBatch
  <2>10. broker' \in Subscriptions
    BY <2>3, <2>7, <2>9 DEF Subscriptions
  <2> QED BY <1>1, <1>3, <2>8, <2>10 DEF PollBatch, ActivityTyped, history
<1>4. CASE PollFails
    BY <1>4, DegradeTyped DEF PollFails
<1>5. CASE Sleep
    BY <1>2, <1>5 DEF Sleep
<1>6. CASE Outcome
  <2>1. client' \in Repls
    BY <1>1, <1>6 DEF Outcome, Repls, ClientSteps
  <2> QED BY <1>1, <1>6, <2>1 DEF Outcome, Quiet, ActivityTyped, history
<1>7. CASE Drain
  <2>1. CASE Degrade("close")
    BY <2>1, DegradeTyped
  <2>2. CASE ReadLog("close")
    BY <1>2, <2>2
  <2>3. CASE broker # None /\ client' = [Present(client, broker.events) EXCEPT !.step = "close"]
             /\ broker' = [broker EXCEPT !.events = <<>>]
             /\ UNCHANGED <<logVars, turn, call, token, closes, history, counters>>
    <3>1. broker \in Subscriptions /\ broker.events \in Seq(Events)
      BY <1>1, <2>3 DEF Subscriptions
    <3>2. client' \in Repls
      BY <1>1, <2>3, <3>1, PresentTyped, Moved DEF ClientSteps
    <3>3. broker' \in Subscriptions
      <4>1. broker' = [broker EXCEPT !.events = <<>>] /\ <<>> \in Seq(Events)
        BY <2>3
      <4> QED BY <3>1, <4>1 DEF Subscriptions
    <3> QED BY <1>1, <2>3, <3>2, <3>3 DEF ActivityTyped, history
  <2> QED BY <1>7, <2>1, <2>2, <2>3 DEF Drain
<1>8. CASE Stat
  <2>1. Found(client.cursor) \in Cursors /\ StartOver(client.cursor) \in Cursors
    BY <1>1, CursorTyped
  <2>2. client' \in Repls
    <3>1. PICK c \in Cursors : c = Found(client.cursor)
      BY <2>1
    <3>2. PICK d \in Cursors : d = StartOver(client.cursor)
      BY <2>1
    <3>3. PICK back \in {"loop", "close"} : back = client.back
      BY <1>1 DEF Repls
    <3>4. \/ client' = [client EXCEPT !.step = "read", !.cursor = c]
          \/ client' = [client EXCEPT !.step = back, !.back = "loop", !.cursor = d]
      BY <1>8, <3>1, <3>2, <3>3 DEF Stat
    <3>5. [client EXCEPT !.step = "read", !.cursor = c] \in Repls
      BY <1>1 DEF Repls, ClientSteps
    <3>6. [client EXCEPT !.step = back, !.back = "loop", !.cursor = d] \in Repls
      BY <1>1 DEF Repls, ClientSteps
    <3> QED BY <3>4, <3>5, <3>6
  <2>3. disturbed' \in BOOLEAN
    BY <1>1, <1>8 DEF Stat, ActivityTyped
  <2> QED BY <1>1, <1>8, <2>2, <2>3 DEF Stat, ActivityTyped
<1>9. CASE Read
  <2>1. CASE exists
    <3>1. ReadOn(client.cursor) \in Cursors
      BY <1>1, ReadTyped
    <3>2. PICK S \in SUBSET Events : S = NewRecords(client.cursor) \cap Events
      OBVIOUS
    <3>3. PICK more \in Seq(Events) : more = ByTime(S)
      BY InOrder
    <3>4. client' = [client EXCEPT !.step = client.back, !.back = "loop",
                                   !.shown = client.shown \o more, !.cursor = ReadOn(client.cursor)]
      BY <1>9, <2>1, <3>2, <3>3 DEF Read
    <3>5. client.shown \o more \in Seq(Events) /\ client.back \in ClientSteps
      BY <1>1 DEF Repls, ClientSteps
    <3>6. client' \in Repls
      BY <1>1, <3>1, <3>4, <3>5 DEF Repls
    <3>7. disturbed' \in BOOLEAN
      BY <1>1, <1>9, <2>1 DEF Read, ActivityTyped
    <3> QED BY <1>1, <1>9, <3>6, <3>7 DEF Read, ActivityTyped
  <2>2. CASE ~exists
    BY <1>1, <1>9, <2>2, ExitTyped DEF Read, ActivityTyped
  <2> QED BY <2>1, <2>2
<1>10. CASE NoteWritten
  <2>1. client' \in Repls
    BY <1>1, <1>10 DEF NoteWritten, Repls, ClientSteps
  <2> QED BY <1>1, <1>10, <2>1 DEF NoteWritten, ActivityTyped, history
<1> QED BY <1>3, <1>4, <1>5, <1>6, <1>7, <1>8, <1>9, <1>10

LEMMA InterruptTyped ==
    ASSUME Typed, Interrupt \/ Cancel \/ RunClosers \/ InterruptAgain \/ Reap \/ End
    PROVE  ActivityTyped'
<1>1. ActivityTyped /\ client \in Repls
    BY DEF Typed, ActivityTyped
<1>2. CASE Interrupt
  <2>1. /\ Exit(client, "interrupted") \in Repls
        /\ [client EXCEPT !.step = "cancel", !.exit = "interrupted"] \in Repls
        /\ [client EXCEPT !.step = "ended", !.exit = "interrupted"] \in Repls
    <3>1. Exit(client, "interrupted") \in Repls
      BY <1>1, ExitTyped
    <3>2. [client EXCEPT !.step = "cancel", !.exit = "interrupted"] \in Repls
      BY <1>1 DEF Repls, ClientSteps
    <3>3. [client EXCEPT !.step = "ended", !.exit = "interrupted"] \in Repls
      BY <1>1 DEF Repls, ClientSteps
    <3> QED BY <3>1, <3>2, <3>3
  <2> QED BY <1>1, <1>2, <2>1 DEF Interrupt, ActivityTyped, history
<1>3. CASE Cancel
  <2>1. client' \in Repls /\ token' \in Tokens
    BY <1>1, <1>3 DEF Cancel, Repls, ClientSteps, ActivityTyped, Tokens
  <2> QED BY <1>1, <1>3, <2>1 DEF Cancel, ActivityTyped, history
<1>4. CASE RunClosers
  <2>1. client' \in Repls
    BY <1>1, <1>4, Moved DEF RunClosers, ClientSteps
  <2>2. token' \in Tokens
    BY <1>1, <1>4 DEF RunClosers, ActivityTyped, Tokens
  <2>3. closes' \in Nat
    BY <1>1, <1>4 DEF RunClosers, ActivityTyped
  <2> QED BY <1>1, <1>4, <2>1, <2>2, <2>3 DEF RunClosers, ActivityTyped, history
<1>5. CASE InterruptAgain
  <2>1. client' \in Repls /\ token' \in Tokens
    BY <1>1, <1>5 DEF InterruptAgain, Repls, ClientSteps, ActivityTyped, Tokens
  <2> QED BY <1>1, <1>5, <2>1 DEF InterruptAgain, ActivityTyped, history
<1>6. CASE Reap
  <2>1. client' \in Repls
    BY <1>1, <1>6 DEF Reap, Repls, ClientSteps
  <2> QED BY <1>1, <1>6, <2>1 DEF Reap, Quiet, ActivityTyped, history
<1>7. CASE End
  <2>1. AtPrompt(client) \in Repls /\ [client EXCEPT !.step = "gone"] \in Repls
    <3>1. NoCursor \in Cursors
      BY DEF NoCursor, Cursors
    <3>2. AtPrompt(client) \in Repls
      BY <1>1, <3>1 DEF AtPrompt, Repls, ClientSteps
    <3> QED BY <1>1, <3>2, Moved DEF ClientSteps
  <2>2. client' \in Repls
    BY <1>7, <2>1 DEF End, Repls
  <2> QED BY <1>1, <1>7, <2>2 DEF End, ActivityTyped, history
<1> QED BY <1>2, <1>3, <1>4, <1>5, <1>6, <1>7

-----------------------------------------------------------------------------
(* The log under a turn *)

\* The REPL appends nothing but the note it waits for.
Noting == client.step # "note" => writer[Client].step = "idle"

LEMMA LogKept ==
    ASSUME Typed, LogInv, Noting, [Next]_vars
    PROVE  LogTyped' /\ LogInv'
<1>1. LogTyped /\ turn \in Turns /\ client \in Repls
    BY DEF Typed, ActivityTyped
<1>2. ASSUME UNCHANGED logVars, turn'.next = turn.next PROVE LogTyped' /\ LogInv'
    BY <1>1, <1>2, LogRests DEF logVars
<1>3. ASSUME NEW next \in ClientSteps, NEW c \in Repls, WithNote(next, c), client.step # "note",
             UNCHANGED <<files, exists, backup, lock, outcome, turn>>
      PROVE  LogTyped' /\ LogInv'
  <2>1. CASE UNCHANGED writer
    BY <1>2, <1>3, <2>1 DEF logVars
  <2>2. CASE \E n \in Notes : outcome[n] = None /\ Append_(Client, n)
    <3>1. PICK n \in Notes : outcome[n] = None /\ Append_(Client, n)
      BY <2>2
    <3>2. Begins(Client, n) /\ writer[Client].step = "idle" /\ n \in Records
      BY <1>3, <3>1, Persons DEF Begins, Noting
    <3> QED BY <1>1, <1>3, <3>1, <3>2, BeginsKeeps, Persons
  <2> QED BY <1>3, <2>1, <2>2, WithNoteTyped
<1>4. CASE BeginEvent
  <2>1. PICK e : e = turn.next
    OBVIOUS
  <2>2. e \in Events /\ turn'.next = e + 1 /\ Begins(Daemon, e) /\ writer[Daemon].step = "idle"
    BY <1>1, <1>4, <2>1, LimitsAssumption DEF BeginEvent, Turns, Events, Begins, Publishing
  <2> QED BY <1>1, <2>1, <2>2, BeginsKeeps, Persons
<1>5. CASE PublishEvent
  <2>1. GoesOn(Daemon) /\ turn' = turn
    BY <1>5 DEF PublishEvent, GoesOn
  <2> QED BY <1>1, <2>1, EndsKeep, Persons
<1>6. CASE TurnStops
  BY <1>1, <1>2, <1>6 DEF TurnStops, Turns
<1>7. CASE DaemonDies
  <2>1. Killed(Daemon) /\ turn'.next = turn.next
    BY <1>1, <1>7 DEF DaemonDies, Turns
  <2> QED BY <1>1, <2>1, EndsKeep, Persons
<1>8. CASE LogStep
  <2>1. PICK w \in Writers : WriterStep(w) /\ turn' = turn
    BY <1>8 DEF LogStep, activityVars
  <2> QED BY <1>1, <2>1, LogMoves
<1>9. CASE LogFault
  <2>1. PICK w \in Writers : WriterFault(w) /\ turn' = turn
    BY <1>9 DEF LogFault, activityVars
  <2> QED BY <1>1, <2>1, LogMoves
<1>10. CASE Request
  BY <1>1, <1>2, <1>10 DEF Request, CallUnchanged, Turns
<1>11. CASE OpenActivity
  <2>1. CASE UNCHANGED writer
    BY <1>2, <1>11, <2>1 DEF OpenActivity, FilesUnchanged, logVars
  <2>2. CASE WithNote("start", [[client EXCEPT !.since = Len(client.shown), !.degraded = FALSE,
                                               !.before = writer[Daemon].record]
                                EXCEPT !.subscribed = FALSE, !.degraded = TRUE])
    <3>1. PICK c : c = [[client EXCEPT !.since = Len(client.shown), !.degraded = FALSE,
                                       !.before = writer[Daemon].record]
                        EXCEPT !.subscribed = FALSE, !.degraded = TRUE]
      OBVIOUS
    <3>2. Len(client.shown) \in Nat /\ writer[Daemon].record \in Records \cup {None}
      BY <1>1, Persons DEF Repls, LogTyped, Writings
    <3>3. c \in Repls
      BY <1>1, <3>1, <3>2 DEF Repls
    <3>4. WithNote("start", c)
      BY <2>2, <3>1
    <3> QED BY <1>3, <1>11, <3>3, <3>4 DEF OpenActivity, FilesUnchanged, ClientSteps
  <2> QED BY <1>11, <2>1, <2>2 DEF OpenActivity
<1>12. ASSUME NEW back \in {"loop", "close"}, Degrade(back), client.step # "note" PROVE LogTyped' /\ LogInv'
  <2>1. [client EXCEPT !.subscribed = FALSE, !.degraded = TRUE, !.back = back] \in Repls
    BY <1>1 DEF Repls
  <2> QED BY <1>3, <1>12, <2>1 DEF Degrade, FilesUnchanged, ClientSteps
<1>13. CASE PollFails
  BY <1>12, <1>13 DEF PollFails
<1>14. CASE Drain
  <2>1. CASE Degrade("close")
    BY <1>12, <1>14, <2>1 DEF Drain
  <2>2. CASE ~Degrade("close")
    BY <1>2, <1>14, <2>2 DEF Drain, ReadLog, Quiet
  <2> QED BY <2>1, <2>2
<1>15. CASE Finish
  <2>1. CASE UNCHANGED writer
    BY <1>2, <1>15, <2>1 DEF Finish, FilesUnchanged, logVars
  <2>2. CASE WithNote("open", [client EXCEPT !.attempt = @ + 1])
    <3>1. [client EXCEPT !.attempt = @ + 1] \in Repls
      BY <1>1 DEF Repls
    <3> QED BY <1>3, <1>15, <2>2, <3>1 DEF Finish, FilesUnchanged, ClientSteps
  <2> QED BY <1>15, <2>1, <2>2 DEF Finish
<1>16. CASE NoteWritten
  <2>1. GoesOn(Client) /\ turn' = turn
    BY <1>16 DEF NoteWritten, GoesOn
  <2> QED BY <1>1, <2>1, EndsKeep, Persons
<1>17. CASE \/ Register \/ Receive \/ EndCall \/ Lose \/ Expire \/ Send \/ StartCall \/ PollBatch \/ Sleep \/ Outcome
            \/ Stat \/ Read \/ CloseActivity \/ Cancel \/ RunClosers \/ Reap \/ End \/ Interrupt \/ InterruptAgain
  <2>1. UNCHANGED <<logVars, turn>>
    BY <1>17 DEF Register, Receive, EndCall, Lose, Expire, Send, StartCall, PollBatch, Sleep, Outcome, Stat, Read,
                 CloseActivity, Cancel, RunClosers, Reap, End, Interrupt, InterruptAgain, CallUnchanged, Quiet, ReadLog
  <2> QED BY <1>2, <2>1
<1>18. CASE UNCHANGED vars
  BY <1>2, <1>18 DEF vars, activityVars
<1> QED BY <1>4, <1>5, <1>6, <1>7, <1>8, <1>9, <1>10, <1>11, <1>13, <1>14, <1>15, <1>16, <1>17, <1>18
        DEF Next, DaemonStep, CallStep, ClientStep

LEMMA ActivityKept ==
    ASSUME Typed, LogInv, [Next]_vars
    PROVE  ActivityTyped'
<1>1. CASE LogStep \/ LogFault \/ UNCHANGED vars
    BY <1>1 DEF Typed, ActivityTyped, LogStep, LogFault, activityVars, history, vars
<1>2. CASE \/ BeginEvent \/ PublishEvent \/ TurnStops \/ DaemonDies \/ Expire
    BY <1>2, DaemonTyped
<1>3. CASE Register \/ Request \/ Receive \/ EndCall \/ Lose
    BY <1>3, CallTyped
<1>4. CASE Send \/ OpenActivity \/ StartCall \/ CloseActivity \/ Finish
    BY <1>4, SendTyped
<1>5. CASE PollBatch \/ PollFails \/ Sleep \/ Outcome \/ Drain \/ Stat \/ Read \/ NoteWritten
    BY <1>5, FollowTyped
<1>6. CASE Interrupt \/ Cancel \/ RunClosers \/ InterruptAgain \/ Reap \/ End
    BY <1>6, InterruptTyped
<1> QED BY <1>1, <1>2, <1>3, <1>4, <1>5, <1>6 DEF Next, DaemonStep, CallStep, ClientStep

\* Where a step of the REPL may leave it.
LEMMA NotingKept ==
    ASSUME Typed, LogInv, Noting, [Next]_vars
    PROVE  Noting'
<1>1. /\ client \in Repls /\ writer \in [Writers -> Writings] /\ client' \in Repls
      /\ Client \in Writers /\ Daemon \in Writers /\ Daemon # Client
      /\ LogTyped /\ InHand(Client) /\ writer[Client].step \in WriterSteps
    BY ActivityKept, Persons DEF Typed, LogTyped, ActivityTyped, LogInv, Writings
<1>2. ASSUME writer'[Client].step = writer[Client].step \/ writer[Client].step # "idle",
             client' = client \/ client.step # "note"
      PROVE  Noting'
    BY <1>2 DEF Noting
<1>3. ASSUME NEW next \in ClientSteps, NEW c \in Repls, WithNote(next, c), client.step # "note" PROVE Noting'
  <2>1. CASE client' = [c EXCEPT !.step = next] /\ UNCHANGED writer
    BY <1>3, <2>1 DEF Noting
  <2>2. CASE client' = [c EXCEPT !.step = "note", !.after = next]
    BY <2>2 DEF Noting, Repls
  <2> QED BY <1>3, <2>1, <2>2, WithNoteTyped
<1>4. ASSUME writer' = [writer EXCEPT ![Daemon] = Unwritten] \/ Append_(Daemon, turn.next), UNCHANGED client
      PROVE  Noting'
  <2>1. writer'[Client] = writer[Client]
    BY <1>1, <1>4 DEF Append_
  <2> QED BY <1>4, <2>1 DEF Noting
<1>5. CASE BeginEvent \/ PublishEvent \/ DaemonDies
    BY <1>4, <1>5 DEF BeginEvent, PublishEvent, DaemonDies, Killed
<1>6. CASE LogStep \/ LogFault
  <2>1. PICK w \in Writers : WriterStep(w) \/ WriterFault(w)
    BY <1>6 DEF LogStep, LogFault
  <2>2. writer[w].step # "idle"
    BY <2>1 DEF WriterStep, WriterFault, LockLog, Rotate, OpenLog, WriteRest, SyncLog, CloseLog,
           RotateFails, AppendFails, CloseFails
  <2>3. (\E step : Step(w, step)) \/ OpenLog(w)
    BY <2>1 DEF WriterStep, WriterFault, LockLog, Rotate, WriteRest, SyncLog, CloseLog,
           RotateFails, AppendFails, CloseFails
  <2>4. Client # w => writer'[Client] = writer[Client]
    BY <1>1, <2>3 DEF Step, OpenLog
  <2>5. client' = client
    BY <1>6 DEF LogStep, LogFault, activityVars
  <2> QED BY <2>2, <2>4, <2>5 DEF Noting
<1>7. CASE NoteWritten
  <2>1. writer'[Client].step = "idle"
    BY <1>1, <1>7, Unbegun DEF NoteWritten
  <2> QED BY <2>1 DEF Noting
<1>8. CASE OpenActivity
  <2>1. CASE UNCHANGED writer
    BY <1>8, <2>1 DEF OpenActivity, Noting
  <2>2. CASE ~UNCHANGED writer
    <3>1. PICK c : c = [[client EXCEPT !.since = Len(client.shown), !.degraded = FALSE,
                                       !.before = writer[Daemon].record]
                        EXCEPT !.subscribed = FALSE, !.degraded = TRUE]
      OBVIOUS
    <3>2. Len(client.shown) \in Nat /\ writer[Daemon].record \in Records \cup {None}
      BY <1>1, Persons DEF Repls, LogTyped, Writings
    <3>3. c \in Repls
      BY <1>1, <3>1, <3>2 DEF Repls
    <3>4. WithNote("start", c) /\ client.step # "note"
      BY <1>8, <2>2, <3>1 DEF OpenActivity
    <3> QED BY <1>3, <3>3, <3>4 DEF ClientSteps
  <2> QED BY <2>1, <2>2
<1>9. ASSUME NEW back \in {"loop", "close"}, Degrade(back), client.step # "note" PROVE Noting'
  <2>1. [client EXCEPT !.subscribed = FALSE, !.degraded = TRUE, !.back = back] \in Repls
    BY <1>1 DEF Repls
  <2> QED BY <1>3, <1>9, <2>1 DEF Degrade, ClientSteps
<1>10. CASE PollFails
  BY <1>9, <1>10 DEF PollFails
<1>11. CASE Drain
  <2>1. CASE Degrade("close")
    BY <1>9, <1>11, <2>1 DEF Drain
  <2>2. CASE ~Degrade("close")
    <3>1. UNCHANGED writer
      BY <1>11, <2>2 DEF Drain, ReadLog, Quiet, logVars
    <3> QED BY <1>11, <3>1 DEF Noting, Drain
  <2> QED BY <2>1, <2>2
<1>12. CASE Finish
  <2>1. CASE UNCHANGED writer
    BY <1>12, <2>1 DEF Finish, Noting
  <2>2. CASE ~UNCHANGED writer
    <3>1. WithNote("open", [client EXCEPT !.attempt = @ + 1])
      BY <1>12, <2>2 DEF Finish
    <3>2. PICK n \in Nat : n = client.attempt + 1
      BY <1>1 DEF Repls
    <3>3. PICK c \in Repls : c = [client EXCEPT !.attempt = n]
      BY <1>1 DEF Repls
    <3>4. WithNote("open", c) /\ ~UNCHANGED writer
      BY <2>2, <3>1, <3>2, <3>3
    <3>5. client' = [c EXCEPT !.step = "note", !.after = "open"]
      BY <3>4 DEF WithNote
    <3>6. client'.step = "note"
      BY <3>5 DEF Repls
    <3> QED BY <3>6 DEF Noting
  <2> QED BY <2>1, <2>2
<1>13. CASE \/ Send \/ StartCall \/ PollBatch \/ Sleep \/ Outcome \/ Stat \/ Read \/ CloseActivity
            \/ Cancel \/ RunClosers \/ Reap \/ End \/ Interrupt \/ InterruptAgain
  <2>1. UNCHANGED writer
    BY <1>13 DEF Send, StartCall, PollBatch, Sleep, Outcome, Stat, Read, logVars,
                 CloseActivity, Cancel, RunClosers, Reap, End, Interrupt, InterruptAgain, Quiet, ReadLog
  <2>2. client.step # "note"
    BY <1>13 DEF Send, StartCall, PollBatch, Sleep, Outcome, Stat, Read,
                 CloseActivity, Cancel, RunClosers, Reap, End, Interrupt, InterruptAgain
  <2> QED BY <2>1, <2>2 DEF Noting
<1>14. CASE Register \/ Request \/ Receive \/ EndCall \/ Lose \/ Expire \/ TurnStops \/ UNCHANGED vars
  <2>1. UNCHANGED <<writer, client>>
    BY <1>14 DEF Register, Request, Receive, EndCall, Lose, Expire, TurnStops, CallUnchanged, logVars, vars, activityVars
  <2> QED BY <2>1 DEF Noting
<1> QED BY <1>5, <1>6, <1>7, <1>8, <1>10, <1>11, <1>12, <1>13, <1>14
        DEF Next, DaemonStep, CallStep, ClientStep

LEMMA Started ==
    ASSUME Init
    PROVE  Typed /\ LogInv /\ Noting
<1>1. PICK pieces : pieces = <<>>
    OBVIOUS
<1>2. /\ files = << <<>> >> /\ <<>> \in Seq(Piece) /\ exists = TRUE /\ lock = None
      /\ writer = [w \in Writers |-> Unwritten] /\ outcome = [r \in Records |-> None]
    BY DEF Init, LogInit
<1>3. files \in Seq(Seq(Piece)) /\ Len(files) = 1 /\ files[1] = <<>> /\ DOMAIN files = {1}
    BY <1>2
<1>4. LogTyped
    BY <1>2, <1>3, Unbegun DEF LogTyped
<1>5. client \in Repls
  <2>1. NoCursor \in Cursors /\ <<>> \in Seq(Events)
    BY DEF NoCursor, Cursors
  <2> QED BY <2>1 DEF Init, Repls, ClientSteps
<1>6. ActivityTyped
  <2>1. turn \in Turns /\ call \in Calls /\ token \in Tokens
    BY DEF Init, Turns, Calls, NoCall, Tokens, FreshToken
  <2> QED BY <1>5, <2>1 DEF Init, ActivityTyped
<1>7. ASSUME NEW x PROVE ~Touched(x)
    BY <1>3 DEF Touched
<1>8. ASSUME NEW w \in Writers PROVE (writer[w].step \in Holding <=> lock = w) /\ InHand(w)
    BY <1>2, Unbegun, Persons DEF InHand, Holding
<1>9. LogInv
  <2>1. \A r \in Records : Honest(r)
    BY <1>2, NoneAssumption DEF Honest, PersistenceOutcomes
  <2>2. writer[Daemon].record = None /\ turn.next = 1 /\ \A r \in Records : outcome[r] = None
    BY <1>2, Unbegun, Persons DEF Init
  <2> QED BY <1>7, <1>8, <2>1, <2>2, Persons DEF LogInv
<1>10. Noting
    BY <1>2, Unbegun, Persons DEF Noting
<1> QED BY <1>4, <1>6, <1>9, <1>10 DEF Typed

LogSafe == Typed /\ LogInv /\ Noting

\* What an append says of a record is so, however many turns, faults and interrupts there are: its
\* outcome is written under the lock, after the file has been synchronized or taken back (log/store.py).
THEOREM Honesty == Spec => []OutcomeHonest
<1>1. Init => LogSafe
    BY Started DEF LogSafe
<1>2. LogSafe /\ [Next]_vars => LogSafe'
    BY LogKept, ActivityKept, NotingKept DEF LogSafe, Typed
<1>3. LogSafe => OutcomeHonest
  <2>1. SUFFICES ASSUME LogSafe, NEW r \in Records
                 PROVE  /\ outcome[r] = "persisted" => Written(r)
                        /\ outcome[r] = "not_persisted" =>
                              \A id \in DOMAIN files : {<<r, 1>>, <<r, 2>>} \cap Range(files[id]) = {}
    BY DEF OutcomeHonest, Written
  <2>2. Honest(r)
    BY <2>1 DEF LogSafe, LogInv
  <2>3. ASSUME ~Touched(r), NEW id \in DOMAIN files, NEW piece \in {<<r, 1>>, <<r, 2>>} \cap Range(files[id])
        PROVE  FALSE
    <3>1. PICK i \in DOMAIN files[id] : files[id][i] = piece
      BY DEF Range
    <3>2. piece[1] = r
      OBVIOUS
    <3> QED BY <2>3, <3>1, <3>2 DEF Touched
  <2> QED BY <2>2, <2>3 DEF Honest
<1> QED BY <1>1, <1>2, <1>3, PTL DEF Spec

-----------------------------------------------------------------------------
(* The request and its cancellation *)

\* The REPL waits for the request, and has not run the closers.
Waiting(c) ==
    \/ c.step \in {"loop", "cancel"}
    \/ c.step \in {"stat", "read"} /\ c.back = "loop"
    \/ c.step = "note" /\ c.after = "stat" /\ c.back = "loop"

Opening == call.step \in {"listed", "sent"}

\* Where the closer of an open socket is: listed, taken, or run.
CloserInv ==
    /\ token.listed => ~token.taken /\ closes = 0 /\ call.step \in {"listed", "sent", "ending"}
    /\ token.taken => closes = 0 /\ client.step = "closers"
    /\ closes <= 1 /\ (call.step \in {"none", "started"} => closes = 0 /\ ~token.listed /\ ~token.taken)
    /\ Opening /\ Waiting(client) => token.listed
    /\ Opening /\ client.step = "closers" => token.taken
    /\ client.step = "reap" /\ Opening => closes = 1
    /\ client.step \in {"closers", "reap"} => token.cancelled
    /\ client.step = "note" => client.after \in {"open", "start", "stat"}

\* The REPL goes on without the request.
LEMMA CloserRests ==
    ASSUME CloserInv, UNCHANGED <<call, token, closes>>, client.step # "closers",
           client'.step \notin {"closers", "reap"}, Waiting(client') => Waiting(client),
           client'.step = "note" => client'.after \in {"open", "start", "stat"}
    PROVE  CloserInv'
BY DEF CloserInv, Opening

LEMMA CloserNotes ==
    ASSUME CloserInv, UNCHANGED <<call, token, closes>>, client.step # "closers",
           NEW next \in {"open", "start", "stat"}, NEW c \in Repls, WithNote(next, c),
           next = "stat" /\ c.back = "loop" => Waiting(client)
    PROVE  CloserInv'
<1>1. client' = [c EXCEPT !.step = next] \/ client' = [c EXCEPT !.step = "note", !.after = next]
  <2>1. next \in ClientSteps
    BY DEF ClientSteps
  <2> QED BY <2>1, WithNoteTyped
<1>2. /\ client'.back = c.back /\ client'.step \in {next, "note"}
      /\ client'.step = "note" => client'.after = next
    BY <1>1 DEF Repls
<1> QED BY <1>2, CloserRests DEF Waiting

LEMMA CallCloses ==
    ASSUME Typed, CloserInv, CallStep \/ Lose
    PROVE  CloserInv'
<1>1. call \in Calls /\ token \in Tokens /\ closes \in Nat /\ UNCHANGED client
    BY DEF Typed, ActivityTyped, CallStep, Lose, Register, Request, Receive, EndCall, CallUnchanged
<1>2. CASE Register
  <2>1. call.step = "started" /\ closes = 0 /\ ~token.listed /\ ~token.taken
    BY <1>2 DEF Register, CloserInv
  <2>2. CASE token.cancelled
    BY <1>1, <1>2, <2>1, <2>2 DEF Register, CloserInv, Opening
  <2>3. CASE ~token.cancelled
    <3>1. token' = [token EXCEPT !.listed = TRUE] /\ call' = [call EXCEPT !.step = "listed"] /\ closes' = closes
      BY <1>2, <2>3 DEF Register
    <3>2. token'.listed /\ token'.taken = token.taken /\ call'.step = "listed"
      BY <1>1, <3>1 DEF Tokens, Calls
    <3> QED BY <1>1, <2>1, <2>3, <3>1, <3>2 DEF CloserInv, Opening
  <2> QED BY <2>2, <2>3
<1>3. CASE Request
  <2>1. call.step = "listed" /\ call'.step = "sent" /\ UNCHANGED <<token, closes>>
    BY <1>1, <1>3 DEF Request, Calls
  <2> QED BY <1>1, <2>1 DEF CloserInv, Opening
<1>4. CASE Receive \/ Lose
  <2>1. call.step \in {"listed", "sent"} /\ call'.step = "ending" /\ UNCHANGED <<token, closes>>
    BY <1>1, <1>4 DEF Receive, Lose, Calls
  <2> QED BY <1>1, <2>1 DEF CloserInv, Opening
<1>5. CASE EndCall
  <2>1. /\ call.step = "ending" /\ call'.step = "finished" /\ UNCHANGED closes
        /\ ~token'.listed /\ token'.taken = token.taken /\ token'.cancelled = token.cancelled
    BY <1>1, <1>5 DEF EndCall, Discard, Calls, Tokens
  <2> QED BY <1>1, <2>1 DEF CloserInv, Opening
<1> QED BY <1>2, <1>3, <1>4, <1>5 DEF CallStep

LEMMA CloserKept ==
    ASSUME Typed, CloserInv, [Next]_vars
    PROVE  CloserInv'
<1>1. /\ client \in Repls /\ call \in Calls /\ token \in Tokens /\ closes \in Nat
      /\ LogTyped
    BY DEF Typed, ActivityTyped
<1>2. CASE BeginEvent \/ PublishEvent \/ TurnStops \/ DaemonDies \/ Expire \/ LogStep \/ LogFault \/ UNCHANGED vars
  <2>1. UNCHANGED <<client, call, token, closes>>
    BY <1>2 DEF BeginEvent, PublishEvent, TurnStops, DaemonDies, Expire, LogStep, LogFault, vars, activityVars
  <2> QED BY <2>1 DEF CloserInv, Opening, Waiting
<1>3. CASE CallStep \/ Lose
    BY <1>3, CallCloses
<1>4. CASE Send \/ Outcome \/ CloseActivity \/ Reap \/ End
  <2>1. UNCHANGED <<call, token, closes>> /\ client.step # "closers" /\ client'.step \in {"open", "drain", "done", "ended", "gone", "prompt"}
    BY <1>1, <1>4 DEF Send, Outcome, CloseActivity, Reap, End, Quiet, AtPrompt, Repls
  <2> QED BY <2>1, CloserRests DEF Waiting
<1>5. CASE StartCall
  <2>1. call'.step = "started" /\ closes' = 0 /\ ~token'.listed /\ ~token'.taken /\ client'.step = "loop"
    BY <1>1, <1>5 DEF StartCall, FreshToken, Repls
  <2> QED BY <2>1 DEF CloserInv, Opening
<1>6. CASE OpenActivity
  <2>1. PICK asked : asked = [client EXCEPT !.since = Len(client.shown), !.degraded = FALSE,
                                            !.before = writer[Daemon].record]
    OBVIOUS
  <2>2. asked \in Repls
    <3>1. Len(client.shown) \in Nat /\ writer[Daemon].record \in Records \cup {None}
      BY <1>1, Persons DEF Repls, LogTyped, Writings
    <3> QED BY <1>1, <2>1, <3>1 DEF Repls
  <2>3. [asked EXCEPT !.subscribed = FALSE, !.degraded = TRUE] \in Repls
    BY <2>2 DEF Repls
  <2>4. UNCHANGED <<call, token, closes>> /\ client.step = "open"
    BY <1>6 DEF OpenActivity
  <2>5. CASE client' = [asked EXCEPT !.step = "start", !.subscribed = TRUE]
    <3>1. client'.step = "start"
      BY <2>2, <2>5 DEF Repls
    <3> QED BY <2>4, <3>1, CloserRests DEF Waiting
  <2>6. CASE WithNote("start", [asked EXCEPT !.subscribed = FALSE, !.degraded = TRUE])
    BY <2>3, <2>4, <2>6, CloserNotes
  <2> QED BY <1>6, <2>1, <2>5, <2>6 DEF OpenActivity
<1>7. ASSUME NEW back \in {"loop", "close"}, Degrade(back), client.step = "loop" \/ (client.step = "drain" /\ back = "close")
      PROVE  CloserInv'
  <2>1. PICK c : c = [client EXCEPT !.subscribed = FALSE, !.degraded = TRUE, !.back = back]
    OBVIOUS
  <2>2. c \in Repls /\ c.back = back
    BY <1>1, <2>1 DEF Repls
  <2>3. WithNote("stat", c) /\ UNCHANGED <<call, token, closes>>
    BY <1>7, <2>1 DEF Degrade
  <2> QED BY <1>7, <2>2, <2>3, CloserNotes DEF Waiting
<1>8. CASE PollFails
    BY <1>7, <1>8 DEF PollFails
<1>9. CASE PollBatch
  <2>1. client'.step = "loop" /\ client.step = "loop" /\ UNCHANGED <<call, token, closes>>
    BY <1>1, <1>9 DEF PollBatch, Present, Repls
  <2> QED BY <2>1, CloserRests DEF Waiting
<1>10. CASE Sleep
  <2>1. client'.step = "stat" /\ client.step = "loop" /\ UNCHANGED <<call, token, closes>>
    BY <1>1, <1>10 DEF Sleep, ReadLog, Quiet, Repls
  <2> QED BY <2>1, CloserRests DEF Waiting
<1>11. CASE Drain
  <2>1. CASE Degrade("close")
    BY <1>7, <1>11, <2>1 DEF Drain
  <2>2. CASE ReadLog("close")
    <3>1. client'.step = "stat" /\ client'.back = "close" /\ client.step = "drain" /\ UNCHANGED <<call, token, closes>>
      BY <1>1, <1>11, <2>2 DEF Drain, ReadLog, Quiet, Repls
    <3> QED BY <3>1, CloserRests DEF Waiting
  <2>3. CASE client' = [Present(client, broker.events) EXCEPT !.step = "close"]
             /\ UNCHANGED <<logVars, turn, call, token, closes, history, counters>>
    <3>1. client'.step = "close" /\ client.step = "drain"
      BY <1>1, <1>11, <2>3 DEF Drain, Present, Repls
    <3> QED BY <2>3, <3>1, CloserRests DEF Waiting
  <2> QED BY <1>11, <2>1, <2>2, <2>3 DEF Drain
<1>12. CASE Stat
  <2>1. client.step = "stat" /\ UNCHANGED <<call, token, closes>>
    BY <1>12 DEF Stat
  <2>2. (client'.step = "read" /\ client'.back = client.back) \/ client'.step = client.back
    BY <1>1, <1>12 DEF Stat, Repls
  <2>3. client.back \in {"loop", "close"}
    BY <1>1 DEF Repls
  <2> QED BY <2>1, <2>2, <2>3, CloserRests DEF Waiting
<1>13. CASE Read
  <2>1. client.step = "read" /\ UNCHANGED <<call, token, closes>> /\ client.back \in {"loop", "close"}
    BY <1>1, <1>13 DEF Read, Repls
  <2>2. client'.step = client.back \/ client'.step = IF client.back = "loop" THEN "cancel" ELSE "ended"
    BY <1>1, <1>13 DEF Read, Exit, Repls
  <2> QED BY <2>1, <2>2, CloserRests DEF Waiting
<1>14. CASE Finish
  <2>1. client.step = "done" /\ UNCHANGED <<call, token, closes>>
    BY <1>14 DEF Finish
  <2>2. CASE client'.step \in {"open", "prompt"}
    BY <2>1, <2>2, CloserRests DEF Waiting
  <2>3. CASE WithNote("open", [client EXCEPT !.attempt = @ + 1])
    <3>1. [client EXCEPT !.attempt = @ + 1] \in Repls
      BY <1>1 DEF Repls
    <3> QED BY <2>1, <2>3, <3>1, CloserNotes
  <2> QED BY <1>1, <1>14, <2>2, <2>3 DEF Finish, AtPrompt, Repls
<1>15. CASE NoteWritten
  <2>1. /\ client.step = "note" /\ UNCHANGED <<call, token, closes>> /\ client.after \in {"open", "start", "stat"}
        /\ client'.step = client.after /\ client'.back = client.back
    BY <1>1, <1>15 DEF NoteWritten, Repls, CloserInv
  <2> QED BY <2>1, CloserRests DEF Waiting
<1>16. CASE Interrupt
  <2>1. UNCHANGED <<call, token, closes>> /\ client.step # "closers"
    BY <1>16 DEF Interrupt
  <2>2. client'.step = "ended" \/ (client'.step = "cancel" /\ Waiting(client))
    BY <1>1, <1>16 DEF Interrupt, Exit, Waiting, Repls
  <2> QED BY <2>1, <2>2, CloserRests DEF Waiting
<1>17. CASE Cancel
  <2>1. /\ client.step = "cancel" /\ client'.step = "closers" /\ UNCHANGED <<call, closes>>
        /\ token'.cancelled /\ ~token'.listed /\ token'.taken = token.listed
    BY <1>1, <1>17 DEF Cancel, Repls
  <2> QED BY <1>1, <2>1 DEF CloserInv, Opening, Waiting
<1>18. CASE RunClosers
  <2>1. /\ client.step = "closers" /\ client'.step = "reap" /\ UNCHANGED call
        /\ token'.cancelled = token.cancelled /\ token'.listed = token.listed /\ ~token'.taken
        /\ closes' = IF token.taken THEN closes + 1 ELSE closes
    BY <1>1, <1>18 DEF RunClosers, Repls, Tokens
  <2> QED BY <1>1, <2>1 DEF CloserInv, Opening, Waiting
<1>19. CASE InterruptAgain
  <2>1. /\ client.step \in {"cancel", "closers"} /\ client'.step = "ended" /\ UNCHANGED <<call, closes>>
        /\ token'.cancelled = token.cancelled /\ token'.listed = token.listed /\ ~token'.taken
    BY <1>1, <1>19 DEF InterruptAgain, Repls, Tokens
  <2> QED BY <1>1, <2>1 DEF CloserInv, Opening, Waiting
<1> QED BY <1>2, <1>3, <1>4, <1>5, <1>6, <1>8, <1>9, <1>10, <1>11, <1>12, <1>13, <1>14, <1>15, <1>16, <1>17,
           <1>18, <1>19 DEF Next, DaemonStep, ClientStep

\* The closer of a request runs once at most, and has run when the REPL waits for a request that is
\* still open: cancel, register and the end of the call race for it (runtime/execution.py).
THEOREM Closing == Spec => []ClosedOnce
<1>1. Init => CloserInv
    BY Persons DEF Init, CloserInv, Opening, Waiting, FreshToken, NoCall
<1>2. LogSafe /\ CloserInv /\ [Next]_vars => CloserInv'
    BY CloserKept DEF LogSafe
<1>3. CloserInv => ClosedOnce
    BY DEF CloserInv, ClosedOnce, Opening
<1>4. Init => LogSafe
    BY Started DEF LogSafe
<1>5. LogSafe /\ [Next]_vars => LogSafe'
    BY LogKept, ActivityKept, NotingKept DEF LogSafe, Typed
<1> QED BY <1>1, <1>2, <1>3, <1>4, <1>5, PTL DEF Spec

-----------------------------------------------------------------------------
(* What is shown *)

\* A request is under way.
Watching ==
    \/ client.step \in {"start", "loop", "drain", "stat", "read"}
    \/ client.step = "note" /\ client.after \in {"start", "stat"}

Recent == (client.since + 1)..Len(client.shown)
Past(e) == e < turn.next /\ e # writer[Daemon].record

\* A subscription brings the events in their order, once each, and none that was shown.
BrokerInv ==
    /\ client.subscribed => client.step \notin {"prompt", "open", "note", "stat", "read", "done", "gone"}
    /\ broker # None => /\ Increasing(broker.events)
                        /\ \A i \in DOMAIN broker.events : Past(broker.events[i])
    /\ Watching /\ client.subscribed => \A i \in Recent :
          /\ Past(client.shown[i])
          /\ broker # None => \A j \in DOMAIN broker.events : client.shown[i] < broker.events[j]

ShownInv ==
    /\ NoneRepeated
    /\ Watching => \A i \in Recent : client.shown[i] \in client.cursor.seen
    /\ BrokerInv

Distinct(s, since) == \A i, j \in (since + 1)..Len(s) : i # j => s[i] # s[j]

LEMMA Joined ==
    ASSUME NEW s \in Seq(Events), NEW more \in Seq(Events)
    PROVE  /\ s \o more \in Seq(Events) /\ Len(s \o more) = Len(s) + Len(more)
           /\ \A i \in 1..Len(s \o more) :
                 \/ i \in DOMAIN s /\ (s \o more)[i] = s[i]
                 \/ i > Len(s) /\ i - Len(s) \in DOMAIN more /\ (s \o more)[i] = more[i - Len(s)]
<1>1. /\ Len(s) \in Nat /\ Len(more) \in Nat /\ Len(s \o more) = Len(s) + Len(more)
      /\ DOMAIN more = 1..Len(more) /\ DOMAIN s = 1..Len(s) /\ s \o more \in Seq(Events)
    OBVIOUS
<1>2. ASSUME NEW i \in 1..Len(s \o more)
      PROVE  \/ i \in DOMAIN s /\ (s \o more)[i] = s[i]
             \/ i > Len(s) /\ i - Len(s) \in DOMAIN more /\ (s \o more)[i] = more[i - Len(s)]
  <2>1. CASE i <= Len(s)
    BY <1>1, <2>1
  <2>2. CASE i > Len(s)
    <3>1. i - Len(s) \in 1..Len(more) /\ i \in 1..(Len(s) + Len(more))
      BY <1>1, <2>2
    <3> QED BY <1>1, <2>2, <3>1
  <2> QED BY <1>1, <2>1, <2>2
<1> QED BY <1>1, <1>2

LEMMA ShownMore ==
    ASSUME NEW s \in Seq(Events), NEW more \in Seq(Events), NEW since \in Nat, Distinct(s, since),
           \A i, j \in DOMAIN more : i # j => more[i] # more[j],
           \A i \in (since + 1)..Len(s) : \A j \in DOMAIN more : s[i] # more[j]
    PROVE  Distinct(s \o more, since)
<1>1. Len(s) \in Nat /\ Len(more) \in Nat /\ Len(s \o more) = Len(s) + Len(more) /\ DOMAIN more = 1..Len(more)
    OBVIOUS
<1>2. ASSUME NEW i \in (since + 1)..Len(s \o more)
      PROVE  \/ i \in (since + 1)..Len(s) /\ (s \o more)[i] = s[i]
             \/ i \notin 1..Len(s) /\ i - Len(s) \in DOMAIN more /\ (s \o more)[i] = more[i - Len(s)]
  <2>1. CASE i <= Len(s)
    BY <1>1, <2>1
  <2>2. CASE i > Len(s)
    <3>1. i - Len(s) \in 1..Len(more) /\ i \in 1..Len(s \o more)
      BY <1>1, <2>2
    <3> QED BY <1>1, <2>2, <3>1
  <2> QED BY <1>1, <2>1, <2>2
<1>3. ASSUME NEW i \in (since + 1)..Len(s \o more), NEW j \in (since + 1)..Len(s \o more), i # j
      PROVE  (s \o more)[i] # (s \o more)[j]
  <2>1. CASE i \in (since + 1)..Len(s) /\ (s \o more)[i] = s[i]
    <3>1. CASE j \in (since + 1)..Len(s) /\ (s \o more)[j] = s[j]
      BY <1>3, <2>1, <3>1 DEF Distinct
    <3>2. CASE j - Len(s) \in DOMAIN more /\ (s \o more)[j] = more[j - Len(s)]
      BY <2>1, <3>2
    <3> QED BY <1>2, <3>1, <3>2
  <2>2. CASE i - Len(s) \in DOMAIN more /\ (s \o more)[i] = more[i - Len(s)]
    <3>1. CASE j \in (since + 1)..Len(s) /\ (s \o more)[j] = s[j]
      BY <2>2, <3>1
    <3>2. CASE j - Len(s) \in DOMAIN more /\ (s \o more)[j] = more[j - Len(s)]
      <4>1. i - Len(s) # j - Len(s)
        BY <1>1, <1>3
      <4> QED BY <2>2, <3>2, <4>1
    <3> QED BY <1>2, <3>1, <3>2
  <2> QED BY <1>2, <2>1, <2>2
<1> QED BY <1>3 DEF Distinct

\* What was shown is the same, and what is to come.
LEMMA ShownRests ==
    ASSUME Typed, ShownInv, \A e \in Events : Past(e) => Past(e)', broker' \in {broker, None},
           client'.shown = client.shown, client'.since = client.since,
           Watching' => Watching /\ client'.cursor.seen = client.cursor.seen,
           client'.subscribed => client.subscribed
                                 /\ client'.step \notin {"prompt", "open", "note", "stat", "read", "done", "gone"}
    PROVE  ShownInv'
<1>1. client.shown \in Seq(Events) /\ client.since \in Nat /\ broker \in Subscriptions \cup {None}
    BY DEF Typed, ActivityTyped, Repls
<1>2. Recent' = Recent /\ \A i \in Recent : client.shown[i] \in Events
    BY <1>1 DEF Recent
<1>3. NoneRepeated'
    BY DEF ShownInv, NoneRepeated
<1>4. broker # None => \A i \in DOMAIN broker.events : broker.events[i] \in Events
    BY <1>1 DEF Subscriptions
<1>5. BrokerInv'
    BY <1>2, <1>4 DEF ShownInv, BrokerInv
<1> QED BY <1>2, <1>3, <1>5 DEF ShownInv

LEMMA RecordStays ==
    ASSUME LogTyped, NEW w \in Writers, WriterStep(w) \/ WriterFault(w), NEW v \in Writers
    PROVE  writer'[v].record = writer[v].record
<1>1. writer \in [Writers -> Writings]
    BY DEF LogTyped
<1>2. (\E step : Step(w, step)) \/ OpenLog(w)
    BY DEF WriterStep, WriterFault, LockLog, Rotate, WriteRest, SyncLog, CloseLog, RotateFails, AppendFails, CloseFails
<1> QED BY <1>1, <1>2 DEF Step, OpenLog, Writings

\* The turn goes on without the REPL.
LEMMA ShownByDaemon ==
    ASSUME Typed, LogInv, ShownInv,
           \/ BeginEvent \/ TurnStops \/ DaemonDies \/ Expire \/ LogStep \/ LogFault \/ Register \/ Request
           \/ Receive \/ EndCall \/ Lose \/ UNCHANGED vars
    PROVE  ShownInv'
<1>1. /\ LogTyped /\ turn \in Turns /\ writer \in [Writers -> Writings]
      /\ Daemon \in Writers /\ \A e \in Events : e \in Nat /\ e # None
    BY Persons DEF Typed, LogTyped, ActivityTyped
<1>2. client' = client /\ broker' \in {broker, None}
    BY DEF BeginEvent, TurnStops, DaemonDies, Expire, LogStep, LogFault, Register, Request, Receive, EndCall, Lose,
           CallUnchanged, vars, activityVars
<1>3. CASE BeginEvent
  <2>1. turn'.next = turn.next + 1 /\ writer'[Daemon].record = turn.next /\ turn.next \in Nat
    BY <1>1, <1>3 DEF BeginEvent, Turns, Append_
  <2>2. \A e \in Events : Past(e) => Past(e)'
    BY <1>1, <2>1 DEF Past
  <2> QED BY <1>2, <2>2, ShownRests DEF ShownInv, BrokerInv, Watching
<1>4. CASE DaemonDies
  <2>1. turn'.next = turn.next /\ writer'[Daemon].record = None
    BY <1>1, <1>4, Unbegun DEF DaemonDies, Killed, Turns
  <2>2. \A e \in Events : Past(e) => Past(e)'
    BY <1>1, <2>1 DEF Past
  <2> QED BY <1>2, <2>2, ShownRests DEF ShownInv, BrokerInv, Watching
<1>5. CASE ~BeginEvent /\ ~DaemonDies
  <2>1. turn'.next = turn.next
    BY <1>1, <1>5 DEF TurnStops, Expire, LogStep, LogFault, Register, Request, Receive, EndCall, Lose,
           CallUnchanged, vars, activityVars, Turns
  <2>2. writer'[Daemon].record = writer[Daemon].record
    <3>1. CASE LogStep \/ LogFault
      BY <1>1, <3>1, RecordStays DEF LogStep, LogFault
    <3> QED BY <1>5, <3>1 DEF TurnStops, Expire, Register, Request, Receive, EndCall, Lose, CallUnchanged, vars, logVars
  <2>3. \A e \in Events : Past(e) => Past(e)'
    BY <2>1, <2>2 DEF Past
  <2> QED BY <1>2, <2>3, ShownRests DEF ShownInv, BrokerInv, Watching
<1> QED BY <1>3, <1>4, <1>5

\* The event that is published now is after all that were.
LEMMA Publishes ==
    ASSUME Typed, LogInv, ShownInv, PublishEvent
    PROVE  ShownInv'
<1>1. /\ LogTyped /\ turn \in Turns /\ turn.next \in Nat /\ writer \in [Writers -> Writings]
      /\ Daemon \in Writers /\ \A x \in Events : x \in Nat /\ x # None
      /\ client.shown \in Seq(Events) /\ client.since \in Nat /\ broker \in Subscriptions \cup {None}
    BY Persons DEF Typed, LogTyped, ActivityTyped, Turns, Repls
<1>2. PICK e : e = writer[Daemon].record
    OBVIOUS
<1>3. e \in Events /\ turn.next = e + 1 /\ turn'.next = turn.next /\ writer'[Daemon].record = None /\ client' = client
  <2>1. e \in Events
    BY <1>1, <1>2 DEF PublishEvent, LogInv, InHand
  <2> QED BY <1>1, <1>2, <2>1, Unbegun DEF PublishEvent, LogInv
<1>4. \A x \in Events : (Past(x) => Past(x)' /\ x < e) /\ Past(e)'
    BY <1>1, <1>2, <1>3 DEF Past
<1>5. CASE broker' = broker \/ broker' = None
    BY <1>3, <1>4, <1>5, ShownRests DEF ShownInv, BrokerInv, Watching
<1>6. CASE broker # None /\ broker' = Delivered(broker, e)
  <2>1. PICK old : old = broker.events
    OBVIOUS
  <2>2. PICK kept : kept = IF Len(old) = MaxEvents THEN Tail(old) ELSE old
    OBVIOUS
  <2>3. old \in Seq(Events) /\ Increasing(old) /\ \A i \in DOMAIN old : Past(old[i]) /\ old[i] \in Events
    BY <1>1, <1>6, <2>1 DEF ShownInv, BrokerInv, Subscriptions
  <2>4. MaxEvents \in Nat /\ MaxEvents # 0
    BY LimitsAssumption
  <2>5. /\ kept \in Seq(Events) /\ Increasing(kept)
        /\ \A i \in DOMAIN kept : \E j \in DOMAIN old : kept[i] = old[j]
    <3>1. CASE Len(old) = MaxEvents
      <4>1. kept = Tail(old) /\ old # <<>>
        BY <2>2, <2>3, <2>4, <3>1
      <4>2. kept \in Seq(Events) /\ Len(kept) = Len(old) - 1 /\ \A i \in 1..Len(kept) : kept[i] = old[i + 1]
        BY <2>3, <4>1
      <4>3. \A i \in DOMAIN kept : i + 1 \in DOMAIN old /\ kept[i] = old[i + 1]
        BY <2>3, <4>2
      <4>4. \A i, j \in DOMAIN kept : i < j => i + 1 < j + 1
        BY <4>2
      <4> QED BY <2>3, <4>2, <4>3, <4>4 DEF Increasing
    <3>2. CASE Len(old) # MaxEvents
      BY <2>2, <2>3, <3>2
    <3> QED BY <3>1, <3>2
  <2>6. PICK new : new = Append(kept, e)
    OBVIOUS
  <2>7. new \in Seq(Events) /\ Len(new) = Len(kept) + 1 /\ new[Len(kept) + 1] = e /\ Len(kept) \in Nat
        /\ \A i \in 1..Len(kept) : new[i] = kept[i]
    BY <1>3, <2>5, <2>6
  <2>8. broker'.events = new
    BY <1>6, <2>1, <2>2, <2>6 DEF Delivered
  <2>9. ASSUME NEW i \in DOMAIN new
        PROVE  \/ i = Len(kept) + 1 /\ new[i] = e
               \/ i \in DOMAIN kept /\ new[i] = kept[i] /\ new[i] < e /\ \E j \in DOMAIN old : new[i] = old[j]
    BY <1>4, <2>3, <2>5, <2>7
  <2>10. Increasing(new)
    <3>1. SUFFICES ASSUME NEW i \in DOMAIN new, NEW j \in DOMAIN new, i < j PROVE new[i] < new[j]
      BY DEF Increasing
    <3>2. i \in DOMAIN kept
      BY <2>7, <3>1
    <3>3. CASE j \in DOMAIN kept
      BY <2>5, <2>7, <3>1, <3>2, <3>3 DEF Increasing
    <3>4. CASE j \notin DOMAIN kept
      BY <2>5, <2>7, <2>9, <3>2, <3>4
    <3> QED BY <3>3, <3>4
  <2>11. ASSUME NEW i \in DOMAIN new PROVE Past(new[i])'
    <3>1. PICK x : x = new[i]
      OBVIOUS
    <3>2. x = e \/ (x \in Events /\ Past(x))
      BY <2>3, <2>9, <3>1
    <3>3. x < turn'.next /\ x # writer'[Daemon].record
      BY <1>1, <1>3, <3>2 DEF Past
    <3> QED BY <3>1, <3>3 DEF Past
  <2>12. ASSUME Watching, client.subscribed, NEW i \in Recent
         PROVE  Past(client.shown[i])' /\ \A j \in DOMAIN new : client.shown[i] < new[j]
    <3>1. PICK x : x = client.shown[i]
      OBVIOUS
    <3>2. x \in Events
      BY <1>1, <3>1 DEF Recent
    <3>3. Past(x) /\ \A j \in DOMAIN old : x < old[j]
      BY <1>6, <2>1, <2>12, <3>1 DEF ShownInv, BrokerInv
    <3>4. x < e /\ x < turn'.next /\ x # writer'[Daemon].record
      BY <1>1, <1>3, <1>4, <3>2, <3>3 DEF Past
    <3>5. \A j \in DOMAIN new : x < new[j]
      BY <2>9, <3>3, <3>4
    <3>6. client'.shown[i] = x
      BY <1>3, <3>1
    <3> QED BY <3>4, <3>5, <3>6, <3>1 DEF Past
  <2>13. BrokerInv'
    <3>1. /\ Watching' <=> Watching
          /\ Recent' = Recent
      BY <1>3 DEF Watching, Recent
    <3> QED BY <1>3, <2>8, <2>10, <2>11, <2>12, <3>1 DEF ShownInv, BrokerInv
  <2> QED BY <1>3, <2>13 DEF ShownInv, NoneRepeated, Watching, Recent
<1> QED BY <1>2, <1>5, <1>6 DEF PublishEvent

\* A new request has shown nothing yet.
LEMMA ShownOpens ==
    ASSUME Typed, ShownInv, OpenActivity
    PROVE  ShownInv'
<1>1. client \in Repls /\ Len(client.shown) \in Nat /\ writer[Daemon].record \in Records \cup {None}
    BY Persons DEF Typed, LogTyped, ActivityTyped, Repls, Writings
<1>2. PICK asked : asked = [client EXCEPT !.since = Len(client.shown), !.degraded = FALSE,
                                          !.before = writer[Daemon].record]
    OBVIOUS
<1>3. asked \in Repls /\ asked.since = Len(client.shown) /\ asked.shown = client.shown
    BY <1>1, <1>2 DEF Repls
<1>4. PICK c : c = [asked EXCEPT !.subscribed = FALSE, !.degraded = TRUE]
    OBVIOUS
<1>5. c \in Repls /\ c.since = Len(client.shown) /\ c.shown = client.shown /\ ~c.subscribed
    BY <1>3, <1>4 DEF Repls
<1>6. /\ client'.since = Len(client.shown) /\ client'.shown = client.shown
      /\ client'.subscribed => client'.step = "start"
      /\ (broker' = [events |-> <<>>, dropped |-> 0]) \/ broker' = None
  <2>1. CASE client' = [asked EXCEPT !.step = "start", !.subscribed = TRUE] /\ broker' = [events |-> <<>>, dropped |-> 0]
    BY <1>3, <2>1 DEF Repls
  <2>2. CASE WithNote("start", c) /\ broker' = None
    <3>1. client' = [c EXCEPT !.step = "start"] \/ client' = [c EXCEPT !.step = "note", !.after = "start"]
      BY <1>5, <2>2, WithNoteTyped DEF ClientSteps
    <3> QED BY <1>5, <2>2, <3>1 DEF Repls
  <2> QED BY <1>2, <1>4, <2>1, <2>2 DEF OpenActivity
<1>7. Recent' = {}
    BY <1>1, <1>6 DEF Recent
<1>8. NoneRepeated'
    BY <1>1, <1>6 DEF NoneRepeated
<1>9. broker' # None => Increasing(broker'.events) /\ DOMAIN broker'.events = {}
    BY <1>6 DEF Increasing
<1> QED BY <1>6, <1>7, <1>8, <1>9 DEF ShownInv, BrokerInv

\* A batch of the subscription is shown and marked.
Batch(batch, rest, n) ==
    /\ Watching /\ client.subscribed /\ broker # None /\ Len(batch) = n /\ n <= Len(broker.events)
    /\ \A i \in 1..n : batch[i] = broker.events[i]
    /\ rest = From(broker.events, n) /\ broker'.events = rest
    /\ UNCHANGED turn /\ writer'[Daemon].record = writer[Daemon].record
    /\ client'.shown = client.shown \o batch /\ client'.since = client.since
    /\ client'.cursor.seen = client.cursor.seen \cup Range(batch)
    /\ client'.step \in {"loop", "close"}
    /\ broker.dropped = 0 /\ UNCHANGED <<logVars, told, disturbed>> /\ client'.subscribed
    /\ client'.before = client.before /\ client'.cursor.identity = client.cursor.identity
    /\ client'.cursor.offset = client.cursor.offset

DrainsAll ==
    /\ client.subscribed /\ broker # None /\ ~Gap
    /\ client' = [Present(client, broker.events) EXCEPT !.step = "close"]
    /\ broker' = [broker EXCEPT !.events = <<>>]
    /\ UNCHANGED <<logVars, turn, call, token, closes, history, counters>>

LEMMA Presented ==
    ASSUME Typed, NEW batch \in Seq(Events), NEW c, c = Present(client, batch)
    PROVE  /\ c.shown = client.shown \o batch /\ c.since = client.since
           /\ c.cursor.seen = client.cursor.seen \cup Range(batch) /\ c.step = client.step
           /\ c.subscribed = client.subscribed /\ c.before = client.before
           /\ c.cursor.identity = client.cursor.identity /\ c.cursor.offset = client.cursor.offset
           /\ c \in Repls
<1>1. client \in Repls /\ client.cursor \in Cursors
    BY DEF Typed, ActivityTyped, Repls
<1>2. PICK cursor : cursor = [client.cursor EXCEPT !.seen = @ \cup Range(batch)]
    OBVIOUS
<1>3. /\ cursor.seen = client.cursor.seen \cup Range(batch)
      /\ cursor.identity = client.cursor.identity /\ cursor.offset = client.cursor.offset
    BY <1>1, <1>2 DEF Cursors
<1>4. PICK shown : shown = client.shown \o batch
    OBVIOUS
<1>5. c = [client EXCEPT !.shown = shown, !.cursor = cursor]
    BY <1>2, <1>4 DEF Present, MarkSeen
<1>6. c \in Repls
    BY <1>1, PresentTyped
<1> QED BY <1>1, <1>3, <1>4, <1>5, <1>6 DEF Repls

LEMMA Polled ==
    ASSUME Typed, PollBatch
    PROVE  \E batch \in Seq(Events), rest \in Seq(Events), n \in Nat : Batch(batch, rest, n)
<1>1. PICK old : old = broker.events
    OBVIOUS
<1>2. PICK k : k = Min({Limit, Len(old)})
    OBVIOUS
<1>3. PICK batch : batch = SubSeq(old, 1, k)
    OBVIOUS
<1>4. /\ client.step = "loop" /\ client.subscribed /\ broker # None /\ ~Gap
      /\ UNCHANGED <<logVars, turn, told, disturbed>>
      /\ client' = Present(client, batch)
      /\ broker' = [broker EXCEPT !.events = From(old, Len(batch))]
    BY <1>1, <1>2, <1>3 DEF PollBatch, history
<1>5. broker \in Subscriptions /\ old \in Seq(Events) /\ Len(old) \in Nat
    BY <1>1, <1>4 DEF Typed, ActivityTyped, Subscriptions
<1>6. k \in 0..Len(old)
  <2>1. \E x \in {Limit, Len(old)} : \A y \in {Limit, Len(old)} : x <= y
    BY <1>5, LimitsAssumption
  <2>2. k \in {Limit, Len(old)} /\ k <= Len(old) /\ k <= Limit
    BY <1>2, <2>1 DEF Min
  <2> QED BY <1>5, <2>2, LimitsAssumption
<1>7. batch \in Seq(Events) /\ Len(batch) = k /\ \A i \in 1..k : batch[i] = old[i]
    BY <1>3, <1>5, <1>6
<1>8. PICK rest : rest = From(old, k)
    OBVIOUS
<1>9. rest \in Seq(Events)
    BY <1>5, <1>6, <1>8, Onwards
<1>10. broker'.events = rest
    BY <1>4, <1>5, <1>7, <1>8 DEF Subscriptions
<1>11. /\ client'.shown = client.shown \o batch /\ client'.since = client.since
       /\ client'.cursor.seen = client.cursor.seen \cup Range(batch) /\ client'.step = client.step
       /\ client'.subscribed = client.subscribed /\ client'.before = client.before
       /\ client'.cursor.identity = client.cursor.identity /\ client'.cursor.offset = client.cursor.offset
    BY <1>4, <1>7, Presented
<1>12. Watching /\ writer'[Daemon].record = writer[Daemon].record
    BY <1>4 DEF Watching, logVars
<1>13. k \in Nat /\ broker.dropped = 0
    BY <1>4, <1>5, <1>6 DEF Gap, Subscriptions
<1>14. k <= Len(broker.events) /\ rest = From(broker.events, k)
    BY <1>1, <1>5, <1>6, <1>8
<1>15. \A i \in 1..k : batch[i] = broker.events[i]
    BY <1>1, <1>7
<1>16. Batch(batch, rest, k)
    BY <1>4, <1>7, <1>10, <1>11, <1>12, <1>13, <1>14, <1>15 DEF Batch
<1> QED BY <1>7, <1>9, <1>13, <1>16

LEMMA Drained ==
    ASSUME Typed, client.step = "drain", DrainsAll
    PROVE  \E batch \in Seq(Events), n \in Nat : Batch(batch, <<>>, n) /\ client'.step = "close"
<1>1. PICK old, n : old = broker.events /\ n = Len(old)
    OBVIOUS
<1>2. broker \in Subscriptions /\ old \in Seq(Events) /\ n \in Nat
    BY <1>1 DEF DrainsAll, Typed, ActivityTyped, Subscriptions
<1>3. From(old, n) = <<>>
  <2>1. From(old, n) \in Seq(Events) /\ Len(From(old, n)) = 0
    BY <1>1, <1>2, Onwards
  <2> QED BY <2>1
<1>4. broker'.events = <<>>
    BY <1>2 DEF DrainsAll, Subscriptions
<1>5. PICK c : c = Present(client, old)
    OBVIOUS
<1>6. /\ c.shown = client.shown \o old /\ c.since = client.since
      /\ c.cursor.seen = client.cursor.seen \cup Range(old)
      /\ c.subscribed = client.subscribed /\ c.before = client.before
      /\ c.cursor.identity = client.cursor.identity /\ c.cursor.offset = client.cursor.offset
      /\ c \in Repls
    BY <1>2, <1>5, Presented
<1>7. client' = [c EXCEPT !.step = "close"]
    BY <1>1, <1>5 DEF DrainsAll
<1>8. /\ client'.shown = client.shown \o old /\ client'.since = client.since
      /\ client'.cursor.seen = client.cursor.seen \cup Range(old) /\ client'.step = "close"
      /\ client'.subscribed = client.subscribed /\ client'.before = client.before
      /\ client'.cursor.identity = client.cursor.identity /\ client'.cursor.offset = client.cursor.offset
    BY <1>6, <1>7 DEF Repls
<1>9. /\ Watching /\ writer'[Daemon].record = writer[Daemon].record
      /\ client.subscribed /\ broker # None /\ ~Gap /\ UNCHANGED <<logVars, turn, told, disturbed>>
    BY DEF DrainsAll, Watching, logVars, history
<1>10. broker.dropped = 0
    BY <1>2, <1>9 DEF Gap, Subscriptions
<1>11. n <= Len(broker.events) /\ <<>> = From(broker.events, n) /\ \A i \in 1..n : old[i] = broker.events[i]
    BY <1>1, <1>2, <1>3
<1>12. Batch(old, <<>>, n)
    BY <1>1, <1>4, <1>8, <1>9, <1>10, <1>11 DEF Batch
<1> QED BY <1>2, <1>8, <1>12

\* What comes by the subscription is after what was shown, what is left of it comes after it.
LEMMA ShownBatch ==
    ASSUME Typed, ShownInv, NEW batch \in Seq(Events), NEW rest \in Seq(Events), NEW n \in Nat,
           Batch(batch, rest, n)
    PROVE  ShownInv'
<1>1. PICK s, old : s = client.shown /\ old = broker.events
    OBVIOUS
<1>2. /\ Watching /\ client.subscribed /\ broker # None /\ Len(batch) = n /\ n <= Len(old)
      /\ \A i \in 1..n : batch[i] = old[i]
      /\ rest = From(old, n) /\ broker'.events = rest
    BY <1>1 DEF Batch
<1>3. /\ UNCHANGED turn /\ writer'[Daemon].record = writer[Daemon].record
      /\ client'.shown = s \o batch /\ client'.since = client.since
      /\ client'.cursor.seen = client.cursor.seen \cup Range(batch)
      /\ client'.step \in {"loop", "close"}
    BY <1>1 DEF Batch
<1>4. /\ s \in Seq(Events) /\ client.since \in Nat /\ old \in Seq(Events) /\ \A x \in Events : x \in Nat
      /\ \A i \in DOMAIN old : old[i] \in Events
  <2>1. broker \in Subscriptions /\ client \in Repls
    BY <1>2 DEF Typed, ActivityTyped
  <2>2. old \in Seq(Events) /\ s \in Seq(Events) /\ client.since \in Nat
    BY <1>1, <2>1 DEF Repls, Subscriptions
  <2> QED BY <2>2, Persons
<1>5. /\ Increasing(old) /\ (\A i \in DOMAIN old : Past(old[i]))
      /\ \A i \in Recent : s[i] \in client.cursor.seen /\ Past(s[i]) /\ \A j \in DOMAIN old : s[i] < old[j]
      /\ Distinct(s, client.since)
  <2>1. BrokerInv /\ NoneRepeated /\ \A i \in Recent : client.shown[i] \in client.cursor.seen
    BY <1>2 DEF ShownInv
  <2>2. /\ Increasing(broker.events) /\ \A i \in DOMAIN broker.events : Past(broker.events[i])
        /\ \A i \in Recent : /\ Past(client.shown[i])
                              /\ \A j \in DOMAIN broker.events : client.shown[i] < broker.events[j]
    BY <1>2, <2>1 DEF BrokerInv
  <2>3. Distinct(s, client.since)
    BY <1>1, <2>1 DEF NoneRepeated, Distinct
  <2> QED BY <1>1, <2>1, <2>2, <2>3
<1>6. Recent = (client.since + 1)..Len(s) /\ DOMAIN batch = 1..n /\ DOMAIN old = 1..Len(old) /\ Len(old) \in Nat
      /\ Len(s) \in Nat /\ Recent \subseteq DOMAIN s
    BY <1>1, <1>2, <1>4 DEF Recent
<1>7. /\ Len(rest) = (IF n < Len(old) THEN Len(old) - n ELSE 0) /\ DOMAIN rest = 1..Len(rest)
      /\ \A i \in DOMAIN rest : n + i \in DOMAIN old /\ rest[i] = old[n + i]
  <2>1. PICK q \in Seq(Events) : q = old
    BY <1>4
  <2>2. rest = From(q, n)
    BY <1>2, <2>1
  <2>3. /\ Len(rest) = IF n < Len(q) THEN Len(q) - n ELSE 0
        /\ \A i \in 1..Len(rest) : n + i \in 1..Len(q) /\ rest[i] = q[n + i]
    <3>1. /\ Len(From(q, n)) = IF n < Len(q) THEN Len(q) - n ELSE 0
          /\ \A i \in 1..Len(From(q, n)) : n + i \in 1..Len(q) /\ From(q, n)[i] = q[n + i]
      BY Onwards, Zenon
    <3> QED BY <2>2, <3>1, Zenon
  <2>4. DOMAIN rest = 1..Len(rest)
    OBVIOUS
  <2> QED BY <1>6, <2>1, <2>3, <2>4
<1>8. broker'.events = rest /\ client'.shown = s \o batch /\ client'.since = client.since
    BY <1>2, <1>3
<1>9. \A i \in DOMAIN batch : i \in DOMAIN old /\ batch[i] = old[i]
    BY <1>2, <1>6
<1>10. \A i, j \in DOMAIN batch : i # j => batch[i] # batch[j]
  <2>1. SUFFICES ASSUME NEW i \in DOMAIN batch, NEW j \in DOMAIN batch, i # j PROVE batch[i] # batch[j]
    OBVIOUS
  <2>2. i < j \/ j < i
    BY <1>6, <2>1
  <2>3. batch[i] \in Nat /\ batch[j] \in Nat /\ (batch[i] < batch[j] \/ batch[j] < batch[i])
    BY <1>4, <1>5, <1>9, <2>2 DEF Increasing
  <2> QED BY <2>3
<1>11. \A i \in Recent : \A j \in DOMAIN batch : s[i] # batch[j]
  <2>1. SUFFICES ASSUME NEW i \in Recent, NEW j \in DOMAIN batch PROVE s[i] # batch[j]
    OBVIOUS
  <2>2. s[i] < batch[j] /\ batch[j] \in Nat /\ s[i] \in Nat
    BY <1>4, <1>5, <1>6, <1>9
  <2> QED BY <2>2
<1>12. Distinct(s \o batch, client.since)
    BY <1>4, <1>5, <1>6, <1>10, <1>11, ShownMore
<1>13. PICK whole : whole = s \o batch
    OBVIOUS
<1>14. /\ client'.shown = whole /\ Distinct(whole, client.since) /\ whole \in Seq(Events)
       /\ Len(whole) = Len(s) + n
       /\ \A i \in 1..Len(whole) :
             \/ i \in DOMAIN s /\ whole[i] = s[i]
             \/ \E j \in DOMAIN batch : i > Len(s) /\ whole[i] = batch[j]
  <2>1. client'.shown = whole /\ Distinct(whole, client.since)
    BY <1>8, <1>12, <1>13
  <2>2. /\ whole \in Seq(Events) /\ Len(whole) = Len(s) + n
        /\ \A i \in 1..Len(whole) :
              \/ i \in DOMAIN s /\ whole[i] = s[i]
              \/ i > Len(s) /\ i - Len(s) \in DOMAIN batch /\ whole[i] = batch[i - Len(s)]
    <3>1. s \in Seq(Events) /\ Len(batch) = n
      BY <1>2, <1>4
    <3>2. /\ s \o batch \in Seq(Events) /\ Len(s \o batch) = Len(s) + Len(batch)
          /\ \A i \in 1..Len(s \o batch) :
                \/ i \in DOMAIN s /\ (s \o batch)[i] = s[i]
                \/ i > Len(s) /\ i - Len(s) \in DOMAIN batch /\ (s \o batch)[i] = batch[i - Len(s)]
      BY <3>1, Joined
    <3> QED BY <1>13, <3>1, <3>2
  <2> QED BY <2>1, <2>2
<1>15. NoneRepeated'
    BY <1>3, <1>13, <1>14 DEF NoneRepeated, Distinct
<1>16. ASSUME NEW i \in Recent'
       PROVE  \/ i \in Recent /\ client'.shown[i] = s[i]
              \/ \E j \in DOMAIN batch : client'.shown[i] = batch[j]
  <2>1. i \in (client.since + 1)..Len(whole) /\ i \in 1..Len(whole)
    BY <1>4, <1>8, <1>14 DEF Recent
  <2> QED BY <1>4, <1>6, <1>14, <2>1
<1>17. \A i \in Recent' : client'.shown[i] \in client'.cursor.seen
    BY <1>5, <1>3, <1>16 DEF Range
<1>18. \A x \in Events : Past(x)' <=> Past(x)
    BY <1>3 DEF Past
<1>19. Increasing(rest) /\ \A j \in DOMAIN rest : rest[j] \in Events /\ Past(rest[j])
  <2>1. \A j \in DOMAIN rest : rest[j] \in Events /\ Past(rest[j])
    BY <1>4, <1>5, <1>7
  <2>2. \A i, j \in DOMAIN rest : i < j => n + i < n + j
    BY <1>7
  <2>3. Increasing(rest)
    BY <1>5, <1>7, <2>2 DEF Increasing
  <2> QED BY <2>1, <2>3
<1>20. ASSUME NEW i \in Recent', NEW j \in DOMAIN rest PROVE client'.shown[i] < rest[j]
  <2>1. CASE i \in Recent /\ client'.shown[i] = s[i]
    BY <1>5, <1>7, <2>1
  <2>2. CASE \E k \in DOMAIN batch : client'.shown[i] = batch[k]
    <3>1. PICK k \in DOMAIN batch : client'.shown[i] = batch[k]
      BY <2>2
    <3>2. k \in DOMAIN old /\ k < n + j /\ n + j \in DOMAIN old /\ rest[j] = old[n + j] /\ batch[k] = old[k]
      BY <1>6, <1>7, <1>9
    <3> QED BY <1>5, <3>1, <3>2 DEF Increasing
  <2> QED BY <1>16, <2>1, <2>2
<1>21. ASSUME NEW i \in Recent' PROVE client'.shown[i] \in Events /\ Past(client'.shown[i])
  <2>1. CASE i \in Recent /\ client'.shown[i] = s[i]
    <3>1. i \in DOMAIN s /\ s[i] \in Events
      BY <1>4, <1>6, <2>1
    <3>2. Past(s[i])
      BY <1>5, <2>1
    <3> QED BY <2>1, <3>1, <3>2
  <2>2. CASE \E j \in DOMAIN batch : client'.shown[i] = batch[j]
    BY <1>4, <1>5, <1>9, <2>2
  <2> QED BY <1>16, <2>1, <2>2
<1>22. BrokerInv'
  <2>1. \A i \in DOMAIN rest : rest[i] < turn'.next /\ rest[i] # writer'[Daemon].record
    BY <1>3, <1>19 DEF Past
  <2>2. \A i \in Recent' : client'.shown[i] < turn'.next /\ client'.shown[i] # writer'[Daemon].record
    BY <1>3, <1>21 DEF Past
  <2> QED BY <1>3, <1>8, <1>19, <1>20, <2>1, <2>2 DEF BrokerInv, Past
<1> QED BY <1>15, <1>17, <1>22 DEF ShownInv

\* What is read of the log is not what was seen.
LEMMA ShownRead ==
    ASSUME Typed, ShownInv, Read
    PROVE  ShownInv'
<1>1. /\ LogTyped /\ client \in Repls /\ client.cursor \in Cursors /\ client.shown \in Seq(Events)
      /\ client.since \in Nat /\ client.back \in {"loop", "close"} /\ \A e \in Events : Past(e)' <=> Past(e)
  <2>1. UNCHANGED <<turn, writer>>
    BY DEF Read, logVars
  <2> QED BY <2>1 DEF Typed, ActivityTyped, Repls, Past
<1>2. client.step = "read" /\ Watching /\ ~client.subscribed /\ broker' = broker
    BY DEF Read, Watching, ShownInv, BrokerInv
<1>3. CASE ~exists
  <2>1. client' = Exit(client, "raised")
    BY <1>3 DEF Read
  <2>2. /\ client'.step \in {"cancel", "ended"} /\ client'.shown = client.shown /\ client'.since = client.since
        /\ client'.subscribed = client.subscribed
    BY <1>1, <2>1 DEF Exit, Repls
  <2> QED BY <1>1, <1>2, <2>2, ShownRests DEF Watching
<1>4. CASE exists
  <2>1. PICK S \in SUBSET Events : S = NewRecords(client.cursor) \cap Events
    OBVIOUS
  <2>2. PICK more : more = ByTime(S)
    OBVIOUS
  <2>3. /\ more \in Seq(Events) /\ Range(more) = S
        /\ \A i, j \in DOMAIN more : i # j => more[i] # more[j]
    BY <2>2, InOrder
  <2>4. PICK s : s = client.shown
    OBVIOUS
  <2>5. client' = [client EXCEPT !.step = client.back, !.back = "loop",
                                 !.shown = s \o more, !.cursor = ReadOn(client.cursor)]
    BY <1>4, <2>1, <2>2, <2>4 DEF Read
  <2>6. /\ client'.shown = s \o more /\ client'.since = client.since /\ client'.cursor = ReadOn(client.cursor)
        /\ client'.subscribed = client.subscribed
    BY <1>1, <2>5 DEF Repls
  <2>7. PICK seen : seen = client.cursor.seen
    OBVIOUS
  <2>8. client'.cursor.seen = seen \cup NewRecords(client.cursor)
    BY <1>1, <2>6, <2>7, ReadTyped
  <2>9. \A j \in DOMAIN more : more[j] \in S /\ more[j] \notin seen /\ more[j] \in client'.cursor.seen
    BY <2>1, <2>3, <2>7, <2>8 DEF Range, NewRecords
  <2>10. \A i \in (client.since + 1)..Len(s) : s[i] \in seen
    BY <1>2, <2>4, <2>7 DEF ShownInv, Recent
  <2>11. Distinct(s, client.since)
    BY <2>4 DEF ShownInv, NoneRepeated, Distinct
  <2>12. s \in Seq(Events) /\ Len(s) \in Nat
    BY <1>1, <2>4
  <2>13. Distinct(s \o more, client.since)
    BY <1>1, <2>3, <2>9, <2>10, <2>11, <2>12, ShownMore
  <2>14. NoneRepeated'
    BY <2>6, <2>13 DEF NoneRepeated, Distinct
  <2>15. ASSUME NEW i \in Recent' PROVE client'.shown[i] \in client'.cursor.seen
    <3>1. i \in (client.since + 1)..Len(s \o more)
      BY <2>6 DEF Recent
    <3>2. i \in 1..Len(s \o more) /\ i > client.since
      <4>1. Len(s \o more) \in Nat
        BY <2>3, <2>12
      <4> QED BY <1>1, <3>1, <4>1
    <3>3. CASE i \in DOMAIN s /\ (s \o more)[i] = s[i]
      <4>1. i \in (client.since + 1)..Len(s)
        BY <1>1, <2>12, <3>1, <3>3
      <4> QED BY <2>6, <2>8, <2>10, <3>3, <4>1
    <3>4. CASE \E j \in DOMAIN more : (s \o more)[i] = more[j]
      BY <2>6, <2>9, <3>4
    <3> QED BY <2>3, <2>12, <3>2, <3>3, <3>4, Joined
  <2>16. BrokerInv'
    <3>1. broker # None => \A i \in DOMAIN broker.events : broker.events[i] \in Events
      BY DEF Typed, ActivityTyped, Subscriptions
    <3> QED BY <1>1, <1>2, <2>6, <3>1 DEF ShownInv, BrokerInv
  <2> QED BY <2>14, <2>15, <2>16 DEF ShownInv
<1> QED BY <1>3, <1>4

LEMMA ShownDegrades ==
    ASSUME Typed, ShownInv, NEW back \in {"loop", "close"}, Degrade(back), client.step \in {"loop", "drain"}
    PROVE  ShownInv'
<1>1. client \in Repls /\ writer \in [Writers -> Writings] /\ Daemon \in Writers /\ Client # Daemon
    BY Persons DEF Typed, LogTyped, ActivityTyped
<1>2. PICK c : c = [client EXCEPT !.subscribed = FALSE, !.degraded = TRUE, !.back = back]
    OBVIOUS
<1>3. c \in Repls /\ c.shown = client.shown /\ c.since = client.since /\ c.cursor = client.cursor /\ ~c.subscribed
    BY <1>1, <1>2 DEF Repls
<1>4. WithNote("stat", c) /\ UNCHANGED turn /\ broker' = None
    BY <1>2 DEF Degrade
<1>5. /\ \/ client' = [c EXCEPT !.step = "stat"] /\ UNCHANGED writer
         \/ /\ client' = [c EXCEPT !.step = "note", !.after = "stat"]
            /\ \E n \in Notes : outcome[n] = None /\ Append_(Client, n)
    BY <1>3, <1>4, WithNoteTyped DEF ClientSteps
<1>6. writer'[Daemon].record = writer[Daemon].record
    BY <1>1, <1>5 DEF Append_
<1>7. client'.shown = client.shown /\ client'.since = client.since /\ client'.cursor = client.cursor /\ ~client'.subscribed
    BY <1>3, <1>5 DEF Repls
<1>8. \A e \in Events : Past(e) => Past(e)'
    BY <1>4, <1>6 DEF Past
<1> QED BY <1>4, <1>7, <1>8, ShownRests DEF Watching

LEMMA ShownByClient ==
    ASSUME Typed, ShownInv, client.step = "note" => client.after \in {"open", "start", "stat"},
           \/ Send \/ StartCall \/ Sleep \/ Outcome \/ Stat \/ CloseActivity \/ Finish \/ NoteWritten \/ Cancel
           \/ RunClosers \/ Reap \/ End \/ Interrupt \/ InterruptAgain
    PROVE  ShownInv'
<1>1. /\ client \in Repls /\ writer \in [Writers -> Writings] /\ Daemon \in Writers /\ Client # Daemon /\ Client \in Writers
      /\ client.back \in {"loop", "close"}
    BY Persons DEF Typed, LogTyped, ActivityTyped, Repls
<1>2. client.subscribed => client.step \notin {"prompt", "open", "note", "stat", "read", "done", "gone"}
    BY DEF ShownInv, BrokerInv
<1>3. ASSUME turn' = turn, writer'[Daemon].record = writer[Daemon].record, broker' \in {broker, None},
             client'.shown = client.shown, client'.since = client.since,
             client'.subscribed => client.subscribed
                 /\ client'.step \notin {"prompt", "open", "note", "stat", "read", "done", "gone"},
             Watching' => Watching /\ client'.cursor.seen = client.cursor.seen
      PROVE  ShownInv'
  <2>1. \A e \in Events : Past(e) => Past(e)'
    BY <1>3 DEF Past
  <2> QED BY <1>3, <2>1, ShownRests
<1>4. CASE Send
  <2>1. /\ UNCHANGED <<turn, writer, broker>> /\ client'.shown = client.shown /\ client'.since = client.since
        /\ client'.step = "open" /\ client'.subscribed = client.subscribed /\ client.step = "prompt"
    BY <1>1, <1>4 DEF Send, Repls, logVars
  <2> QED BY <1>2, <1>3, <2>1 DEF Watching
<1>5. CASE StartCall
  <2>1. /\ UNCHANGED <<turn, writer, broker>> /\ client'.shown = client.shown /\ client'.since = client.since
        /\ client'.step = "loop" /\ client'.subscribed = client.subscribed /\ client'.cursor = client.cursor
        /\ client.step = "start"
    BY <1>1, <1>5 DEF StartCall, Repls, logVars
  <2> QED BY <1>3, <2>1 DEF Watching
<1>6. CASE Sleep
  <2>1. /\ UNCHANGED <<turn, writer, broker>> /\ client'.shown = client.shown /\ client'.since = client.since
        /\ client'.step = "stat" /\ client'.subscribed = client.subscribed /\ client'.cursor = client.cursor
        /\ client.step = "loop" /\ ~client.subscribed
    BY <1>1, <1>6 DEF Sleep, ReadLog, Quiet, Repls, logVars
  <2> QED BY <1>3, <2>1 DEF Watching
<1>7. CASE Outcome
  <2>1. /\ UNCHANGED <<turn, writer, broker>> /\ client'.shown = client.shown /\ client'.since = client.since
        /\ client'.step = "drain" /\ client'.subscribed = client.subscribed /\ client'.cursor = client.cursor
        /\ client.step = "loop"
    BY <1>1, <1>7 DEF Outcome, Quiet, Repls, logVars
  <2> QED BY <1>3, <2>1 DEF Watching
<1>8. CASE Stat
  <2>1. UNCHANGED <<turn, writer, broker>> /\ client.step = "stat" /\ ~client.subscribed
    BY <1>2, <1>8 DEF Stat, logVars
  <2>2. Found(client.cursor).seen = client.cursor.seen /\ StartOver(client.cursor).seen = client.cursor.seen
    BY <1>1 DEF Found, StartOver, Repls, Cursors
  <2>3. /\ client'.shown = client.shown /\ client'.since = client.since /\ client'.subscribed = client.subscribed
        /\ client'.cursor.seen = client.cursor.seen
    <3>1. CASE exists
      <4>1. client' = [client EXCEPT !.step = "read", !.cursor = Found(client.cursor)]
        BY <1>8, <3>1 DEF Stat
      <4> QED BY <1>1, <2>2, <4>1 DEF Repls
    <3>2. CASE ~exists
      <4>1. client' = [client EXCEPT !.step = client.back, !.back = "loop", !.cursor = StartOver(client.cursor)]
        BY <1>8, <3>2 DEF Stat
      <4> QED BY <1>1, <2>2, <4>1 DEF Repls
    <3> QED BY <3>1, <3>2
  <2> QED BY <1>3, <2>1, <2>3 DEF Watching
<1>9. CASE CloseActivity
  <2>1. /\ UNCHANGED <<turn, writer>> /\ broker' = None /\ client'.shown = client.shown /\ client'.since = client.since
        /\ client'.step = "done" /\ ~client'.subscribed
    BY <1>1, <1>9 DEF CloseActivity, Repls, logVars
  <2> QED BY <1>3, <2>1 DEF Watching
<1>10. CASE Finish
  <2>1. client.step = "done" /\ ~client.subscribed /\ UNCHANGED <<turn, broker>>
    BY <1>2, <1>10 DEF Finish
  <2>2. CASE client'.step \in {"open", "prompt"} /\ UNCHANGED writer
             /\ client'.shown = client.shown /\ client'.since = client.since /\ client'.subscribed = client.subscribed
    BY <1>3, <2>1, <2>2 DEF Watching
  <2>3. CASE WithNote("open", [client EXCEPT !.attempt = @ + 1])
    <3>1. PICK c : c = [client EXCEPT !.attempt = @ + 1]
      OBVIOUS
    <3>2. c \in Repls /\ c.shown = client.shown /\ c.since = client.since /\ c.subscribed = client.subscribed
      BY <1>1, <3>1 DEF Repls
    <3>3. /\ \/ client' = [c EXCEPT !.step = "open"] /\ UNCHANGED writer
             \/ /\ client' = [c EXCEPT !.step = "note", !.after = "open"]
                /\ \E n \in Notes : outcome[n] = None /\ Append_(Client, n)
      BY <2>3, <3>1, <3>2, WithNoteTyped DEF ClientSteps
    <3>4. writer'[Daemon].record = writer[Daemon].record
      BY <1>1, <3>3 DEF Append_
    <3>5. /\ client'.shown = client.shown /\ client'.since = client.since /\ client'.subscribed = client.subscribed
          /\ client'.step = "open" \/ (client'.step = "note" /\ client'.after = "open")
      BY <3>2, <3>3 DEF Repls
    <3> QED BY <1>3, <2>1, <3>4, <3>5 DEF Watching
  <2> QED BY <1>1, <1>10, <2>2, <2>3 DEF Finish, AtPrompt, Repls
<1>11. CASE NoteWritten
  <2>1. /\ writer'[Daemon].record = writer[Daemon].record /\ UNCHANGED <<turn, broker>> /\ client.step = "note"
    BY <1>1, <1>11 DEF NoteWritten
  <2>2. /\ client'.shown = client.shown /\ client'.since = client.since /\ client'.subscribed = client.subscribed
        /\ client'.step = client.after /\ client'.cursor = client.cursor /\ client'.after = "prompt"
    BY <1>1, <1>11 DEF NoteWritten, Repls, ClientSteps
  <2> QED BY <1>2, <1>3, <2>1, <2>2 DEF Watching
<1>12. CASE Cancel \/ RunClosers \/ Reap \/ InterruptAgain
  <2>1. /\ UNCHANGED <<turn, writer, broker>> /\ client'.shown = client.shown /\ client'.since = client.since
        /\ client'.step \in {"closers", "reap", "ended"} /\ client'.subscribed = client.subscribed
    BY <1>1, <1>12 DEF Cancel, RunClosers, Reap, InterruptAgain, Quiet, Repls, logVars
  <2> QED BY <1>3, <2>1 DEF Watching
<1>13. CASE End
  <2>1. /\ UNCHANGED <<turn, writer>> /\ broker' = None /\ client'.shown = client.shown /\ client'.since = client.since
        /\ client'.step \in {"prompt", "gone"} /\ ~client'.subscribed
    BY <1>1, <1>13 DEF End, AtPrompt, Repls, logVars
  <2> QED BY <1>3, <2>1 DEF Watching
<1>14. CASE Interrupt
  <2>1. /\ UNCHANGED <<turn, writer, broker>> /\ client'.shown = client.shown /\ client'.since = client.since
        /\ client'.step \in {"cancel", "ended"} /\ client'.subscribed = client.subscribed
    BY <1>1, <1>14 DEF Interrupt, Exit, Repls, logVars
  <2> QED BY <1>3, <2>1 DEF Watching
<1> QED BY <1>4, <1>5, <1>6, <1>7, <1>8, <1>9, <1>10, <1>11, <1>12, <1>13, <1>14

LEMMA ShownKept ==
    ASSUME Typed, LogInv, CloserInv, ShownInv, [Next]_vars
    PROVE  ShownInv'
<1>1. /\ client \in Repls /\ broker \in Subscriptions \cup {None} /\ client.shown \in Seq(Events)
      /\ client.step = "note" => client.after \in {"open", "start", "stat"}
    BY DEF Typed, ActivityTyped, Repls, CloserInv
<1>2. CASE PollBatch
  <2>1. PICK batch \in Seq(Events), rest \in Seq(Events), n \in Nat : Batch(batch, rest, n)
    BY <1>2, Polled
  <2> QED BY <2>1, ShownBatch
<1>3. CASE Drain
  <2>1. CASE Degrade("close")
    BY <1>3, <2>1, ShownDegrades DEF Drain
  <2>2. CASE ~client.subscribed /\ ReadLog("close")
    <3>1. /\ UNCHANGED <<turn, writer, broker>> /\ client'.shown = client.shown /\ client'.since = client.since
          /\ client'.subscribed = client.subscribed /\ client'.cursor = client.cursor
      BY <1>1, <2>2 DEF ReadLog, Quiet, Repls, logVars
    <3>2. Watching /\ \A e \in Events : Past(e) => Past(e)'
      BY <1>3, <3>1 DEF Drain, Watching, Past
    <3> QED BY <2>2, <3>1, <3>2, ShownRests
  <2>3. CASE DrainsAll
    <3>1. PICK batch \in Seq(Events), n \in Nat : Batch(batch, <<>>, n)
      BY <1>3, <2>3, Drained DEF Drain
    <3>2. <<>> \in Seq(Events)
      OBVIOUS
    <3> QED BY <3>1, <3>2, ShownBatch
  <2> QED BY <1>3, <2>1, <2>2, <2>3 DEF Drain, DrainsAll
<1>4. CASE PollFails
    BY <1>4, ShownDegrades DEF PollFails
<1>5. CASE \/ BeginEvent \/ TurnStops \/ DaemonDies \/ Expire \/ LogStep \/ LogFault \/ Register \/ Request
           \/ Receive \/ EndCall \/ Lose \/ UNCHANGED vars
    BY <1>5, ShownByDaemon
<1>6. CASE \/ Send \/ StartCall \/ Sleep \/ Outcome \/ Stat \/ CloseActivity \/ Finish \/ NoteWritten \/ Cancel
           \/ RunClosers \/ Reap \/ End \/ Interrupt \/ InterruptAgain
    BY <1>1, <1>6, ShownByClient
<1> QED BY <1>2, <1>3, <1>4, <1>5, <1>6, Publishes, ShownOpens, ShownRead
        DEF Next, DaemonStep, CallStep, ClientStep

LEMMA Shows == Spec => [](LogSafe /\ CloserInv /\ ShownInv)
<1>1. Init => ShownInv
  <2>1. SUFFICES ASSUME Init PROVE ShownInv
    OBVIOUS
  <2>2. PICK empty : empty = <<>>
    OBVIOUS
  <2>3. client = [step |-> "prompt", after |-> "prompt", back |-> "loop", exit |-> None, attempt |-> 1,
                   subscribed |-> FALSE, degraded |-> FALSE, offer |-> FALSE, before |-> None,
                   cursor |-> NoCursor, shown |-> empty, since |-> 0]
    BY <2>1, <2>2 DEF Init
  <2>4. client.step = "prompt" /\ client.shown = empty /\ ~client.subscribed /\ broker = None /\ client.since = 0
    <3>1. broker = None
      BY <2>1 DEF Init
    <3> QED BY <2>3, <3>1
  <2>5. NoneRepeated
    BY <2>2, <2>4 DEF NoneRepeated
  <2>6. BrokerInv /\ ~Watching
    BY <2>4 DEF BrokerInv, Watching
  <2>7. Watching => \A i \in Recent : client.shown[i] \in client.cursor.seen
    BY <2>6
  <2> QED BY <2>5, <2>6, <2>7 DEF ShownInv
<1>2. LogSafe /\ CloserInv /\ ShownInv /\ [Next]_vars => ShownInv'
    BY ShownKept DEF LogSafe
<1>3. Init => LogSafe
    BY Started DEF LogSafe
<1>4. Init => CloserInv
    BY Persons DEF Init, CloserInv, Opening, Waiting, FreshToken, NoCall
<1>5. LogSafe /\ [Next]_vars => LogSafe'
    BY LogKept, ActivityKept, NotingKept DEF LogSafe, Typed
<1>6. LogSafe /\ CloserInv /\ [Next]_vars => CloserInv'
    BY CloserKept DEF LogSafe
<1> QED BY <1>1, <1>2, <1>3, <1>4, <1>5, <1>6, PTL DEF Spec

\* No request shows an event twice: what the subscription brings is marked as seen before the log is
\* read, and after that nothing comes by the subscription (cli/repl/activity.py).
THEOREM ShowsOnce == Spec => []NoneRepeated
<1>1. LogSafe /\ CloserInv /\ ShownInv => NoneRepeated
    BY DEF ShownInv
<1> QED BY <1>1, Shows, PTL

-----------------------------------------------------------------------------
(* What is missed *)

\* Lines follow each other; only a line that is being written has no end.
Ending(pieces) == Len(pieces) > 0 => pieces[Len(pieces)][2] = 2
WellFormed(pieces) ==
    \A i \in DOMAIN pieces :
       /\ pieces[i][2] = 2 => i > 1 /\ pieces[i - 1] = <<pieces[i][1], 1>>
       /\ pieces[i][2] = 1 /\ i > 1 => pieces[i - 1][2] = 2
Lines ==
    /\ \A id \in DOMAIN files : WellFormed(files[id])
    /\ \A id \in DOMAIN files :
          Ending(files[id]) \/ (id = Active /\ exists /\ \E w \in Writers : writer[w].step = "half")

\* The line of a record begins after a place in the log.
Later(r, identity, offset) ==
    \E id \in DOMAIN files : \E i \in DOMAIN files[id] :
       files[id][i] = <<r, 1>> /\ (id > identity \/ (id = identity /\ i > offset))

\* The log has only become longer.
Extends ==
    /\ Len(files) <= Len(files')
    /\ \A id \in DOMAIN files :
          /\ Len(files[id]) <= Len(files'[id])
          /\ \A i \in DOMAIN files[id] : files'[id][i] = files[id][i]

LEMMA LaterStill ==
    ASSUME LogTyped, files' \in Seq(Seq(Piece)), Extends, NEW r, NEW identity, NEW offset,
           Later(r, identity, offset)
    PROVE  Later(r, identity, offset)'
<1>0. PICK id \in DOMAIN files : \E i \in DOMAIN files[id] :
         files[id][i] = <<r, 1>> /\ (id > identity \/ (id = identity /\ i > offset))
    BY DEF Later
<1>1. PICK i \in DOMAIN files[id] :
         files[id][i] = <<r, 1>> /\ (id > identity \/ (id = identity /\ i > offset))
    BY <1>0
<1>2. id \in DOMAIN files' /\ files[id] \in Seq(Piece) /\ files'[id] \in Seq(Piece)
    BY DEF Extends, LogTyped
<1>3. i \in DOMAIN files'[id] /\ files'[id][i] = files[id][i]
    BY <1>2 DEF Extends
<1> QED BY <1>1, <1>2, <1>3 DEF Later

LEMMA GrownExtends ==
    ASSUME LogTyped, NEW a, NEW old \in Seq(Piece), NEW p \in Piece, Grown(a, old, p)
    PROVE  Extends
<1>1. /\ a \in {Len(files), Len(files) + 1} /\ Len(files') = a /\ files' \in Seq(Seq(Piece))
      /\ a = Len(files) => old = files[a]
      /\ files'[a] = Append(old, p) /\ \A id \in DOMAIN files : id # a => files'[id] = files[id]
    BY DEF Grown, Active_
<1>2. Len(files) <= Len(files') /\ Len(files) \in Nat
    BY <1>1 DEF LogTyped
<1>3. ASSUME NEW id \in DOMAIN files
      PROVE  /\ Len(files[id]) <= Len(files'[id])
             /\ \A i \in DOMAIN files[id] : files'[id][i] = files[id][i]
  <2>1. files[id] \in Seq(Piece)
    BY <1>3 DEF LogTyped
  <2>2. CASE id # a
    BY <1>1, <1>3, <2>1, <2>2
  <2>3. CASE id = a
    <3>0. DOMAIN files = 1..Len(files) /\ Len(files) \in Nat
      BY DEF LogTyped
    <3>1. a = Len(files)
      BY <1>1, <1>3, <2>3, <3>0
    <3>2. old = files[id]
      BY <1>1, <2>3, <3>1
    <3>3. Len(Append(old, p)) = Len(old) + 1 /\ \A i \in DOMAIN old : Append(old, p)[i] = old[i]
      OBVIOUS
    <3>4. Len(old) \in Nat
      OBVIOUS
    <3>5. files'[id] = Append(old, p)
      BY <1>1, <2>3
    <3> QED BY <3>2, <3>3, <3>4, <3>5
  <2> QED BY <2>2, <2>3
<1> QED BY <1>2, <1>3 DEF Extends

LEMMA WellFormedMore ==
    ASSUME NEW old \in Seq(Piece), NEW p \in Piece, WellFormed(old), p[2] = 1 => Ending(old),
           p[2] = 2 => Len(old) > 0 /\ old[Len(old)] = <<p[1], 1>>
    PROVE  WellFormed(Append(old, p))
<1>0. PICK s : s = Append(old, p)
    OBVIOUS
<1>1. /\ s \in Seq(Piece) /\ Len(s) = Len(old) + 1 /\ s[Len(old) + 1] = p
      /\ \A i \in 1..Len(old) : s[i] = old[i]
    BY <1>0
<1>2. Len(old) \in Nat /\ DOMAIN s = 1..(Len(old) + 1) /\ DOMAIN old = 1..Len(old)
    BY <1>0, <1>1
<1>3. ASSUME NEW i \in DOMAIN s
      PROVE  /\ s[i][2] = 2 => i > 1 /\ s[i - 1] = <<s[i][1], 1>>
             /\ s[i][2] = 1 /\ i > 1 => s[i - 1][2] = 2
  <2>1. CASE i \in 1..Len(old)
    <3>1. i \in DOMAIN old /\ s[i] = old[i]
      BY <1>1, <1>2, <2>1
    <3>2. i > 1 => s[i - 1] = old[i - 1]
      BY <1>1, <1>2, <2>1
    <3> QED BY <3>1, <3>2 DEF WellFormed
  <2>2. CASE i = Len(old) + 1
    <3>1. s[i] = p /\ i - 1 = Len(old)
      BY <1>1, <1>2, <2>2
    <3>2. Len(old) > 0 => s[i - 1] = old[Len(old)]
      BY <1>1, <1>2, <3>1
    <3>3. i > 1 <=> Len(old) > 0
      BY <1>2, <2>2
    <3> QED BY <3>1, <3>2, <3>3 DEF Ending
  <2> QED BY <1>2, <1>3, <2>1, <2>2
<1> QED BY <1>0, <1>3 DEF WellFormed

\* While a writer holds the lock and is not in the middle of a line, every line is ended.
LEMMA NoHalf ==
    ASSUME LogTyped, LogInv, Lines, NEW w \in Writers, writer[w].step \in Holding \ {"half"}
    PROVE  \A id \in DOMAIN files : Ending(files[id])
<1>1. lock = w
    BY DEF LogInv
<1>2. ASSUME NEW v \in Writers, writer[v].step = "half" PROVE FALSE
    BY <1>1, <1>2 DEF LogInv, Holding
<1> QED BY <1>2 DEF Lines

LEMMA LinesRest ==
    ASSUME LogTyped, Lines, UNCHANGED files,
           (exists' /\ \A v \in Writers : writer[v].step = "half" => writer'[v].step = "half")
             \/ \A id \in DOMAIN files : Ending(files[id])
    PROVE  Lines' /\ Extends
<1>1. \A id \in DOMAIN files : files[id] \in Seq(Piece)
    BY DEF LogTyped
<1>2. Extends
    BY <1>1 DEF Extends, LogTyped
<1> QED BY <1>2 DEF Lines, Active

LEMMA LinesGrown ==
    ASSUME LogTyped, Lines, NEW a, NEW old \in Seq(Piece), NEW p \in Piece, Grown(a, old, p),
           p[2] = 1 => Ending(old), p[2] = 2 => Len(old) > 0 /\ old[Len(old)] = <<p[1], 1>>,
           \A id \in DOMAIN files : id # a => Ending(files[id]),
           p[2] = 1 => exists' /\ \E w \in Writers : writer'[w].step = "half"
    PROVE  Lines'
<1>1. /\ a \in {Len(files), Len(files) + 1} /\ Len(files') = a /\ files' \in Seq(Seq(Piece))
      /\ a = Len(files) => old = files[a]
      /\ files'[a] = Append(old, p) /\ \A id \in DOMAIN files : id # a => files'[id] = files[id]
    BY DEF Grown, Active_
<1>2. a = Len(files) + 1 => old = <<>>
    BY DEF Grown, Active_, LogTyped
<1>3. Len(files) \in Nat /\ Len(files) > 0 /\ DOMAIN files = 1..Len(files) /\ DOMAIN files' = 1..a
    BY <1>1 DEF LogTyped
<1>4. WellFormed(old)
  <2>1. CASE a = Len(files)
    BY <1>1, <1>3, <2>1 DEF Lines
  <2>2. CASE a = Len(files) + 1
    BY <1>2, <2>2 DEF WellFormed
  <2> QED BY <1>1, <2>1, <2>2
<1>5. WellFormed(files'[a])
    BY <1>1, <1>4, WellFormedMore
<1>6. p[2] = 2 => Ending(files'[a])
  <2>1. Len(Append(old, p)) = Len(old) + 1 /\ Append(old, p)[Len(old) + 1] = p
    OBVIOUS
  <2> QED BY <1>1, <2>1 DEF Ending
<1>7. ASSUME NEW id \in DOMAIN files'
      PROVE  /\ WellFormed(files'[id])
             /\ Ending(files'[id]) \/ (id = a /\ p[2] = 1)
  <2>1. CASE id = a
    BY <1>5, <1>6, <2>1 DEF Piece
  <2>2. CASE id # a
    <3>1. id \in DOMAIN files
      BY <1>1, <1>3, <1>7, <2>2
    <3>2. files'[id] = files[id]
      BY <1>1, <2>2, <3>1
    <3> QED BY <2>2, <3>1, <3>2 DEF Lines
  <2> QED BY <2>1, <2>2
<1> QED BY <1>1, <1>7 DEF Lines, Active

LEMMA LinesStep ==
    ASSUME LogTyped, LogInv, Lines, NEW w \in Writers, WriterStep(w)
    PROVE  Lines' /\ Extends /\ files' \in Seq(Seq(Piece))
<1>1. writer \in [Writers -> Writings] /\ exists \in BOOLEAN /\ files \in Seq(Seq(Piece)) /\ InHand(w)
    BY DEF LogTyped, LogInv
<1>2. writer[w].step # "idle"
    BY DEF WriterStep, LockLog, Rotate, OpenLog, WriteRest, SyncLog, CloseLog
<1>3. writer[w].record \in Records
    BY <1>1, <1>2, Persons DEF InHand
<1>4. CASE LockLog(w)
  <2>1. /\ UNCHANGED <<files, exists>> /\ \A v \in Writers : writer[v].step = "half" => writer'[v].step = "half"
    BY <1>1, <1>4 DEF LockLog, Step, Writings
  <2>2. (exists' /\ \A v \in Writers : writer[v].step = "half" => writer'[v].step = "half")
        \/ \A id \in DOMAIN files : Ending(files[id])
    BY <2>1 DEF Lines
  <2> QED BY <1>1, <2>1, <2>2, LinesRest
<1>5. CASE Rotate(w) \/ SyncLog(w) \/ CloseLog(w)
  <2>1. UNCHANGED files /\ writer[w].step \in Holding \ {"half"}
    BY <1>5 DEF Rotate, SyncLog, CloseLog, Holding
  <2>2. \A id \in DOMAIN files : Ending(files[id])
    BY <2>1, NoHalf
  <2> QED BY <1>1, <2>1, <2>2, LinesRest
<1>6. CASE OpenLog(w)
  <2>1. PICK a, old : /\ Grown(a, old, <<writer[w].record, 1>>) /\ old \in Seq(Piece)
                      /\ writer' = [writer EXCEPT ![w].step = "half", ![w].boundary = Len(old)]
    BY <1>3, <1>6, Opened
  <2>2. PICK p \in Piece : p = <<writer[w].record, 1>>
    BY <1>3 DEF Piece
  <2>3. writer[w].step \in Holding \ {"half"} /\ exists' = TRUE
    BY <1>6 DEF OpenLog, Holding
  <2>4. \A id \in DOMAIN files : Ending(files[id])
    BY <2>3, NoHalf
  <2>5. Ending(old)
    <3>1. old = <<>> \/ (a \in DOMAIN files /\ old = files[a])
      BY <2>1, <2>2, GrownFrom
    <3>2. CASE old = <<>>
      BY <3>2 DEF Ending
    <3> QED BY <2>4, <3>1, <3>2
  <2>6. writer'[w].step = "half"
    BY <1>1, <2>1 DEF Writings
  <2>7. p[2] # 2 /\ Grown(a, old, p)
    BY <2>1, <2>2
  <2>8. Lines'
    BY <2>1, <2>3, <2>4, <2>5, <2>6, <2>7, LinesGrown
  <2>9. Extends
    BY <2>1, <2>7, GrownExtends
  <2> QED BY <2>7, <2>8, <2>9 DEF Grown
<1>7. CASE WriteRest(w)
  <2>1. Grown(Active, files[Active], <<writer[w].record, 2>>) /\ files[Active] \in Seq(Piece)
    BY <1>3, <1>7, Finished
  <2>2. PICK p \in Piece : p = <<writer[w].record, 2>>
    BY <1>3 DEF Piece
  <2>3. PICK old \in Seq(Piece) : old = files[Active]
    BY <2>1
  <2>4. PutBy(w) /\ writer[w].step = "half" /\ writer[w].boundary \in Nat
    BY <1>1, <1>7 DEF WriteRest, InHand, Writings
  <2>5. Len(old) > 0 /\ old[Len(old)] = <<writer[w].record, 1>>
    BY <2>3, <2>4 DEF PutBy
  <2>6. \A id \in DOMAIN files : id # Active => Ending(files[id])
    BY DEF Lines
  <2>7. p[2] # 1 /\ p[1] = writer[w].record /\ Grown(Active, old, p)
    BY <2>1, <2>2, <2>3
  <2>8. Len(old) > 0 /\ old[Len(old)] = <<p[1], 1>>
    BY <2>5, <2>7
  <2>9. Lines'
    BY <2>6, <2>7, <2>8, LinesGrown
  <2>10. Extends
    BY <2>7, GrownExtends
  <2> QED BY <2>7, <2>9, <2>10 DEF Grown
<1> QED BY <1>4, <1>5, <1>6, <1>7 DEF WriterStep

\* A line that begins now begins after every place in the log.
LEMMA OpensLater ==
    ASSUME LogTyped, NEW w \in Writers, NEW r \in Records, r = writer[w].record, OpenLog(w),
           NEW a \in 1..Active, NEW n \in Nat, n <= Len(files[a])
    PROVE  Later(r, a, n)'
<1>1. PICK act, old : /\ Grown(act, old, <<writer[w].record, 1>>) /\ old \in Seq(Piece)
    BY Opened
<1>2. PICK p \in Piece : p = <<r, 1>>
    BY DEF Piece
<1>3. /\ act = Active' /\ act \in DOMAIN files' /\ Len(files'[act]) = Len(old) + 1 /\ files'[act][Len(old) + 1] = p
    BY <1>1, <1>2, GrownKeeps
<1>4. /\ act \in {Len(files), Len(files) + 1} /\ (act = Len(files) => old = files[act])
    BY <1>1 DEF Grown, Active_
<1>5. PICK i : i = Len(old) + 1
    OBVIOUS
<1>6. files'[act] \in Seq(Piece)
    BY <1>1, <1>2, GrownFrom
<1>7. i \in DOMAIN files'[act] /\ files'[act][i] = <<r, 1>>
    BY <1>1, <1>2, <1>3, <1>5, <1>6
<1>8. act > a \/ (act = a /\ i > n)
    BY <1>1, <1>4, <1>5 DEF LogTyped, Active
<1> QED BY <1>3, <1>7, <1>8 DEF Later

\* What a cursor gets of a file from some place: every line that is ended.
LEMMA ParsedFrom ==
    ASSUME NEW pieces \in Seq(Piece), WellFormed(pieces), NEW n \in Nat, NEW i \in DOMAIN pieces, i > n,
           NEW r \in Records, pieces[i] = <<r, 1>>
    PROVE  i = Len(pieces) \/ r \in Parsed(From(pieces, n))
<1>1. SUFFICES ASSUME i # Len(pieces) PROVE r \in Parsed(From(pieces, n))
    OBVIOUS
<1>2. i \in Nat /\ Len(pieces) \in Nat /\ i + 1 \in DOMAIN pieces /\ i < Len(pieces) /\ i > 0
    BY <1>1
<1>3. pieces[i + 1] = <<r, 2>>
  <2>1. pieces[i + 1] \in Piece
    BY <1>2
  <2>2. (i + 1) - 1 = i /\ i + 1 > 1
    BY <1>2
  <2>3. pieces[i + 1][2] # 1
    BY <1>2, <2>2 DEF WellFormed
  <2>4. pieces[i + 1][2] = 2
    BY <2>1, <2>3 DEF Piece
  <2>5. pieces[i] = <<pieces[i + 1][1], 1>>
    BY <1>2, <2>2, <2>4 DEF WellFormed
  <2> QED BY <2>1, <2>4, <2>5 DEF Piece
<1>4. i > 1 => pieces[i - 1][2] = 2
    BY <1>2 DEF WellFormed
<1>5. PICK s : s = From(pieces, n)
    OBVIOUS
<1>6. s \in Seq(Piece) /\ Len(s) = Len(pieces) - n /\ \A k \in 1..Len(s) : s[k] = pieces[n + k]
    BY <1>2, <1>5, Onwards
<1>7. PICK j : j = i + 1 - n
    OBVIOUS
<1>8. j \in 2..Len(s) /\ j \in 1..Len(s) /\ j - 1 \in 1..Len(s)
      /\ n + j = i + 1 /\ n + (j - 1) = i /\ n + (j - 2) = i - 1
  <2>1. PICK l, m : l = Len(s) /\ m = Len(pieces)
    OBVIOUS
  <2>2. l = m - n /\ i + 1 <= m /\ m \in Nat
    BY <1>2, <1>6, <2>1
  <2>3. j \in 2..l /\ n + j = i + 1 /\ n + (j - 1) = i /\ n + (j - 2) = i - 1
    BY <1>2, <1>7, <2>1, <2>2
  <2>4. j \in 1..l /\ j - 1 \in 1..l
    BY <2>2, <2>3
  <2> QED BY <2>1, <2>3, <2>4
<1>9. s[j] = <<r, 2>> /\ s[j - 1] = <<r, 1>>
  <2>1. s[j] = pieces[n + j] /\ s[j - 1] = pieces[n + (j - 1)]
    BY <1>6, <1>8
  <2> QED BY <1>3, <1>8, <2>1
<1>10. j = 2 \/ s[j - 2][2] = 2
  <2>1. CASE j # 2
    <3>1. Len(s) \in Nat
      BY <1>6
    <3>2. j - 2 \in 1..Len(s)
      BY <1>8, <2>1, <3>1
    <3>3. i > 1
      BY <1>2, <1>6, <1>8, <2>1, <3>1
    <3>4. s[j - 2] = pieces[n + (j - 2)]
      BY <1>6, <3>2
    <3> QED BY <1>4, <1>8, <3>3, <3>4
  <2> QED BY <2>1
<1> QED BY <1>5, <1>8, <1>9, <1>10 DEF Parsed

\* Where it stops: not behind a line that is being written.
LEMMA StopsAt ==
    ASSUME NEW pieces \in Seq(Piece), NEW n \in Nat, n <= Len(pieces)
    PROVE  /\ n + CompleteLength(From(pieces, n)) \in n..Len(pieces)
           /\ Len(pieces) > n /\ pieces[Len(pieces)][2] = 1 => n + CompleteLength(From(pieces, n)) < Len(pieces)
<1>1. PICK s, k : s = From(pieces, n) /\ k = CompleteLength(s)
    OBVIOUS
<1>2. s \in Seq(Piece) /\ Len(s) = Len(pieces) - n /\ \A x \in 1..Len(s) : s[x] = pieces[n + x]
    BY <1>1, Onwards
<1>3. k \in 0..Len(s) /\ (k # 0 => s[k][2] = 2)
    BY <1>1, <1>2, Complete
<1>4. Len(pieces) \in Nat /\ Len(s) \in Nat
    BY <1>2
<1>5. n + k \in n..Len(pieces)
    BY <1>2, <1>3, <1>4
<1>6. ASSUME Len(pieces) > n, pieces[Len(pieces)][2] = 1 PROVE n + k < Len(pieces)
  <2>1. CASE k = Len(s)
    <3>1. k \in 1..Len(s) /\ n + k = Len(pieces) /\ k # 0
      BY <1>2, <1>4, <1>6, <2>1
    <3>2. s[k] = pieces[Len(pieces)]
      BY <1>2, <3>1
    <3> QED BY <1>3, <1>6, <3>1, <3>2
  <2>2. CASE k # Len(s)
    <3>1. k \in 0..Len(s) /\ Len(s) = Len(pieces) - n
      BY <1>2, <1>3
    <3>2. PICK x \in Nat, y \in Nat : x = Len(s) /\ y = Len(pieces)
      BY <1>4
    <3>3. k \in 0..x /\ x = y - n /\ k # x
      BY <2>2, <3>1, <3>2
    <3>4. n + k < y
      BY <3>3
    <3> QED BY <3>2, <3>4
  <2> QED BY <2>1, <2>2
<1> QED BY <1>1, <1>5, <1>6

Placed(c) ==
    /\ c.identity \in 1..Active /\ c.offset <= Len(files[c.identity])
PlacedToRead(c) ==
    /\ c.found \in c.identity..Active /\ c.size <= Len(files[c.found])
    /\ c.found = c.identity => c.offset <= c.size

\* A cursor that was not overtaken has read every line that is ended, and stands before the others.
LEMMA ReadsOn ==
    ASSUME LogTyped, Lines, NEW c \in Cursors, Placed(c), PlacedToRead(c), ~Overtaken(c)
    PROVE  /\ ReadOn(c).identity = Active /\ ReadOn(c).offset \in Nat /\ ReadOn(c).offset <= Len(files[Active])
           /\ \A r \in Records : Later(r, c.identity, c.offset) =>
                 \/ r \in ReadOn(c).seen
                 \/ /\ Later(r, Active, ReadOn(c).offset)
                    /\ files[Active] # <<>> /\ files[Active][Len(files[Active])] = <<r, 1>>
<1>1. PICK pieces, n : pieces = files[Active] /\ n = ReadFrom(c)
    OBVIOUS
<1>2. /\ Active \in DOMAIN files /\ pieces \in Seq(Piece) /\ Len(pieces) \in Nat /\ WellFormed(pieces)
      /\ Active \in Nat /\ DOMAIN files = 1..Active
    BY <1>1 DEF LogTyped, Active, Lines
<1>3. c.found = Active /\ c.offset \in Nat /\ c.identity \in Nat /\ None \notin Nat
    BY Persons DEF Overtaken, Cursors, Placed
<1>4. Replaced(c) <=> c.identity # Active
    BY <1>3 DEF Replaced
<1>5. Replaced(c) => c.identity = Active - 1 /\ c.identity \in Range(backup)
    BY <1>2, <1>3, <1>4 DEF Overtaken
<1>6. /\ Replaced(c) => n = 0
      /\ ~Replaced(c) => n = c.offset
      /\ n \in Nat /\ n <= Len(pieces)
  <2>1. ~Replaced(c) => ~(c.size < c.offset) /\ c.offset <= Len(pieces)
    BY <1>1, <1>3, <1>4 DEF PlacedToRead, Placed, Cursors
  <2> QED BY <1>1, <1>2, <1>3, <2>1 DEF ReadFrom
<1>7. /\ n + CompleteLength(From(pieces, n)) \in n..Len(pieces)
      /\ Len(pieces) > n /\ pieces[Len(pieces)][2] = 1 => n + CompleteLength(From(pieces, n)) < Len(pieces)
    BY <1>2, <1>6, StopsAt
<1>8. PICK m : m = n + CompleteLength(From(pieces, n))
    OBVIOUS
<1>9. /\ ReadOn(c).identity = Active /\ ReadOn(c).offset = m
      /\ ReadOn(c).seen = c.seen \cup NewRecords(c)
    BY <1>1, <1>3, <1>8 DEF ReadOn
<1>10. ASSUME NEW r \in Records, Later(r, c.identity, c.offset)
       PROVE  \/ r \in ReadOn(c).seen
              \/ Later(r, Active, m) /\ pieces # <<>> /\ pieces[Len(pieces)] = <<r, 1>>
  <2>1. PICK id \in DOMAIN files : \E i \in DOMAIN files[id] :
           files[id][i] = <<r, 1>> /\ (id > c.identity \/ (id = c.identity /\ i > c.offset))
    BY <1>10 DEF Later
  <2>2. PICK i \in DOMAIN files[id] :
           files[id][i] = <<r, 1>> /\ (id > c.identity \/ (id = c.identity /\ i > c.offset))
    BY <2>1
  <2>3. CASE id = Active
    <3>1. i \in DOMAIN pieces /\ pieces[i] = <<r, 1>> /\ i \in Nat /\ i > 0
      BY <1>1, <1>2, <2>2, <2>3
    <3>2. i > n
      BY <1>4, <1>6, <2>2, <2>3, <3>1
    <3>3. i = Len(pieces) \/ r \in Parsed(From(pieces, n))
      BY <1>2, <1>6, <3>1, <3>2, ParsedFrom
    <3>4. CASE r \in Parsed(From(pieces, n))
      BY <1>1, <1>9, <3>4 DEF NewRecords
    <3>5. CASE i = Len(pieces)
      <4>1. m < i
        BY <1>7, <1>8, <3>1, <3>2, <3>5
      <4>2. Later(r, Active, m)
        BY <1>1, <1>2, <3>1, <4>1 DEF Later
      <4> QED BY <3>1, <3>5, <4>2
    <3> QED BY <3>3, <3>4, <3>5
  <2>4. CASE id # Active
    <3>1. id = c.identity /\ Replaced(c) /\ i > c.offset
      BY <1>2, <1>3, <1>4, <1>5, <2>2, <2>4
    <3>2. files[id] \in Seq(Piece) /\ WellFormed(files[id]) /\ Ending(files[id])
      BY <2>4 DEF LogTyped, Lines
    <3>3. i # Len(files[id])
      BY <2>2, <3>2 DEF Ending
    <3>4. r \in Parsed(From(files[id], c.offset))
      BY <1>3, <2>2, <3>1, <3>2, <3>3, ParsedFrom
    <3>5. r \in Rest(c)
      BY <1>5, <3>1, <3>4 DEF Rest
    <3> QED BY <1>9, <3>5 DEF NewRecords
  <2> QED BY <2>3, <2>4
<1> QED BY <1>1, <1>2, <1>6, <1>7, <1>8, <1>9, <1>10

InRequest == Watching \/ client.step \in {"close", "done"}
Begun == client.step \notin {"prompt", "ended", "gone", "cancel", "closers", "reap"}
AllShown == Range(client.shown)

\* An event of this request: published, or in the log and about to be.
InTransit(e) ==
    \/ e \in told
    \/ /\ e = writer[Daemon].record /\ e # client.before
       /\ writer[Daemon].step \in {"half", "sync", "close", "returned"}

\* The cursor has it, or will come to it.
Reaches(e) == e \in client.cursor.seen \/ Later(e, client.cursor.identity, client.cursor.offset)

FollowInv ==
    ~disturbed =>
       /\ Lines
       /\ Begun => Placed(client.cursor) /\ (client.step = "read" => PlacedToRead(client.cursor))
       /\ InRequest => \A e \in Events : InTransit(e) => Reaches(e)

\* Where the events are that were told: shown, in the subscription, or only in the log.
ToldInv ==
    /\ client.cursor.seen \cap Events \subseteq AllShown
    /\ InRequest => \A e \in told : Past(e)
    /\ InRequest => client.subscribed \/ client.degraded \/ client.step = "done"
    /\ Watching /\ client.subscribed /\ broker # None /\ broker.dropped = 0 =>
          told \subseteq AllShown \cup Range(broker.events)
    /\ client.step \in {"close", "done"} /\ (~client.degraded \/ ~disturbed) => told \subseteq AllShown

LEMMA LinesSame ==
    ASSUME LogTyped, Lines, UNCHANGED <<files, exists>>,
           \A v \in Writers : writer[v].step = "half" => writer'[v].step = "half"
    PROVE  Lines'
BY DEF Lines, Active

LEMMA ExtendsSame ==
    ASSUME LogTyped, UNCHANGED files
    PROVE  Extends /\ files' \in Seq(Seq(Piece))
<1>1. \A id \in DOMAIN files : files[id] \in Seq(Piece)
    BY DEF LogTyped
<1> QED BY <1>1 DEF Extends, LogTyped

\* The log is longer at most, the cursor where it was.
LEMMA FollowMoves ==
    ASSUME Typed, files' \in Seq(Seq(Piece)), FollowInv,
           ~disturbed' => ~disturbed /\ Extends /\ (Lines => Lines'),
           Begun' => Begun /\ client'.cursor.identity = client.cursor.identity
                           /\ client'.cursor.offset = client.cursor.offset,
           client'.step = "read" => client.step = "read" /\ client'.cursor = client.cursor,
           InRequest' => /\ InRequest /\ Begun' /\ client.cursor.seen \subseteq client'.cursor.seen
                         /\ \A e \in Events : InTransit(e)' => InTransit(e) \/ (~disturbed' => Reaches(e)')
    PROVE  FollowInv'
<1>1. SUFFICES ASSUME ~disturbed'
               PROVE  /\ Lines'
                      /\ Begun' => Placed(client.cursor)' /\ (client'.step = "read" => PlacedToRead(client.cursor)')
                      /\ InRequest' => \A e \in Events : InTransit(e)' => Reaches(e)'
    BY DEF FollowInv
<1>2. /\ ~disturbed /\ Lines /\ Lines' /\ Extends
      /\ Begun => Placed(client.cursor) /\ (client.step = "read" => PlacedToRead(client.cursor))
      /\ InRequest => \A e \in Events : InTransit(e) => Reaches(e)
    BY <1>1 DEF FollowInv
<1>3. PICK a, n : a = client.cursor.identity /\ n = client.cursor.offset
    OBVIOUS
<1> LogTyped
    BY DEF Typed
<1>4. /\ Len(files) \in Nat /\ Len(files') \in Nat /\ Len(files) <= Len(files') /\ DOMAIN files = 1..Len(files)
      /\ \A id \in 1..Len(files) : /\ Len(files[id]) \in Nat /\ Len(files'[id]) \in Nat
                                   /\ Len(files[id]) <= Len(files'[id])
  <2>1. \A id \in DOMAIN files : id \in DOMAIN files' /\ files[id] \in Seq(Piece) /\ files'[id] \in Seq(Piece)
    BY <1>2 DEF LogTyped, Extends
  <2> QED BY <1>2, <2>1 DEF Extends, LogTyped
<1>5. ASSUME Begun' PROVE Placed(client.cursor)'
  <2>1. a \in 1..Len(files) /\ n <= Len(files[a]) /\ client'.cursor.identity = a /\ client'.cursor.offset = n
    BY <1>2, <1>3, <1>5 DEF Placed, Active
  <2>2. PICK x \in Nat, y \in Nat : x = Len(files[a]) /\ y = Len(files'[a])
    BY <1>4, <2>1
  <2>3. x <= y
    BY <1>4, <2>1, <2>2
  <2>4. n \in Nat
    BY <1>3 DEF Typed, ActivityTyped, Repls, Cursors
  <2>5. n <= y
    BY <2>1, <2>2, <2>3, <2>4
  <2>6. a \in 1..Len(files')
    BY <1>4, <2>1
  <2> QED BY <2>1, <2>2, <2>5, <2>6 DEF Placed, Active
<1>6. ASSUME Begun', client'.step = "read" PROVE PlacedToRead(client.cursor)'
  <2>1. PICK f, z : f = client.cursor.found /\ z = client.cursor.size
    OBVIOUS
  <2>2. /\ a \in 1..Len(files) /\ f \in a..Len(files) /\ z <= Len(files[f]) /\ (f = a => n <= z)
        /\ client'.cursor = client.cursor
    BY <1>2, <1>3, <1>6, <2>1 DEF Placed, PlacedToRead, Active
  <2>3. f \in 1..Len(files) /\ f \in a..Len(files')
    BY <1>4, <2>2
  <2>4. PICK x \in Nat, y \in Nat : x = Len(files[f]) /\ y = Len(files'[f])
    BY <1>4, <2>3
  <2>5. x <= y
    BY <1>4, <2>3, <2>4
  <2>6. z \in Nat
    BY <2>1 DEF Typed, ActivityTyped, Repls, Cursors
  <2>7. z <= y
    BY <2>2, <2>4, <2>5, <2>6
  <2> QED BY <1>3, <2>1, <2>2, <2>3, <2>4, <2>7 DEF PlacedToRead, Active
<1>7. ASSUME InRequest', NEW e \in Events, InTransit(e)' PROVE Reaches(e)'
  <2>1. CASE InTransit(e)
    <3>1. e \in client.cursor.seen \/ Later(e, a, n)
      BY <1>2, <1>3, <1>7, <2>1 DEF Reaches
    <3>2. e \in client'.cursor.seen \/ Later(e, a, n)'
      BY <1>2, <1>7, <3>1, LaterStill
    <3> QED BY <1>3, <1>7, <3>2 DEF Reaches
  <2> QED BY <1>1, <1>7, <2>1
<1> QED BY <1>2, <1>5, <1>6, <1>7

\* A writer that is not in the middle of a line does something else.
LEMMA Aside ==
    ASSUME LogTyped, UNCHANGED <<files, exists>>, NEW w \in Writers, writer[w].step # "half",
           NEW x, writer' = [writer EXCEPT ![w] = x]
    PROVE  Extends /\ files' \in Seq(Seq(Piece)) /\ (Lines => Lines')
<1>1. \A v \in Writers : writer[v].step = "half" => writer'[v].step = "half"
    BY DEF LogTyped
<1> QED BY <1>1, ExtendsSame, LinesSame

LEMMA LogQuiet ==
    ASSUME LogTyped, UNCHANGED logVars
    PROVE  Extends /\ files' \in Seq(Seq(Piece)) /\ (Lines => Lines')
<1>1. UNCHANGED <<files, exists, writer>>
    BY DEF logVars
<1> QED BY <1>1, ExtendsSame, LinesSame

\* The step is taken without the REPL.
LEMMA FollowWithout ==
    ASSUME Typed, files' \in Seq(Seq(Piece)), FollowInv, UNCHANGED client,
           ~disturbed' => ~disturbed /\ Extends /\ (Lines => Lines'),
           InRequest => \A e \in Events : InTransit(e)' => InTransit(e) \/ (~disturbed' => Reaches(e)')
    PROVE  FollowInv'
<1>1. Watching' = Watching /\ InRequest' = InRequest /\ Begun' = Begun
    BY DEF Watching, InRequest, Begun
<1>2. InRequest => Begun
    BY DEF InRequest, Begun, Watching
<1> QED BY <1>1, <1>2, FollowMoves

LEMMA ToldWithout ==
    ASSUME Typed, ToldInv, UNCHANGED <<client, told>>, disturbed => disturbed', broker' \in {broker, None},
           \A e \in Events : Past(e) => Past(e)'
    PROVE  ToldInv'
<1>1. told \subseteq Events
    BY DEF Typed, ActivityTyped
<1>2. Watching' = Watching /\ InRequest' = InRequest /\ AllShown' = AllShown
    BY DEF Watching, InRequest, AllShown
<1>3. InRequest' => \A e \in told' : Past(e)'
    BY <1>1, <1>2 DEF ToldInv
<1>4. broker' # None => broker' = broker
    OBVIOUS
<1> QED BY <1>2, <1>3, <1>4 DEF ToldInv

LEMMA FollowByCall ==
    ASSUME Typed, LogInv, FollowInv, ToldInv, Register \/ Request \/ Receive \/ EndCall \/ Lose \/ Expire \/ TurnStops
    PROVE  FollowInv' /\ ToldInv'
<1>1. UNCHANGED <<files, exists, writer, client, told, disturbed>> /\ UNCHANGED logVars
    BY DEF Register, Request, Receive, EndCall, Lose, Expire, TurnStops, CallUnchanged, history, logVars
<1>2. broker' \in {broker, None}
    BY DEF Register, Request, Receive, EndCall, Lose, Expire, TurnStops, CallUnchanged
<1>3. turn'.next = turn.next
    BY DEF Typed, ActivityTyped, Turns, Register, Request, Receive, EndCall, Lose, Expire, TurnStops
<1>4. LogTyped
    BY DEF Typed
<1>5. Extends /\ files' \in Seq(Seq(Piece)) /\ (Lines => Lines')
    BY <1>1, <1>4, LogQuiet
<1>6. \A e : InTransit(e)' => InTransit(e)
    BY <1>1 DEF InTransit
<1>7. \A e : Past(e) => Past(e)'
    BY <1>1, <1>3 DEF Past
<1>8. FollowInv'
    BY <1>1, <1>5, <1>6, FollowWithout
<1>9. ToldInv'
    BY <1>1, <1>2, <1>7, ToldWithout
<1> QED BY <1>8, <1>9

LEMMA FollowBegins ==
    ASSUME Typed, LogInv, FollowInv, ToldInv, BeginEvent
    PROVE  FollowInv' /\ ToldInv'
<1>1. /\ UNCHANGED <<files, exists, client, told, disturbed, broker>> /\ writer[Daemon].step = "idle"
      /\ turn' = [turn EXCEPT !.next = @ + 1]
      /\ writer' = [writer EXCEPT ![Daemon] = [step |-> "lock", record |-> turn.next, boundary |-> 0]]
    BY DEF BeginEvent, Append_, Publishing, history
<1>2. LogTyped /\ writer \in [Writers -> Writings] /\ Daemon \in Writers /\ turn \in Turns
    BY Persons DEF Typed, LogTyped, ActivityTyped
<1>3. turn'.next = turn.next + 1 /\ turn.next \in Nat
    BY <1>1, <1>2 DEF Turns
<1>4. writer'[Daemon].step = "lock" /\ writer'[Daemon].record = turn.next
    BY <1>1, <1>2
<1>5. Extends /\ files' \in Seq(Seq(Piece)) /\ (Lines => Lines')
    BY <1>1, <1>2, Aside
<1>6. \A e : InTransit(e)' => InTransit(e)
    BY <1>1, <1>4 DEF InTransit
<1>7. \A e \in Events : Past(e) => Past(e)'
  <2>1. SUFFICES ASSUME NEW e \in Events, e < turn.next PROVE e < turn'.next /\ e # turn.next
    BY <1>4 DEF Past
  <2>2. e \in Nat
    BY Persons
  <2> QED BY <1>3, <2>1, <2>2
<1>8. FollowInv'
    BY <1>1, <1>5, <1>6, FollowWithout
<1>9. ToldInv'
    BY <1>1, <1>7, ToldWithout
<1> QED BY <1>8, <1>9

LEMMA FollowDies ==
    ASSUME Typed, LogInv, FollowInv, ToldInv, DaemonDies
    PROVE  FollowInv' /\ ToldInv'
<1>1. /\ UNCHANGED <<files, exists, client, told>> /\ broker' = None
      /\ turn' = [turn EXCEPT !.step = "dead"]
      /\ writer' = [writer EXCEPT ![Daemon] = Unwritten]
      /\ disturbed' = (disturbed \/ writer[Daemon].step \in {"half", "sync"})
    BY DEF DaemonDies, Killed
<1>2. LogTyped /\ writer \in [Writers -> Writings] /\ Daemon \in Writers /\ turn \in Turns
    BY Persons DEF Typed, LogTyped, ActivityTyped
<1>3. turn'.next = turn.next
    BY <1>1, <1>2 DEF Turns
<1>4. writer'[Daemon].step = "idle" /\ writer'[Daemon].record = None
    BY <1>1, <1>2 DEF Unwritten
<1>5. files' \in Seq(Seq(Piece)) /\ (~disturbed' => ~disturbed /\ Extends /\ (Lines => Lines'))
  <2>1. files' \in Seq(Seq(Piece))
    BY <1>1, <1>2 DEF LogTyped
  <2>2. ~disturbed' => ~disturbed /\ writer[Daemon].step # "half"
    BY <1>1 DEF Typed, ActivityTyped
  <2>3. writer[Daemon].step # "half" => Extends /\ (Lines => Lines')
    BY <1>1, <1>2, Aside
  <2> QED BY <2>1, <2>2, <2>3
<1>6. \A e : InTransit(e)' => InTransit(e)
    BY <1>1, <1>4 DEF InTransit
<1>7. \A e \in Events : Past(e) => Past(e)'
    BY <1>1, <1>3, <1>4, Persons DEF Past
<1>8. FollowInv'
    BY <1>1, <1>5, <1>6, FollowWithout
<1>9. ToldInv'
    BY <1>1, <1>7, ToldWithout
<1> QED BY <1>8, <1>9

\* The event that is published was in the log.
LEMMA FollowPublishes ==
    ASSUME Typed, LogInv, FollowInv, ToldInv, PublishEvent
    PROVE  FollowInv' /\ ToldInv'
<1>1. PICK e : e = writer[Daemon].record
    OBVIOUS
<1>2. /\ UNCHANGED <<files, exists, client, turn, disturbed>> /\ writer[Daemon].step \in {"returned", "raised"}
      /\ writer' = [writer EXCEPT ![Daemon] = Unwritten]
    BY DEF PublishEvent
<1>3. LogTyped /\ writer \in [Writers -> Writings] /\ Daemon \in Writers /\ turn \in Turns
      /\ broker \in Subscriptions \cup {None} /\ told \subseteq Events
    BY Persons DEF Typed, LogTyped, ActivityTyped
<1>4. writer'[Daemon].step = "idle" /\ writer'[Daemon].record = None
    BY <1>2, <1>3 DEF Unwritten
<1>5. e \in Events /\ turn.next = e + 1
  <2>1. InHand(Daemon) /\ writer[Daemon].step # "idle"
    BY <1>2, <1>3 DEF LogInv
  <2> QED BY <1>1, <2>1 DEF InHand, LogInv
<1>6. \/ UNCHANGED <<broker, told>>
      \/ /\ writer[Daemon].step = "returned"
         /\ broker' = IF broker = None THEN None ELSE Delivered(broker, e)
         /\ told' = IF Showing /\ e # client.before THEN told \cup {e} ELSE told
    BY <1>1, <1>2 DEF PublishEvent
<1>7. \A x \in told' : x \in told \/ (x = e /\ Showing /\ e # client.before /\ writer[Daemon].step = "returned")
    BY <1>6
<1>8. \A x : InTransit(x)' => InTransit(x)
    BY <1>1, <1>4, <1>7 DEF InTransit
<1>9. Extends /\ files' \in Seq(Seq(Piece)) /\ (Lines => Lines')
    BY <1>2, <1>3, Aside
<1>10. FollowInv'
    BY <1>2, <1>8, <1>9, FollowWithout
<1>11. \A x \in Events : x = e \/ Past(x) => Past(x)'
  <2>1. SUFFICES ASSUME NEW x \in Events, x = e \/ x < turn.next PROVE x < turn.next /\ x # None
    BY <1>2, <1>4 DEF Past
  <2>2. x \in Nat /\ x # None
    BY Persons
  <2> QED BY <1>5, <2>1, <2>2
<1>12. Watching' = Watching /\ InRequest' = InRequest /\ AllShown' = AllShown
    BY <1>2 DEF Watching, InRequest, AllShown
<1>13. InRequest' => \A x \in told' : Past(x)'
    BY <1>3, <1>5, <1>7, <1>11, <1>12 DEF ToldInv
<1>14. ASSUME Watching, client.subscribed, broker' # None, broker'.dropped = 0
       PROVE  told' \subseteq AllShown \cup Range(broker'.events)
  <2>1. CASE UNCHANGED <<broker, told>>
    BY <1>14, <2>1 DEF ToldInv
  <2>2. CASE broker' = IF broker = None THEN None ELSE Delivered(broker, e)
    <3>1. broker # None /\ broker \in Subscriptions /\ broker' = Delivered(broker, e)
      BY <1>3, <1>14, <2>2
    <3>2. PICK old, lost : old = broker.events /\ lost = broker.dropped
      OBVIOUS
    <3>3. old \in Seq(Events) /\ lost \in Nat
      BY <3>1, <3>2 DEF Subscriptions
    <3>4. /\ Len(old) = MaxEvents => broker'.dropped = lost + 1
          /\ Len(old) # MaxEvents => broker'.dropped = lost /\ broker'.events = Append(old, e)
      BY <3>1, <3>2 DEF Delivered
    <3>5. lost = 0 /\ broker'.events = Append(old, e)
      BY <1>14, <3>3, <3>4
    <3>6. told \subseteq AllShown \cup Range(old)
      BY <1>14, <3>1, <3>2, <3>5 DEF ToldInv
    <3>7. Range(old) \cup {e} \subseteq Range(Append(old, e))
      <4>1. /\ Len(Append(old, e)) = Len(old) + 1 /\ Append(old, e)[Len(old) + 1] = e
            /\ DOMAIN Append(old, e) = 1..(Len(old) + 1) /\ Len(old) \in Nat /\ DOMAIN old = 1..Len(old)
            /\ \A i \in 1..Len(old) : Append(old, e)[i] = old[i]
        BY <1>5, <3>3
      <4> QED BY <4>1 DEF Range
    <3> QED BY <1>7, <3>5, <3>6, <3>7
  <2> QED BY <1>6, <2>1, <2>2
<1>15. client.step \in {"close", "done"} => UNCHANGED told
    BY <1>6 DEF Showing
<1>16. /\ client'.cursor.seen \cap Events \subseteq AllShown'
       /\ InRequest' => client'.subscribed \/ client'.degraded \/ client'.step = "done"
       /\ client'.step \in {"close", "done"} /\ (~client'.degraded \/ ~disturbed') => told' \subseteq AllShown'
    BY <1>2, <1>12, <1>15 DEF ToldInv
<1>17. ToldInv'
    BY <1>2, <1>12, <1>13, <1>14, <1>16 DEF ToldInv
<1> QED BY <1>10, <1>17

\* What an append puts into the log is after the cursor.
LEMMA FollowLog ==
    ASSUME Typed, LogInv, FollowInv, ToldInv, LogStep \/ LogFault
    PROVE  FollowInv' /\ ToldInv'
<1>1. PICK w \in Writers : WriterStep(w) \/ WriterFault(w)
    BY DEF LogStep, LogFault
<1>2. LogTyped /\ writer \in [Writers -> Writings] /\ Daemon \in Writers
    BY Persons DEF Typed, LogTyped
<1>3. /\ UNCHANGED <<client, told, turn, broker>> /\ (disturbed => disturbed')
      /\ ~disturbed' => ~disturbed /\ \E v \in Writers : WriterStep(v)
    BY DEF LogStep, LogFault, activityVars, history
<1>4. writer'[Daemon].record = writer[Daemon].record
    BY <1>1, <1>2, RecordStays
<1>5. ToldInv'
  <2>1. \A e \in Events : Past(e) => Past(e)'
    BY <1>3, <1>4 DEF Past
  <2> QED BY <1>3, <2>1, ToldWithout
<1>6. CASE disturbed'
    BY <1>5, <1>6 DEF FollowInv
<1>7. CASE ~disturbed'
  <2>1. PICK v \in Writers : WriterStep(v)
    BY <1>3, <1>7
  <2>2. ~disturbed /\ Lines
    BY <1>3, <1>7 DEF FollowInv
  <2>3. Lines' /\ Extends /\ files' \in Seq(Seq(Piece))
    BY <1>2, <2>1, <2>2, LinesStep
  <2>4. ASSUME InRequest, NEW e \in Events, InTransit(e)' PROVE InTransit(e) \/ Reaches(e)'
    <3>1. CASE e \in told \/ writer[Daemon].step \in {"half", "sync", "close", "returned"}
      BY <1>3, <1>4, <2>4, <3>1 DEF InTransit
    <3>2. CASE ~(e \in told \/ writer[Daemon].step \in {"half", "sync", "close", "returned"})
      <4>1. e = writer[Daemon].record /\ writer'[Daemon].step \in {"half", "sync", "close", "returned"}
        BY <1>3, <1>4, <2>4, <3>2 DEF InTransit
      <4>2. v = Daemon /\ OpenLog(v)
        <5>1. v = Daemon
          <6>1. CASE v # Daemon
            <7>1. writer'[Daemon] = writer[Daemon]
              BY <1>2, <2>1, <6>1
                 DEF WriterStep, LockLog, Rotate, OpenLog, WriteRest, SyncLog, CloseLog, Step
            <7> QED BY <3>2, <4>1, <7>1
          <6> QED BY <6>1
        <5>2. CASE LockLog(v) \/ Rotate(v)
          <6>1. writer'[v].step \in {"rotate", "write"}
            BY <1>2, <5>2 DEF LockLog, Rotate, Step, Writings
          <6> QED BY <4>1, <5>1, <6>1
        <5>3. CASE WriteRest(v) \/ SyncLog(v) \/ CloseLog(v)
          BY <3>2, <5>1, <5>3 DEF WriteRest, SyncLog, CloseLog
        <5> QED BY <2>1, <5>1, <5>2, <5>3 DEF WriterStep
      <4>3. PICK a, n : a = client.cursor.identity /\ n = client.cursor.offset
        OBVIOUS
      <4>4. a \in 1..Active /\ n <= Len(files[a]) /\ n \in Nat
        <5>1. Placed(client.cursor)
          BY <2>2, <2>4 DEF FollowInv, Begun, InRequest, Watching
        <5> QED BY <4>3, <5>1 DEF Placed, Typed, ActivityTyped, Repls, Cursors
      <4>5. e \in Records
        BY Persons
      <4>6. Later(e, a, n)'
        BY <1>2, <4>1, <4>2, <4>4, <4>5, OpensLater
      <4> QED BY <1>3, <4>3, <4>6 DEF Reaches
    <3> QED BY <3>1, <3>2
  <2>5. InRequest => \A e \in Events : InTransit(e)' => InTransit(e) \/ (~disturbed' => Reaches(e)')
    BY <2>4
  <2>6. UNCHANGED client /\ (~disturbed' => ~disturbed /\ Extends /\ (Lines => Lines'))
    BY <1>3, <2>2, <2>3
  <2>7. FollowInv'
    BY <2>3, <2>5, <2>6, FollowWithout
  <2> QED BY <1>5, <2>7
<1> QED BY <1>5, <1>6, <1>7

\* What the REPL may do to the log: begin or end a note.
ByNote ==
    /\ UNCHANGED <<files, exists>>
    /\ \/ UNCHANGED writer
       \/ writer[Client].step # "half" /\ \E x : writer' = [writer EXCEPT ![Client] = x]

LEMMA NoteAside ==
    ASSUME LogTyped, ByNote
    PROVE  /\ Extends /\ files' \in Seq(Seq(Piece)) /\ (Lines => Lines')
           /\ writer'[Daemon] = writer[Daemon]
<1>1. CASE UNCHANGED writer
    BY <1>1, ExtendsSame, LinesSame DEF ByNote
<1>2. CASE writer[Client].step # "half" /\ \E x : writer' = [writer EXCEPT ![Client] = x]
  <2>1. PICK x : writer' = [writer EXCEPT ![Client] = x]
    BY <1>2
  <2>2. Client \in Writers /\ UNCHANGED <<files, exists>>
    BY Persons DEF ByNote
  <2>3. Extends /\ files' \in Seq(Seq(Piece)) /\ (Lines => Lines')
    BY <1>2, <2>1, <2>2, Aside
  <2>4. writer'[Daemon] = writer[Daemon]
    BY <2>1, Persons DEF LogTyped
  <2> QED BY <2>3, <2>4
<1> QED BY <1>1, <1>2 DEF ByNote

\* The REPL is out of the request, its cursor is not used any more.
LEMMA ClientLeaves ==
    ASSUME Typed, FollowInv, ToldInv, ByNote, disturbed' = disturbed,
           client'.step \in {"prompt", "ended", "gone", "cancel", "closers", "reap"},
           client'.shown = client.shown, client'.cursor.seen \subseteq client.cursor.seen
    PROVE  FollowInv' /\ ToldInv'
<1>1. ~InRequest' /\ ~Watching' /\ ~Begun'
    BY DEF InRequest, Watching, Begun
<1>2. LogTyped
    BY DEF Typed
<1>3. Lines => Lines'
    BY <1>2, NoteAside
<1>4. FollowInv'
    BY <1>1, <1>3 DEF FollowInv
<1>5. AllShown' = AllShown
    BY DEF AllShown
<1>6. client'.cursor.seen \cap Events \subseteq AllShown'
    BY <1>5 DEF ToldInv
<1>7. client'.step \notin {"close", "done"}
    OBVIOUS
<1> QED BY <1>1, <1>4, <1>6, <1>7 DEF ToldInv

\* The REPL goes on in the request; it shows and reads nothing.
LEMMA ClientMoves ==
    ASSUME Typed, FollowInv, ToldInv, ByNote, UNCHANGED <<turn, told, disturbed>>, broker' \in {broker, None},
           client'.shown = client.shown, client'.cursor = client.cursor, client'.before = client.before,
           client.step \notin {"prompt", "ended", "gone", "cancel", "closers", "reap"}, client'.step # "read",
           InRequest' => InRequest /\ (client'.subscribed \/ client'.degraded \/ client'.step = "done"),
           Watching' => Watching, client'.subscribed => client.subscribed,
           client'.step \in {"close", "done"} =>
              client.step \in {"close", "done"} /\ client'.degraded = client.degraded
    PROVE  FollowInv' /\ ToldInv'
<1>1. LogTyped /\ told \subseteq Events
    BY DEF Typed, ActivityTyped
<1>2. /\ Extends /\ files' \in Seq(Seq(Piece)) /\ (Lines => Lines')
      /\ writer'[Daemon] = writer[Daemon]
    BY <1>1, NoteAside
<1>3. Begun /\ (InRequest' => Begun')
    BY DEF Begun, InRequest, Watching
<1>4. \A e : InTransit(e)' => InTransit(e)
    BY <1>2 DEF InTransit
<1>5. FollowInv'
    BY <1>2, <1>3, <1>4, FollowMoves
<1>6. \A e : Past(e) => Past(e)'
    BY <1>2 DEF Past
<1>7. AllShown' = AllShown /\ client'.cursor.seen \cap Events \subseteq AllShown'
    BY DEF AllShown, ToldInv
<1>8. InRequest' => \A e \in told' : Past(e)'
    BY <1>6 DEF ToldInv
<1>9. broker' # None => broker' = broker
    OBVIOUS
<1>10. Watching' /\ client'.subscribed /\ broker' # None /\ broker'.dropped = 0 =>
          told' \subseteq AllShown' \cup Range(broker'.events)
    BY <1>7, <1>9 DEF ToldInv
<1>11. client'.step \in {"close", "done"} /\ (~client'.degraded \/ ~disturbed') => told' \subseteq AllShown'
    BY <1>7 DEF ToldInv
<1> QED BY <1>5, <1>7, <1>8, <1>10, <1>11 DEF ToldInv

LEMMA FollowLeaves ==
    ASSUME Typed, FollowInv, ToldInv,
           Cancel \/ RunClosers \/ Reap \/ End \/ Interrupt \/ InterruptAgain
    PROVE  FollowInv' /\ ToldInv'
<1>1. client \in Repls /\ client.back \in {"loop", "close"}
    BY DEF Typed, ActivityTyped, Repls
<1>2. ByNote /\ UNCHANGED disturbed
    BY DEF Cancel, RunClosers, Reap, End, Interrupt, InterruptAgain, Quiet, ByNote, logVars, history
<1>3. /\ client'.step \in {"prompt", "ended", "gone", "cancel", "closers", "reap"}
      /\ client'.shown = client.shown /\ (client'.cursor = client.cursor \/ client'.cursor = NoCursor)
  <2>1. CASE Cancel \/ RunClosers \/ Reap \/ InterruptAgain
    BY <1>1, <2>1 DEF Cancel, RunClosers, Reap, InterruptAgain, Repls
  <2>2. CASE Interrupt
    BY <1>1, <2>2 DEF Interrupt, Exit, Repls
  <2>3. CASE End
    BY <1>1, <2>3 DEF End, AtPrompt, Repls
  <2> QED BY <2>1, <2>2, <2>3
<1>4. client'.cursor.seen \subseteq client.cursor.seen
    BY <1>3 DEF NoCursor
<1> QED BY <1>2, <1>3, <1>4, ClientLeaves

\* The steps in the request that neither show nor read.
LEMMA FollowGoesOn ==
    ASSUME Typed, Noting, CloserInv, ShownInv, FollowInv, ToldInv,
           StartCall \/ Sleep \/ Outcome \/ CloseActivity \/ NoteWritten \/ (Drain /\ ~client.subscribed /\ ReadLog("close"))
    PROVE  FollowInv' /\ ToldInv'
<1>1. /\ client \in Repls /\ client.after \in ClientSteps /\ writer \in [Writers -> Writings] /\ Client \in Writers
    BY Persons DEF Typed, LogTyped, ActivityTyped, Repls
<1>2. client.subscribed => client.step \notin {"note", "stat", "read", "done"}
    BY DEF ShownInv, BrokerInv
<1>3. InRequest => client.subscribed \/ client.degraded \/ client.step = "done"
    BY DEF ToldInv
<1>4. CASE StartCall \/ Sleep \/ Outcome \/ (Drain /\ ~client.subscribed /\ ReadLog("close"))
  <2>1. /\ ByNote /\ UNCHANGED <<turn, told, disturbed, broker>>
        /\ client'.step \in {"loop", "stat", "drain"} /\ client.step \in {"start", "loop", "drain"}
    BY <1>1, <1>4 DEF StartCall, Sleep, Outcome, Drain, ReadLog, Quiet, ByNote, logVars, history, Repls
  <2>2. /\ client'.shown = client.shown /\ client'.cursor = client.cursor /\ client'.before = client.before
        /\ client'.subscribed = client.subscribed /\ client'.degraded = client.degraded
    BY <1>1, <1>4 DEF StartCall, Sleep, Outcome, ReadLog, Repls
  <2>3. InRequest /\ Watching
    BY <2>1 DEF InRequest, Watching
  <2> QED BY <1>3, <2>1, <2>2, <2>3, ClientMoves
<1>5. CASE CloseActivity
  <2>1. /\ ByNote /\ UNCHANGED <<turn, told, disturbed>> /\ broker' = None
        /\ client'.step = "done" /\ client.step = "close"
    BY <1>1, <1>5 DEF CloseActivity, ByNote, logVars, history, Repls
  <2>2. /\ client'.shown = client.shown /\ client'.cursor = client.cursor /\ client'.before = client.before
        /\ ~client'.subscribed /\ client'.degraded = client.degraded
    BY <1>1, <1>5 DEF CloseActivity, Repls
  <2>3. InRequest /\ ~Watching'
    BY <2>1 DEF InRequest, Watching
  <2> QED BY <2>1, <2>2, <2>3, ClientMoves
<1>6. CASE NoteWritten
  <2>1. /\ UNCHANGED <<files, exists, turn, told, disturbed, broker>> /\ client.step = "note"
        /\ writer' = [writer EXCEPT ![Client] = Unwritten] /\ writer[Client].step # "half"
    BY <1>6 DEF NoteWritten, history
  <2>2. ByNote
    BY <2>1 DEF ByNote
  <2>3. client.after \in {"open", "start", "stat"}
    BY <2>1 DEF CloserInv
  <2>4. /\ client'.shown = client.shown /\ client'.cursor = client.cursor /\ client'.before = client.before
        /\ client'.subscribed = client.subscribed /\ client'.degraded = client.degraded
        /\ client'.step = client.after /\ client'.after = "prompt"
    BY <1>1, <1>6 DEF NoteWritten, Repls
  <2>5. (Watching' => Watching) /\ (InRequest' => InRequest /\ (client'.subscribed \/ client'.degraded))
    <3>1. client'.step \in {"start", "stat"} => Watching
      BY <2>1, <2>4 DEF Watching
    <3>2. InRequest' => client'.step \in {"start", "stat"}
      BY <2>3, <2>4 DEF InRequest, Watching
    <3>3. Watching' => InRequest'
      BY DEF InRequest
    <3>4. Watching => InRequest
      BY DEF InRequest
    <3> QED BY <1>3, <2>1, <2>4, <3>1, <3>2, <3>3, <3>4
  <2> QED BY <2>1, <2>2, <2>3, <2>4, <2>5, ClientMoves
<1> QED BY <1>4, <1>5, <1>6

LEMMA FollowDegrades ==
    ASSUME Typed, Noting, FollowInv, ToldInv, NEW back \in {"loop", "close"}, Degrade(back),
           client.step \in {"loop", "drain"}
    PROVE  FollowInv' /\ ToldInv'
<1>1. client \in Repls /\ writer \in [Writers -> Writings] /\ Client \in Writers
    BY Persons DEF Typed, LogTyped, ActivityTyped
<1>2. PICK c : c = [client EXCEPT !.subscribed = FALSE, !.degraded = TRUE, !.back = back]
    OBVIOUS
<1>3. /\ c \in Repls /\ c.shown = client.shown /\ c.before = client.before /\ c.cursor = client.cursor
      /\ ~c.subscribed /\ c.degraded
    BY <1>1, <1>2 DEF Repls
<1>4. WithNote("stat", c) /\ UNCHANGED <<turn, told, disturbed>> /\ broker' = None /\ UNCHANGED <<files, exists>>
    BY <1>2 DEF Degrade, FilesUnchanged, history
<1>5. /\ \/ client' = [c EXCEPT !.step = "stat"] /\ UNCHANGED writer
         \/ /\ client' = [c EXCEPT !.step = "note", !.after = "stat"]
            /\ \E n \in Notes : outcome[n] = None /\ Append_(Client, n)
    BY <1>3, <1>4, WithNoteTyped DEF ClientSteps
<1>6. writer[Client].step = "idle"
    BY DEF Noting
<1>7. ByNote
    BY <1>4, <1>5, <1>6 DEF ByNote, Append_
<1>8. /\ client'.shown = client.shown /\ client'.before = client.before /\ client'.cursor = client.cursor
      /\ ~client'.subscribed /\ client'.degraded /\ client'.step \in {"stat", "note"}
    BY <1>3, <1>5 DEF Repls
<1>9. InRequest /\ Watching
    BY DEF InRequest, Watching
<1> QED BY <1>4, <1>7, <1>8, <1>9, ClientMoves

\* The request is over, or tried again.
LEMMA FollowFinish ==
    ASSUME Typed, Noting, FollowInv, ToldInv, Finish
    PROVE  FollowInv' /\ ToldInv'
<1>1. client \in Repls /\ writer \in [Writers -> Writings] /\ Client \in Writers
    BY Persons DEF Typed, LogTyped, ActivityTyped
<1>2. /\ client.step = "done" /\ UNCHANGED <<turn, told, disturbed, broker, files, exists>>
    BY DEF Finish, FilesUnchanged, history
<1>3. writer[Client].step = "idle"
    BY <1>2 DEF Noting
<1>4. PICK c : c = [client EXCEPT !.attempt = @ + 1]
    OBVIOUS
<1>5. c \in Repls /\ c.shown = client.shown /\ c.before = client.before /\ c.cursor = client.cursor
    BY <1>1, <1>4 DEF Repls
<1>6. \/ client' = [client EXCEPT !.step = "open"] /\ UNCHANGED writer
      \/ WithNote("open", c)
      \/ client' = [AtPrompt(client) EXCEPT !.offer = call.result = "lost"] /\ UNCHANGED writer
    BY <1>4 DEF Finish
<1>7. CASE client' = [client EXCEPT !.step = "open"] /\ UNCHANGED writer
  <2>1. /\ client'.shown = client.shown /\ client'.before = client.before /\ client'.cursor = client.cursor
        /\ client'.step = "open" /\ client'.subscribed = client.subscribed
    BY <1>1, <1>7 DEF Repls
  <2>2. ByNote /\ ~InRequest' /\ ~Watching'
    BY <1>2, <1>7, <2>1 DEF ByNote, InRequest, Watching
  <2> QED BY <1>2, <2>1, <2>2, ClientMoves
<1>8. CASE WithNote("open", c)
  <2>1. /\ \/ client' = [c EXCEPT !.step = "open"] /\ UNCHANGED writer
           \/ /\ client' = [c EXCEPT !.step = "note", !.after = "open"]
              /\ \E n \in Notes : outcome[n] = None /\ Append_(Client, n)
    BY <1>5, <1>8, WithNoteTyped DEF ClientSteps
  <2>2. ByNote
    BY <1>2, <1>3, <2>1 DEF ByNote, Append_
  <2>3. /\ client'.shown = client.shown /\ client'.before = client.before /\ client'.cursor = client.cursor
        /\ client'.step = "open" \/ (client'.step = "note" /\ client'.after = "open")
        /\ client'.subscribed = client.subscribed
    BY <1>4, <1>5, <2>1 DEF Repls
  <2>4. ~InRequest' /\ ~Watching'
    BY <2>3 DEF InRequest, Watching
  <2> QED BY <1>2, <2>2, <2>3, <2>4, ClientMoves
<1>9. CASE client' = [AtPrompt(client) EXCEPT !.offer = call.result = "lost"] /\ UNCHANGED writer
  <2>1. client'.step = "prompt" /\ client'.shown = client.shown /\ client'.cursor = NoCursor
    BY <1>1, <1>9 DEF AtPrompt, Repls
  <2>2. ByNote /\ client'.cursor.seen \subseteq client.cursor.seen
    BY <1>2, <1>9, <2>1 DEF ByNote, NoCursor
  <2> QED BY <1>2, <2>1, <2>2, ClientLeaves
<1> QED BY <1>6, <1>7, <1>8, <1>9

\* The cursor begins at the end of the log.
LEMMA FollowSends ==
    ASSUME Typed, FollowInv, ToldInv, Send
    PROVE  FollowInv' /\ ToldInv'
<1>1. /\ client \in Repls /\ client.step = "prompt" /\ LogTyped /\ UNCHANGED logVars
      /\ client' = [client EXCEPT !.step = "open", !.cursor = CursorFromProject]
      /\ disturbed' = (disturbed \/ ~exists)
    BY DEF Send, Typed, ActivityTyped
<1>2. /\ client'.step = "open" /\ client'.cursor = CursorFromProject /\ client'.shown = client.shown
    BY <1>1 DEF Repls
<1>3. ~InRequest' /\ ~Watching' /\ UNCHANGED files
    BY <1>1, <1>2 DEF InRequest, Watching, logVars
<1>4. ToldInv'
  <2>1. client'.cursor.seen = {}
    BY <1>2 DEF CursorFromProject
  <2> QED BY <1>2, <1>3, <2>1 DEF ToldInv
<1>5. ASSUME ~disturbed' PROVE Lines' /\ Placed(client.cursor)'
  <2>1. ~disturbed /\ exists
    BY <1>1, <1>5 DEF Typed, ActivityTyped
  <2>2. Lines'
    BY <1>1, <2>1, LogQuiet DEF FollowInv
  <2>3. client'.cursor.identity = Active /\ client'.cursor.offset = Len(files[Active])
    BY <1>2, <2>1 DEF CursorFromProject
  <2>4. Active' = Active /\ Active \in 1..Active /\ files'[Active] = files[Active] /\ Len(files[Active]) \in Nat
    BY <1>1, <1>3 DEF Active, LogTyped
  <2> QED BY <2>2, <2>3, <2>4 DEF Placed
<1>6. FollowInv'
    BY <1>2, <1>3, <1>5 DEF FollowInv
<1> QED BY <1>4, <1>6

\* A request begins with no event told: the one that is being published is of the request before.
LEMMA FollowOpens ==
    ASSUME Typed, Noting, FollowInv, ToldInv, OpenActivity
    PROVE  FollowInv' /\ ToldInv'
<1>1. /\ client \in Repls /\ Len(client.shown) \in Nat /\ writer[Daemon].record \in Records \cup {None}
      /\ writer \in [Writers -> Writings] /\ LogTyped
    BY Persons DEF Typed, LogTyped, ActivityTyped, Repls, Writings
<1>2. /\ client.step = "open" /\ told' = {} /\ UNCHANGED <<files, exists, disturbed>>
    BY DEF OpenActivity, FilesUnchanged
<1>3. PICK before : before = writer[Daemon].record
    OBVIOUS
<1>4. PICK asked : asked = [client EXCEPT !.since = Len(client.shown), !.degraded = FALSE, !.before = before]
    OBVIOUS
<1>5. asked \in Repls /\ asked.before = before /\ asked.shown = client.shown /\ asked.cursor = client.cursor
    BY <1>1, <1>3, <1>4 DEF Repls
<1>6. PICK c : c = [asked EXCEPT !.subscribed = FALSE, !.degraded = TRUE]
    OBVIOUS
<1>7. c \in Repls /\ c.before = before /\ c.shown = client.shown /\ c.cursor = client.cursor /\ c.degraded
    BY <1>5, <1>6 DEF Repls
<1>8. writer[Client].step = "idle"
    BY <1>2 DEF Noting
<1>9. /\ client'.before = before /\ client'.shown = client.shown /\ client'.cursor = client.cursor
      /\ client'.subscribed \/ client'.degraded
      /\ client'.step = "start" \/ (client'.step = "note" /\ client'.after = "start")
      /\ ByNote
  <2>1. CASE client' = [asked EXCEPT !.step = "start", !.subscribed = TRUE] /\ UNCHANGED writer
    <3>1. /\ client'.before = before /\ client'.shown = client.shown /\ client'.cursor = client.cursor
          /\ client'.subscribed /\ client'.step = "start"
      BY <1>5, <2>1 DEF Repls
    <3> QED BY <1>2, <2>1, <3>1 DEF ByNote
  <2>2. CASE WithNote("start", c)
    <3>1. /\ \/ client' = [c EXCEPT !.step = "start"] /\ UNCHANGED writer
             \/ /\ client' = [c EXCEPT !.step = "note", !.after = "start"]
                /\ \E n \in Notes : outcome[n] = None /\ Append_(Client, n)
      BY <1>7, <2>2, WithNoteTyped DEF ClientSteps
    <3>2. /\ client'.before = before /\ client'.shown = client.shown /\ client'.cursor = client.cursor
          /\ client'.degraded
          /\ client'.step = "start" \/ (client'.step = "note" /\ client'.after = "start")
      BY <1>7, <3>1 DEF Repls
    <3>3. ByNote
      BY <1>2, <1>8, <3>1 DEF ByNote, Append_
    <3> QED BY <3>2, <3>3
  <2>3. \/ client' = [asked EXCEPT !.step = "start", !.subscribed = TRUE] /\ UNCHANGED writer
        \/ WithNote("start", c)
    BY <1>3, <1>4, <1>6 DEF OpenActivity
  <2> QED BY <2>1, <2>2, <2>3
<1>10. (Lines => Lines') /\ writer'[Daemon] = writer[Daemon]
    BY <1>1, <1>9, NoteAside
<1>11. \A e : ~InTransit(e)'
    BY <1>2, <1>3, <1>9, <1>10 DEF InTransit
<1>12. AllShown' = AllShown /\ client'.cursor.seen \cap Events \subseteq AllShown'
    BY <1>9 DEF ToldInv, AllShown
<1>13. ToldInv'
    BY <1>2, <1>9, <1>12 DEF ToldInv
<1>14. FollowInv'
  <2>1. Begun /\ client'.step # "read" /\ UNCHANGED <<files, disturbed>>
    BY <1>2, <1>9 DEF Begun
  <2>2. Placed(client.cursor) => Placed(client.cursor)'
    BY <1>9, <2>1 DEF Placed, Active
  <2> QED BY <1>10, <1>11, <2>1, <2>2 DEF FollowInv
<1> QED BY <1>13, <1>14

LEMMA JoinedRange ==
    ASSUME NEW s \in Seq(Events), NEW more \in Seq(Events)
    PROVE  Range(s \o more) = Range(s) \cup Range(more)
<1>1. PICK whole, n, m : whole = s \o more /\ n = Len(s) /\ m = Len(more)
    OBVIOUS
<1>2. /\ n \in Nat /\ m \in Nat /\ DOMAIN s = 1..n /\ DOMAIN more = 1..m /\ DOMAIN whole = 1..(n + m)
      /\ \A i \in 1..n : whole[i] = s[i]
      /\ \A i \in 1..m : whole[n + i] = more[i]
    BY <1>1
<1>3. \A i \in 1..n : i \in 1..(n + m)
    BY <1>2
<1>4. \A i \in 1..m : n + i \in 1..(n + m)
    BY <1>2
<1>5. ASSUME NEW i \in 1..(n + m) PROVE whole[i] \in Range(s) \cup Range(more)
  <2>1. CASE i \in 1..n
    BY <1>2, <2>1 DEF Range
  <2>2. CASE i \notin 1..n
    <3>1. i - n \in 1..m /\ n + (i - n) = i
      BY <1>2, <2>2
    <3>2. whole[i] = more[i - n]
      BY <1>2, <3>1
    <3> QED BY <1>2, <3>1, <3>2 DEF Range
  <2> QED BY <2>1, <2>2
<1>6. Range(whole) \subseteq Range(s) \cup Range(more)
    BY <1>2, <1>5 DEF Range
<1>7. Range(s) \subseteq Range(whole)
    BY <1>2, <1>3 DEF Range
<1>8. Range(more) \subseteq Range(whole)
    BY <1>2, <1>4 DEF Range
<1> QED BY <1>1, <1>6, <1>7, <1>8

\* What was shown of the subscription is not in it any more.
LEMMA FollowBatch ==
    ASSUME Typed, FollowInv, ToldInv, NEW batch \in Seq(Events), NEW rest \in Seq(Events), NEW n \in Nat,
           Batch(batch, rest, n), client'.step = "close" => rest = <<>>
    PROVE  FollowInv' /\ ToldInv'
<1>1. PICK s, old : s = client.shown /\ old = broker.events
    OBVIOUS
<1>2. /\ Watching /\ client.subscribed /\ broker # None /\ Len(batch) = n /\ n <= Len(old)
      /\ \A i \in 1..n : batch[i] = old[i]
      /\ rest = From(old, n) /\ broker'.events = rest
    BY <1>1 DEF Batch
<1>3. /\ UNCHANGED turn /\ client'.shown = s \o batch
      /\ client'.cursor.seen = client.cursor.seen \cup Range(batch)
      /\ client'.step \in {"loop", "close"}
    BY <1>1 DEF Batch
<1>4. /\ broker.dropped = 0 /\ UNCHANGED <<logVars, told, disturbed>> /\ client'.subscribed
      /\ client'.before = client.before /\ client'.cursor.identity = client.cursor.identity
      /\ client'.cursor.offset = client.cursor.offset
    BY DEF Batch
<1>5. s \in Seq(Events) /\ old \in Seq(Events) /\ told \subseteq Events
    BY <1>1, <1>2 DEF Typed, ActivityTyped, Repls, Subscriptions
<1>6. Range(old) \subseteq Range(batch) \cup Range(rest)
  <2>1. SUFFICES ASSUME NEW i \in DOMAIN old PROVE old[i] \in Range(batch) \cup Range(rest)
    BY DEF Range
  <2>2. i \in 1..Len(old) /\ Len(old) \in Nat
    BY <1>5, <2>1
  <2>3. CASE i <= n
    <3>1. i \in 1..n /\ i \in DOMAIN batch
      BY <1>2, <2>2, <2>3
    <3> QED BY <1>2, <3>1 DEF Range
  <2>4. CASE i > n
    <3>1. PICK q \in Seq(Events) : q = old
      BY <1>5
    <3>2. /\ Len(From(q, n)) = IF n < Len(q) THEN Len(q) - n ELSE 0
          /\ \A j \in 1..Len(From(q, n)) : n + j \in 1..Len(q) /\ From(q, n)[j] = q[n + j]
      BY Onwards, Zenon
    <3>3. rest = From(q, n)
      BY <1>2, <3>1
    <3>4. PICK l : l = Len(rest)
      OBVIOUS
    <3>5. l = (IF n < Len(q) THEN Len(q) - n ELSE 0) /\ \A j \in 1..l : rest[j] = q[n + j]
      BY <3>2, <3>3, <3>4
    <3>6. i - n \in 1..l /\ n + (i - n) = i /\ DOMAIN rest = 1..l
      <4>1. PICK m \in Nat : m = Len(q)
        OBVIOUS
      <4>2. i \in 1..m /\ l = (IF n < m THEN m - n ELSE 0) /\ DOMAIN rest = 1..l
        <5>1. i \in 1..m
          BY <2>2, <3>1, <4>1
        <5>2. l = (IF n < m THEN m - n ELSE 0)
          BY <3>5, <4>1
        <5>3. DOMAIN rest = 1..l
          BY <3>4
        <5> QED BY <5>1, <5>2, <5>3
      <4>3. n < m /\ i \in Nat
        BY <2>4, <4>1, <4>2
      <4>4. l = m - n
        BY <4>2, <4>3
      <4>5. i - n \in 1..l /\ n + (i - n) = i
        BY <2>4, <4>1, <4>2, <4>3, <4>4
      <4> QED BY <4>2, <4>5
    <3>7. rest[i - n] = old[i]
      BY <3>1, <3>5, <3>6
    <3> QED BY <3>6, <3>7 DEF Range
  <2> QED BY <2>2, <2>3, <2>4
<1>7. AllShown' = AllShown \cup Range(batch)
  <2>1. Range(s \o batch) = Range(s) \cup Range(batch)
    BY <1>5, JoinedRange
  <2> QED BY <1>1, <1>3, <2>1 DEF AllShown
<1>8. told \subseteq AllShown' \cup Range(rest)
  <2>1. told \subseteq AllShown \cup Range(old)
    BY <1>1, <1>2, <1>4 DEF ToldInv
  <2> QED BY <1>6, <1>7, <2>1
<1>9. UNCHANGED <<files, exists, writer>>
    BY <1>4 DEF logVars
<1>10. LogTyped /\ Extends /\ files' \in Seq(Seq(Piece)) /\ (Lines => Lines')
    BY <1>4, LogQuiet DEF Typed
<1>11. InRequest /\ Begun /\ Begun'
    BY <1>2, <1>3 DEF InRequest, Watching, Begun
<1>12. FollowInv'
  <2>1. \A e : InTransit(e)' => InTransit(e)
    BY <1>4, <1>9 DEF InTransit
  <2>2. client'.step # "read" /\ client.cursor.seen \subseteq client'.cursor.seen
    BY <1>3
  <2> QED BY <1>4, <1>10, <1>11, <2>1, <2>2, FollowMoves
<1>13. InRequest' => \A e \in told' : Past(e)'
  <2>1. \A e : Past(e) => Past(e)'
    BY <1>3, <1>9 DEF Past
  <2> QED BY <1>4, <1>11, <2>1 DEF ToldInv
<1>14. client'.cursor.seen \cap Events \subseteq AllShown'
    BY <1>3, <1>7 DEF ToldInv
<1>15. client'.step \in {"close", "done"} => told' \subseteq AllShown'
  <2>1. rest = <<>> => Range(rest) = {}
    BY DEF Range
  <2> QED BY <1>3, <1>4, <1>8, <2>1
<1>16. ToldInv'
    BY <1>2, <1>4, <1>8, <1>13, <1>14, <1>15 DEF ToldInv
<1> QED BY <1>12, <1>16

LEMMA FollowShows ==
    ASSUME Typed, Noting, ShownInv, FollowInv, ToldInv, PollBatch \/ Drain \/ PollFails
    PROVE  (Drain /\ ~client.subscribed /\ ReadLog("close")) \/ (FollowInv' /\ ToldInv')
<1>1. CASE PollBatch
  <2>1. PICK batch \in Seq(Events), rest \in Seq(Events), n \in Nat : Batch(batch, rest, n)
    BY <1>1, Polled
  <2>2. client'.step = "loop"
    BY <1>1 DEF PollBatch, Present, Typed, ActivityTyped, Repls
  <2> QED BY <2>1, <2>2, FollowBatch
<1>2. CASE Drain /\ DrainsAll
  <2>1. PICK batch \in Seq(Events), n \in Nat : Batch(batch, <<>>, n)
    BY <1>2, Drained DEF Drain
  <2>2. <<>> \in Seq(Events)
    OBVIOUS
  <2> QED BY <2>1, <2>2, FollowBatch
<1>3. CASE PollFails \/ (client.step = "drain" /\ Degrade("close"))
    BY <1>3, FollowDegrades DEF PollFails
<1> QED BY <1>1, <1>2, <1>3 DEF Drain, DrainsAll

\* Without a file the cursor starts over.
LEMMA FollowStat ==
    ASSUME Typed, ShownInv, FollowInv, ToldInv, Stat
    PROVE  FollowInv' /\ ToldInv'
<1>1. /\ client \in Repls /\ client.cursor \in Cursors /\ client.back \in {"loop", "close"} /\ LogTyped
      /\ client.step = "stat" /\ UNCHANGED <<files, exists, writer, turn, told, broker>> /\ UNCHANGED logVars
    BY DEF Typed, ActivityTyped, Repls, Stat, logVars
<1>2. ~client.subscribed /\ Watching /\ InRequest /\ Begun
    BY <1>1 DEF ShownInv, BrokerInv, Watching, InRequest, Begun
<1>3. client.degraded
    BY <1>1, <1>2 DEF ToldInv
<1>4. PICK c : c = client.cursor
    OBVIOUS
<1>5. PICK d : d = IF exists THEN Found(c) ELSE StartOver(c)
    OBVIOUS
<1>6. /\ client'.cursor = d /\ client'.shown = client.shown /\ client'.subscribed = client.subscribed
      /\ client'.degraded = client.degraded /\ client'.before = client.before
      /\ client'.step = IF exists THEN "read" ELSE client.back
  <2>1. CASE exists
    <3>1. client' = [client EXCEPT !.step = "read", !.cursor = d]
      BY <1>4, <1>5, <2>1 DEF Stat
    <3> QED BY <1>1, <2>1, <3>1 DEF Repls
  <2>2. CASE ~exists
    <3>1. client' = [client EXCEPT !.step = client.back, !.back = "loop", !.cursor = d]
      BY <1>4, <1>5, <2>2 DEF Stat
    <3> QED BY <1>1, <2>2, <3>1 DEF Repls
  <2> QED BY <2>1, <2>2
<1>7. d.seen = c.seen
    BY <1>1, <1>4, <1>5 DEF Found, StartOver, Cursors
<1>8. ~exists => disturbed'
  <2>1. SUFFICES ASSUME ~exists, ~disturbed PROVE disturbed'
    BY DEF Stat, Typed, ActivityTyped
  <2>2. Placed(client.cursor)
    BY <1>2, <2>1 DEF FollowInv
  <2>3. client.cursor.identity # None
    BY <2>2, Persons DEF Placed
  <2> QED BY <2>1, <2>3 DEF Stat
<1>9. ToldInv'
  <2>1. AllShown' = AllShown /\ client'.cursor.seen = client.cursor.seen
    BY <1>4, <1>6, <1>7 DEF AllShown
  <2>2. \A e : Past(e)' <=> Past(e)
    BY <1>1 DEF Past
  <2>3. \A e \in told' : Past(e)'
    BY <1>1, <1>2, <2>2 DEF ToldInv
  <2>4. ~client'.subscribed /\ client'.degraded
    BY <1>2, <1>3, <1>6
  <2>5. client'.step \in {"close", "done"} => disturbed'
    BY <1>6, <1>8
  <2>6. client'.cursor.seen \cap Events \subseteq AllShown'
    BY <2>1 DEF ToldInv
  <2> QED BY <2>3, <2>4, <2>5, <2>6 DEF ToldInv
<1>10. FollowInv'
  <2>1. SUFFICES ASSUME ~disturbed'
                 PROVE  /\ Lines' /\ Placed(client.cursor)' /\ PlacedToRead(client.cursor)'
                        /\ \A e \in Events : InTransit(e)' => Reaches(e)'
    BY DEF FollowInv
  <2>2. exists /\ ~disturbed
    BY <1>8, <2>1 DEF Stat
  <2>3. /\ Lines /\ Placed(c) /\ \A e \in Events : InTransit(e) => Reaches(e)
    BY <1>2, <1>4, <2>2 DEF FollowInv
  <2>4. Lines'
    BY <1>1, <2>3, LogQuiet
  <2>5. /\ d.identity = c.identity /\ d.offset = c.offset /\ d.found = Active /\ d.size = Len(files[Active])
    BY <1>1, <1>4, <1>5, <2>2 DEF Found, Cursors
  <2>6. Placed(d)
    BY <2>3, <2>5 DEF Placed
  <2>7. PlacedToRead(d)
    <3>1. Active \in Nat /\ Len(files[Active]) \in Nat
      BY <1>1 DEF LogTyped, Active
    <3>2. d.found \in d.identity..Active
      BY <2>3, <2>5, <3>1 DEF Placed
    <3>3. d.found = d.identity => d.offset <= d.size
      BY <2>3, <2>5 DEF Placed
    <3>4. d.size <= Len(files[d.found])
      BY <2>5, <3>1
    <3> QED BY <3>2, <3>3, <3>4 DEF PlacedToRead
  <2>8. Placed(client.cursor)' /\ PlacedToRead(client.cursor)'
    BY <1>1, <1>6, <2>6, <2>7 DEF Placed, PlacedToRead, Active
  <2>9. ASSUME NEW e \in Events, InTransit(e)' PROVE Reaches(e)'
    <3>1. InTransit(e)
      BY <1>1, <1>6, <2>9 DEF InTransit
    <3>2. e \in c.seen \/ Later(e, c.identity, c.offset)
      BY <1>4, <2>3, <3>1 DEF Reaches
    <3>3. e \in d.seen \/ Later(e, d.identity, d.offset)'
      BY <1>1, <1>7, <2>5, <3>2 DEF Later
    <3> QED BY <1>6, <3>3 DEF Reaches
  <2> QED BY <2>4, <2>8, <2>9
<1> QED BY <1>9, <1>10

\* A line that is not ended is of a record that nobody has been told of.
LEMMA Unended ==
    ASSUME Typed, LogInv, Lines, NEW e \in Events, Past(e), files[Active] # <<>>,
           files[Active][Len(files[Active])] = <<e, 1>>
    PROVE  FALSE
<1>1. /\ Active \in DOMAIN files /\ files[Active] \in Seq(Piece)
    BY DEF Typed, LogTyped, Active
<1>2. ~Ending(files[Active])
  <2>1. Len(files[Active]) > 0
    BY <1>1
  <2> QED BY <2>1 DEF Ending
<1>3. PICK w \in Writers : writer[w].step = "half"
    BY <1>1, <1>2 DEF Lines
<1>4. PutBy(w) /\ writer[w].record \in (IF w = Daemon THEN Events ELSE Notes) /\ writer[w].boundary \in Nat
    BY <1>3 DEF LogInv, InHand, Typed, LogTyped, Writings
<1>5. e = writer[w].record
  <2>1. PICK pieces : pieces = files[Active]
    OBVIOUS
  <2>2. pieces[Len(pieces)] = <<writer[w].record, 1>>
    BY <1>3, <1>4, <2>1 DEF PutBy
  <2> QED BY <2>1, <2>2
<1>6. w = Daemon
    BY <1>4, <1>5, Persons
<1> QED BY <1>5, <1>6 DEF Past

\* What was told of is shown by now, unless the log went past the cursor.
LEMMA FollowReads ==
    ASSUME Typed, LogInv, ShownInv, FollowInv, ToldInv, Read
    PROVE  FollowInv' /\ ToldInv'
<1>1. /\ client \in Repls /\ client.cursor \in Cursors /\ client.back \in {"loop", "close"} /\ LogTyped
      /\ client.step = "read" /\ UNCHANGED <<files, exists, writer, turn, told, broker>> /\ UNCHANGED logVars
      /\ client.shown \in Seq(Events)
    BY DEF Typed, ActivityTyped, Repls, Read, logVars
<1>2. ~client.subscribed /\ Watching /\ InRequest /\ Begun
    BY <1>1 DEF ShownInv, BrokerInv, Watching, InRequest, Begun
<1>3. client.degraded /\ \A e \in told : Past(e)
    BY <1>1, <1>2 DEF ToldInv
<1>4. CASE ~exists
  <2>1. client' = Exit(client, "raised") /\ UNCHANGED disturbed
    BY <1>4 DEF Read
  <2>2. client'.step \in {"cancel", "ended"} /\ client'.shown = client.shown /\ client'.cursor = client.cursor
    BY <1>1, <2>1 DEF Exit, Repls
  <2>3. ByNote
    BY <1>1 DEF ByNote
  <2> QED BY <2>1, <2>2, <2>3, ClientLeaves
<1>5. CASE exists
  <2>1. PICK c : c = client.cursor
    OBVIOUS
  <2>2. PICK d : d = ReadOn(c)
    OBVIOUS
  <2>3. PICK more : more = ByTime(NewRecords(c) \cap Events)
    OBVIOUS
  <2>4. more \in Seq(Events) /\ Range(more) = NewRecords(c) \cap Events
    BY <2>3, InOrder
  <2>5. PICK shown : shown = client.shown \o more
    OBVIOUS
  <2>6. client' = [client EXCEPT !.step = client.back, !.back = "loop", !.shown = shown, !.cursor = d]
    BY <1>5, <2>1, <2>2, <2>3, <2>5 DEF Read
  <2>7. /\ client'.step = client.back /\ client'.shown = shown /\ client'.cursor = d
        /\ client'.subscribed = client.subscribed /\ client'.degraded = client.degraded
        /\ client'.before = client.before
    BY <1>1, <2>6 DEF Repls
  <2>8. disturbed' = (disturbed \/ Overtaken(c))
    BY <1>5, <2>1 DEF Read
  <2>9. c \in Cursors /\ d.seen = c.seen \cup NewRecords(c)
    BY <1>1, <2>1, <2>2, ReadTyped
  <2>10. AllShown' = AllShown \cup (NewRecords(c) \cap Events)
    BY <1>1, <2>4, <2>5, <2>7, JoinedRange DEF AllShown
  <2>11. d.seen \cap Events \subseteq AllShown'
    BY <2>1, <2>9, <2>10 DEF ToldInv
  <2>12. ASSUME ~disturbed'
         PROVE  /\ Lines /\ Placed(d) /\ d.offset \in Nat
                /\ \A e \in Events : InTransit(e) => e \in d.seen \/ Later(e, d.identity, d.offset)
                /\ told \subseteq d.seen
    <3>1. ~disturbed /\ ~Overtaken(c)
      BY <2>8, <2>12 DEF Typed, ActivityTyped
    <3>2. Lines /\ Placed(c) /\ PlacedToRead(c) /\ \A e \in Events : InTransit(e) => Reaches(e)
      BY <1>1, <1>2, <2>1, <3>1 DEF FollowInv
    <3>3. /\ d.identity = Active /\ d.offset \in Nat /\ d.offset <= Len(files[Active])
          /\ \A r \in Records : Later(r, c.identity, c.offset) =>
                \/ r \in d.seen
                \/ /\ Later(r, d.identity, d.offset)
                   /\ files[Active] # <<>> /\ files[Active][Len(files[Active])] = <<r, 1>>
      BY <1>1, <2>2, <2>9, <3>1, <3>2, ReadsOn
    <3>4. Placed(d)
      BY <1>1, <3>3 DEF Placed, LogTyped, Active
    <3>5. ASSUME NEW e \in Events, InTransit(e)
          PROVE  \/ e \in d.seen
                 \/ /\ Later(e, d.identity, d.offset)
                    /\ files[Active] # <<>> /\ files[Active][Len(files[Active])] = <<e, 1>>
      <4>1. e \in c.seen \/ Later(e, c.identity, c.offset)
        BY <2>1, <3>2, <3>5 DEF Reaches
      <4>2. e \in Records
        BY Persons
      <4> QED BY <2>9, <3>3, <4>1, <4>2
    <3>6. ASSUME NEW e \in told PROVE e \in d.seen
      <4>1. e \in Events /\ Past(e) /\ InTransit(e)
        BY <1>3, <3>6 DEF Typed, ActivityTyped, InTransit
      <4> QED BY <3>2, <3>5, <4>1, Unended
    <3> QED BY <3>2, <3>3, <3>4, <3>5, <3>6
  <2>13. FollowInv'
    <3>1. SUFFICES ASSUME ~disturbed'
                   PROVE  /\ Lines' /\ Placed(client.cursor)' /\ client'.step # "read"
                          /\ \A e \in Events : InTransit(e)' => Reaches(e)'
      BY DEF FollowInv
    <3>2. Lines'
      BY <1>1, <2>12, <3>1, LogQuiet
    <3>3. Placed(client.cursor)'
      BY <1>1, <2>7, <2>12, <3>1 DEF Placed, Active
    <3>4. ASSUME NEW e \in Events, InTransit(e)' PROVE Reaches(e)'
      <4>1. InTransit(e)
        BY <1>1, <2>7, <3>4 DEF InTransit
      <4>2. e \in d.seen \/ Later(e, d.identity, d.offset)'
        BY <1>1, <2>12, <3>1, <4>1 DEF Later
      <4> QED BY <2>7, <4>2 DEF Reaches
    <3> QED BY <1>1, <2>7, <3>2, <3>3, <3>4
  <2>14. ToldInv'
    <3>1. client'.cursor.seen \cap Events \subseteq AllShown'
      BY <2>7, <2>11
    <3>2. \A e \in told' : Past(e)'
      BY <1>1, <1>3 DEF Past
    <3>3. ~client'.subscribed /\ client'.degraded
      BY <1>2, <1>3, <2>7
    <3>4. ~disturbed' => told' \subseteq AllShown'
      <4>1. told' \subseteq Events
        BY <1>1 DEF Typed, ActivityTyped
      <4> QED BY <1>1, <2>11, <2>12, <4>1
    <3> QED BY <3>1, <3>2, <3>3, <3>4 DEF ToldInv
  <2> QED BY <2>13, <2>14
<1> QED BY <1>4, <1>5

LEMMA FollowKept ==
    ASSUME Typed, LogInv, Noting, CloserInv, ShownInv, FollowInv, ToldInv, [Next]_vars
    PROVE  FollowInv' /\ ToldInv'
<1>1. CASE UNCHANGED vars
  <2>1. UNCHANGED <<client, told, disturbed, broker, turn, writer>> /\ UNCHANGED logVars
    BY <1>1 DEF vars, activityVars, history, logVars
  <2>2. Extends /\ files' \in Seq(Seq(Piece)) /\ (Lines => Lines')
    BY <2>1, LogQuiet DEF Typed
  <2>3. (\A e : InTransit(e)' => InTransit(e)) /\ (\A e : Past(e) => Past(e)')
    BY <2>1 DEF InTransit, Past
  <2>4. FollowInv'
    BY <2>1, <2>2, <2>3, FollowWithout
  <2>5. ToldInv'
    BY <2>1, <2>3, ToldWithout
  <2> QED BY <2>4, <2>5
<1>2. CASE DaemonStep \/ CallStep \/ LogStep \/ LogFault \/ DaemonDies \/ Expire \/ Lose
    BY <1>2, FollowBegins, FollowPublishes, FollowByCall, FollowLog, FollowDies DEF DaemonStep, CallStep
<1>3. CASE Send \/ OpenActivity \/ Finish \/ Stat \/ Read
    BY <1>3, FollowSends, FollowOpens, FollowFinish, FollowStat, FollowReads
<1>4. CASE StartCall \/ Sleep \/ Outcome \/ CloseActivity \/ NoteWritten
    BY <1>4, FollowGoesOn
<1>5. CASE PollBatch \/ PollFails \/ Drain
    BY <1>5, FollowShows, FollowGoesOn
<1>6. CASE Cancel \/ RunClosers \/ Reap \/ End \/ Interrupt \/ InterruptAgain
    BY <1>6, FollowLeaves
<1> QED BY <1>1, <1>2, <1>3, <1>4, <1>5, <1>6 DEF Next, ClientStep

\* A request that has ended has shown all that the turn published meanwhile: what its subscription
\* does not hold any more is after the cursor in the log, which only has lines that are ended or are
\* being written (run_live_activity_send, ActivityBroker, InteractiveLogCursor.read_new). A REPL that
\* reads the log may miss one if its cursor was overtaken or an append failed.
THEOREM MissesNothing == Spec => []NothingMissed
<1>1. Init => FollowInv /\ ToldInv
  <2>1. SUFFICES ASSUME Init PROVE FollowInv /\ ToldInv
    OBVIOUS
  <2>2. Typed
    BY <2>1, Started
  <2>3. files = << <<>> >>
    BY <2>1 DEF Init, LogInit
  <2>4. client.step = "prompt" /\ client.cursor = NoCursor
    <3>1. PICK empty : empty = <<>>
      OBVIOUS
    <3>2. PICK none : none = NoCursor
      OBVIOUS
    <3>3. client = [step |-> "prompt", after |-> "prompt", back |-> "loop", exit |-> None, attempt |-> 1,
                    subscribed |-> FALSE, degraded |-> FALSE, offer |-> FALSE, before |-> None,
                    cursor |-> none, shown |-> empty, since |-> 0]
      BY <2>1, <3>1, <3>2 DEF Init
    <3> QED BY <3>2, <3>3
  <2>5. ~Begun /\ ~InRequest /\ ~Watching
    BY <2>4 DEF Begun, InRequest, Watching
  <2>6. Lines
    <3>1. PICK pieces : pieces = <<>>
      OBVIOUS
    <3>2. WellFormed(pieces) /\ Ending(pieces)
      BY <3>1 DEF WellFormed, Ending
    <3>3. DOMAIN files = {1} /\ files[1] = pieces
      BY <2>3, <3>1
    <3> QED BY <3>2, <3>3 DEF Lines
  <2>7. FollowInv
    BY <2>5, <2>6 DEF FollowInv
  <2>8. ToldInv
    BY <2>4, <2>5 DEF ToldInv, NoCursor
  <2> QED BY <2>7, <2>8
<1>2. LogSafe /\ CloserInv /\ ShownInv /\ FollowInv /\ ToldInv /\ [Next]_vars => FollowInv' /\ ToldInv'
    BY FollowKept DEF LogSafe
<1>3. LogSafe /\ ToldInv => NothingMissed
    BY DEF ToldInv, NothingMissed, AllShown, LogSafe, Typed, ActivityTyped
<1> QED BY <1>1, <1>2, <1>3, Shows, PTL DEF Spec

=============================================================================
