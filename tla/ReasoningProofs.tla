--------------------------- MODULE ReasoningProofs ---------------------------
(***************************************************************************)
(* Proofs about reasoning threads and their exports: NothingUnstored of    *)
(* ReasonThreads, for any number of threads, users, steps and failures, by *)
(* the inductive invariant ReasonInv; WholeOutput, Awaited and             *)
(* FailureCostsOneCall of ReasonExport, for any number of jobs, steps,     *)
(* chunks, failures and deaths of the daemon, by ExportInv and SpentInv.   *)
(***************************************************************************)
EXTENDS ReasonThreadsProperties, ReasonExport, FiniteSetTheorems, SequenceTheorems,
        WellFoundedInduction, TLAPS

-----------------------------------------------------------------------------
(* Threads *)

Doing == {"idle", "load", "think", "save", "notify", "cool", "coolSave",
          "files", "thread", "find", "sweep"}

\* What a process is doing.
Doings ==
    [op : Verbs \cup {"none", "check"}, step : Doing,
     thread : 0..MaxThreads, copy : Thread \cup {None}, new : 0..MaxSteps,
     ends : Recommendations, gone : SUBSET Steps]

LEMMA Typed == ASSUME TypeOK PROVE at \in [Procs -> Doings]
BY DEF TypeOK, Doings, Doing

LEMMA Resting == Rest \in Doings
BY BoundsAssumption DEF Rest, Doings, Doing, Recommendations

\* A process that begins an operation is still a process.
LEMMA Begun ==
    ASSUME NEW r \in Doings, NEW verb \in Verbs \cup {"check"}, NEW t \in Threads,
           NEW s \in {"load", "think"}
    PROVE  [r EXCEPT !.op = verb, !.thread = t, !.step = s] \in Doings
<1>1. t \in 0..MaxThreads
    BY BoundsAssumption DEF Threads
<1> QED BY <1>1 DEF Doings, Doing

LEMMA Stepped ==
    ASSUME NEW r \in Doings, NEW s \in Doing
    PROVE  [r EXCEPT !.step = s] \in Doings
BY DEF Doings

LEMMA Targets == \A verb : Target(verb) \in Statuses
BY DEF Target, Statuses

\* Time changes nothing of a thread but what remains of its cooldown.
LEMMA CopyPassed ==
    ASSUME NEW copy \in Thread \cup {None}
    PROVE  /\ Passed(copy) \in Thread \cup {None}
           /\ Passed(copy) = None <=> copy = None
           /\ copy # None => Passed(copy).notes = copy.notes
<1>1. None \notin Thread
    BY ProcsAssumption DEF Thread
<1>2. CASE copy = None
    BY <1>2 DEF Passed
<1>3. CASE copy \in Thread
  <2>1. Less(copy.wait) \in 0..Interval
    BY <1>3, BoundsAssumption DEF Thread, Less
  <2>2. [copy EXCEPT !.wait = Less(@)] \in Thread
    BY <1>3, <2>1 DEF Thread
  <2>3. Passed(copy) = [copy EXCEPT !.wait = Less(@)]
    BY <1>3, <1>1 DEF Passed
  <2> QED BY <1>1, <1>3, <2>2, <2>3 DEF Thread
<1> QED BY <1>2, <1>3

-----------------------------------------------------------------------------

\* At the start there is no thread and nobody is at work.
LEMMA InitialState == Init => ReasonInv
<1> SUFFICES ASSUME Init PROVE ReasonInv
    OBVIOUS
<1> USE DEF Init, Rest
<1>1. TypeOK
    BY BoundsAssumption, ProcsAssumption DEF TypeOK, Procs, Thread, Recommendations
<1>2. ProcessShape /\ CopiesStored /\ NoticeStored
    BY DEF ProcessShape, CopiesStored, NoticeStored
<1>3. NothingUnstored
    BY DEF NothingUnstored, Exists
<1> QED BY <1>1, <1>2, <1>3 DEF ReasonInv

\* A new thread has noted nothing.
LEMMA StartKeeps ==
    ASSUME ReasonInv, NEW u \in Users, Start(u)
    PROVE  ReasonInv'
<1> USE DEF ReasonInv, Start, stored, history
<1>1. TypeOK'
  <2>1. at' \in [Procs -> Doings]
    BY BoundsAssumption, ProcsAssumption
    DEF TypeOK, Doings, Doing, Procs, Threads, Recommendations
  <2>2. threads' \in [Threads -> Thread \cup {None}]
    BY BoundsAssumption, ProcsAssumption
    DEF TypeOK, Thread, Procs, Threads, Steps, Statuses, Recommendations
  <2>3. /\ steps' \in [Threads -> SUBSET Steps]
        /\ telling' \subseteq Steps /\ inbox' \subseteq Steps /\ workspace' \subseteq Threads
        /\ erased' \subseteq Threads
    BY BoundsAssumption, ProcsAssumption DEF TypeOK, ProcessShape, Procs, Threads, Steps
  <2>4. /\ due' \in 0..Interval /\ started' \in 0..MaxThreads /\ made' \in 0..MaxSteps
        /\ operations' \in 0..MaxOperations /\ failures' \in 0..MaxFailures
    BY BoundsAssumption, ProcsAssumption DEF TypeOK, Procs
  <2> QED BY <2>1, <2>2, <2>3, <2>4 DEF TypeOK, Doings, Doing
<1>2. ProcessShape'
    BY ProcsAssumption DEF TypeOK, ProcessShape, Thread, Procs
<1>3. CopiesStored'
    BY ProcsAssumption DEF TypeOK, ProcessShape, CopiesStored, Thread, Procs
<1>4. NoticeStored'
    BY ProcsAssumption DEF TypeOK, ProcessShape, NoticeStored, Procs
<1>5. NothingUnstored'
    BY ProcsAssumption DEF TypeOK, ProcessShape, CopiesStored, NoticeStored, NothingUnstored,
       Exists, Thread, Procs
<1> QED BY <1>1, <1>2, <1>3, <1>4, <1>5

\* An operation begins without a copy.
LEMMA BeginKeeps ==
    ASSUME ReasonInv, NEW u \in Users, NEW verb \in Verbs, NEW t \in Threads, Begin(u, verb, t)
    PROVE  ReasonInv'
<1> USE DEF ReasonInv, Begin, stored, history, Rest
<1>1. TypeOK'
  <2>1. at' \in [Procs -> Doings]
    <3>1. [Rest EXCEPT !.op = verb, !.thread = t, !.step = "load"] \in Doings
      BY Resting, Begun
    <3> QED BY <3>1, Typed DEF Procs
  <2>2. threads' \in [Threads -> Thread \cup {None}]
    BY BoundsAssumption, ProcsAssumption
    DEF TypeOK, Thread, Procs, Threads, Steps, Statuses, Recommendations
  <2>3. /\ steps' \in [Threads -> SUBSET Steps]
        /\ telling' \subseteq Steps /\ inbox' \subseteq Steps /\ workspace' \subseteq Threads
        /\ erased' \subseteq Threads
    BY BoundsAssumption, ProcsAssumption DEF TypeOK, ProcessShape, Procs, Threads, Steps
  <2>4. /\ due' \in 0..Interval /\ started' \in 0..MaxThreads /\ made' \in 0..MaxSteps
        /\ operations' \in 0..MaxOperations /\ failures' \in 0..MaxFailures
    BY BoundsAssumption, ProcsAssumption DEF TypeOK, Procs
  <2> QED BY <2>1, <2>2, <2>3, <2>4 DEF TypeOK, Doings, Doing
<1>2. ProcessShape'
    BY ProcsAssumption DEF TypeOK, ProcessShape, Thread, Procs
<1>3. CopiesStored'
    BY ProcsAssumption DEF TypeOK, ProcessShape, CopiesStored, Thread, Procs
<1>4. NoticeStored'
    BY ProcsAssumption DEF TypeOK, ProcessShape, NoticeStored, Procs
<1>5. NothingUnstored'
    BY ProcsAssumption DEF TypeOK, ProcessShape, CopiesStored, NoticeStored, NothingUnstored,
       Exists, Thread, Procs
<1> QED BY <1>1, <1>2, <1>3, <1>4, <1>5

\* The daemon takes a thread to advance, or none.
LEMMA CheckKeeps ==
    ASSUME ReasonInv, Check
    PROVE  ReasonInv'
<1> USE DEF ReasonInv
<1>1. UNCHANGED <<stored, history, operations, failures>>
    BY DEF Check
<1>2. due' \in 0..Interval
  <2>1. due' = due \/ due' = Interval
    BY DEF Check, Ends
  <2> QED BY <2>1, BoundsAssumption DEF TypeOK
<1>3. PICK new : /\ at' = [at EXCEPT ![Daemon] = new]
                 /\ \/ new = Rest
                    \/ \E t \in Threads :
                          new = [Rest EXCEPT !.op = "check", !.thread = t, !.step = "think"]
    BY DEF Check, Ends, Eligible
<1>4. Rest.copy = None /\ Rest.step = "idle"
    BY DEF Rest
<1>5. /\ new \in Doings /\ new.copy = None
      /\ new.step = "idle" \/ (new.step = "think" /\ new.thread \in Threads)
  <2>1. CASE new = Rest
    BY <2>1, <1>4, Resting
  <2>2. CASE \E t \in Threads :
                new = [Rest EXCEPT !.op = "check", !.thread = t, !.step = "think"]
    <3>1. PICK t \in Threads :
             new = [Rest EXCEPT !.op = "check", !.thread = t, !.step = "think"]
      BY <2>2
    <3>2. [Rest EXCEPT !.op = "check", !.thread = t, !.step = "think"] \in Doings
      BY Resting, Begun
    <3>3. new.copy = Rest.copy /\ new.step = "think" /\ new.thread = t
      BY <3>1, Resting DEF Doings
    <3> QED BY <3>1, <3>2, <3>3, <1>4
  <2> QED BY <1>3, <2>1, <2>2
<1>6. TypeOK'
  <2>1. at' \in [Procs -> Doings]
    BY <1>3, <1>5, Typed DEF Procs
  <2> QED BY <1>1, <1>2, <2>1 DEF TypeOK, Doings, Doing, stored, history
<1>7. ProcessShape'
    BY <1>1, <1>3, <1>5, Typed DEF ProcessShape, history, Procs
<1>8. CopiesStored' /\ NoticeStored'
    BY <1>1, <1>3, <1>5, Typed DEF CopiesStored, NoticeStored, history, stored, Procs
<1>9. NothingUnstored'
    BY <1>1 DEF NothingUnstored, history, stored, Exists
<1> QED BY <1>6, <1>7, <1>8, <1>9

\* The agent's step is not stored yet.
LEMMA ThinkKeeps ==
    ASSUME ReasonInv, NEW p \in Procs, Think(p)
    PROVE  ReasonInv'
<1> USE DEF ReasonInv, Think, stored, history, Tracked
<1>1. TypeOK'
  <2>1. at' \in [Procs -> Doings]
    <3> DEFINE new == IF made < MaxSteps THEN made + 1 ELSE 0
               next == IF p = Daemon THEN "load" ELSE "save"
    <3>1. at[p] \in Doings
      BY Typed
    <3>2. new \in 0..MaxSteps
      BY BoundsAssumption DEF TypeOK
    <3>3. PICK ends \in Recommendations :
             at' = [at EXCEPT ![p].new = new, ![p].ends = ends, ![p].step = next]
      BY DEF Think
    <3> HIDE DEF new
    <3>4. [at[p] EXCEPT !.new = new, !.ends = ends, !.step = next] \in Doings
      BY <3>1, <3>2 DEF Doings, Doing
    <3> QED BY <3>3, <3>4, Typed
  <2>2. threads' \in [Threads -> Thread \cup {None}]
    BY BoundsAssumption, ProcsAssumption
    DEF TypeOK, Thread, Procs, Threads, Steps, Statuses, Recommendations
  <2>3. /\ steps' \in [Threads -> SUBSET Steps]
        /\ telling' \subseteq Steps /\ inbox' \subseteq Steps /\ workspace' \subseteq Threads
        /\ erased' \subseteq Threads
    <3>1. Tracked(IF made < MaxSteps THEN made + 1 ELSE 0) \subseteq Steps
      BY BoundsAssumption DEF TypeOK, Steps
    <3>2. telling' \subseteq Steps
      BY <3>1 DEF TypeOK
    <3>3. at[p].thread \in Threads
      BY DEF ProcessShape
    <3> QED BY <3>2, <3>3 DEF TypeOK
  <2>4. /\ due' \in 0..Interval /\ started' \in 0..MaxThreads /\ made' \in 0..MaxSteps
        /\ operations' \in 0..MaxOperations /\ failures' \in 0..MaxFailures
    BY BoundsAssumption, ProcsAssumption DEF TypeOK, Procs
  <2> QED BY <2>1, <2>2, <2>3, <2>4 DEF TypeOK, Doings, Doing
<1>2. ProcessShape'
    BY ProcsAssumption DEF TypeOK, ProcessShape, Thread, Procs
<1>3. CopiesStored'
    BY ProcsAssumption DEF TypeOK, ProcessShape, CopiesStored, Thread, Procs
<1>4. NoticeStored'
    BY ProcsAssumption DEF TypeOK, ProcessShape, NoticeStored, Procs
<1>5. NothingUnstored'
    BY ProcsAssumption DEF TypeOK, ProcessShape, CopiesStored, NoticeStored, NothingUnstored,
       Exists, Thread, Procs
<1> QED BY <1>1, <1>2, <1>3, <1>4, <1>5

\* ThinkFails keeps the invariant.
LEMMA ThinkFailsKeeps ==
    ASSUME ReasonInv, NEW p \in Procs, ThinkFails(p)
    PROVE  ReasonInv'
<1> USE DEF ReasonInv, ThinkFails, stored, history, Ends, Rest, Fails, To
<1>1. TypeOK'
  <2>1. at' \in [Procs -> Doings]
    <3>1. [at[p] EXCEPT !.step = "cool"] \in Doings
      BY Typed, Stepped DEF Procs, Doing
    <3> QED BY <3>1, Typed, Resting DEF Procs
  <2>2. threads' \in [Threads -> Thread \cup {None}]
    BY BoundsAssumption, ProcsAssumption
    DEF TypeOK, Thread, Procs, Threads, Steps, Statuses, Recommendations
  <2>3. /\ steps' \in [Threads -> SUBSET Steps]
        /\ telling' \subseteq Steps /\ inbox' \subseteq Steps /\ workspace' \subseteq Threads
        /\ erased' \subseteq Threads
    BY BoundsAssumption, ProcsAssumption DEF TypeOK, ProcessShape, Procs, Threads, Steps
  <2>4. /\ due' \in 0..Interval /\ started' \in 0..MaxThreads /\ made' \in 0..MaxSteps
        /\ operations' \in 0..MaxOperations /\ failures' \in 0..MaxFailures
    BY BoundsAssumption, ProcsAssumption DEF TypeOK, Procs
  <2> QED BY <2>1, <2>2, <2>3, <2>4 DEF TypeOK, Doings, Doing
<1>2. ProcessShape'
    BY ProcsAssumption DEF TypeOK, ProcessShape, Thread, Procs
<1>3. CopiesStored'
    BY ProcsAssumption DEF TypeOK, ProcessShape, CopiesStored, Thread, Procs
<1>4. NoticeStored'
    BY ProcsAssumption DEF TypeOK, ProcessShape, NoticeStored, Procs
<1>5. NothingUnstored'
    BY ProcsAssumption DEF TypeOK, ProcessShape, CopiesStored, NoticeStored, NothingUnstored,
       Exists, Thread, Procs
<1> QED BY <1>1, <1>2, <1>3, <1>4, <1>5

\* A copy is what is stored.
LEMMA LoadKeeps ==
    ASSUME ReasonInv, NEW p \in Procs, Load(p)
    PROVE  ReasonInv'
<1> USE DEF ReasonInv, Load, stored, history, Exists, AfterLoad, Ends, Rest
<1>1. TypeOK'
  <2>1. at' \in [Procs -> Doings]
    <3>1. at[p] \in Doings
      BY Typed
    <3>2. threads[at[p].thread] \in Thread \cup {None}
      BY DEF TypeOK, ProcessShape
    <3>3. [at[p] EXCEPT !.copy = threads[at[p].thread], !.step = AfterLoad(p)] \in Doings
      BY <3>1, <3>2 DEF Doings, Doing, AfterLoad
    <3> QED BY <3>3, Typed, Resting
  <2>2. threads' \in [Threads -> Thread \cup {None}]
    BY BoundsAssumption, ProcsAssumption
    DEF TypeOK, Thread, Procs, Threads, Steps, Statuses, Recommendations
  <2>3. /\ steps' \in [Threads -> SUBSET Steps]
        /\ telling' \subseteq Steps /\ inbox' \subseteq Steps /\ workspace' \subseteq Threads
        /\ erased' \subseteq Threads
    BY BoundsAssumption, ProcsAssumption DEF TypeOK, ProcessShape, Procs, Threads, Steps
  <2>4. /\ due' \in 0..Interval /\ started' \in 0..MaxThreads /\ made' \in 0..MaxSteps
        /\ operations' \in 0..MaxOperations /\ failures' \in 0..MaxFailures
    BY BoundsAssumption, ProcsAssumption DEF TypeOK, Procs
  <2> QED BY <2>1, <2>2, <2>3, <2>4 DEF TypeOK, Doings, Doing
<1>2. ProcessShape'
    BY ProcsAssumption DEF TypeOK, ProcessShape, Thread, Procs
<1>3. CopiesStored'
    BY ProcsAssumption DEF TypeOK, ProcessShape, CopiesStored, Thread, Procs
<1>4. NoticeStored'
    BY ProcsAssumption DEF TypeOK, ProcessShape, NoticeStored, Procs
<1>5. NothingUnstored'
    BY ProcsAssumption DEF TypeOK, ProcessShape, CopiesStored, NoticeStored, NothingUnstored,
       Exists, Thread, Procs
<1> QED BY <1>1, <1>2, <1>3, <1>4, <1>5

\* The step is stored with the thread that notes it.
LEMMA SaveStepKeeps ==
    ASSUME ReasonInv, NEW p \in Procs, SaveStep(p)
    PROVE  ReasonInv'
<1> USE DEF ReasonInv, SaveStep, stored, history, To, Tracked, FinalStatus
<1>1. TypeOK'
  <2>1. at' \in [Procs -> Doings]
    <3>1. [at[p] EXCEPT !.step = "notify"] \in Doings
      BY Typed, Stepped DEF Procs, Doing
    <3> QED BY <3>1, Typed DEF Procs
  <2>2. threads' \in [Threads -> Thread \cup {None}]
    <3>1. at[p] \in Doings
      BY Typed
    <3>2. at[p].copy \in Thread /\ at[p].ends \in Recommendations
      BY <3>1 DEF Doings, ProcessShape
    <3>3. Tracked(at[p].new) \in SUBSET Steps
      BY <3>1, BoundsAssumption DEF Doings, Steps
    <3>4. [at[p].copy EXCEPT !.notes = @ \cup Tracked(at[p].new),
                             !.status = FinalStatus(at[p].ends, @)] \in Thread
      BY <3>2, <3>3 DEF Thread, Statuses
    <3>5. threads \in [Threads -> Thread \cup {None}]
      BY DEF TypeOK
    <3> QED BY <3>4, <3>5
  <2>3. /\ steps' \in [Threads -> SUBSET Steps]
        /\ telling' \subseteq Steps /\ inbox' \subseteq Steps /\ workspace' \subseteq Threads
        /\ erased' \subseteq Threads
    BY BoundsAssumption, ProcsAssumption DEF TypeOK, ProcessShape, Procs, Threads, Steps
  <2>4. /\ due' \in 0..Interval /\ started' \in 0..MaxThreads /\ made' \in 0..MaxSteps
        /\ operations' \in 0..MaxOperations /\ failures' \in 0..MaxFailures
    BY BoundsAssumption, ProcsAssumption DEF TypeOK, Procs
  <2> QED BY <2>1, <2>2, <2>3, <2>4 DEF TypeOK, Doings, Doing
<1>2. ProcessShape'
    BY ProcsAssumption DEF TypeOK, ProcessShape, Thread, Procs
<1>3. CopiesStored'
    BY ProcsAssumption DEF TypeOK, ProcessShape, CopiesStored, Thread, Procs
<1>4. NoticeStored'
    BY ProcsAssumption DEF TypeOK, ProcessShape, NoticeStored, Procs
<1>5. NothingUnstored'
    BY ProcsAssumption DEF TypeOK, ProcessShape, CopiesStored, NoticeStored, NothingUnstored,
       Exists, Thread, Procs
<1> QED BY <1>1, <1>2, <1>3, <1>4, <1>5

\* What is published is stored.
LEMMA NotifyKeeps ==
    ASSUME ReasonInv, NEW p \in Procs, Notify(p)
    PROVE  ReasonInv'
<1> USE DEF ReasonInv, Notify, stored, history, To, Ends, Rest, Tracked
<1>1. TypeOK'
  <2>1. at' \in [Procs -> Doings]
    <3>1. [at[p] EXCEPT !.step = "cool"] \in Doings
      BY Typed, Stepped DEF Procs, Doing
    <3> QED BY <3>1, Typed, Resting DEF Procs
  <2>2. threads' \in [Threads -> Thread \cup {None}]
    BY BoundsAssumption, ProcsAssumption
    DEF TypeOK, Thread, Procs, Threads, Steps, Statuses, Recommendations
  <2>3. /\ steps' \in [Threads -> SUBSET Steps]
        /\ telling' \subseteq Steps /\ inbox' \subseteq Steps /\ workspace' \subseteq Threads
        /\ erased' \subseteq Threads
    BY BoundsAssumption, ProcsAssumption DEF TypeOK, ProcessShape, Procs, Threads, Steps
  <2>4. /\ due' \in 0..Interval /\ started' \in 0..MaxThreads /\ made' \in 0..MaxSteps
        /\ operations' \in 0..MaxOperations /\ failures' \in 0..MaxFailures
    BY BoundsAssumption, ProcsAssumption DEF TypeOK, Procs
  <2> QED BY <2>1, <2>2, <2>3, <2>4 DEF TypeOK, Doings, Doing
<1>2. ProcessShape'
    BY ProcsAssumption DEF TypeOK, ProcessShape, Thread, Procs
<1>3. CopiesStored'
    BY ProcsAssumption DEF TypeOK, ProcessShape, CopiesStored, Thread, Procs
<1>4. NoticeStored'
    BY ProcsAssumption DEF TypeOK, ProcessShape, NoticeStored, Procs
<1>5. NothingUnstored'
    BY ProcsAssumption DEF TypeOK, ProcessShape, CopiesStored, NoticeStored, NothingUnstored,
       Exists, Thread, Procs
<1> QED BY <1>1, <1>2, <1>3, <1>4, <1>5

\* Cool keeps the invariant.
LEMMA CoolKeeps ==
    ASSUME ReasonInv, Cool
    PROVE  ReasonInv'
<1> USE DEF ReasonInv, Cool, stored, history, Exists, Ends, Rest
<1>1. TypeOK'
  <2>1. at' \in [Procs -> Doings]
    BY BoundsAssumption, ProcsAssumption
    DEF TypeOK, Doings, Doing, Procs, Threads, Recommendations
  <2>2. threads' \in [Threads -> Thread \cup {None}]
    BY BoundsAssumption, ProcsAssumption
    DEF TypeOK, Thread, Procs, Threads, Steps, Statuses, Recommendations
  <2>3. /\ steps' \in [Threads -> SUBSET Steps]
        /\ telling' \subseteq Steps /\ inbox' \subseteq Steps /\ workspace' \subseteq Threads
        /\ erased' \subseteq Threads
    BY BoundsAssumption, ProcsAssumption DEF TypeOK, ProcessShape, Procs, Threads, Steps
  <2>4. /\ due' \in 0..Interval /\ started' \in 0..MaxThreads /\ made' \in 0..MaxSteps
        /\ operations' \in 0..MaxOperations /\ failures' \in 0..MaxFailures
    BY BoundsAssumption, ProcsAssumption DEF TypeOK, Procs
  <2> QED BY <2>1, <2>2, <2>3, <2>4 DEF TypeOK, Doings, Doing
<1>2. ProcessShape'
    BY ProcsAssumption DEF TypeOK, ProcessShape, Thread, Procs
<1>3. CopiesStored'
    BY ProcsAssumption DEF TypeOK, ProcessShape, CopiesStored, Thread, Procs
<1>4. NoticeStored'
    BY ProcsAssumption DEF TypeOK, ProcessShape, NoticeStored, Procs
<1>5. NothingUnstored'
    BY ProcsAssumption DEF TypeOK, ProcessShape, CopiesStored, NoticeStored, NothingUnstored,
       Exists, Thread, Procs
<1> QED BY <1>1, <1>2, <1>3, <1>4, <1>5

\* CoolSave keeps the invariant.
LEMMA CoolSaveKeeps ==
    ASSUME ReasonInv, CoolSave
    PROVE  ReasonInv'
<1> USE DEF ReasonInv, CoolSave, stored, history, Ends, Rest
<1>1. TypeOK'
  <2>1. at' \in [Procs -> Doings]
    BY BoundsAssumption, ProcsAssumption
    DEF TypeOK, Doings, Doing, Procs, Threads, Recommendations
  <2>2. threads' \in [Threads -> Thread \cup {None}]
    <3>1. at[Daemon] \in Doings
      BY Typed DEF Procs
    <3>2. at[Daemon].copy \in Thread
      BY <3>1 DEF Doings, ProcessShape, Procs
    <3>3. [at[Daemon].copy EXCEPT !.wait = Interval] \in Thread
      BY <3>2, BoundsAssumption DEF Thread
    <3>4. threads \in [Threads -> Thread \cup {None}]
      BY DEF TypeOK
    <3> QED BY <3>3, <3>4
  <2>3. /\ steps' \in [Threads -> SUBSET Steps]
        /\ telling' \subseteq Steps /\ inbox' \subseteq Steps /\ workspace' \subseteq Threads
        /\ erased' \subseteq Threads
    BY BoundsAssumption, ProcsAssumption DEF TypeOK, ProcessShape, Procs, Threads, Steps
  <2>4. /\ due' \in 0..Interval /\ started' \in 0..MaxThreads /\ made' \in 0..MaxSteps
        /\ operations' \in 0..MaxOperations /\ failures' \in 0..MaxFailures
    BY BoundsAssumption, ProcsAssumption DEF TypeOK, Procs
  <2> QED BY <2>1, <2>2, <2>3, <2>4 DEF TypeOK, Doings, Doing
<1>2. ProcessShape'
    BY ProcsAssumption DEF TypeOK, ProcessShape, Thread, Procs
<1>3. CopiesStored'
    BY ProcsAssumption DEF TypeOK, ProcessShape, CopiesStored, Thread, Procs
<1>4. NoticeStored'
    BY ProcsAssumption DEF TypeOK, ProcessShape, NoticeStored, Procs
<1>5. NothingUnstored'
    BY ProcsAssumption DEF TypeOK, ProcessShape, CopiesStored, NoticeStored, NothingUnstored,
       Exists, Thread, Procs
<1> QED BY <1>1, <1>2, <1>3, <1>4, <1>5

\* SaveStatus keeps the invariant.
LEMMA SaveStatusKeeps ==
    ASSUME ReasonInv, NEW u \in Users, SaveStatus(u)
    PROVE  ReasonInv'
<1> USE DEF ReasonInv, SaveStatus, stored, history, Ends, Rest, Target, Transitions
<1>1. TypeOK'
  <2>1. at' \in [Procs -> Doings]
    BY BoundsAssumption, ProcsAssumption
    DEF TypeOK, Doings, Doing, Procs, Threads, Recommendations
  <2>2. threads' \in [Threads -> Thread \cup {None}]
    <3>1. at[u] \in Doings
      BY Typed DEF Procs
    <3>2. at[u].copy \in Thread
      BY <3>1 DEF Doings, ProcessShape, Procs
    <3>3. [at[u].copy EXCEPT !.status = Target(at[u].op)] \in Thread
      BY <3>2, Targets DEF Thread
    <3>4. threads \in [Threads -> Thread \cup {None}]
      BY DEF TypeOK
    <3> QED BY <3>3, <3>4
  <2>3. /\ steps' \in [Threads -> SUBSET Steps]
        /\ telling' \subseteq Steps /\ inbox' \subseteq Steps /\ workspace' \subseteq Threads
        /\ erased' \subseteq Threads
    BY BoundsAssumption, ProcsAssumption DEF TypeOK, ProcessShape, Procs, Threads, Steps
  <2>4. /\ due' \in 0..Interval /\ started' \in 0..MaxThreads /\ made' \in 0..MaxSteps
        /\ operations' \in 0..MaxOperations /\ failures' \in 0..MaxFailures
    BY BoundsAssumption, ProcsAssumption DEF TypeOK, Procs
  <2> QED BY <2>1, <2>2, <2>3, <2>4 DEF TypeOK, Doings, Doing
<1>2. ProcessShape'
    BY ProcsAssumption DEF TypeOK, ProcessShape, Thread, Procs
<1>3. CopiesStored'
    BY ProcsAssumption DEF TypeOK, ProcessShape, CopiesStored, Thread, Procs
<1>4. NoticeStored'
    BY ProcsAssumption DEF TypeOK, ProcessShape, NoticeStored, Procs
<1>5. NothingUnstored'
    BY ProcsAssumption DEF TypeOK, ProcessShape, CopiesStored, NoticeStored, NothingUnstored,
       Exists, Thread, Procs
<1> QED BY <1>1, <1>2, <1>3, <1>4, <1>5

\* DeleteFiles keeps the invariant.
LEMMA DeleteFilesKeeps ==
    ASSUME ReasonInv, NEW u \in Users, DeleteFiles(u)
    PROVE  ReasonInv'
<1> USE DEF ReasonInv, DeleteFiles, stored, history, To
<1>1. TypeOK'
  <2>1. at' \in [Procs -> Doings]
    <3>1. [at[u] EXCEPT !.step = "thread"] \in Doings
      BY Typed, Stepped DEF Procs, Doing
    <3> QED BY <3>1, Typed DEF Procs
  <2>2. threads' \in [Threads -> Thread \cup {None}]
    BY BoundsAssumption, ProcsAssumption
    DEF TypeOK, Thread, Procs, Threads, Steps, Statuses, Recommendations
  <2>3. /\ steps' \in [Threads -> SUBSET Steps]
        /\ telling' \subseteq Steps /\ inbox' \subseteq Steps /\ workspace' \subseteq Threads
        /\ erased' \subseteq Threads
    BY BoundsAssumption, ProcsAssumption DEF TypeOK, ProcessShape, Procs, Threads, Steps
  <2>4. /\ due' \in 0..Interval /\ started' \in 0..MaxThreads /\ made' \in 0..MaxSteps
        /\ operations' \in 0..MaxOperations /\ failures' \in 0..MaxFailures
    BY BoundsAssumption, ProcsAssumption DEF TypeOK, Procs
  <2> QED BY <2>1, <2>2, <2>3, <2>4 DEF TypeOK, Doings, Doing
<1>2. ProcessShape'
    BY ProcsAssumption DEF TypeOK, ProcessShape, Thread, Procs
<1>3. CopiesStored'
    BY ProcsAssumption DEF TypeOK, ProcessShape, CopiesStored, Thread, Procs
<1>4. NoticeStored'
    BY ProcsAssumption DEF TypeOK, ProcessShape, NoticeStored, Procs
<1>5. NothingUnstored'
    BY ProcsAssumption DEF TypeOK, ProcessShape, CopiesStored, NoticeStored, NothingUnstored,
       Exists, Thread, Procs
<1> QED BY <1>1, <1>2, <1>3, <1>4, <1>5

\* A deleted thread is remembered before its steps go.
LEMMA DeleteThreadKeeps ==
    ASSUME ReasonInv, NEW u \in Users, DeleteThread(u)
    PROVE  ReasonInv'
<1> USE DEF ReasonInv, DeleteThread, stored, history, To
<1>1. TypeOK'
  <2>1. at' \in [Procs -> Doings]
    <3>1. [at[u] EXCEPT !.step = "find"] \in Doings
      BY Typed, Stepped DEF Procs, Doing
    <3> QED BY <3>1, Typed DEF Procs
  <2>2. threads' \in [Threads -> Thread \cup {None}]
    BY BoundsAssumption, ProcsAssumption
    DEF TypeOK, Thread, Procs, Threads, Steps, Statuses, Recommendations
  <2>3. /\ steps' \in [Threads -> SUBSET Steps]
        /\ telling' \subseteq Steps /\ inbox' \subseteq Steps /\ workspace' \subseteq Threads
        /\ erased' \subseteq Threads
    BY BoundsAssumption, ProcsAssumption DEF TypeOK, ProcessShape, Procs, Threads, Steps
  <2>4. /\ due' \in 0..Interval /\ started' \in 0..MaxThreads /\ made' \in 0..MaxSteps
        /\ operations' \in 0..MaxOperations /\ failures' \in 0..MaxFailures
    BY BoundsAssumption, ProcsAssumption DEF TypeOK, Procs
  <2> QED BY <2>1, <2>2, <2>3, <2>4 DEF TypeOK, Doings, Doing
<1>2. ProcessShape'
    BY ProcsAssumption DEF TypeOK, ProcessShape, Thread, Procs
<1>3. CopiesStored'
    BY ProcsAssumption DEF TypeOK, ProcessShape, CopiesStored, Thread, Procs
<1>4. NoticeStored'
    BY ProcsAssumption DEF TypeOK, ProcessShape, NoticeStored, Procs
<1>5. NothingUnstored'
    BY ProcsAssumption DEF TypeOK, ProcessShape, CopiesStored, NoticeStored, NothingUnstored,
       Exists, Thread, Procs
<1> QED BY <1>1, <1>2, <1>3, <1>4, <1>5

\* FindSteps keeps the invariant.
LEMMA FindStepsKeeps ==
    ASSUME ReasonInv, NEW u \in Users, FindSteps(u)
    PROVE  ReasonInv'
<1> USE DEF ReasonInv, FindSteps, stored, history
<1>1. TypeOK'
  <2>1. at' \in [Procs -> Doings]
    <3>1. at[u] \in Doings
      BY Typed DEF Procs
    <3>2. steps[at[u].thread] \subseteq Steps
      BY DEF TypeOK, ProcessShape, Procs
    <3>3. [at[u] EXCEPT !.step = "sweep", !.gone = steps[at[u].thread]] \in Doings
      BY <3>1, <3>2 DEF Doings, Doing
    <3> QED BY <3>3, Typed DEF Procs
  <2>2. threads' \in [Threads -> Thread \cup {None}]
    BY BoundsAssumption, ProcsAssumption
    DEF TypeOK, Thread, Procs, Threads, Steps, Statuses, Recommendations
  <2>3. /\ steps' \in [Threads -> SUBSET Steps]
        /\ telling' \subseteq Steps /\ inbox' \subseteq Steps /\ workspace' \subseteq Threads
        /\ erased' \subseteq Threads
    BY BoundsAssumption, ProcsAssumption DEF TypeOK, ProcessShape, Procs, Threads, Steps
  <2>4. /\ due' \in 0..Interval /\ started' \in 0..MaxThreads /\ made' \in 0..MaxSteps
        /\ operations' \in 0..MaxOperations /\ failures' \in 0..MaxFailures
    BY BoundsAssumption, ProcsAssumption DEF TypeOK, Procs
  <2> QED BY <2>1, <2>2, <2>3, <2>4 DEF TypeOK, Doings, Doing
<1>2. ProcessShape'
    BY ProcsAssumption DEF TypeOK, ProcessShape, Thread, Procs
<1>3. CopiesStored'
    BY ProcsAssumption DEF TypeOK, ProcessShape, CopiesStored, Thread, Procs
<1>4. NoticeStored'
    BY ProcsAssumption DEF TypeOK, ProcessShape, NoticeStored, Procs
<1>5. NothingUnstored'
    BY ProcsAssumption DEF TypeOK, ProcessShape, CopiesStored, NoticeStored, NothingUnstored,
       Exists, Thread, Procs
<1> QED BY <1>1, <1>2, <1>3, <1>4, <1>5

\* Only steps of a deleted thread go.
LEMMA SweepKeeps ==
    ASSUME ReasonInv, NEW u \in Users, Sweep(u)
    PROVE  ReasonInv'
<1> USE DEF ReasonInv, Sweep, stored, history, Ends, Rest
<1>1. TypeOK'
  <2>1. at' \in [Procs -> Doings]
    <3>1. at[u] \in Doings
      BY Typed DEF Procs
    <3>2. ASSUME NEW s \in at[u].gone
          PROVE  [at[u] EXCEPT !.gone = @ \ {s}] \in Doings
      BY <3>1 DEF Doings
    <3> QED BY <3>2, Typed, Resting DEF Procs
  <2>2. threads' \in [Threads -> Thread \cup {None}]
    BY BoundsAssumption, ProcsAssumption
    DEF TypeOK, Thread, Procs, Threads, Steps, Statuses, Recommendations
  <2>3. /\ steps' \in [Threads -> SUBSET Steps]
        /\ telling' \subseteq Steps /\ inbox' \subseteq Steps /\ workspace' \subseteq Threads
        /\ erased' \subseteq Threads
    <3>1. at[u].thread \in Threads
      BY DEF ProcessShape, Procs
    <3> QED BY <3>1 DEF TypeOK
  <2>4. /\ due' \in 0..Interval /\ started' \in 0..MaxThreads /\ made' \in 0..MaxSteps
        /\ operations' \in 0..MaxOperations /\ failures' \in 0..MaxFailures
    BY BoundsAssumption, ProcsAssumption DEF TypeOK, Procs
  <2> QED BY <2>1, <2>2, <2>3, <2>4 DEF TypeOK, Doings, Doing
<1>2. ProcessShape'
    BY ProcsAssumption DEF TypeOK, ProcessShape, Thread, Procs
<1>3. CopiesStored'
    BY ProcsAssumption DEF TypeOK, ProcessShape, CopiesStored, Thread, Procs
<1>4. NoticeStored'
    BY ProcsAssumption DEF TypeOK, ProcessShape, NoticeStored, Procs
<1>5. NothingUnstored'
    BY ProcsAssumption DEF TypeOK, ProcessShape, CopiesStored, NoticeStored, NothingUnstored,
       Exists, Thread, Procs
<1> QED BY <1>1, <1>2, <1>3, <1>4, <1>5

\* Crash keeps the invariant.
LEMMA CrashKeeps ==
    ASSUME ReasonInv, NEW p \in Procs, Crash(p)
    PROVE  ReasonInv'
<1> USE DEF ReasonInv, Crash, stored, history, Ends, Rest, Fails
<1>1. TypeOK'
  <2>1. at' \in [Procs -> Doings]
    BY BoundsAssumption, ProcsAssumption
    DEF TypeOK, Doings, Doing, Procs, Threads, Recommendations
  <2>2. threads' \in [Threads -> Thread \cup {None}]
    BY BoundsAssumption, ProcsAssumption
    DEF TypeOK, Thread, Procs, Threads, Steps, Statuses, Recommendations
  <2>3. /\ steps' \in [Threads -> SUBSET Steps]
        /\ telling' \subseteq Steps /\ inbox' \subseteq Steps /\ workspace' \subseteq Threads
        /\ erased' \subseteq Threads
    BY BoundsAssumption, ProcsAssumption DEF TypeOK, ProcessShape, Procs, Threads, Steps
  <2>4. /\ due' \in 0..Interval /\ started' \in 0..MaxThreads /\ made' \in 0..MaxSteps
        /\ operations' \in 0..MaxOperations /\ failures' \in 0..MaxFailures
    BY BoundsAssumption, ProcsAssumption DEF TypeOK, Procs
  <2> QED BY <2>1, <2>2, <2>3, <2>4 DEF TypeOK, Doings, Doing
<1>2. ProcessShape'
    BY ProcsAssumption DEF TypeOK, ProcessShape, Thread, Procs
<1>3. CopiesStored'
    BY ProcsAssumption DEF TypeOK, ProcessShape, CopiesStored, Thread, Procs
<1>4. NoticeStored'
    BY ProcsAssumption DEF TypeOK, ProcessShape, NoticeStored, Procs
<1>5. NothingUnstored'
    BY ProcsAssumption DEF TypeOK, ProcessShape, CopiesStored, NoticeStored, NothingUnstored,
       Exists, Thread, Procs
<1> QED BY <1>1, <1>2, <1>3, <1>4, <1>5

\* Time takes nothing from threads and copies but their waiting.
LEMMA TickKeeps ==
    ASSUME ReasonInv, Tick
    PROVE  ReasonInv'
<1> USE DEF ReasonInv
<1>1. UNCHANGED <<steps, telling, inbox, workspace, history, operations, failures>>
    BY DEF Tick
<1>2. threads \in [Threads -> Thread \cup {None}] /\ at \in [Procs -> Doings]
    BY Typed DEF TypeOK
<1>3. ASSUME NEW p \in Procs
      PROVE  /\ at'[p] \in Doings /\ at[p].copy \in Thread \cup {None}
             /\ at'[p].step = at[p].step /\ at'[p].thread = at[p].thread
             /\ at'[p].new = at[p].new /\ at'[p].copy = Passed(at[p].copy)
  <2>1. at'[p] = [at[p] EXCEPT !.copy = Passed(@)]
    BY DEF Tick
  <2>2. at[p] \in Doings
    BY <1>2
  <2>3. at[p].copy \in Thread \cup {None}
    BY <2>2 DEF Doings
  <2>4. Passed(at[p].copy) \in Thread \cup {None}
    BY <2>3, CopyPassed
  <2> QED BY <2>1, <2>2, <2>3, <2>4 DEF Doings
<1>4. ASSUME NEW t \in Threads
      PROVE  /\ threads'[t] \in Thread \cup {None}
             /\ Exists(t)' <=> Exists(t)
             /\ Exists(t) => threads'[t].notes = threads[t].notes
    BY <1>2, CopyPassed DEF Tick, Exists
<1>5. TypeOK'
  <2>1. at' \in [Procs -> Doings]
    BY <1>3 DEF Tick
  <2>2. threads' \in [Threads -> Thread \cup {None}]
    <3>1. ASSUME NEW t \in Threads PROVE Passed(threads[t]) \in Thread \cup {None}
      BY <1>2, CopyPassed
    <3>2. threads' = [t \in Threads |-> Passed(threads[t])]
      BY DEF Tick
    <3> QED BY <3>1, <3>2
  <2>3. due' \in 0..Interval
    BY BoundsAssumption DEF TypeOK, Tick, Less
  <2> QED BY <1>1, <2>1, <2>2, <2>3 DEF TypeOK, Doings, Doing, history
<1>6. ProcessShape'
    BY <1>1, <1>3, CopyPassed DEF ProcessShape, history
<1>7. CopiesStored' /\ NoticeStored'
    BY <1>1, <1>3, CopyPassed DEF CopiesStored, NoticeStored, history
<1>8. NothingUnstored'
  <2>1. erased' = erased /\ steps' = steps /\ inbox' = inbox
    BY <1>1 DEF history
  <2>2. \A t \in Threads \ erased : Exists(t)' => threads'[t].notes \subseteq steps[t]
    BY <1>4 DEF NothingUnstored
  <2> QED BY <2>1, <2>2 DEF NothingUnstored
<1> QED BY <1>5, <1>6, <1>7, <1>8

-----------------------------------------------------------------------------

LEMMA NextKeeps == ReasonInv /\ [Next]_vars => ReasonInv'
<1> SUFFICES ASSUME ReasonInv, [Next]_vars PROVE ReasonInv'
    OBVIOUS
<1>1. ASSUME NEW p \in Procs, Works(p) PROVE ReasonInv'
    BY <1>1, ThinkKeeps, LoadKeeps, SaveStepKeeps, NotifyKeeps, ThinkFailsKeeps DEF Works
<1>2. CASE Checks
    BY <1>1, <1>2, CheckKeeps, CoolKeeps, CoolSaveKeeps DEF Checks, Procs
<1>3. ASSUME NEW u \in Users, Uses(u) PROVE ReasonInv'
    BY <1>1, <1>3, StartKeeps, SaveStatusKeeps, DeleteFilesKeeps, DeleteThreadKeeps,
       FindStepsKeeps, SweepKeeps, BeginKeeps DEF Uses, Procs
<1>4. CASE UNCHANGED vars
    BY <1>4 DEF vars, stored, history, ReasonInv, TypeOK, ProcessShape, CopiesStored,
       NoticeStored, NothingUnstored, Exists
<1> QED BY <1>2, <1>3, <1>4, TickKeeps, CrashKeeps DEF Next

\* The invariant holds in every reachable state: whatever the daemon and the users
\* interleave, and whoever dies in between.
THEOREM Invariance == Spec => []ReasonInv
BY InitialState, NextKeeps, PTL DEF Spec

\* What a thread has noted and what was published is stored, until a deletion:
\* advance, schedule and transition overwrite each other's threads freely.
THEOREM NothingUnstoredHolds == Spec => []NothingUnstored
<1>1. ReasonInv => NothingUnstored
    BY DEF ReasonInv
<1> QED BY <1>1, Invariance, PTL

\* The variables keep their types.
THEOREM TypeCorrect == Spec => []TypeOK
<1>1. ReasonInv => TypeOK
    BY DEF ReasonInv
<1> QED BY <1>1, Invariance, PTL

-----------------------------------------------------------------------------
(* Numbers *)

LEMMA Least ==
    ASSUME NEW S \in SUBSET Nat, S # {}
    PROVE  \E n \in S : \A m \in S : n <= m
<1> DEFINE R == OpToRel(<, Nat)
<1>1. \A x, y \in Nat : <<x, y>> \in R <=> x < y
    BY DEF OpToRel
<1>2. IsWellFoundedOn(R, Nat)
    BY NatLessThanWellFounded
<1> HIDE DEF R
<1>3. \E x \in S : \A y \in S : ~(<<y, x>> \in R)
    BY <1>2, WFMin
<1>4. PICK x \in S : \A y \in S : ~(<<y, x>> \in R)
    BY <1>3
<1>5. x \in Nat /\ \A y \in S : y \in Nat /\ ~(y < x)
    BY <1>1, <1>4
<1>6. \A y \in S : x <= y
    BY <1>5
<1> QED BY <1>6

LEMMA Product == ASSUME NEW a \in Nat, NEW b \in Nat PROVE a * b \in Nat
OBVIOUS

LEMMA Grown == ASSUME NEW a \in Nat, NEW b \in Nat PROVE (a + 1) * b = a * b + b
OBVIOUS

LEMMA Ordered ==
    ASSUME NEW a \in Nat, NEW b \in Nat, NEW w \in Nat, a <= b
    PROVE  a * w <= b * w
OBVIOUS

\* Division rounded up: as many windows as cover the whole.
LEMMA RoundedUp ==
    ASSUME NEW whole \in Nat \ {0}, NEW window \in Nat \ {0},
           NEW n, n = (whole + window - 1) \div window
    PROVE  n \in Nat \ {0} /\ (n - 1) * window < whole /\ whole <= n * window
<1> DEFINE a == whole + window - 1
<1>1. a \in Nat /\ n = a \div window
    OBVIOUS
<1>2. n \in Int /\ n * window <= a /\ a < n * window + window
    BY <1>1
<1>3. n >= 1
  <2>1. SUFFICES ASSUME n <= 0 PROVE FALSE
    BY <1>2
  <2>2. n * window <= 0
    BY <1>2, <2>1
  <2>3. a < window
    BY <1>2, <2>2
  <2> QED BY <2>3
<1>4. (n - 1) * window = n * window - window
    BY <1>2
<1>5. n * window \in Int
    BY <1>2
<1> QED BY <1>2, <1>3, <1>4, <1>5

-----------------------------------------------------------------------------
(* The sections of a job *)

Ranges == [start : Nat, end : Nat]

\* The sections are ranges that follow each other from the first step to the last.
Partitions(s) ==
    /\ s \in Seq(Ranges) /\ Len(s) \in Nat \ {0}
    /\ s[1].start = 0 /\ s[Len(s)].end + 1 = StepCount
    /\ \A k \in 1..Len(s) : s[k].start <= s[k].end
    /\ \A k \in 1..(Len(s) - 1) : s[k + 1].start = s[k].end + 1

LEMMA AnswersPartition ==
    ASSUME NEW answer \in Answers, IsPartition(answer)
    PROVE  Partitions(answer)
<1> DEFINE S == {s \in [start : 0..StepCount, end : 0..StepCount] : s.start <= s.end}
<1>1. PICK n \in 0..StepCount : answer \in [1..n -> S]
    BY DEF Answers, BoundedSeq, SeqOf
<1>2. answer # <<>>
    BY DEF Answers
<1>3. n \in Nat /\ answer \in Seq(S) /\ Len(answer) = n
    BY <1>1, ExportAssumption
<1>4. n # 0
    BY <1>2, <1>3
<1>5. S \subseteq Ranges /\ \A s \in S : s.start <= s.end
    BY ExportAssumption DEF Ranges
<1> HIDE DEF S
<1>6. answer \in Seq(Ranges) /\ \A k \in 1..n : answer[k].start <= answer[k].end
    BY <1>1, <1>3, <1>5
<1> QED BY <1>3, <1>4, <1>6 DEF IsPartition, Partitions

LEMMA WindowsPartition == Partitions(PlanSections)
<1> DEFINE window == Smaller(StepCount, WindowSize)
           n == (StepCount + window - 1) \div window
           Window(k) == [start |-> (k - 1) * window, end |-> Smaller(k * window, StepCount) - 1]
<1>1. window \in Nat \ {0}
    BY ExportAssumption DEF Smaller
<1>2. PlanSections = [k \in 1..n |-> Window(k)]
    BY DEF PlanSections
<1> HIDE DEF window
<1>3. n \in Nat \ {0} /\ (n - 1) * window < StepCount /\ StepCount <= n * window
    BY <1>1, RoundedUp, ExportAssumption
<1> HIDE DEF n
<1>4. ASSUME NEW k \in 1..n
      PROVE  /\ (k - 1) * window \in Nat /\ k * window = (k - 1) * window + window
             /\ (k - 1) * window <= (n - 1) * window
             /\ k < n => k * window <= (n - 1) * window
  <2>1. k - 1 \in Nat /\ k \in Nat /\ n - 1 \in Nat /\ k - 1 <= n - 1 /\ (k < n => k <= n - 1)
    BY <1>3
  <2>2. (k - 1) * window \in Nat /\ ((k - 1) + 1) * window = (k - 1) * window + window
    BY <1>1, <2>1, Product, Grown
  <2>3. (k - 1) * window <= (n - 1) * window /\ (k < n => k * window <= (n - 1) * window)
    BY <1>1, <2>1, Ordered
  <2>4. (k - 1) + 1 = k
    BY <2>1
  <2> QED BY <2>2, <2>3, <2>4
<1>5. ASSUME NEW k \in 1..n
      PROVE  /\ Window(k) \in Ranges /\ Window(k).start <= Window(k).end
             /\ k < n => Window(k).end + 1 = k * window
             /\ k = n => Window(k).end + 1 = StepCount
  <2>1. (k - 1) * window \in Nat /\ k * window = (k - 1) * window + window
        /\ (k - 1) * window < StepCount
    BY <1>3, <1>4, <1>1, ExportAssumption
  <2>2. Smaller(k * window, StepCount) \in Nat
        /\ Smaller(k * window, StepCount) > (k - 1) * window
    BY <1>1, <2>1, ExportAssumption DEF Smaller
  <2>3. k < n => Smaller(k * window, StepCount) = k * window
    BY <1>1, <1>3, <1>4, <2>1, ExportAssumption DEF Smaller
  <2>4. k = n => Smaller(k * window, StepCount) = StepCount
    BY <1>1, <1>3, <2>1, ExportAssumption DEF Smaller
  <2> QED BY <2>1, <2>2, <2>3, <2>4, <1>1 DEF Ranges
<1>6. \A k \in 1..n : Window(k).start = (k - 1) * window
    OBVIOUS
<1> HIDE DEF Window
<1>7. PlanSections \in [1..n -> Ranges]
    BY <1>2, <1>5
<1>8. PlanSections \in Seq(Ranges) /\ Len(PlanSections) = n
    BY <1>3, <1>7
<1>9. \A k \in 1..n : PlanSections[k] = Window(k)
    BY <1>2
<1>10. PlanSections[1].start = 0
  <2>1. 1 \in 1..n /\ (1 - 1) * window = 0
    BY <1>1, <1>3
  <2> QED BY <1>6, <1>9, <2>1
<1>11. ASSUME NEW k \in 1..(n - 1) PROVE PlanSections[k + 1].start = PlanSections[k].end + 1
  <2>1. k \in 1..n /\ k < n /\ k + 1 \in 1..n /\ (k + 1) - 1 = k
    BY <1>3
  <2> QED BY <1>5, <1>6, <1>9, <2>1
<1>12. n \in 1..n
    BY <1>3
<1> QED BY <1>3, <1>5, <1>8, <1>9, <1>10, <1>11, <1>12 DEF Partitions

LEMMA PlansPartition == ASSUME NEW s \in SectionPlans PROVE Partitions(s)
BY AnswersPartition, WindowsPartition DEF SectionPlans

LEMMA PlacesAreSteps ==
    ASSUME NEW s, Partitions(s)
    PROVE  \A k \in 1..Len(s) : k \in Nat /\ s[k].start \in Nat /\ s[k].end \in Nat
<1>1. s \in Seq(Ranges)
    BY DEF Partitions
<1>2. \A k \in 1..Len(s) : s[k] \in Ranges
    BY <1>1
<1> QED BY <1>2 DEF Ranges

\* A section ends before a later one starts.
LEMMA InOrder ==
    ASSUME NEW s, Partitions(s), NEW i \in 1..Len(s), NEW j \in 1..Len(s), i < j
    PROVE  s[i].end < s[j].start
<1> DEFINE late == {k \in 1..Len(s) : i < k /\ ~(s[i].end < s[k].start)}
<1>1. SUFFICES ASSUME late # {} PROVE FALSE
    OBVIOUS
<1>2. \A k \in 1..Len(s) : k \in Nat /\ s[k].start \in Nat /\ s[k].end \in Nat
    BY PlacesAreSteps
<1>3. late \in SUBSET Nat
    BY <1>2
<1>4. PICK k \in late : \A l \in late : k <= l
  <2> HIDE DEF late
  <2> QED BY <1>1, <1>3, Least
<1>5. k \in 1..Len(s) /\ i < k /\ ~(s[i].end < s[k].start) /\ k - 1 \in 1..(Len(s) - 1)
      /\ k - 1 \in 1..Len(s)
    BY DEF Partitions
<1>6. s[k].start = s[k - 1].end + 1
    BY <1>5 DEF Partitions
<1>7. CASE k - 1 = i
    BY <1>2, <1>5, <1>6, <1>7
<1>8. CASE k - 1 # i
  <2>1. k - 1 \notin late
    BY <1>4, <1>5
  <2>2. s[i].end < s[k - 1].start
    BY <1>5, <1>8, <2>1
  <2>3. s[k - 1].start <= s[k - 1].end
    BY <1>5 DEF Partitions
  <2> QED BY <1>2, <1>5, <1>6, <2>2, <2>3
<1> QED BY <1>7, <1>8

Holding(s, position) ==
    {k \in 1..Len(s) : s[k].start <= position /\ position <= s[k].end}

\* Every step is in one section, and in no other.
LEMMA OneHolds ==
    ASSUME NEW s, Partitions(s), NEW position \in Positions
    PROVE  \E k \in 1..Len(s) : Holding(s, position) = {k}
<1>1. \A k \in 1..Len(s) : k \in Nat /\ s[k].start \in Nat /\ s[k].end \in Nat
    BY PlacesAreSteps
<1> DEFINE reached == {k \in 1..Len(s) : position <= s[k].end}
<1>2. position \in Nat /\ position <= StepCount - 1
    BY ExportAssumption DEF Positions
<1>3. reached \in SUBSET Nat /\ reached # {}
  <2>1. Len(s) \in Nat \ {0} /\ s[Len(s)].end + 1 = StepCount
    BY DEF Partitions
  <2>2. Len(s) \in 1..Len(s)
    BY <2>1
  <2> QED BY <1>1, <1>2, <2>1, <2>2
<1>4. PICK k \in reached : \A l \in reached : k <= l
  <2> HIDE DEF reached
  <2> QED BY <1>3, Least
<1>5. k \in 1..Len(s) /\ position <= s[k].end
    BY <1>4
<1>6. s[k].start <= position
  <2>1. CASE k = 1
    BY <1>2, <2>1 DEF Partitions
  <2>2. CASE k # 1
    <3>1. k - 1 \in 1..Len(s) /\ k - 1 \in 1..(Len(s) - 1) /\ k - 1 < k
      BY <1>5, <2>2 DEF Partitions
    <3>2. k - 1 \notin reached
      BY <1>1, <1>4, <3>1
    <3>3. s[k - 1].end < position
      BY <1>1, <1>2, <3>1, <3>2
    <3>4. s[k].start = s[k - 1].end + 1
      BY <1>5, <3>1 DEF Partitions
    <3> QED BY <1>1, <1>2, <1>5, <3>1, <3>3, <3>4
  <2> QED BY <2>1, <2>2
<1>7. ASSUME NEW l \in Holding(s, position) PROVE l = k
  <2>1. l \in 1..Len(s) /\ s[l].start <= position /\ position <= s[l].end
    BY DEF Holding
  <2>2. CASE l < k
    BY <1>1, <1>2, <1>5, <1>6, <2>1, <2>2, InOrder
  <2>3. CASE k < l
    BY <1>1, <1>2, <1>5, <1>6, <2>1, <2>3, InOrder
  <2> QED BY <1>1, <1>5, <2>1, <2>2, <2>3
<1> QED BY <1>5, <1>6, <1>7 DEF Holding

\* The section of a later step is the same one or a later one.
LEMMA HeadingsFollow ==
    ASSUME NEW s, Partitions(s), NEW p \in Positions, NEW q \in Positions, p <= q
    PROVE  SectionFor(s, p) <= SectionFor(s, q)
<1>1. ASSUME NEW position \in Positions
      PROVE  SectionFor(s, position) \in Holding(s, position)
  <2>1. PICK k \in 1..Len(s) : Holding(s, position) = {k}
    BY OneHolds
  <2>2. SectionFor(s, position) = CHOOSE l \in {k} : \A m \in {k} : l <= m
    BY <2>1 DEF SectionFor, Holding
  <2> QED BY <2>1, <2>2 DEF Partitions
<1> DEFINE k == SectionFor(s, p)
           l == SectionFor(s, q)
<1>2. /\ k \in 1..Len(s) /\ s[k].start <= p /\ p <= s[k].end
      /\ l \in 1..Len(s) /\ s[l].start <= q /\ q <= s[l].end
    BY <1>1 DEF Holding
<1>3. \A i \in 1..Len(s) : i \in Nat /\ s[i].start \in Nat /\ s[i].end \in Nat
    BY PlacesAreSteps
<1>4. p \in Nat /\ q \in Nat
    BY ExportAssumption DEF Positions
<1> HIDE DEF k, l
<1>5. ~(l < k)
  <2>1. SUFFICES ASSUME l < k PROVE FALSE
    OBVIOUS
  <2>2. s[l].end < s[k].start
    BY <1>2, <2>1, InOrder
  <2> QED BY <1>2, <1>3, <1>4, <2>2
<1>6. k <= l
    BY <1>2, <1>3, <1>5
<1> QED BY <1>6 DEF k, l

\* The chunks begin at steps of the job, one behind the other.
LEMMA ChunksInOrder ==
    ASSUME NEW c \in Chunks \ {1}
    PROVE  /\ FirstStep(c - 1) \in Positions /\ FirstStep(c) \in Positions
           /\ FirstStep(c - 1) <= FirstStep(c)
<1>1. ChunkCount \in Nat \ {0} /\ (ChunkCount - 1) * SegmentSize < StepCount
    BY RoundedUp, ExportAssumption DEF ChunkCount
<1>2. c \in Nat /\ c - 1 \in Nat /\ c - 2 \in Nat /\ ChunkCount - 1 \in Nat
      /\ c - 1 <= ChunkCount - 1 /\ c - 2 <= c - 1 /\ SegmentSize \in Nat /\ StepCount \in Nat
    BY <1>1, ExportAssumption DEF Chunks
<1>3. (c - 1) * SegmentSize \in Nat /\ (c - 2) * SegmentSize \in Nat
    BY <1>2, Product
<1>4. (c - 1) * SegmentSize <= (ChunkCount - 1) * SegmentSize
      /\ (c - 2) * SegmentSize <= (c - 1) * SegmentSize
    BY <1>2, Ordered
<1>5. FirstStep(c) = (c - 1) * SegmentSize /\ FirstStep(c - 1) = (c - 2) * SegmentSize
  <2>1. (c - 1) - 1 = c - 2
    BY <1>2
  <2> QED BY <2>1 DEF FirstStep
<1>6. (ChunkCount - 1) * SegmentSize \in Nat
    BY <1>2, Product
<1> QED BY <1>1, <1>2, <1>3, <1>4, <1>5, <1>6 DEF Positions

-----------------------------------------------------------------------------
(* The invariant *)

Work ==
    [task : {Absent} \cup Task, copy : Manifest \cup {Absent}, chunk : 1..(ChunkCount + 1),
     step : {"idle", "read", "chunk", "write", "settle", "report", "pdf", "count", "retry",
             "reconcile"}]

\* The types the proofs need.
ExportTypes ==
    /\ manifest \in [Jobs -> Manifest \cup {Absent}]
    /\ chunks \in [Jobs -> SUBSET Chunks]
    /\ combined \in [Jobs -> {Absent} \cup SUBSET Chunks]
    /\ thread \in {"stored", "deleting", "deleted"}
    /\ tasks \subseteq Task /\ worker \in Work
    /\ plan \in [job : Jobs \cup {Absent}, step : {"none", "manifest", "progress", "wake"}]
    /\ used \subseteq Jobs /\ up \in BOOLEAN

\* A worker is at work on a task that is still admitted, with the manifest it has read. A
\* daemon that is down works on nothing.
WorkShape ==
    /\ worker.task = Absent <=> worker.step = "idle"
    /\ worker.task # Absent => worker.task \in tasks
    /\ worker.step \in {"chunk", "write", "settle", "retry"} => worker.copy # Absent
    /\ worker.step = "read" => worker.chunk = 1
    /\ worker.step = "write" => worker.chunk \in Chunks
    /\ ~up => tasks = {} /\ worker = NoWork /\ plan = NoPlan

\* A job has a manifest and tasks only after it was planned; none while its first manifest
\* is being written.
PlanShape ==
    /\ plan.step # "none" => plan.job \in used
    /\ plan.step = "manifest" => manifest[plan.job] = Absent
    /\ \A j \in Jobs : manifest[j] # Absent => j \in used
    /\ \A task \in tasks : task.job \in used /\ (plan.step = "manifest" => task.job # plan.job)

\* What is behind the worker is stored.
Behind ==
    thread = "stored" =>
       /\ \A j \in Jobs : manifest[j] # Absent /\ manifest[j].status = "complete"
             => combined[j] = Chunks
       /\ worker.step \in {"chunk", "write"} =>
             \A c \in Chunks : c < worker.chunk => c \in chunks[Job]
       /\ worker.step = "settle" => combined[Job] = Chunks

\* A task is no later attempt than its manifest allows: a retry has a number no task has.
Attempts ==
    /\ \A task \in tasks :
          /\ manifest[task.job] # Absent => task.attempt <= manifest[task.job].attempts + 1
          /\ worker.step \in {"chunk", "write", "settle"} /\ task.job = Job
                => task.attempt <= worker.copy.attempts + 1
    /\ worker.step = "retry" =>
          /\ worker.task.attempt <= worker.copy.attempts
          /\ manifest[Job] # Absent => manifest[Job].attempts = worker.copy.attempts

SettledByNow == worker.step \in {"report", "pdf"} => ~Unsettled(Job)

ExportInv ==
    /\ ExportTypes /\ WorkShape /\ PlanShape
    /\ Behind /\ Attempts /\ SettledByNow /\ Awaited

LEMMA CountsChunks == ChunkCount \in Nat \ {0}
BY RoundedUp, ExportAssumption DEF ChunkCount

\* A task that runs is admitted, of a job, while the daemon is up.
LEMMA AtWork ==
    ASSUME ExportInv, worker.step # "idle"
    PROVE  /\ worker \in Work /\ worker.task \in tasks /\ worker.task \in Task
           /\ worker.task # Absent /\ Job \in Jobs /\ up
<1>1. worker \in Work /\ worker.task \in tasks /\ worker.task # Absent /\ tasks \subseteq Task
    BY DEF ExportInv, ExportTypes, WorkShape
<1>2. up
    BY DEF ExportInv, WorkShape, NoWork
<1> QED BY <1>1, <1>2 DEF Task, Job

LEMMA NoWorkTyped == NoWork \in Work
BY CountsChunks DEF NoWork, Work

LEMMA MovedTyped ==
    ASSUME NEW w \in Work,
           NEW s \in {"read", "chunk", "write", "settle", "report", "pdf", "count", "retry",
                      "reconcile"}
    PROVE  /\ [w EXCEPT !.step = s] \in Work
           /\ [w EXCEPT !.step = s].step = s /\ [w EXCEPT !.step = s].task = w.task
           /\ [w EXCEPT !.step = s].copy = w.copy /\ [w EXCEPT !.step = s].chunk = w.chunk
BY DEF Work

\* The worker goes to a step from which it will only look for another attempt.
LEMMA GivenUpKeeps ==
    ASSUME ExportInv, worker.step # "idle", NEW s \in {"count", "reconcile"}, WorkerTo(s),
           UNCHANGED <<manifest, chunks, combined, thread, tasks, plan, up, used,
                       stranded>>
    PROVE  ExportInv'
<1>1. /\ worker' \in Work /\ worker'.step = s /\ worker'.task = worker.task
  <2>1. worker \in Work
    BY AtWork
  <2>2. worker' = [worker EXCEPT !.step = s]
    BY DEF WorkerTo
  <2>3. s \in {"read", "chunk", "write", "settle", "report", "pdf", "count", "retry", "reconcile"}
    OBVIOUS
  <2> QED BY <2>1, <2>2, <2>3, MovedTyped
<1>2. worker.task # Absent /\ up
    BY AtWork
<1>3. ExportTypes'
    BY <1>1 DEF ExportInv, ExportTypes
<1>4. WorkShape' /\ PlanShape'
    BY <1>1, <1>2 DEF ExportInv, WorkShape, PlanShape
<1>5. Behind' /\ Attempts' /\ SettledByNow' /\ Awaited'
    BY <1>1 DEF ExportInv, Behind, Attempts, SettledByNow, Awaited, Unsettled, Served
<1> QED BY <1>3, <1>4, <1>5 DEF ExportInv

\* A task that is completed leaves its job settled, or given up.
LEMMA TaskEndsKeeps ==
    ASSUME ExportInv, worker.step # "idle", TaskEnds, ~Unsettled(Job) \/ Job \in stranded',
           stranded \subseteq stranded',
           UNCHANGED <<manifest, chunks, combined, thread, plan, up, used>>
    PROVE  ExportInv'
<1>1. worker.task \in tasks /\ up /\ Job \in Jobs
    BY AtWork
<1>2. worker' = NoWork /\ tasks' = tasks \ {worker.task}
    BY DEF TaskEnds
<1>3. worker'.step = "idle" /\ worker'.task = Absent /\ worker' \in Work
    BY <1>2, NoWorkTyped DEF NoWork
<1>4. ExportTypes'
    BY <1>2, <1>3 DEF ExportInv, ExportTypes
<1>5. WorkShape' /\ PlanShape'
    BY <1>1, <1>2, <1>3 DEF ExportInv, WorkShape, PlanShape
<1>6. Behind' /\ Attempts' /\ SettledByNow'
    BY <1>2, <1>3 DEF ExportInv, Behind, Attempts, SettledByNow
<1>7. Awaited'
  <2>1. SUFFICES ASSUME NEW j \in Jobs, up, Unsettled(j), j \notin stranded', plan.job # j
                 PROVE  Served(j)'
    BY DEF Awaited, Unsettled
  <2>2. PICK task \in tasks : task.job = j
    BY <2>1 DEF ExportInv, Awaited, Served
  <2>3. task \in tasks'
    BY <1>2, <2>1, <2>2 DEF Job
  <2> QED BY <2>2, <2>3 DEF Served
<1> QED BY <1>4, <1>5, <1>6, <1>7 DEF ExportInv

-----------------------------------------------------------------------------
(* Planning *)

LEMMA PlanReadKeeps == ASSUME ExportInv, NEW j \in Jobs, PlanRead(j) PROVE ExportInv'
<1>1. ExportTypes' /\ WorkShape'
    BY DEF ExportInv, ExportTypes, WorkShape, PlanRead, files
<1>2. PlanShape'
    BY DEF ExportInv, ExportTypes, PlanShape, PlanRead, files
<1>3. Behind' /\ Attempts' /\ SettledByNow' /\ Awaited'
    BY AbsentAssumption, ExportAssumption
    DEF ExportInv, Behind, Attempts, SettledByNow, Awaited, Unsettled, Served, PlanRead, files, Job
<1> QED BY <1>1, <1>2, <1>3 DEF ExportInv

\* The manifest of a job that has no tasks yet.
LEMMA ManifestKeeps ==
    ASSUME ExportInv, up, plan.step = "manifest", NewManifest,
           \/ plan' = [plan EXCEPT !.step = "progress"] /\ UNCHANGED stranded
           \/ plan' = NoPlan /\ stranded' = stranded \cup {plan.job},
           UNCHANGED <<chunks, combined, thread, tasks, worker, up, used>>
    PROVE  ExportInv'
<1>1. PICK sections \in SectionPlans :
         manifest' = [manifest EXCEPT ![plan.job] =
                         [status |-> "planned", attempts |-> 0, sections |-> sections]]
    BY DEF NewManifest
<1> DEFINE first == [status |-> "planned", attempts |-> 0, sections |-> sections]
<1>2. first \in Manifest /\ first.status = "planned" /\ first.attempts = 0
    BY ExportAssumption DEF Manifest, JobStatuses
<1>3. manifest' = [manifest EXCEPT ![plan.job] = first]
    BY <1>1
<1> HIDE DEF first
<1>4. plan.step = "manifest" /\ plan.job \in used /\ used \subseteq Jobs
      /\ plan \in [job : Jobs \cup {Absent}, step : {"none", "manifest", "progress", "wake"}]
    BY DEF ExportInv, ExportTypes, PlanShape
<1>5. /\ plan' \in [job : Jobs \cup {Absent}, step : {"none", "manifest", "progress", "wake"}]
      /\ \/ plan'.step = "progress" /\ plan'.job = plan.job /\ stranded' = stranded
         \/ plan'.step = "none" /\ stranded' = stranded \cup {plan.job}
    BY <1>4 DEF NoPlan
<1>6. UNCHANGED <<chunks, combined, thread, tasks, worker, up, used>>
    OBVIOUS
<1>7. manifest \in [Jobs -> Manifest \cup {Absent}]
    BY DEF ExportInv, ExportTypes
<1>8. manifest' \in [Jobs -> Manifest \cup {Absent}] /\ manifest'[plan.job] = first
      /\ \A j \in Jobs : j # plan.job => manifest'[j] = manifest[j]
    BY <1>2, <1>3, <1>4, <1>7
<1>9. \A task \in tasks : task.job # plan.job /\ task.job \in Jobs
    BY <1>4 DEF ExportInv, ExportTypes, PlanShape, Task
<1>10. ExportTypes'
    BY <1>5, <1>6, <1>8 DEF ExportInv, ExportTypes
<1>11. WorkShape'
    BY <1>4, <1>6 DEF ExportInv, WorkShape
<1>12. PlanShape'
    BY <1>4, <1>5, <1>6, <1>8, <1>9 DEF ExportInv, PlanShape
<1>13. worker.step # "idle" => Job # plan.job /\ Job \in Jobs
    BY <1>9, AtWork DEF Job
<1>14. Behind'
  <2>1. \A j \in Jobs : manifest'[j] # Absent /\ manifest'[j].status = "complete" =>
           manifest[j] # Absent /\ manifest[j].status = "complete"
    BY <1>2, <1>8
  <2> QED BY <1>6, <2>1 DEF ExportInv, Behind, Job
<1>15. Attempts'
    BY <1>6, <1>8, <1>9, <1>13 DEF ExportInv, Attempts, Job
<1>16. SettledByNow'
    BY <1>6, <1>8, <1>13 DEF ExportInv, SettledByNow, Unsettled, Job
<1>17. Awaited'
    BY <1>5, <1>6, <1>8 DEF ExportInv, Awaited, Unsettled, Served
<1> QED BY <1>10, <1>11, <1>12, <1>14, <1>15, <1>16, <1>17 DEF ExportInv

LEMMA PlanManifestKeeps == ASSUME ExportInv, PlanManifest PROVE ExportInv'
BY ManifestKeeps DEF PlanManifest

LEMMA PlanProgressKeeps == ASSUME ExportInv, PlanProgress PROVE ExportInv'
<1>1. UNCHANGED <<manifest, chunks, combined, thread, tasks, worker, up, used, stranded>>
      /\ up /\ plan.step = "progress" /\ plan' = [plan EXCEPT !.step = "wake"]
    BY DEF PlanProgress
<1>2. plan \in [job : Jobs \cup {Absent}, step : {"none", "manifest", "progress", "wake"}]
    BY DEF ExportInv, ExportTypes
<1>3. plan'.step = "wake" /\ plan'.job = plan.job /\ plan' \in
         [job : Jobs \cup {Absent}, step : {"none", "manifest", "progress", "wake"}]
    BY <1>1, <1>2
<1>4. ExportTypes' /\ WorkShape' /\ PlanShape'
    BY <1>1, <1>3 DEF ExportInv, ExportTypes, WorkShape, PlanShape
<1>5. Behind' /\ Attempts' /\ SettledByNow' /\ Awaited'
    BY <1>1, <1>3 DEF ExportInv, Behind, Attempts, SettledByNow, Awaited, Unsettled, Served, Job
<1> QED BY <1>4, <1>5 DEF ExportInv

\* A plan that fails leaves no manifest, or a job nobody is woken for.
LEMMA PlanFailsKeeps == ASSUME ExportInv, PlanFails PROVE ExportInv'
<1>1. plan' = NoPlan /\ up /\ UNCHANGED <<chunks, combined, thread, tasks, worker, up, used>>
    BY DEF PlanFails, files
<1>2. CASE plan.step = "manifest" /\ NewManifest /\ stranded' = stranded \cup {plan.job}
    BY <1>1, <1>2, ManifestKeeps
<1>3. CASE /\ UNCHANGED manifest
           /\ \/ plan.step = "manifest" /\ UNCHANGED stranded
              \/ plan.step = "progress" /\ stranded' = stranded \cup {plan.job}
  <2>1. plan'.step = "none" /\ plan'.job = Absent /\ plan' \in
           [job : Jobs \cup {Absent}, step : {"none", "manifest", "progress", "wake"}]
    BY <1>1 DEF NoPlan
  <2>2. ExportTypes' /\ WorkShape' /\ PlanShape'
    BY <1>1, <1>3, <2>1 DEF ExportInv, ExportTypes, WorkShape, PlanShape
  <2>3. Behind' /\ Attempts' /\ SettledByNow'
    BY <1>1, <1>3 DEF ExportInv, Behind, Attempts, SettledByNow, Unsettled, Job
  <2>4. Awaited'
    <3>1. SUFFICES ASSUME NEW j \in Jobs, up, Unsettled(j), j \notin stranded' PROVE Served(j)
      BY <1>1, <1>3 DEF Awaited, Unsettled, Served
    <3>2. plan.job # j
      BY <1>3, <3>1 DEF ExportInv, PlanShape, Unsettled
    <3>3. j \notin stranded
      BY <1>3, <3>1
    <3> QED BY <3>1, <3>2, <3>3 DEF ExportInv, Awaited
  <2> QED BY <2>2, <2>3, <2>4 DEF ExportInv
<1> QED BY <1>2, <1>3 DEF PlanFails, files

\* The first task of a job, or nobody to see to it.
LEMMA PlanWakeKeeps == ASSUME ExportInv, PlanWake PROVE ExportInv'
<1> DEFINE woken == [job |-> plan.job, attempt |-> 0]
<1>1. /\ plan.step = "wake" /\ up /\ plan' = NoPlan /\ plan.job \in used /\ used \subseteq Jobs
      /\ plan \in [job : Jobs \cup {Absent}, step : {"none", "manifest", "progress", "wake"}]
      /\ UNCHANGED <<manifest, chunks, combined, thread, worker, up, used>>
    BY DEF PlanWake, ExportInv, ExportTypes, PlanShape, files
<1>2. \/ tasks' = tasks \cup {woken} /\ UNCHANGED stranded
      \/ stranded' = stranded \cup {plan.job} /\ UNCHANGED tasks
    BY DEF PlanWake
<1>3. woken \in Task /\ woken.job = plan.job /\ woken.attempt = 0
    BY <1>1, ExportAssumption DEF Task
<1> HIDE DEF woken
<1>4. plan'.step = "none" /\ plan'.job = Absent /\ plan' \in
         [job : Jobs \cup {Absent}, step : {"none", "manifest", "progress", "wake"}]
    BY <1>1 DEF NoPlan
<1>5. ExportTypes'
    BY <1>1, <1>2, <1>3, <1>4 DEF ExportInv, ExportTypes
<1>6. WorkShape' /\ PlanShape'
    BY <1>1, <1>2, <1>3, <1>4 DEF ExportInv, WorkShape, PlanShape
<1>7. Behind' /\ SettledByNow'
    BY <1>1 DEF ExportInv, Behind, SettledByNow, Unsettled, Job
<1>8. Attempts'
  <2>1. SUFFICES ASSUME NEW task \in tasks'
                 PROVE  /\ manifest[task.job] # Absent
                              => task.attempt <= manifest[task.job].attempts + 1
                        /\ worker.step \in {"chunk", "write", "settle"} /\ task.job = Job
                              => task.attempt <= worker.copy.attempts + 1
    BY <1>1 DEF ExportInv, Attempts, Job
  <2>2. CASE task \in tasks
    BY <2>2 DEF ExportInv, Attempts
  <2>3. CASE task = woken
    <3>1. manifest[plan.job] # Absent => manifest[plan.job].attempts \in Nat
      BY <1>1, ExportAssumption DEF ExportInv, ExportTypes, Manifest
    <3>2. worker.step \in {"chunk", "write", "settle"} => worker.copy.attempts \in Nat
      BY ExportAssumption DEF ExportInv, ExportTypes, WorkShape, Work, Manifest
    <3> QED BY <1>3, <2>3, <3>1, <3>2
  <2> QED BY <1>2, <2>2, <2>3
<1>9. Awaited'
  <2>1. SUFFICES ASSUME NEW j \in Jobs, up, Unsettled(j), j \notin stranded' PROVE Served(j)'
    BY <1>1 DEF Awaited, Unsettled
  <2>2. CASE j = plan.job
    BY <1>2, <1>3, <2>1, <2>2 DEF Served
  <2>3. CASE j # plan.job
    BY <1>2, <2>1, <2>3 DEF ExportInv, Awaited, Served
  <2> QED BY <2>2, <2>3
<1> QED BY <1>5, <1>6, <1>7, <1>8, <1>9 DEF ExportInv

-----------------------------------------------------------------------------
(* One task *)

LEMMA StartTaskKeeps ==
    ASSUME ExportInv, NEW task \in tasks, StartTask(task) PROVE ExportInv'
<1>1. /\ up /\ worker' = [NoWork EXCEPT !.task = task, !.step = "read"] /\ task \in Task
      /\ UNCHANGED <<manifest, chunks, combined, thread, tasks, plan, up, used, stranded>>
    BY DEF StartTask, files, ExportInv, ExportTypes
<1>2. worker' \in Work /\ worker'.step = "read" /\ worker'.task = task /\ worker'.chunk = 1
    BY <1>1, NoWorkTyped DEF Work, NoWork
<1>3. task # Absent
    BY <1>1, AbsentAssumption
<1>4. ExportTypes' /\ WorkShape' /\ PlanShape'
    BY <1>1, <1>2, <1>3 DEF ExportInv, ExportTypes, WorkShape, PlanShape
<1>5. Behind' /\ Attempts' /\ SettledByNow' /\ Awaited'
    BY <1>1, <1>2 DEF ExportInv, Behind, Attempts, SettledByNow, Awaited, Unsettled, Served
<1> QED BY <1>4, <1>5 DEF ExportInv

LEMMA ReadKeeps == ASSUME ExportInv, Read PROVE ExportInv'
<1>1. /\ worker.step = "read"
      /\ UNCHANGED <<manifest, chunks, combined, thread, plan, up, used, stranded>>
    BY DEF Read, files
<1>2. \/ ~Unsettled(Job) /\ TaskEnds
      \/ WorkerTo("count") /\ UNCHANGED tasks
      \/ /\ Unsettled(Job) /\ UNCHANGED tasks
         /\ worker' = [worker EXCEPT !.step = "chunk", !.copy = manifest[Job]]
    BY DEF Read
<1>3. CASE ~Unsettled(Job) /\ TaskEnds
    BY <1>1, <1>3, TaskEndsKeeps
<1>4. CASE WorkerTo("count") /\ UNCHANGED tasks
    BY <1>1, <1>4, GivenUpKeeps
<1>5. CASE /\ Unsettled(Job) /\ UNCHANGED tasks
           /\ worker' = [worker EXCEPT !.step = "chunk", !.copy = manifest[Job]]
  <2>1. worker \in Work /\ worker.task \in tasks /\ worker.task # Absent /\ Job \in Jobs /\ up
    BY <1>1, AtWork
  <2>2. manifest[Job] \in Manifest /\ manifest[Job] # Absent
    BY <1>5, <2>1 DEF ExportInv, ExportTypes, Unsettled
  <2>3. worker' \in Work /\ worker'.step = "chunk" /\ worker'.task = worker.task
        /\ worker'.copy = manifest[Job] /\ worker'.chunk = worker.chunk
    BY <1>5, <2>1, <2>2 DEF Work
  <2>4. worker.chunk = 1
    BY <1>1 DEF ExportInv, WorkShape
  <2>5. ExportTypes' /\ WorkShape' /\ PlanShape'
    BY <1>1, <1>5, <2>1, <2>2, <2>3 DEF ExportInv, ExportTypes, WorkShape, PlanShape
  <2>6. Behind'
    BY <1>1, <2>3, <2>4 DEF ExportInv, Behind, Chunks, Job
  <2>7. Attempts'
    BY <1>1, <1>5, <2>1, <2>2, <2>3 DEF ExportInv, Attempts, Job
  <2>8. SettledByNow' /\ Awaited'
    BY <1>1, <1>5, <2>3 DEF ExportInv, SettledByNow, Awaited, Unsettled, Served
  <2> QED BY <2>5, <2>6, <2>7, <2>8 DEF ExportInv
<1> QED BY <1>2, <1>3, <1>4, <1>5

LEMMA UnreadableKeeps == ASSUME ExportInv, Unreadable PROVE ExportInv'
BY TaskEndsKeeps DEF Unreadable, files

\* A chunk that is stored is passed over.
LEMMA ComposeKeeps == ASSUME ExportInv, NEW c \in Chunks, Compose(c) PROVE ExportInv'
<1>1. /\ worker.step = "chunk" /\ worker.chunk = c
      /\ UNCHANGED <<manifest, chunks, combined, thread, tasks, plan, up, used, stranded>>
    BY DEF Compose, AtChunk, files
<1>2. worker \in Work /\ worker.task \in tasks /\ worker.task # Absent /\ Job \in Jobs /\ up
    BY <1>1, AtWork
<1>3. c \in Nat /\ c + 1 \in 1..(ChunkCount + 1)
      /\ worker.copy # Absent
    BY <1>1, CountsChunks DEF ExportInv, ExportTypes, WorkShape, Chunks
<1>4. CASE c \in chunks[Job] /\ worker' = [worker EXCEPT !.chunk = c + 1]
  <2>1. worker' \in Work /\ worker'.step = "chunk" /\ worker'.task = worker.task
        /\ worker'.copy = worker.copy /\ worker'.chunk = c + 1
    BY <1>1, <1>2, <1>3, <1>4 DEF Work
  <2>2. ExportTypes' /\ WorkShape' /\ PlanShape'
    BY <1>1, <1>2, <1>3, <1>4, <2>1 DEF ExportInv, ExportTypes, WorkShape, PlanShape
  <2>3. Behind'
    BY <1>1, <1>3, <1>4, <2>1 DEF ExportInv, Behind, Chunks, Job
  <2>4. Attempts' /\ SettledByNow' /\ Awaited'
    BY <1>1, <2>1 DEF ExportInv, Attempts, SettledByNow, Awaited, Unsettled, Served, Job
  <2> QED BY <2>2, <2>3, <2>4 DEF ExportInv
<1>5. CASE WorkerTo("write")
  <2>1. worker' \in Work /\ worker'.step = "write" /\ worker'.task = worker.task
        /\ worker'.copy = worker.copy /\ worker'.chunk = c
    BY <1>1, <1>2, <1>5, MovedTyped DEF WorkerTo
  <2>2. ExportTypes' /\ WorkShape' /\ PlanShape'
    BY <1>1, <1>2, <1>3, <2>1 DEF ExportInv, ExportTypes, WorkShape, PlanShape
  <2>3. Behind' /\ Attempts' /\ SettledByNow' /\ Awaited'
    BY <1>1, <2>1
    DEF ExportInv, Behind, Attempts, SettledByNow, Awaited, Unsettled, Served, Job
  <2> QED BY <2>2, <2>3 DEF ExportInv
<1> QED BY <1>4, <1>5 DEF Compose

LEMMA WriteChunkKeeps == ASSUME ExportInv, WriteChunk PROVE ExportInv'
<1>1. /\ worker.step = "write"
      /\ worker' = [worker EXCEPT !.step = "chunk", !.chunk = @ + 1]
      /\ chunks' = [chunks EXCEPT ![Job] = @ \cup {worker.chunk}]
      /\ UNCHANGED <<manifest, combined, thread, tasks, plan, up, used, stranded>>
    BY DEF WriteChunk
<1>2. worker \in Work /\ worker.task \in tasks /\ worker.task # Absent /\ Job \in Jobs /\ up
    BY <1>1, AtWork
<1>3. worker.chunk \in Chunks /\ worker.chunk \in Nat /\ worker.chunk + 1 \in 1..(ChunkCount + 1)
      /\ worker.copy # Absent /\ chunks \in [Jobs -> SUBSET Chunks]
    BY <1>1, CountsChunks DEF ExportInv, ExportTypes, WorkShape, Chunks
<1>4. worker' \in Work /\ worker'.step = "chunk" /\ worker'.task = worker.task
      /\ worker'.copy = worker.copy /\ worker'.chunk = worker.chunk + 1
    BY <1>1, <1>2, <1>3 DEF Work
<1>5. chunks' \in [Jobs -> SUBSET Chunks] /\ chunks'[Job] = chunks[Job] \cup {worker.chunk}
    BY <1>1, <1>2, <1>3
<1>6. ExportTypes' /\ WorkShape' /\ PlanShape'
    BY <1>1, <1>2, <1>3, <1>4, <1>5 DEF ExportInv, ExportTypes, WorkShape, PlanShape
<1>7. Behind'
  <2>1. \A c \in Chunks : c < worker.chunk + 1 => c < worker.chunk \/ c = worker.chunk
    BY <1>3 DEF Chunks
  <2> QED BY <1>1, <1>4, <1>5, <2>1 DEF ExportInv, Behind, Job
<1>8. Attempts' /\ SettledByNow' /\ Awaited'
    BY <1>1, <1>4 DEF ExportInv, Attempts, SettledByNow, Awaited, Unsettled, Served, Job
<1> QED BY <1>6, <1>7, <1>8 DEF ExportInv

\* Behind the last chunk all of them are stored, unless the thread is being deleted.
LEMMA CombineKeeps == ASSUME ExportInv, Combine PROVE ExportInv'
<1>1. /\ worker.step = "chunk" /\ worker.chunk = ChunkCount + 1 /\ WorkerTo("settle")
      /\ combined' = [combined EXCEPT ![Job] = chunks[Job]]
      /\ UNCHANGED <<manifest, chunks, thread, tasks, plan, up, used, stranded>>
    BY DEF Combine, AtChunk
<1>2. worker \in Work /\ worker.task \in tasks /\ worker.task # Absent /\ Job \in Jobs /\ up
    BY <1>1, AtWork
<1>3. worker.copy # Absent /\ chunks \in [Jobs -> SUBSET Chunks]
      /\ combined \in [Jobs -> {Absent} \cup SUBSET Chunks]
    BY <1>1 DEF ExportInv, ExportTypes, WorkShape
<1>4. worker' \in Work /\ worker'.step = "settle" /\ worker'.task = worker.task
      /\ worker'.copy = worker.copy
    BY <1>1, <1>2, MovedTyped DEF WorkerTo
<1>5. combined' \in [Jobs -> {Absent} \cup SUBSET Chunks] /\ combined'[Job] = chunks[Job]
      /\ \A j \in Jobs : j # Job => combined'[j] = combined[j]
    BY <1>1, <1>2, <1>3
<1>6. ExportTypes' /\ WorkShape' /\ PlanShape'
    BY <1>1, <1>2, <1>3, <1>4, <1>5 DEF ExportInv, ExportTypes, WorkShape, PlanShape
<1>7. Behind'
  <2>1. SUFFICES ASSUME thread = "stored" PROVE Behind'
    BY <1>1 DEF Behind
  <2>2. \A c \in Chunks : c < ChunkCount + 1
    BY CountsChunks DEF Chunks
  <2>3. \A c \in Chunks : c \in chunks[Job]
    BY <1>1, <2>1, <2>2 DEF ExportInv, Behind
  <2>4. chunks[Job] = Chunks
    BY <1>2, <1>3, <2>3
  <2> QED BY <1>1, <1>4, <1>5, <2>1, <2>4 DEF ExportInv, Behind, Job
<1>8. Attempts' /\ SettledByNow' /\ Awaited'
    BY <1>1, <1>4 DEF ExportInv, Attempts, SettledByNow, Awaited, Unsettled, Served, Job
<1> QED BY <1>6, <1>7, <1>8 DEF ExportInv

LEMMA SettleKeeps == ASSUME ExportInv, Settle PROVE ExportInv'
<1> DEFINE complete == [worker.copy EXCEPT !.status = "complete"]
<1>1. /\ worker.step = "settle" /\ WorkerTo("report")
      /\ manifest' = [manifest EXCEPT ![Job] = complete]
      /\ UNCHANGED <<chunks, combined, thread, tasks, plan, up, used, stranded>>
    BY DEF Settle
<1>2. worker \in Work /\ worker.task \in tasks /\ worker.task # Absent /\ Job \in Jobs /\ up
    BY <1>1, AtWork
<1>3. worker.copy \in Manifest /\ manifest \in [Jobs -> Manifest \cup {Absent}]
    BY <1>1, <1>2 DEF ExportInv, ExportTypes, WorkShape, Work
<1>4. complete \in Manifest /\ complete.status = "complete"
      /\ complete.attempts = worker.copy.attempts
    BY <1>3 DEF Manifest, JobStatuses
<1> HIDE DEF complete
<1>5. worker' \in Work /\ worker'.step = "report" /\ worker'.task = worker.task
    BY <1>1, <1>2, MovedTyped DEF WorkerTo
<1>6. manifest' \in [Jobs -> Manifest \cup {Absent}] /\ manifest'[Job] = complete
      /\ \A j \in Jobs : j # Job => manifest'[j] = manifest[j]
    BY <1>1, <1>2, <1>3, <1>4
<1>7. ExportTypes' /\ WorkShape'
    BY <1>1, <1>2, <1>5, <1>6 DEF ExportInv, ExportTypes, WorkShape
<1>8. PlanShape'
    BY <1>1, <1>2, <1>6 DEF ExportInv, PlanShape, Job
<1>9. Behind'
    BY <1>1, <1>5, <1>6 DEF ExportInv, Behind, Job
<1>10. Attempts'
  <2>1. \A task \in tasks : task.job \in Jobs
    BY DEF ExportInv, ExportTypes, Task
  <2> QED BY <1>1, <1>4, <1>5, <1>6, <2>1 DEF ExportInv, Attempts, Job
<1>11. SettledByNow'
    BY <1>4, <1>5, <1>6 DEF SettledByNow, Unsettled, Job
<1>12. Awaited'
    BY <1>1, <1>4, <1>6 DEF ExportInv, Awaited, Unsettled, Served, Job
<1> QED BY <1>7, <1>8, <1>9, <1>10, <1>11, <1>12 DEF ExportInv

LEMMA ReportKeeps == ASSUME ExportInv, Report PROVE ExportInv'
<1>1. /\ worker.step = "report" /\ WorkerTo("pdf")
      /\ UNCHANGED <<manifest, chunks, combined, thread, tasks, plan, up, used, stranded>>
    BY DEF Report
<1>2. worker \in Work /\ worker.task \in tasks /\ worker.task # Absent /\ up
    BY <1>1, AtWork
<1>3. worker' \in Work /\ worker'.step = "pdf" /\ worker'.task = worker.task
    BY <1>1, <1>2, MovedTyped DEF WorkerTo
<1>4. ExportTypes' /\ WorkShape' /\ PlanShape'
    BY <1>1, <1>2, <1>3 DEF ExportInv, ExportTypes, WorkShape, PlanShape
<1>5. Behind' /\ Attempts' /\ SettledByNow' /\ Awaited'
    BY <1>1, <1>3
    DEF ExportInv, Behind, Attempts, SettledByNow, Awaited, Unsettled, Served, Job
<1> QED BY <1>4, <1>5 DEF ExportInv

LEMMA MakePdfKeeps == ASSUME ExportInv, MakePdf PROVE ExportInv'
<1>1. worker.step = "pdf" /\ ~Unsettled(Job)
    BY DEF MakePdf, ExportInv, SettledByNow
<1> QED BY <1>1, TaskEndsKeeps DEF MakePdf

-----------------------------------------------------------------------------
(* Failures and retries *)

LEMMA ComposeFailsKeeps == ASSUME ExportInv, ComposeFails PROVE ExportInv'
BY GivenUpKeeps DEF ComposeFails, files

\* The last failure settles the job; any other leaves room for the attempt after the next.
LEMMA CountedKeeps ==
    ASSUME ExportInv, worker.step = "count", manifest[Job] # Absent,
           manifest' = [manifest EXCEPT ![Job] = Counted(@)],
           \/ IF manifest'[Job].attempts >= MaxAttempts THEN TaskEnds
              ELSE /\ worker' = [worker EXCEPT !.step = "retry", !.copy = manifest'[Job]]
                   /\ UNCHANGED tasks
           \/ WorkerTo("reconcile") /\ UNCHANGED tasks,
           UNCHANGED <<chunks, combined, thread, plan, up, used, stranded>>
    PROVE  ExportInv'
<1> DEFINE counted == Counted(manifest[Job])
<1>1. /\ worker.step = "count" /\ manifest[Job] # Absent
      /\ manifest' = [manifest EXCEPT ![Job] = counted]
      /\ UNCHANGED <<chunks, combined, thread, plan, up, used, stranded>>
    OBVIOUS
<1>2. worker \in Work /\ worker.task \in tasks /\ worker.task # Absent /\ Job \in Jobs /\ up
    BY <1>1, AtWork
<1>3. manifest \in [Jobs -> Manifest \cup {Absent}] /\ manifest[Job] \in Manifest
    BY <1>1, <1>2 DEF ExportInv, ExportTypes
<1>4. manifest[Job].attempts \in 0..MaxAttempts /\ MaxAttempts \in Nat \ {0}
      /\ manifest[Job].status \in JobStatuses
    BY <1>3, ExportAssumption DEF Manifest
<1> DEFINE tried == Smaller(manifest[Job].attempts + 1, MaxAttempts)
<1>5. tried \in 0..MaxAttempts /\ manifest[Job].attempts <= tried
      /\ (tried < MaxAttempts => tried = manifest[Job].attempts + 1)
      /\ (tried >= MaxAttempts => manifest[Job].attempts + 1 >= MaxAttempts)
    BY <1>4 DEF Smaller
<1>6. /\ counted \in Manifest /\ counted # Absent /\ counted.attempts = tried
      /\ counted.status \in {manifest[Job].status, "failed"}
      /\ manifest[Job].attempts + 1 >= MaxAttempts => counted.status = "failed"
  <2> HIDE DEF tried
  <2> DEFINE s == IF manifest[Job].attempts + 1 >= MaxAttempts THEN "failed"
                  ELSE manifest[Job].status
  <2>1. s \in JobStatuses /\ s \in {manifest[Job].status, "failed"}
        /\ (manifest[Job].attempts + 1 >= MaxAttempts => s = "failed")
    BY <1>4 DEF JobStatuses
  <2>2. counted = [manifest[Job] EXCEPT !.attempts = tried, !.status = s]
    BY <1>3 DEF Counted, Manifest, tried
  <2> HIDE DEF s, counted
  <2>3. counted \in Manifest /\ counted.attempts = tried /\ counted.status = s
    BY <1>3, <1>5, <2>1, <2>2 DEF Manifest
  <2> QED BY <2>1, <2>3, AbsentAssumption
<1> HIDE DEF counted, tried
<1>7. manifest' \in [Jobs -> Manifest \cup {Absent}] /\ manifest'[Job] = counted
      /\ \A j \in Jobs : j # Job => manifest'[j] = manifest[j]
    BY <1>1, <1>2, <1>3, <1>6
<1>8. \/ tried >= MaxAttempts /\ TaskEnds
      \/ /\ tried < MaxAttempts /\ UNCHANGED tasks
         /\ worker' = [worker EXCEPT !.step = "retry", !.copy = counted]
      \/ WorkerTo("reconcile") /\ UNCHANGED tasks
  <2>1. manifest'[Job].attempts = tried
    BY <1>6, <1>7
  <2> QED BY <1>4, <1>5, <1>7, <2>1
<1>9. \A j \in Jobs : manifest'[j] # Absent /\ manifest'[j].status \in {"planned", "complete"} =>
         manifest[j] # Absent /\ manifest'[j].status = manifest[j].status
    BY <1>1, <1>6, <1>7
<1>10. \A task \in tasks : task.job \in Jobs /\ task.attempt \in Nat
    BY ExportAssumption DEF ExportInv, ExportTypes, Task
<1>11. \A task \in tasks :
          manifest'[task.job] # Absent => task.attempt <= manifest'[task.job].attempts + 1
  <2>1. SUFFICES ASSUME NEW task \in tasks, task.job = Job PROVE task.attempt <= tried + 1
    BY <1>6, <1>7, <1>10 DEF ExportInv, Attempts
  <2>2. task.attempt <= manifest[Job].attempts + 1
    BY <1>1, <2>1 DEF ExportInv, Attempts
  <2> QED BY <1>4, <1>5, <1>10, <2>1, <2>2
<1>12. CASE tried >= MaxAttempts /\ TaskEnds
  <2>1. worker' = NoWork /\ tasks' = tasks \ {worker.task}
    BY <1>12 DEF TaskEnds
  <2>2. worker'.step = "idle" /\ worker'.task = Absent /\ worker' \in Work
    BY <2>1, NoWorkTyped DEF NoWork
  <2>3. ExportTypes'
    BY <1>1, <1>7, <2>1, <2>2 DEF ExportInv, ExportTypes
  <2>4. WorkShape'
    BY <1>1, <1>2, <2>1, <2>2 DEF ExportInv, WorkShape
  <2>5. PlanShape'
    BY <1>1, <1>2, <1>7, <2>1 DEF ExportInv, PlanShape
  <2>6. Behind'
    BY <1>1, <1>9, <2>2 DEF ExportInv, Behind
  <2>7. Attempts' /\ SettledByNow'
    BY <1>11, <2>1, <2>2 DEF Attempts, SettledByNow
  <2>8. Awaited'
    <3>1. SUFFICES ASSUME NEW j \in Jobs, up, manifest'[j] # Absent,
                          manifest'[j].status = "planned", j \notin stranded, plan.job # j
                   PROVE  Served(j)'
      BY <1>1 DEF Awaited, Unsettled
    <3>2. j # Job
      BY <1>4, <1>5, <1>6, <1>7, <1>12, <3>1
    <3>3. PICK task \in tasks : task.job = j
      BY <1>9, <3>1 DEF ExportInv, Awaited, Unsettled, Served
    <3>4. task \in tasks'
      BY <2>1, <3>2, <3>3 DEF Job
    <3> QED BY <3>3, <3>4 DEF Served
  <2> QED BY <2>3, <2>4, <2>5, <2>6, <2>7, <2>8 DEF ExportInv
<1>13. CASE /\ tried < MaxAttempts /\ UNCHANGED tasks
            /\ worker' = [worker EXCEPT !.step = "retry", !.copy = counted]
  <2>1. worker' \in Work /\ worker'.step = "retry" /\ worker'.task = worker.task
        /\ worker'.copy = counted
    BY <1>2, <1>6, <1>13 DEF Work
  <2>2. ExportTypes'
    BY <1>1, <1>7, <1>13, <2>1 DEF ExportInv, ExportTypes
  <2>3. WorkShape'
    BY <1>1, <1>2, <1>6, <1>13, <2>1 DEF ExportInv, WorkShape
  <2>4. PlanShape'
    BY <1>1, <1>2, <1>7, <1>13 DEF ExportInv, PlanShape
  <2>5. Behind'
    BY <1>1, <1>9, <2>1 DEF ExportInv, Behind
  <2>6. Attempts'
    <3>1. worker.task.attempt <= manifest[Job].attempts + 1
      BY <1>1, <1>2 DEF ExportInv, Attempts, Job
    <3>2. worker.task.attempt <= tried
      BY <1>5, <1>13, <3>1
    <3> QED BY <1>6, <1>7, <1>11, <1>13, <2>1, <3>2 DEF Attempts, Job
  <2>7. SettledByNow'
    BY <2>1 DEF SettledByNow
  <2>8. Awaited'
    BY <1>1, <1>9, <1>13 DEF ExportInv, Awaited, Unsettled, Served
  <2> QED BY <2>2, <2>3, <2>4, <2>5, <2>6, <2>7, <2>8 DEF ExportInv
<1>14. CASE WorkerTo("reconcile") /\ UNCHANGED tasks
  <2>1. worker' \in Work /\ worker'.step = "reconcile" /\ worker'.task = worker.task
    BY <1>2, <1>14, MovedTyped DEF WorkerTo
  <2>2. ExportTypes' /\ WorkShape'
    BY <1>1, <1>2, <1>7, <1>14, <2>1 DEF ExportInv, ExportTypes, WorkShape
  <2>3. PlanShape'
    BY <1>1, <1>2, <1>7, <1>14 DEF ExportInv, PlanShape
  <2>4. Behind' /\ SettledByNow'
    BY <1>1, <1>9, <2>1 DEF ExportInv, Behind, SettledByNow
  <2>5. Attempts'
    BY <1>11, <1>14, <2>1 DEF Attempts
  <2>6. Awaited'
    BY <1>1, <1>9, <1>14 DEF ExportInv, Awaited, Unsettled, Served
  <2> QED BY <2>2, <2>3, <2>4, <2>5, <2>6 DEF ExportInv
<1> QED BY <1>8, <1>12, <1>13, <1>14

LEMMA CountFailureKeeps == ASSUME ExportInv, CountFailure PROVE ExportInv'
BY CountedKeeps DEF CountFailure

LEMMA CountFailsKeeps == ASSUME ExportInv, CountFails PROVE ExportInv'
<1>1. /\ worker.step = "count" /\ WorkerTo("reconcile")
      /\ UNCHANGED <<chunks, combined, thread, tasks, plan, up, used, stranded>>
    BY DEF CountFails
<1>2. CASE UNCHANGED manifest
    BY <1>1, <1>2, GivenUpKeeps
<1>3. CASE manifest[Job] # Absent /\ manifest' = [manifest EXCEPT ![Job] = Counted(@)]
    BY <1>1, <1>3, CountedKeeps
<1> QED BY <1>2, <1>3 DEF CountFails

\* The worker leaves its task for another one of the same job.
LEMMA HandedOver ==
    ASSUME ExportInv, worker.step # "idle", NEW next \in Task, next.job = Job,
           next # worker.task, worker' = NoWork, tasks' = (tasks \cup {next}) \ {worker.task},
           manifest[Job] # Absent => next.attempt <= manifest[Job].attempts + 1,
           UNCHANGED <<manifest, chunks, combined, thread, plan, up, used, stranded>>
    PROVE  ExportInv'
<1>1. worker.task \in tasks /\ up /\ Job \in Jobs
    BY AtWork
<1>2. worker'.step = "idle" /\ worker'.task = Absent /\ worker' \in Work
    BY NoWorkTyped DEF NoWork
<1>3. ExportTypes' /\ WorkShape'
    BY <1>1, <1>2 DEF ExportInv, ExportTypes, WorkShape
<1>4. PlanShape'
    BY <1>1 DEF ExportInv, PlanShape, Job
<1>5. Behind' /\ SettledByNow'
    BY <1>2 DEF ExportInv, Behind, SettledByNow
<1>6. Attempts'
    BY <1>2 DEF ExportInv, Attempts
<1>7. Awaited'
  <2>1. SUFFICES ASSUME NEW j \in Jobs, up, Unsettled(j), j \notin stranded, plan.job # j
                 PROVE  Served(j)'
    BY DEF Awaited, Unsettled
  <2>2. CASE j = Job
    <3>1. next \in tasks'
      OBVIOUS
    <3> QED BY <2>2, <3>1 DEF Served
  <2>3. CASE j # Job
    <3>1. PICK task \in tasks : task.job = j
      BY <2>1 DEF ExportInv, Awaited, Served
    <3>2. task \in tasks'
      BY <2>3, <3>1 DEF Job
    <3> QED BY <3>1, <3>2 DEF Served
  <2> QED BY <2>2, <2>3
<1> QED BY <1>3, <1>4, <1>5, <1>6, <1>7 DEF ExportInv

\* A retry has a number of its own: it is never joined to the task that failed.
LEMMA RetryKeeps == ASSUME ExportInv, Retry PROVE ExportInv'
<1> DEFINE next == [job |-> Job, attempt |-> RetryAttempt(worker.copy)]
<1>1. /\ worker.step = "retry"
      /\ UNCHANGED <<manifest, chunks, combined, thread, plan, up, used, stranded>>
    BY DEF Retry, files
<1>2. worker \in Work /\ worker.task \in tasks /\ worker.task \in Task /\ Job \in Jobs /\ up
    BY <1>1, AtWork
<1>3. worker.copy.attempts \in 0..MaxAttempts /\ worker.task.attempt <= worker.copy.attempts
      /\ (manifest[Job] # Absent => manifest[Job].attempts = worker.copy.attempts)
    BY <1>1, <1>2 DEF ExportInv, WorkShape, Attempts, Work, Manifest
<1>4. next \in Task /\ next.job = Job /\ next.attempt = worker.copy.attempts + 1
    BY <1>2, <1>3, ExportAssumption DEF Task, RetryAttempt
<1>5. \/ tasks' = (tasks \cup {next}) \ {worker.task} /\ worker' = NoWork
      \/ WorkerTo("reconcile") /\ UNCHANGED tasks
    BY DEF Retry
<1> HIDE DEF next
<1>6. next # worker.task
  <2>1. worker.task.attempt \in Nat
    BY <1>2, ExportAssumption DEF Task
  <2> QED BY <1>3, <1>4, <2>1, ExportAssumption
<1>7. manifest[Job] # Absent => next.attempt <= manifest[Job].attempts + 1
    BY <1>3, <1>4, ExportAssumption
<1>8. CASE tasks' = (tasks \cup {next}) \ {worker.task} /\ worker' = NoWork
    BY <1>1, <1>4, <1>6, <1>7, <1>8, HandedOver
<1>9. CASE WorkerTo("reconcile") /\ UNCHANGED tasks
    BY <1>1, <1>9, GivenUpKeeps
<1> QED BY <1>5, <1>8, <1>9

LEMMA ReconcileKeeps == ASSUME ExportInv, Reconcile PROVE ExportInv'
<1> DEFINE again == [job |-> Job, attempt |-> 0]
<1>1. /\ worker.step = "reconcile" /\ worker' = NoWork
      /\ UNCHANGED <<manifest, chunks, combined, thread, plan, up, used>>
    BY DEF Reconcile, files
<1>2. worker.task \in tasks /\ Job \in Jobs /\ up
    BY <1>1, AtWork
<1>3. again \in Task /\ again.job = Job /\ again.attempt = 0
    BY <1>2, ExportAssumption DEF Task
<1>4. \/ again # worker.task /\ tasks' = (tasks \cup {again}) \ {worker.task} /\ UNCHANGED stranded
      \/ tasks' = tasks \ {worker.task} /\ stranded' = stranded \cup {Job}
    BY DEF Reconcile
<1> HIDE DEF again
<1>5. manifest[Job] # Absent => again.attempt <= manifest[Job].attempts + 1
    BY <1>2, <1>3, ExportAssumption DEF ExportInv, ExportTypes, Manifest
<1>6. CASE again # worker.task /\ tasks' = (tasks \cup {again}) \ {worker.task}
           /\ UNCHANGED stranded
    BY <1>1, <1>3, <1>5, <1>6, HandedOver
<1>7. CASE tasks' = tasks \ {worker.task} /\ stranded' = stranded \cup {Job}
    BY <1>1, <1>7, TaskEndsKeeps DEF TaskEnds
<1> QED BY <1>4, <1>6, <1>7

-----------------------------------------------------------------------------
(* The daemon dies and starts; the thread is deleted *)

LEMMA DaemonDiesKeeps == ASSUME ExportInv, DaemonDies PROVE ExportInv'
<1>1. /\ up' = FALSE /\ tasks' = {} /\ worker' = NoWork /\ plan' = NoPlan
      /\ UNCHANGED <<manifest, chunks, combined, thread, used, stranded>>
    BY DEF DaemonDies, files
<1>2. worker'.step = "idle" /\ worker'.task = Absent /\ worker' \in Work
    BY <1>1, NoWorkTyped DEF NoWork
<1>3. plan'.step = "none" /\ plan' \in
         [job : Jobs \cup {Absent}, step : {"none", "manifest", "progress", "wake"}]
    BY <1>1 DEF NoPlan
<1>4. ExportTypes' /\ WorkShape' /\ PlanShape'
    BY <1>1, <1>2, <1>3 DEF ExportInv, ExportTypes, WorkShape, PlanShape
<1>5. Behind' /\ Attempts' /\ SettledByNow' /\ Awaited'
    BY <1>1, <1>2 DEF ExportInv, Behind, Attempts, SettledByNow, Awaited
<1> QED BY <1>4, <1>5 DEF ExportInv

\* A daemon that starts sees to every job that is not settled, or gives it up.
LEMMA RecoverKeeps == ASSUME ExportInv, Recover PROVE ExportInv'
<1>1. /\ ~up /\ up' = TRUE
      /\ UNCHANGED <<manifest, chunks, combined, thread, worker, plan, used>>
    BY DEF Recover, files
<1>2. PICK readable \in SUBSET {j \in Jobs : Unsettled(j)}, woken \in SUBSET Jobs :
         /\ woken \subseteq readable
         /\ tasks' = {[job |-> j, attempt |-> 0] : j \in woken}
         /\ stranded' = {j \in Jobs : Unsettled(j)} \ woken
    BY DEF Recover
<1>3. worker = NoWork /\ plan = NoPlan /\ worker.step = "idle" /\ worker.task = Absent
      /\ plan.step = "none"
    BY <1>1 DEF ExportInv, WorkShape, NoWork, NoPlan
<1>4. \A task \in tasks' : task \in Task /\ task.attempt = 0 /\ Unsettled(task.job)
    BY <1>2, ExportAssumption DEF Task
<1>5. ExportTypes' /\ WorkShape'
    BY <1>1, <1>3, <1>4 DEF ExportInv, ExportTypes, WorkShape
<1>6. PlanShape'
    BY <1>1, <1>3, <1>4 DEF ExportInv, PlanShape, Unsettled, Task
<1>7. Behind' /\ SettledByNow'
    BY <1>1, <1>3 DEF ExportInv, Behind, SettledByNow
<1>8. Attempts'
  <2>1. \A task \in tasks' : task.job \in Jobs /\ (manifest[task.job] # Absent =>
           manifest[task.job].attempts \in Nat)
    BY <1>4, ExportAssumption DEF ExportInv, ExportTypes, Task, Manifest
  <2> QED BY <1>1, <1>3, <1>4, <2>1 DEF Attempts
<1>9. Awaited'
  <2>1. SUFFICES ASSUME NEW j \in Jobs, Unsettled(j), j \notin stranded' PROVE Served(j)'
    BY <1>1 DEF Awaited, Unsettled
  <2>2. j \in woken
    BY <1>2, <2>1
  <2>3. [job |-> j, attempt |-> 0] \in tasks'
    BY <1>2, <2>2
  <2> QED BY <2>3 DEF Served
<1> QED BY <1>5, <1>6, <1>7, <1>8, <1>9 DEF ExportInv

LEMMA DeleteOutputKeeps == ASSUME ExportInv, DeleteOutput PROVE ExportInv'
<1>1. /\ thread' = "deleting" /\ manifest' = [j \in Jobs |-> Absent]
      /\ chunks' = [j \in Jobs |-> {}] /\ combined' = [j \in Jobs |-> Absent]
      /\ UNCHANGED <<tasks, worker, plan, up, used, stranded>>
    BY DEF DeleteOutput
<1>2. ExportTypes' /\ WorkShape' /\ PlanShape'
    BY <1>1 DEF ExportInv, ExportTypes, WorkShape, PlanShape
<1>3. \A task \in tasks : manifest'[task.job] = Absent
    BY <1>1 DEF ExportInv, ExportTypes, Task
<1>4. worker.step # "idle" => Job \in Jobs
    BY AtWork
<1>5. Behind' /\ Attempts' /\ SettledByNow' /\ Awaited'
    BY <1>1, <1>3, <1>4
    DEF ExportInv, Behind, Attempts, SettledByNow, Awaited, Unsettled, Job
<1> QED BY <1>2, <1>5 DEF ExportInv

LEMMA DeleteRecordsKeeps == ASSUME ExportInv, DeleteRecords PROVE ExportInv'
<1>1. /\ thread' = "deleted"
      /\ UNCHANGED <<manifest, chunks, combined, tasks, worker, plan, up, used, stranded>>
    BY DEF DeleteRecords, files
<1>2. ExportTypes' /\ WorkShape' /\ PlanShape'
    BY <1>1 DEF ExportInv, ExportTypes, WorkShape, PlanShape
<1>3. Behind' /\ Attempts' /\ SettledByNow' /\ Awaited'
    BY <1>1
    DEF ExportInv, Behind, Attempts, SettledByNow, Awaited, Unsettled, Served, Job
<1> QED BY <1>2, <1>3 DEF ExportInv

-----------------------------------------------------------------------------
(* The theorems *)

LEMMA InitExport == ExportInit => ExportInv
<1> SUFFICES ASSUME ExportInit PROVE ExportInv
    OBVIOUS
<1>1. ExportTypes
    BY NoWorkTyped DEF ExportInit, ExportTypes, NoPlan
<1>2. WorkShape /\ PlanShape
    BY DEF ExportInit, WorkShape, PlanShape, NoWork, NoPlan
<1>3. Behind /\ Attempts /\ SettledByNow /\ Awaited
    BY DEF ExportInit, Behind, Attempts, SettledByNow, Awaited, Unsettled, NoWork
<1> QED BY <1>1, <1>2, <1>3 DEF ExportInv

LEMMA NextExport == ExportInv /\ [ExportNext]_exportVars => ExportInv'
<1> SUFFICES ASSUME ExportInv, [ExportNext]_exportVars PROVE ExportInv'
    OBVIOUS
<1>1. CASE UNCHANGED exportVars
  <2>1. UNCHANGED <<manifest, chunks, combined, thread, tasks, worker, plan, up, used,
                    stranded>>
    BY <1>1 DEF exportVars, files
  <2> QED BY <2>1 DEF ExportInv, ExportTypes, WorkShape, PlanShape, Behind, Attempts, SettledByNow,
                      Awaited, Unsettled, Served, Job
<1>2. CASE Process
    BY <1>2, StartTaskKeeps, ComposeKeeps, ReadKeeps, WriteChunkKeeps, CombineKeeps, SettleKeeps,
       ReportKeeps, MakePdfKeeps, CountFailureKeeps, CountFailsKeeps, RetryKeeps, ReconcileKeeps
    DEF Process
<1>3. CASE Planning
    BY <1>3, PlanManifestKeeps, PlanProgressKeeps, PlanWakeKeeps DEF Planning
<1> QED BY <1>1, <1>2, <1>3, PlanReadKeeps, PlanFailsKeeps, UnreadableKeeps, ComposeFailsKeeps, DaemonDiesKeeps,
           RecoverKeeps, DeleteOutputKeeps, DeleteRecordsKeeps DEF ExportNext

\* Manifests, stored chunks, tasks and the worker fit together whatever fails, dies or is
\* deleted (export.py, process; output.py, compose_with_runner).
THEOREM ExportsFitTogether == ExportSpec => []ExportInv
<1>1. ExportInit => ExportInv
    BY InitExport
<1>2. ExportInv /\ [ExportNext]_exportVars => ExportInv'
    BY NextExport
<1> QED BY <1>1, <1>2, PTL DEF ExportSpec

\* A complete job has all of its chunks in its document, every step of it under exactly one
\* heading and the headings in order, for any number of steps, segments and windows and any
\* answer of the planning agent (output.py, _finalize_job, _materialize_section_plan).
THEOREM OutputIsWhole == ExportSpec => []WholeOutput
<1>1. ExportInv => WholeOutput
  <2>1. SUFFICES ASSUME ExportInv, NEW j \in Jobs, thread = "stored", manifest[j] # Absent
        PROVE  /\ manifest[j].status = "complete" => combined[j] = Chunks
               /\ \A position \in Positions :
                     Cardinality({k \in 1..Len(manifest[j].sections) :
                        manifest[j].sections[k].start <= position
                        /\ position <= manifest[j].sections[k].end}) = 1
               /\ \A c \in Chunks \ {1} :
                     SectionFor(manifest[j].sections, FirstStep(c - 1))
                        <= SectionFor(manifest[j].sections, FirstStep(c))
    BY DEF WholeOutput
  <2>2. manifest[j].status = "complete" => combined[j] = Chunks
    BY <2>1 DEF ExportInv, Behind
  <2> DEFINE s == manifest[j].sections
  <2>3. Partitions(s)
    <3>1. s \in SectionPlans
      BY <2>1 DEF ExportInv, ExportTypes, Manifest
    <3> QED BY <3>1, PlansPartition
  <2> HIDE DEF s
  <2>4. ASSUME NEW position \in Positions
        PROVE  Cardinality({k \in 1..Len(s) :
                  s[k].start <= position /\ position <= s[k].end}) = 1
    <3>1. PICK k \in 1..Len(s) : Holding(s, position) = {k}
      BY <2>3, OneHolds
    <3>2. Cardinality({k}) = 1
      BY FS_Singleton
    <3>3. Cardinality(Holding(s, position)) = 1
      BY <3>1, <3>2
    <3> QED BY <3>3 DEF Holding
  <2>5. \A c \in Chunks \ {1} : SectionFor(s, FirstStep(c - 1)) <= SectionFor(s, FirstStep(c))
    BY <2>3, ChunksInOrder, HeadingsFollow
  <2> QED BY <2>2, <2>4, <2>5 DEF s
<1> QED BY <1>1, ExportsFitTogether, PTL

\* While the daemon runs, a job that is not settled has a task, unless its wake-up was given
\* up: a retry has an identity no admitted task has, so it is not joined to the one that is
\* about to end (export.py, _handle_composition_failure).
THEOREM JobsAreAwaited == ExportSpec => []Awaited
<1>1. ExportInv => Awaited
    BY DEF ExportInv
<1> QED BY <1>1, ExportsFitTogether, PTL

-----------------------------------------------------------------------------
(* What the chunks cost *)

\* A chunk in hand is one that is not stored yet.
SpentInv ==
    /\ ExportInv /\ spent \in Nat /\ raised \in Nat /\ IsFiniteSet(Stored)
    /\ worker.step = "write" => worker.chunk \notin chunks[Job]
    /\ FailureCostsOneCall

LEMMA Counts == ASSUME SpentInv PROVE spent \in Nat /\ raised \in Nat
BY DEF SpentInv

\* A step that stores nothing and calls nobody, or whose call fails and is counted.
LEMMA NothingLost ==
    ASSUME SpentInv, ExportInv', chunks' = chunks, thread' = "stored" => thread = "stored",
           worker'.step # "write" \/ worker' = worker,
           raised' \in Nat,
           (spent' = spent /\ raised <= raised') \/ (spent' = spent + 1 /\ raised < raised'),
           worker.step = "write" => spent' = spent /\ (worker' = worker \/ raised < raised')
    PROVE  SpentInv'
<1>1. UNCHANGED Stored
    BY DEF Stored
<1>2. Cardinality(Stored) \in Nat
    BY FS_CardinalityType DEF SpentInv
<1>3. IsFiniteSet(Stored')
    BY <1>1 DEF SpentInv
<1>4. worker'.step = "write" => worker'.chunk \notin chunks'[Job']
    BY DEF SpentInv, Job
<1>5. FailureCostsOneCall'
  <2>1. SUFFICES ASSUME thread' = "stored"
        PROVE  spent' <= Cardinality(Stored) + raised' + (IF worker'.step = "write" THEN 1 ELSE 0)
    BY <1>1 DEF FailureCostsOneCall
  <2>2. /\ spent \in Nat /\ raised \in Nat /\ raised' \in Nat /\ spent' \in Nat
        /\ spent <= Cardinality(Stored) + raised + (IF worker.step = "write" THEN 1 ELSE 0)
    BY <2>1 DEF SpentInv, FailureCostsOneCall
  <2>3. CASE worker.step = "write" /\ UNCHANGED worker
    BY <1>2, <2>2, <2>3
  <2>4. CASE worker.step = "write" /\ ~UNCHANGED worker
    BY <1>2, <2>2, <2>4
  <2>5. CASE worker.step # "write"
    <3>1. worker'.step # "write"
      BY <2>5
    <3>2. spent <= Cardinality(Stored) + raised
      BY <1>2, <2>2, <2>5
    <3>3. spent' <= Cardinality(Stored) + raised'
      BY <1>2, <2>2, <3>2
    <3> QED BY <3>1, <3>3, <1>2, <2>2
  <2> QED BY <2>3, <2>4, <2>5
<1> QED BY <1>3, <1>4, <1>5 DEF SpentInv

LEMMA ComposeSpends ==
    ASSUME SpentInv, ExportInv', NEW c \in Chunks, Compose(c) PROVE SpentInv'
<1>1. /\ worker.step = "chunk" /\ worker.chunk = c /\ UNCHANGED <<chunks, thread, raised>>
    BY DEF Compose, AtChunk, files
<1>2. worker \in Work
    BY <1>1, AtWork DEF SpentInv
<1>3. CASE worker' = [worker EXCEPT !.chunk = c + 1] /\ UNCHANGED spent
  <2>1. worker'.step = "chunk"
    <3>1. \A d : [worker EXCEPT !.chunk = d].step = worker.step
      BY <1>2 DEF Work
    <3> QED BY <1>1, <1>3, <3>1
  <2>2. raised \in Nat /\ raised' \in Nat /\ raised <= raised'
    BY <1>1, Counts
  <2> QED BY <1>1, <1>3, <2>1, <2>2, NothingLost
<1>4. CASE c \notin chunks[Job] /\ WorkerTo("write") /\ spent' = spent + 1
  <2>1. worker'.step = "write" /\ worker'.task = worker.task /\ worker'.chunk = c
    BY <1>1, <1>2, <1>4, MovedTyped DEF WorkerTo
  <2>2. UNCHANGED Stored /\ Cardinality(Stored) \in Nat
    BY <1>1, FS_CardinalityType DEF Stored, SpentInv
  <2>3. worker'.chunk \notin chunks'[Job']
    BY <1>1, <1>4, <2>1 DEF Job
  <2>4. FailureCostsOneCall'
    BY <1>1, <1>4, <2>1, <2>2 DEF SpentInv, FailureCostsOneCall
  <2> QED BY <1>1, <1>4, <2>2, <2>3, <2>4 DEF SpentInv
<1> QED BY <1>3, <1>4 DEF Compose

\* The call for the chunk in hand was not made in vain.
LEMMA WriteChunkStores == ASSUME SpentInv, ExportInv', WriteChunk PROVE SpentInv'
<1>1. /\ worker.step = "write" /\ UNCHANGED <<thread, raised, spent>>
      /\ worker' = [worker EXCEPT !.step = "chunk", !.chunk = @ + 1]
      /\ chunks' = [chunks EXCEPT ![Job] = @ \cup {worker.chunk}]
    BY DEF WriteChunk
<1>2. worker \in Work /\ Job \in Jobs
    BY <1>1, AtWork DEF SpentInv
<1>3. /\ worker.chunk \in Chunks /\ worker.chunk \notin chunks[Job]
      /\ chunks \in [Jobs -> SUBSET Chunks]
    BY <1>1 DEF SpentInv, ExportInv, WorkShape, ExportTypes
<1>4. worker'.step = "chunk"
    BY <1>1, <1>2 DEF Work
<1> DEFINE place == <<Job, worker.chunk>>
<1>5. place \in Jobs \X Chunks /\ place[1] = Job /\ place[2] = worker.chunk
    BY <1>2, <1>3
<1>6. place \notin Stored
    BY <1>3, <1>5 DEF Stored
<1>7. Stored' = Stored \cup {place}
  <2>1. ASSUME NEW p \in Jobs \X Chunks
        PROVE  p[2] \in chunks'[p[1]] <=> p[2] \in chunks[p[1]] \/ p = place
    <3>1. p = <<p[1], p[2]>> /\ p[1] \in Jobs /\ p[2] \in Chunks
      OBVIOUS
    <3>2. CASE p[1] # Job
      BY <1>1, <1>2, <1>3, <3>1, <3>2
    <3>3. CASE p[1] = Job
      <4>1. chunks'[p[1]] = chunks[Job] \cup {worker.chunk}
        BY <1>1, <1>2, <1>3, <3>3
      <4> QED BY <3>1, <3>3, <4>1
    <3> QED BY <3>2, <3>3
  <2> HIDE DEF place
  <2> QED BY <1>5, <2>1 DEF Stored
<1> HIDE DEF place
<1>8. /\ IsFiniteSet(Stored') /\ Cardinality(Stored) \in Nat
      /\ Cardinality(Stored') = Cardinality(Stored) + 1
    BY <1>6, <1>7, FS_AddElement, FS_CardinalityType DEF SpentInv
<1>9. FailureCostsOneCall'
    BY <1>1, <1>4, <1>8 DEF SpentInv, FailureCostsOneCall
<1> QED BY <1>1, <1>4, <1>8, <1>9 DEF SpentInv

\* The calls made beyond those whose chunks are stored are at most the failures.
LEMMA ComposeFailsSpends == ASSUME SpentInv, ExportInv', ComposeFails PROVE SpentInv'
<1>1. /\ worker.step \in {"chunk", "write", "settle", "report", "pdf"}
      /\ raised' = raised + 1 /\ WorkerTo("count") /\ UNCHANGED <<chunks, thread>>
    BY DEF ComposeFails, CallFails, files
<1>2. spent' \in {spent, spent + 1} /\ (worker.step = "write" => UNCHANGED spent)
    BY DEF ComposeFails
<1>3. worker'.step = "count"
  <2>1. worker \in Work
    BY <1>1, AtWork DEF SpentInv
  <2> QED BY <1>1, <2>1, MovedTyped DEF WorkerTo
<1>4. raised \in Nat /\ raised' \in Nat /\ raised < raised' /\ raised <= raised'
    BY <1>1, Counts
<1> QED BY <1>1, <1>2, <1>3, <1>4, NothingLost

LEMMA DeathSpends == ASSUME SpentInv, ExportInv', DaemonDies PROVE SpentInv'
<1>1. /\ raised' = raised + 1 /\ worker' = NoWork /\ UNCHANGED <<chunks, thread, spent>>
    BY DEF DaemonDies, CallFails, files
<1>2. worker'.step = "idle"
    BY <1>1 DEF NoWork
<1>3. raised \in Nat /\ raised' \in Nat /\ raised < raised' /\ raised <= raised'
    BY <1>1, Counts
<1> QED BY <1>1, <1>2, <1>3, NothingLost

LEMMA DeleteOutputSpends == ASSUME SpentInv, ExportInv', DeleteOutput PROVE SpentInv'
<1>1. /\ thread' = "deleting" /\ chunks' = [j \in Jobs |-> {}]
      /\ UNCHANGED <<worker, raised, spent>>
    BY DEF DeleteOutput
<1>2. Stored' = {}
    BY <1>1 DEF Stored
<1>3. worker.step = "write" => Job \in Jobs
    BY AtWork DEF SpentInv
<1> QED BY <1>1, <1>2, <1>3, FS_EmptySet DEF SpentInv, FailureCostsOneCall, Job

\* A start skips no less than nobody.
LEMMA RecoverSpends == ASSUME SpentInv, ExportInv', Recover PROVE SpentInv'
<1>1. UNCHANGED <<chunks, thread, worker, spent>> /\ worker.step # "write" /\ ~up
    BY DEF Recover, files, SpentInv, ExportInv, WorkShape, NoWork
<1>2. raised' \in Nat /\ raised <= raised'
  <2>1. raised' \in raised..MaxRaised
    BY DEF Recover
  <2> QED BY <2>1, Counts, ExportAssumption
<1> QED BY <1>1, <1>2, NothingLost

\* The steps of the worker that leave calls and chunks alone.
LEMMA WorkerMoves ==
    ASSUME SpentInv, ExportInv',
           \/ \E task \in tasks : StartTask(task)
           \/ Read \/ Unreadable \/ Combine \/ Settle \/ Report \/ MakePdf
           \/ CountFailure \/ CountFails \/ Retry \/ Reconcile
    PROVE  SpentInv'
<1>1. UNCHANGED <<chunks, thread, spent>> /\ raised' \in {raised, raised + 1}
    BY DEF StartTask, Read, Unreadable, Combine, Settle, Report, MakePdf, CountFailure, CountFails,
           Retry, Reconcile, CallFails, files
<1>2. worker.step # "write"
    BY DEF StartTask, Read, Unreadable, Combine, AtChunk, Settle, Report, MakePdf, CountFailure,
           CountFails, Retry, Reconcile, SpentInv, ExportInv, WorkShape
<1>3. worker \in Work
    BY DEF SpentInv, ExportInv, ExportTypes
<1>4. worker'.step # "write"
  <2>1. NoWork.step = "idle" /\ \A task : [NoWork EXCEPT !.task = task, !.step = "read"].step = "read"
    BY DEF NoWork
  <2>2. \A s \in {"settle", "report", "pdf", "count", "reconcile"} :
           [worker EXCEPT !.step = s].step = s
    BY <1>3 DEF Work
  <2>3. \A m : [worker EXCEPT !.step = "chunk", !.copy = m].step = "chunk"
               /\ [worker EXCEPT !.step = "retry", !.copy = m].step = "retry"
    BY <1>3 DEF Work
  <2>4. CASE (\E task \in tasks : StartTask(task)) \/ Unreadable \/ MakePdf
    BY <2>1, <2>4 DEF StartTask, Unreadable, MakePdf, TaskEnds
  <2>6. CASE Read
    BY <2>1, <2>2, <2>3, <2>6 DEF Read, WorkerTo, TaskEnds
  <2>7. CASE Combine \/ Settle \/ Report
    BY <2>2, <2>7 DEF Combine, Settle, Report, WorkerTo
  <2>5. CASE CountFailure \/ CountFails \/ Retry \/ Reconcile
    BY <2>1, <2>2, <2>3, <2>5 DEF CountFailure, CountFails, Retry, Reconcile, WorkerTo, TaskEnds
  <2> QED BY <2>4, <2>5, <2>6, <2>7
<1>5. raised \in Nat /\ raised' \in Nat /\ raised <= raised'
    BY <1>1, Counts
<1> QED BY <1>1, <1>2, <1>4, <1>5, NothingLost

LEMMA OthersMove ==
    ASSUME SpentInv, ExportInv',
           (\E j \in Jobs : PlanRead(j)) \/ Planning \/ PlanFails \/ DeleteRecords
    PROVE  SpentInv'
<1>1. /\ UNCHANGED <<chunks, worker, spent>> /\ raised' \in {raised, raised + 1}
      /\ thread' = "stored" => thread = "stored"
    BY DEF PlanRead, Planning, PlanManifest, PlanProgress, PlanWake, PlanFails, DeleteRecords,
           CallFails, files
<1>2. raised \in Nat /\ raised' \in Nat /\ raised <= raised'
    BY <1>1, Counts
<1> QED BY <1>1, <1>2, NothingLost

LEMMA NextSpends == SpentInv /\ [ExportNext]_exportVars => SpentInv'
<1> SUFFICES ASSUME SpentInv, [ExportNext]_exportVars PROVE SpentInv'
    OBVIOUS
<1>1. ExportInv'
    BY NextExport DEF SpentInv
<1>2. CASE UNCHANGED exportVars
  <2>1. UNCHANGED <<chunks, worker, spent, raised, thread>>
    BY <1>2 DEF exportVars, files
  <2>2. raised \in Nat /\ raised' \in Nat /\ raised <= raised'
    BY <2>1, Counts
  <2> QED BY <1>1, <2>1, <2>2, NothingLost
<1>3. CASE Process
    BY <1>1, <1>3, ComposeSpends, WriteChunkStores, WorkerMoves DEF Process
<1> QED BY <1>1, <1>2, <1>3, WorkerMoves, OthersMove, ComposeFailsSpends, DeathSpends, RecoverSpends,
           DeleteOutputSpends DEF ExportNext

\* Over all attempts, reconciliations and restarts the agent is called at most once more than
\* chunks are stored for each failure and each death, for any number of jobs and chunks
\* (output.py, compose_with_runner).
THEOREM FailuresCostOneCall == ExportSpec => []FailureCostsOneCall
<1>1. ExportInit => SpentInv
  <2> SUFFICES ASSUME ExportInit PROVE SpentInv
    OBVIOUS
  <2>1. Stored = {}
    BY DEF ExportInit, Stored
  <2>2. spent = 0 /\ raised = 0 /\ worker.step = "idle"
    BY DEF ExportInit, NoWork
  <2> QED BY <2>1, <2>2, InitExport, FS_EmptySet DEF SpentInv, FailureCostsOneCall
<1>2. SpentInv /\ [ExportNext]_exportVars => SpentInv'
    BY NextSpends
<1>3. SpentInv => FailureCostsOneCall
    BY DEF SpentInv
<1> QED BY <1>1, <1>2, <1>3, PTL DEF ExportSpec
=============================================================================
