----------------------- MODULE ReasonThreadsProperties -----------------------
(***************************************************************************)
(* What ReasonThreads is meant to guarantee, and what is said of it.       *)
(***************************************************************************)
EXTENDS ReasonThreads

Active(t) == Exists(t) /\ threads[t].status = "active"
Attempted(t) == at[Daemon].step = "think" /\ at[Daemon].thread = t

\* What a thread has noted and what the user was told come from steps that are
\* stored, although processes overwrite each other's threads and die between
\* any two writes: the step is saved with the thread and before the notice. Only
\* a deletion takes the steps away.
NothingUnstored ==
    /\ \A t \in Threads \ erased : Exists(t) => threads[t].notes \subseteq steps[t]
    /\ erased = {} => inbox \subseteq UNION {steps[t] : t \in Threads}

\* The oldest active thread is advanced again and again, although agents fail,
\* the daemon dies and users save older copies of the thread.
OldestServed ==
    \A t \in Threads :
       []<>(Attempted(t) \/ ~Active(t) \/ \E older \in Threads : older < t /\ Active(older))

-----------------------------------------------------------------------------
(* The inductive invariant behind NothingUnstored. *)

\* A process at work is about a thread, and what it is about to save is a thread:
\* a user has its copy before the agent thinks, the daemon after. Only a deletion
\* looks for steps.
ProcessShape ==
    \A p \in Procs :
       /\ at[p].step # "idle" => at[p].thread \in Threads
       /\ at[p].step \in {"save", "coolSave"} => at[p].copy # None
       /\ p # Daemon /\ at[p].step = "think" => at[p].copy # None
       /\ at[p].step \in {"find", "sweep"} => at[p].thread \in erased

\* What a copy has noted is stored, whatever the thread has become since.
CopiesStored ==
    \A p \in Procs :
       at[p].step # "idle" /\ at[p].copy # None /\ at[p].thread \notin erased
       => at[p].copy.notes \subseteq steps[at[p].thread]

\* The step a process is about to publish is stored.
NoticeStored ==
    \A p \in Procs :
       at[p].step = "notify" /\ at[p].thread \notin erased
       => Tracked(at[p].new) \subseteq steps[at[p].thread]

\* The inductive invariant behind NothingUnstored.
ReasonInv == TypeOK /\ ProcessShape /\ CopiesStored /\ NoticeStored /\ NothingUnstored

-----------------------------------------------------------------------------
(* Said of the code, and not true of it: TLC has a counterexample to each. *)

\* reason.md: the scheduler is invoked "to advance eligible threads".
EveryThreadServed ==
    \A t \in Threads : []<>(Attempted(t) \/ ~Active(t))

\* reason.md, State Transitions: the status of a thread changes along the table.
StatusAlongTable ==
    [][\A t \in Threads :
          Exists(t) /\ threads'[t] # None /\ threads'[t].status # threads[t].status
          => <<threads[t].status, threads'[t].status>> \in
                {<<"active", "paused">>, <<"paused", "active">>,
                 <<"active", "resolved">>, <<"paused", "resolved">>,
                 <<"active", "archived">>, <<"paused", "archived">>,
                 <<"resolved", "archived">>}]_vars

\* reason.md: delete "permanently removes a thread and all its data"; "This
\* operation is irreversible".
DeletedForGood ==
    [][\A t \in Threads : t <= started /\ ~Exists(t) => threads'[t] = None]_vars

\* advancer.py: "new_findings: add new ideas to active_items": what a stored
\* step found is in its thread.
NotesComplete ==
    \A t \in Threads : Exists(t) => steps[t] \subseteq threads[t].notes

\* inbox.md: "Every non-`no_change` Reason step creates one `kind=reason_step`
\* item", at the latest when nobody is at work any more.
EveryStepTold ==
    (\A p \in Procs : at[p].step = "idle") =>
       \A t \in Threads : steps[t] \cap telling \subseteq inbox

\* reason.md, Active Thread Cap: "Default cap: 5 active threads".
ActiveCap == Cardinality({t \in Threads : Active(t)}) <= 5
=============================================================================
