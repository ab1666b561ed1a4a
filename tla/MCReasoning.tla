----------------------------- MODULE MCReasoning -----------------------------
(* Instances of ReasonThreads and ReasonExport for TLC: the daemon and a user  *)
(* at two threads, or two export jobs of two steps in two chunks. A behaviour  *)
(* is of one of the two: no action of one reads what the other writes, but for *)
(* the deletion of a thread, which both have.                                  *)
EXTENDS ReasonThreadsProperties, ReasonExport

CONSTANT j1

VARIABLE part

allVars == <<vars, exportVars, part>>

OfThreads(A) == part = "threads" /\ A /\ UNCHANGED <<exportVars, part>>
OfExports(A) == part = "exports" /\ A /\ UNCHANGED <<vars, part>>

MCInit == Init /\ ExportInit /\ part \in {"threads", "exports"}

MCNext == OfThreads(Next) \/ OfExports(ExportNext)

\* The fairness of the two specifications.
MCSpec ==
    /\ MCInit /\ [][MCNext]_allVars
    /\ WF_allVars(OfThreads(Checks)) /\ WF_allVars(OfThreads(Tick))
    /\ WF_allVars(OfExports(Process)) /\ WF_allVars(OfExports(Planning))
    /\ WF_allVars(OfExports(Recover))

\* The first job to be planned is called j1. A thread is deleted with one job or none.
JobsInOrder ==
    /\ used' = {} \/ j1 \in used'
    /\ thread' # "stored" => used' \subseteq {j1}
=============================================================================
