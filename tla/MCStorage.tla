------------------------------ MODULE MCStorage ------------------------------
(* Instances of Storage and Records for TLC: two threads of one process, and a *)
(* second process that repairs and edits; or one record of every form; or the   *)
(* audits. A behaviour is of one of the three: none bears on another.           *)
EXTENDS StorageProperties, Records, AuditContracts

CONSTANTS p1, p2, t1, t2, t3

VARIABLE part

MCProcOf == [t \in {t1, t2, t3} |-> IF t = t3 THEN p2 ELSE p1]

\* Four messages: two curated and a plan for the third, or a plan for what is curated
\* already, or no plan.
Conversation(cursor, plan) ==
    [from |-> 0, to |-> 4, cursor |-> cursor, plan |-> plan, observations |-> {}]
MCConversations ==
    {Conversation(2, Absent), Conversation(2, Range2(2, 3)), Conversation(3, Range2(1, 2))}

MCNames == DOMAIN Forms

MCInit ==
    /\ StorageInit /\ RecordInit /\ AuditInit /\ part \in {"rows", "records", "audits"}
    /\ part # "records" => form = "EmptyPayload"
    /\ part # "rows" => file = Absent
MCNext ==
    /\ part' = part
    /\ \/ part = "rows" /\ StorageNext /\ UNCHANGED <<recordVars, auditVars>>
       \/ part = "records" /\ RecordNext /\ UNCHANGED <<databaseVars, auditVars>>
       \/ part = "audits" /\ AuditNext /\ UNCHANGED <<databaseVars, recordVars>>
MCSpec == MCInit /\ [][MCNext]_<<databaseVars, recordVars, auditVars, part>>
=============================================================================
