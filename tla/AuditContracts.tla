---------------------------- MODULE AuditContracts ----------------------------
(***************************************************************************)
(* Audits: after the program has done something it tells it in the log, and *)
(* every event has a contract (runtime/audit/definition.py): which metadata *)
(* it has, whether it tells of an error, and whether it has a duration. The *)
(* contract is checked where the audit is told, after what it tells of was  *)
(* done, and an audit it refuses is raised there as an AuditSchemaError. So *)
(* every audit that an operation may tell must fit its contract. The        *)
(* lifecycle commands of a daemon are followed step by step, since what     *)
(* they tell is put together from what several probes saw.                  *)
(***************************************************************************)
EXTENDS RecordKinds

-----------------------------------------------------------------------------
(* Kinds of metadata *)

Positive == Only({"one", "int", "huge"})
Zero == Only({"zero"})
OrNull(kind) == ReadAs(kind, {"null"}, "null")
Untold == Only({"null"})

\* The three policies: the event tells of no failure, of one, of how long it took.
Plain(metadata) == Exact(metadata ++ [error |-> Untold, duration |-> Untold])
Failed(metadata) == Exact(metadata ++ [error |-> NonEmpty, duration |-> Untold])
Timed(metadata) == Exact(metadata ++ [error |-> Untold, duration |-> Count])
NoMetadata == [f \in {} |-> NonEmpty]

\* Fields that are all read in one way.
Each(names, kind) == [f \in names |-> kind]

-----------------------------------------------------------------------------
(* Contracts: the lifecycle of a daemon (daemon/audit.py) *)

DaemonPhases == {"stopped", "owned_unready", "ready", "inconsistent", "unknown"}
Phase == Word(DaemonPhases)
Pid == OrNull(Positive)
TransitionAudit(outcomes, phase) ==
    [outcome |-> Word(outcomes), changed |-> Bool, from_phase |-> Phase,
     to_phase |-> Word({phase}), pid |-> Pid, socket |-> NonEmpty]
StartCompleted == TransitionAudit({"started", "already_ready"}, "ready")
StopCompleted == TransitionAudit({"stopped", "already_stopped"}, "stopped")
StartFailure ==
    [reason |-> Word({"spawn_failed", "status_failed", "owner_unready", "process_exited", "timeout"}),
     phase |-> Phase, pid |-> Pid, socket |-> NonEmpty, exit_code |-> OrNull(Integer)]
StopFailure ==
    [reason |-> Word({"request_failed", "ownership_check_failed", "timeout"}),
     phase |-> Phase, pid |-> Pid, socket |-> NonEmpty, owner_active |-> OrNull(Bool)]
RestartCompleted ==
    [stop_outcome |-> Word({"stopped", "already_stopped"}), stop_changed |-> Bool,
     stop_from_phase |-> Phase, stop_to_phase |-> Word({"stopped"}),
     start_outcome |-> Word({"started", "already_ready"}), start_changed |-> Bool,
     start_from_phase |-> Word({"stopped"}), start_to_phase |-> Word({"ready"}),
     pid |-> Pid, socket |-> NonEmpty]
Staged(failure, stage) == failure ++ [stage |-> Word({stage})]
RecoveredMetadata == Each({"socket", "pid"}, Bool)

\* restart_failed has the fields of the stage that failed; it stands here as two events.
LifecycleAudits ==
    [instance_lock_contended |-> Failed(NoMetadata), started |-> Plain(NoMetadata), stopped |-> Plain(NoMetadata),
     runtime_metadata_recovered |-> Plain(RecoveredMetadata),
     start_requested |-> Plain(NoMetadata), stop_requested |-> Plain(NoMetadata),
     restart_requested |-> Plain(NoMetadata),
     start_completed |-> Plain(StartCompleted), stop_completed |-> Plain(StopCompleted),
     restart_completed |-> Plain(RestartCompleted),
     start_failed |-> Failed(StartFailure), stop_failed |-> Failed(StopFailure),
     restart_failed_stop |-> Failed(Staged(StopFailure, "stop")),
     restart_failed_start |-> Failed(Staged(StartFailure, "start"))]

\* Requests, their transport and the clean-up (request_audit.py, transport_audit.py,
\* operations_audit.py and storage/audit.py).
ResponseStatus == Word({"ok", "error"})
Cleanup == [failures |-> Only({"items"}), primary_failed |-> Bool]
RequestAudits ==
    [request_rejected |-> Failed([request_type |-> NonBlank]), chat_turn_failed |-> Failed(NoMetadata),
     chat_turn_completed |-> Timed([evidence_references |-> Count]),
     shutdown_requested |-> Plain(NoMetadata)]
TransportAudits ==
    [request_transport_failed |-> Failed(NoMetadata), request_failed |-> Failed(NoMetadata),
     response_encode_failed |-> Failed([response_status |-> ResponseStatus]),
     response_delivery_failed |-> Failed([response_status |-> ResponseStatus, fallback |-> Bool])]
CleanupAudits == [shutdown_cleanup_failed |-> Failed(Cleanup)]
StorageAudits ==
    [backend_close_failed |-> Failed([backend_type |-> NonBlank]),
     cli_cleanup_failed |-> Failed(Cleanup)]

-----------------------------------------------------------------------------
(* Contracts: reasoning, its outputs and their exports (reason/audit.py) *)

ThreadStatuses == {"active", "paused", "resolved", "archived"}
Modes == {"outline", "narrative", "report", "summary"}
ThreadIdentity == [thread_id |-> NonEmpty]
JobIdentity == Each({"thread_id", "job_id"}, NonEmpty)
Proposal == Each({"active_item_count", "mandate_count"}, Count)
FromTo == Each({"from_status", "to_status"}, Word(ThreadStatuses))
StepKind ==
    Word({"progress", "no_change", "question", "synthesis", "contradiction", "resolution", "planning"})
StepIdentity == Each({"thread_id", "step_id"}, NonEmpty)
AdvanceCompleted ==
    StepIdentity ++ [step_kind |-> StepKind]
    ++ Each({"new_findings", "new_pending", "retired_findings", "next_steps"}, Count)
TerminalRecommendation ==
    StepIdentity ++ FromTo
    ++ [terminal_status |-> Word({"continue", "suggest_resolved", "suggest_paused"})]
ReasonTraceFailure ==
    [operation |-> Word({"start_thread", "advance_thread"}), thread_id |-> NonEmpty,
     step_id |-> OrNull(NonEmpty)]
ChunkIdentity == JobIdentity ++ [chunk_index |-> Count]
Planned ==
    JobIdentity ++ [mode |-> Word(Modes), output_format |-> Word({"markdown"}),
                    source_start_index |-> Count, source_end_index |-> OrNull(Count),
                    segment_size |-> Positive, step_count |-> Positive]
CompositionStarted == [chunks |-> Only((Ints \ {"negative"}) \cup {"?"})]
Retry == Each({"attempts", "next_backoff"}, Positive)

ReasonAudits ==
    [proposal_created |-> Plain(Proposal), thread_started |-> Plain(ThreadIdentity),
     thread_deleted |-> Plain(ThreadIdentity), advance_started |-> Plain(ThreadIdentity),
     thread_status_changed |-> Plain(ThreadIdentity ++ FromTo),
     advance_completed |-> Plain(AdvanceCompleted),
     terminal_recommendation_applied |-> Plain(TerminalRecommendation),
     trace_recording_failed |-> Failed(ReasonTraceFailure), advance_failed |-> Failed(NoMetadata),
     scheduler_advance_failed |-> Failed(NoMetadata), completion_load_failed |-> Failed(NoMetadata),
     scheduler_advance_completed |-> Plain([step_id |-> NonEmpty, step_kind |-> StepKind]),
     llm_failover_suppressed_after_tool_call |-> Failed(NoMetadata),
     reason_output_planned |-> Plain(Planned),
     reason_output_section_plan_fallback |-> Failed([mode |-> Word(Modes)]),
     reason_output_chunk_skipped |-> Plain(ChunkIdentity),
     reason_output_chunk_started |-> Plain(ChunkIdentity),
     reason_output_chunk_failed |-> Failed(ChunkIdentity),
     reason_output_chunk_completed |-> Timed(ChunkIdentity),
     reason_output_composed |-> Plain(JobIdentity ++ [chunk_count |-> Positive]),
     reason_output_pdf_started |-> Plain(JobIdentity), reason_output_pdf_timeout |-> Plain(JobIdentity),
     reason_output_pdf_failed |-> Failed(JobIdentity), reason_output_pdf_created |-> Plain(JobIdentity),
     export_job_enqueue_failed |-> Failed(JobIdentity), export_job_enqueued |-> Plain(JobIdentity),
     export_queue_drained |-> Plain([drained_jobs |-> Positive]),
     export_worker_get_error |-> Failed(NoMetadata), export_job_dequeued |-> Plain(NoMetadata),
     export_job_manifest_invalid |-> Failed(NoMetadata), export_job_progress_invalid |-> Failed(NoMetadata),
     export_job_composition_started |-> Plain(CompositionStarted),
     export_job_state_persist_failed |-> Failed(NoMetadata),
     export_job_failed |-> Failed([attempts |-> Positive]), export_job_retry |-> Plain(Retry),
     export_retry_schedule_failed |-> Failed(Retry), export_retry_callback_failed |-> Failed(Retry),
     export_reconciliation_skip |-> Failed(JobIdentity),
     export_queue_reconciled |-> Plain([replayed_jobs |-> Count])]

-----------------------------------------------------------------------------
(* Contracts: memory, reflection, personas, chat, delivery and endpoints *)

ObservationSource == Each({"observation_id", "source_ref"}, NonEmpty)
CandidateTargeted == Each({"candidate_id", "target_entry_id", "memory_type"}, NonEmpty)
MemoryTrace ==
    [memory_id |-> NonEmpty,
     action |-> Word({"create", "update", "add", "accept", "merge", "import"})]
AutoAcceptFailed ==
    [candidate_id |-> NonEmpty, action |-> Word({"create", "update"}), memory_type |-> NonEmpty,
     target_entry_id |-> OrNull(NonEmpty)]
MemoryAudits ==
    [curator_contended |-> Plain([observation_id |-> NonEmpty]),
     curator_deferred |-> Plain(ObservationSource ++ [processed_messages |-> Zero]),
     curator_completed |->
         Plain(ObservationSource ++ [processed_messages |-> Positive]
               ++ Each({"created", "updated", "ignored"}, Count)),
     candidate_merged |-> Plain(CandidateTargeted), candidate_updated |-> Plain(CandidateTargeted),
     candidate_created |-> Plain(Each({"candidate_id", "memory_type"}, NonEmpty)),
     optimizer_deferred |-> Plain([reviewed |-> Zero]),
     optimizer_completed |->
         Plain([reviewed |-> Positive] ++ Each({"updated", "deleted", "ignored"}, Count)),
     optimizer_candidate_staged |->
         Plain([action |-> Word({"update", "delete"})]
               ++ Each({"candidate_id", "target_entry_id"}, NonEmpty)),
     auto_accept_failed |-> Failed(AutoAcceptFailed), trace_recording_failed |-> Failed(MemoryTrace),
     curator_failed |-> Failed(NoMetadata), chat_trace_recording_failed |-> Failed(NoMetadata)]

IdeaTypes == {"connection", "contradiction", "question", "action", "profile_update"}
Reason == [reason |-> NonEmpty]
\* A float, not an integer.
Score == [score |-> Only({"zero", "half", "one"})]
ReflectionAudits ==
    [schedule_blocked |-> Plain(Reason), cycle_started |-> Plain(NoMetadata),
     cycle_filtered |-> Plain(Reason ++ Score), cycle_discussion_rejected |-> Plain(Reason),
     cycle_completed |-> Plain(Reason ++ Score ++ [idea_type |-> Word(IdeaTypes)]),
     relevance_gate_fallback |-> Plain(NoMetadata), candidate_generation_skipped |-> Plain(Reason),
     cycle_no_candidates |-> Plain(Reason), candidate_generation_failed |-> Failed(NoMetadata),
     schedule_state_corrupt |-> Failed([record |-> NonEmpty]),
     trace_recording_failed |-> Failed([reflection_id |-> NonEmpty]),
     organizer_failed |-> Failed(NoMetadata),
     organizer_completed |-> Plain(Each({"merged_groups", "archived_entries"}, Count))]

DiscussionCounts ==
    {"winner_count", "emergent_count", "blocking_veto_count", "score_count", "discussion_steps"}
PersonaAudits ==
    [persona_summary |-> Plain([persona_count |-> Count, has_synthesis |-> Bool]),
     host_discussion_decision |-> Plain([should_escalate |-> Bool]),
     persona_discussion_step |-> Plain([step_number |-> Positive]),
     persona_discussion |->
         Plain([candidate_id |-> NonEmpty, approved |-> Bool] ++ Each(DiscussionCounts, Count)),
     persona_discussion_failure |-> Failed(NoMetadata),
     persona_discussion_degraded |-> Failed([stage |-> Word({"scoring", "selection", "moderator"})]),
     persona_completion_failed |-> Failed([stage |-> Word({"contribution", "synthesis"})]),
     persona_activation_failed |-> Failed(NoMetadata),
     persona_definition_load_failed |-> Failed(NoMetadata),
     trace_recording_failed |->
         Failed([persona_prompt_id |-> NonEmpty,
                 action |-> Word({"create", "enable", "disable", "prompt_created", "enabled", "disabled"})]),
     interactive_command_failed |-> Failed([action |-> NonEmpty])]

Endpoint == [endpoint_index |-> Count, model |-> NonEmpty]
TurnRetry ==
    [attempt |-> Only({"int", "huge"}), max_attempts |-> Count, failure_phase |-> NonEmpty,
     request_may_have_completed |-> Bool]
\* What is told of a connection that failed; of other failures the first line only.
ActivityFailure(kind) ==
    [stage |-> Word({"open", "poll", "drain", "close"}), has_subscription |-> Bool,
     error_kind |-> Word({kind})]
    ++ IF kind = "application" THEN NoMetadata
       ELSE [failure_phase |-> NonEmpty, retryable |-> Bool, request_may_have_completed |-> Bool]
ChatAudits ==
    [daemon_chat_completed |-> Plain(NoMetadata), daemon_chat_failed |-> Failed(NoMetadata),
     one_shot_chat_completed |-> Plain(NoMetadata), one_shot_chat_failed |-> Failed(NoMetadata),
     final_response_completed |-> Plain([epistemic_status |-> NonEmpty]),
     llm_endpoint_retry |-> Failed(Endpoint), llm_endpoints_exhausted |-> Failed(NoMetadata),
     llm_retry_suppressed_after_tool_call |-> Failed(Endpoint),
     llm_endpoint_state_write_failed |-> Failed([endpoint_index |-> Count]),
     compression_fallback |-> Failed(NoMetadata),
     interactive_history_load_failed |-> Failed([conversation_id |-> NonEmpty]),
     interactive_history_write_failed |-> Failed(NoMetadata),
     completion_load_failed |->
         Failed([completion |-> Word({"conversations", "archived_conversations"})]),
     interactive_prompt_failed |-> Failed([fallback |-> Word({"builtin_input"})]),
     turn_retry |-> Plain(TurnRetry),
     activity_connection_lost |-> Failed(ActivityFailure("connection")),
     activity_refused |-> Failed(ActivityFailure("application")),
     interactive_send_failed |-> Failed(NoMetadata),
     interactive_cleanup_failed |-> Failed([steps |-> Only({"strings", "twice"}), primary_failed |-> Bool])]

Attempt == [entry_id |-> NonEmpty, attempt |-> Count]
DeliveryAudits ==
    [item_delivered |-> Plain(Attempt), email_dry_run |-> Plain(Attempt), email_failed |-> Failed(Attempt),
     email_no_config |-> Failed(Attempt), macos_dry_run |-> Plain(Attempt),
     macos_unavailable |-> Plain(Attempt), macos_failed |-> Failed(Attempt)]

EndpointAudits ==
    LET contract == Failed([endpoint_index |-> Count, model |-> NonBlank])
    IN [llm_endpoint_failed_over |-> contract, llm_endpoint_unavailable |-> contract]

Catalogs ==
    [lifecycle |-> LifecycleAudits, request |-> RequestAudits, transport |-> TransportAudits,
     cleanup |-> CleanupAudits, storage |-> StorageAudits, reason |-> ReasonAudits,
     memory |-> MemoryAudits, reflection |-> ReflectionAudits, persona |-> PersonaAudits,
     chat |-> ChatAudits, delivery |-> DeliveryAudits, endpoint |-> EndpointAudits]

\* What the fields of an audit must be together, beyond what each must be.
Size == [zero |-> 0, one |-> 1, int |-> 2, huge |-> 3]
Matches(changed, outcome) == (changed = "true") <=> (outcome \in {"started", "stopped"})
AgreeWithin(event, data) ==
    CASE event \in {"start_completed", "stop_completed"} -> Matches(data.changed, data.outcome)
      [] event = "restart_completed" ->
           Matches(data.stop_changed, data.stop_outcome) /\ Matches(data.start_changed, data.start_outcome)
      [] event \in {"thread_status_changed", "terminal_recommendation_applied"} ->
           data.from_status # data.to_status
      [] event = "reason_output_planned" ->
           data.source_end_index # "null" => Size[data.source_end_index] >= Size[data.source_start_index]
      [] event = "turn_retry" -> Size[data.max_attempts] >= Size[data.attempt]
      [] OTHER -> TRUE

\* AuditEventDefinition.validate.
Accepted(catalog, event, data) ==
    LET contract == Catalogs[catalog][event]
    IN  /\ DOMAIN data = Fields(contract)
        /\ Wrong(contract, data) = {}
        /\ AgreeWithin(event, data)

-----------------------------------------------------------------------------
(* What is told *)

\* The records that have the fields of two others.
S ** T == {s ++ t : s \in S, t \in T}

Tells(metadata, error, durations) ==
    {data ++ [error |-> error, duration |-> d] : data \in metadata, d \in durations}
\* AuditCatalog.write, and write_strict; AuditCatalog.failure, and observe.
AuditWrite(metadata) == Tells(metadata, "null", {"null"})
Failure(metadata) == Tells(metadata, "text", {"null"})
AuditWriteTimed(metadata, durations) == Tells(metadata, "null", durations)

Id(names) == [names -> {"text"}]
Counts == {"zero", "one", "int"}
Some == {"one", "int"}
CountsOf(names) == [names -> Counts]
Simple == {NoMetadata}

\* Daemons and the requests they serve: monotonic clocks time a request.
DaemonTells ==
    [lifecycle |->
         [instance_lock_contended |-> Failure(Simple), started |-> AuditWrite(Simple), stopped |-> AuditWrite(Simple),
          runtime_metadata_recovered |->
              {d \in AuditWrite([socket : Bools, pid : Bools]) : "true" \in {d.socket, d.pid}}],
     request |->
         [request_rejected |-> Failure(Id({"request_type"})), chat_turn_failed |-> Failure(Simple),
          chat_turn_completed |-> AuditWriteTimed([evidence_references : Counts], Counts),
          shutdown_requested |-> AuditWrite(Simple)],
     transport |->
         [request_transport_failed |-> Failure(Simple), request_failed |-> Failure(Simple),
          response_encode_failed |-> Failure([response_status : {"ok", "error"}]),
          response_delivery_failed |->
              Failure([response_status : {"ok", "error"}, fallback : Bools])]]

\* Failures are told of if there are any.
CleanupTells ==
    LET failures == Failure([failures : {"items"}, primary_failed : Bools])
    IN [cleanup |-> [shutdown_cleanup_failed |-> failures],
        storage |-> [cli_cleanup_failed |-> failures,
                     backend_close_failed |-> Failure(Id({"backend_type"}))]]

\* _transition.
Allowed ==
    [active |-> {"paused", "resolved", "archived"}, paused |-> {"active", "resolved", "archived"},
     resolved |-> {"archived"}, archived |-> {}]
StepKinds == {"progress", "resolution"}
ThreadTells ==
    LET thread == Id({"thread_id"})
        Step == Id({"thread_id", "step_id"})
        Terminal(recommended, status) ==
            AuditWrite(Step ** [from_status : {"active"}, to_status : {status},
                           terminal_status : {recommended}])
    IN [proposal_created |-> AuditWrite(CountsOf({"active_item_count", "mandate_count"})),
        thread_started |-> AuditWrite(thread), thread_deleted |-> AuditWrite(thread),
        advance_started |-> AuditWrite(thread), advance_failed |-> Failure(Simple),
        thread_status_changed |->
            UNION {AuditWrite(thread ** [from_status : {from}, to_status : Allowed[from]]) :
                       from \in ThreadStatuses},
        advance_completed |->
            AuditWrite(Step ** [step_kind : StepKinds]
                  ** CountsOf({"new_findings", "new_pending", "retired_findings", "next_steps"})),
        terminal_recommendation_applied |->
            Terminal("suggest_resolved", "resolved") \cup Terminal("suggest_paused", "paused"),
        trace_recording_failed |->
            Failure(thread ** [operation : {"start_thread"}, step_id : {"null"}])
            \cup Failure(Step ** [operation : {"advance_thread"}]),
        llm_failover_suppressed_after_tool_call |-> Failure(Simple),
        completion_load_failed |-> Failure(Simple)]

\* run_once of the scheduler of threads.
SchedulerTells ==
    [scheduler_advance_failed |-> Failure(Simple),
     scheduler_advance_completed |-> AuditWrite(Id({"step_id"}) ** [step_kind : StepKinds])]

\* A chunk is timed by the wall clock, which may be set back; an export has selected steps.
OutputTells ==
    LET job == Id({"thread_id", "job_id"})
        Chunk == job ** [chunk_index : Counts]
        Planning(ends) ==
            AuditWrite(job ** [mode : Modes, output_format : {"markdown"}, segment_size : Some,
                          step_count : Some] ** ends)
    IN [reason_output_planned |->
            Planning([source_start_index : {"zero", "one"}, source_end_index : {"null", "one", "int"}]),
        reason_output_section_plan_fallback |-> Failure([mode : Modes]),
        reason_output_chunk_skipped |-> AuditWrite(Chunk), reason_output_chunk_started |-> AuditWrite(Chunk),
        reason_output_chunk_failed |-> Failure(Chunk),
        reason_output_chunk_completed |-> AuditWriteTimed(Chunk, Counts \cup {"negative"}),
        reason_output_composed |-> AuditWrite(job ** [chunk_count : Some]),
        reason_output_pdf_started |-> AuditWrite(job), reason_output_pdf_timeout |-> AuditWrite(job),
        reason_output_pdf_created |-> AuditWrite(job), reason_output_pdf_failed |-> Failure(job),
        export_job_enqueue_failed |-> Failure(job), export_job_enqueued |-> AuditWrite(job)]

\* Four attempts may be followed by a retry, after a backoff of some seconds; the
\* number of chunks is not known when the progress is not read.
ExportTells ==
    LET retry == [attempts : Some, next_backoff : {"int"}]
    IN [export_job_dequeued |-> AuditWrite(Simple), export_job_manifest_invalid |-> Failure(Simple),
        export_job_progress_invalid |-> Failure(Simple),
        export_job_composition_started |-> AuditWrite([chunks : Counts \cup {"?"}]),
        export_job_state_persist_failed |-> Failure(Simple),
        export_job_failed |-> Failure([attempts : {"int"}]), export_job_retry |-> AuditWrite(retry),
        export_retry_schedule_failed |-> Failure(retry),
        export_reconciliation_skip |-> Failure(Id({"thread_id", "job_id"})),
        export_queue_reconciled |-> AuditWrite([replayed_jobs : Counts])]

\* The type of a memory is read as any string.
MemoryTypes == [memory_type : {"text", "empty"}]
Action(words) == [action : words]
CuratorTells ==
    LET source == Id({"observation_id", "source_ref"})
        candidate == Id({"candidate_id"}) ** MemoryTypes
        targeted == candidate ** Id({"target_entry_id"})
    IN [curator_contended |-> AuditWrite(Id({"observation_id"})), curator_failed |-> Failure(Simple),
        curator_deferred |-> AuditWrite(source ** [processed_messages : {"zero"}]),
        curator_completed |->
            AuditWrite(source ** [processed_messages : Some] ** CountsOf({"created", "updated", "ignored"})),
        candidate_merged |-> AuditWrite(targeted), candidate_updated |-> AuditWrite(targeted),
        candidate_created |-> AuditWrite(Id({"candidate_id", "memory_type"})),
        auto_accept_failed |->
            Failure(Id({"candidate_id", "memory_type"}) ** Action({"create"})
                    ** [target_entry_id : {"null"}])
            \cup Failure(targeted ** Action({"update"})),
        trace_recording_failed |->
            Failure(Id({"memory_id"}) ** Action({"create", "update", "add", "accept", "merge", "import"})),
        chat_trace_recording_failed |-> Failure(Simple)]
OptimizerTells ==
    [optimizer_deferred |-> AuditWrite([reviewed : {"zero"}]),
     optimizer_completed |-> AuditWrite([reviewed : Some] ** CountsOf({"updated", "deleted", "ignored"})),
     optimizer_candidate_staged |->
         AuditWrite(Id({"candidate_id", "target_entry_id"}) ** Action({"update", "delete"}))]

\* The types of candidates that the generator takes from the model.
CandidateTypes == IdeaTypes \cup {"share_bundle"}
ReflectionTells ==
    LET reason == Id({"reason"})
        score == [score : {"zero", "half", "one"}]
    IN [schedule_blocked |-> AuditWrite(reason), cycle_started |-> AuditWrite(Simple),
        cycle_filtered |-> AuditWrite(reason ** score), cycle_discussion_rejected |-> AuditWrite(reason),
        cycle_completed |-> AuditWrite(reason ** score ** [idea_type : CandidateTypes]),
        relevance_gate_fallback |-> AuditWrite(Simple), candidate_generation_skipped |-> AuditWrite(reason),
        cycle_no_candidates |-> AuditWrite(reason), candidate_generation_failed |-> Failure(Simple),
        schedule_state_corrupt |-> Failure(Id({"record"})), organizer_failed |-> Failure(Simple),
        trace_recording_failed |-> Failure(Id({"reflection_id"})),
        organizer_completed |-> AuditWrite([merged_groups : Some, archived_entries : Some])]

PersonaTells ==
    [persona_summary |-> AuditWrite([persona_count : Some, has_synthesis : Bools]),
     host_discussion_decision |-> AuditWrite([should_escalate : Bools]),
     persona_discussion_step |-> AuditWrite([step_number : Some]),
     persona_discussion |->
         AuditWrite(Id({"candidate_id"}) ** [approved : Bools] ** CountsOf(DiscussionCounts)),
     persona_discussion_failure |-> Failure(Simple), persona_activation_failed |-> Failure(Simple),
     persona_discussion_degraded |-> Failure([stage : {"scoring", "selection", "moderator"}]),
     persona_completion_failed |-> Failure([stage : {"contribution", "synthesis"}]),
     persona_definition_load_failed |-> Failure(Simple),
     trace_recording_failed |->
         Failure(Id({"persona_prompt_id"})
                 ** Action({"create", "enable", "disable", "prompt_created", "enabled", "disabled"})),
     interactive_command_failed |-> Failure(Id({"action"}))]

ChatTells ==
    LET endpoint == Id({"model"}) ** [endpoint_index : Counts]
        activity == [stage : {"open", "poll", "drain", "close"}, has_subscription : Bools]
    IN [daemon_chat_completed |-> AuditWrite(Simple), daemon_chat_failed |-> Failure(Simple),
        one_shot_chat_completed |-> AuditWrite(Simple), one_shot_chat_failed |-> Failure(Simple),
        final_response_completed |-> AuditWrite(Id({"epistemic_status"})),
        llm_endpoint_retry |-> Failure(endpoint), llm_endpoints_exhausted |-> Failure(Simple),
        llm_retry_suppressed_after_tool_call |-> Failure(endpoint),
        llm_endpoint_state_write_failed |-> Failure([endpoint_index : Counts]),
        compression_fallback |-> Failure(Simple),
        interactive_history_load_failed |-> Failure(Id({"conversation_id"})),
        interactive_history_write_failed |-> Failure(Simple),
        completion_load_failed |->
            Failure([completion : {"conversations", "archived_conversations"}]),
        interactive_prompt_failed |-> Failure([fallback : {"builtin_input"}]),
        turn_retry |-> AuditWrite(Id({"failure_phase"}) ** [attempt : {"int"}, max_attempts : {"int"},
                                                       request_may_have_completed : Bools]),
        activity_connection_lost |->
            Failure(activity ** Id({"failure_phase"})
                    ** [error_kind : {"connection"}, retryable : Bools,
                        request_may_have_completed : Bools]),
        activity_refused |-> Failure(activity ** [error_kind : {"application"}]),
        interactive_send_failed |-> Failure(Simple),
        interactive_cleanup_failed |-> Failure([steps : {"strings"}, primary_failed : Bools])]

\* The adapters of delivery; an attempt is counted from one.
DeliveryTells ==
    LET attempt == Id({"entry_id"}) ** [attempt : Some]
    IN [item_delivered |-> AuditWrite(attempt), email_dry_run |-> AuditWrite(attempt),
        email_no_config |-> Failure(attempt), email_failed |-> Failure(attempt),
        macos_dry_run |-> AuditWrite(attempt), macos_unavailable |-> AuditWrite(attempt),
        macos_failed |-> Failure(attempt)]

EndpointTells ==
    LET failure == Failure(Id({"model"}) ** [endpoint_index : Counts])
    IN [llm_endpoint_failed_over |-> failure, llm_endpoint_unavailable |-> failure]

AuditTells ==
    DaemonTells ++ CleanupTells
    ++ [reason |-> ThreadTells ++ SchedulerTells ++ OutputTells ++ ExportTells,
        memory |-> CuratorTells ++ OptimizerTells, reflection |-> ReflectionTells,
        persona |-> PersonaTells, chat |-> ChatTells, delivery |-> DeliveryTells,
        endpoint |-> EndpointTells]

-----------------------------------------------------------------------------
(* The lifecycle commands, and the audits as they are told *)

VARIABLES command,  \* none, start, stop or restart
          waiting,  \* the status the running transition found, Unseen before it looked
          stopped,  \* what the stop of a restart returned
          told      \* the last audit: its catalog, event and data

auditVars == <<command, waiting, stopped, told>>

Unseen == [phase |-> "none", pid |-> "null"]
Silence == [catalog |-> "none", event |-> "none", data |-> <<>>]

\* DaemonStatus: only a daemon that is ready has a PID, unless its file is not there.
Found ==
    {[phase |-> p, pid |-> "null"] : p \in {"stopped", "owned_unready", "inconsistent"}}
    \cup {[phase |-> "ready", pid |-> q] : q \in {"null", "one", "int"}}
Unknown == [phase |-> "unknown", pid |-> "null"]
OwnerActive(status) ==
    CASE status.phase = "unknown" -> "null"
      [] status.phase \in {"owned_unready", "ready"} -> "true"
      [] OTHER -> "false"

AuditTypeOK ==
    /\ command \in {"none", "start", "stop", "restart"}
    /\ waiting \in Found \cup {Unseen}
    /\ stopped = Unseen \/ stopped.status \in Found
    /\ told # Silence => told.catalog \in DOMAIN Catalogs /\ told.event \in DOMAIN Catalogs[told.catalog]

AuditInit == command = "none" /\ waiting = Unseen /\ stopped = Unseen /\ told = Silence

Tell(catalog, event, data) == told' = [catalog |-> catalog, event |-> event, data |-> data]
Told(event, metadata, error) ==
    Tell("lifecycle", event, metadata ++ [error |-> error, duration |-> "null", socket |-> "text"])
CommandOver == command' = "none" /\ waiting' = Unseen /\ stopped' = Unseen

\* Whatever the program does besides: no audit depends on another.
TellOf(catalog, event) ==
    /\ command = "none" /\ \E data \in AuditTells[catalog][event] : Tell(catalog, event, data)
    /\ UNCHANGED <<command, waiting, stopped>>

BeginCommand(asked) ==
    /\ command = "none" /\ command' = asked
    /\ told' = [catalog |-> "lifecycle", data |-> [error |-> "null", duration |-> "null"],
                event |-> CASE asked = "start" -> "start_requested" [] asked = "stop" -> "stop_requested"
                            [] OTHER -> "restart_requested"]
    /\ UNCHANGED <<waiting, stopped>>

Result(before, status, outcome) == [before |-> before, status |-> status, outcome |-> outcome]
HasChanged(result) == IF result.outcome \in {"started", "stopped"} THEN "true" ELSE "false"
TransitionMetadata(result) ==
    [outcome |-> result.outcome, changed |-> HasChanged(result), from_phase |-> result.before.phase,
     to_phase |-> result.status.phase, pid |-> result.status.pid]

StopStage == command = "stop" \/ (command = "restart" /\ stopped = Unseen)
StartStage == command = "start" \/ (command = "restart" /\ stopped # Unseen)

\* A result that does not end stopped is refused with a ValueError, of which nothing is told.
StopReturns(result) ==
    IF result.status.phase # "stopped" THEN CommandOver /\ UNCHANGED told
    ELSE IF command = "stop" THEN CommandOver /\ Told("stop_completed", TransitionMetadata(result), "null")
    ELSE stopped' = result /\ waiting' = Unseen /\ UNCHANGED <<command, told>>

StopFails(reason, status) ==
    /\ CommandOver
    /\ LET failure == [reason |-> reason, phase |-> status.phase, pid |-> status.pid,
                       owner_active |-> OwnerActive(status)]
       IN IF command = "stop" THEN Told("stop_failed", failure, "text")
          ELSE Told("restart_failed_stop", failure ++ [stage |-> "stop"], "text")

\* Neither ready nor owned: an inconsistent daemon counts as one that is gone.
NotThere(status) == status.phase \in {"stopped", "inconsistent"}

StopLooks(status) ==
    /\ StopStage
    /\ IF NotThere(status)
       THEN StopReturns(IF waiting = Unseen THEN Result(status, status, "already_stopped")
                        ELSE Result(waiting, status, "stopped"))
       ELSE IF waiting = Unseen THEN waiting' = status /\ UNCHANGED <<command, stopped, told>>
       ELSE StopFails("timeout", status)

StopGivesUp ==
    /\ StopStage
    /\ \/ StopFails("ownership_check_failed", Unknown)
       \/ waiting # Unseen /\ \E reason \in {"request_failed", "timeout"} : StopFails(reason, waiting)

StartReturns(result) ==
    /\ CommandOver
    /\ IF command = "start" THEN Told("start_completed", TransitionMetadata(result), "null")
       ELSE Told("restart_completed",
                 [stop_outcome |-> stopped.outcome, stop_changed |-> HasChanged(stopped),
                  stop_from_phase |-> stopped.before.phase, stop_to_phase |-> stopped.status.phase,
                  start_outcome |-> result.outcome, start_changed |-> HasChanged(result),
                  start_from_phase |-> result.before.phase, start_to_phase |-> result.status.phase,
                  pid |-> result.status.pid], "null")

StartFails(reason, status, exitCode) ==
    /\ CommandOver
    /\ LET failure == [reason |-> reason, phase |-> status.phase, pid |-> status.pid, exit_code |-> exitCode]
       IN IF command = "start" THEN Told("start_failed", failure, "text")
          ELSE Told("restart_failed_start", failure ++ [stage |-> "start"], "text")

\* Fault: a restart looks again before it starts.
StartFindsAnew(status) ==
    StartStage /\ waiting = Unseen /\ status.phase = "ready"
    /\ StartReturns(Result(status, status, "already_ready"))

\* A restart starts from the status its stop ended with, and does not look again.
StartFinds(status) ==
    /\ StartStage /\ waiting = Unseen
    /\ command = "restart" => status = stopped.status
    /\ CASE status.phase = "ready" -> StartReturns(Result(status, status, "already_ready"))
         [] status.phase = "owned_unready" -> StartFails("owner_unready", status, "null")
         [] status.phase = "inconsistent" -> StartFails("status_failed", status, "null")
         [] OTHER -> \/ StartFails("spawn_failed", status, "null")
                     \/ waiting' = status /\ UNCHANGED <<command, stopped, told>>

\* The process that was spawned, or another, is ready; or it has ended, or time is up.
StartLooks(status) ==
    /\ StartStage /\ waiting # Unseen
    /\ IF status.phase = "ready" THEN StartReturns(Result(waiting, status, "started"))
       ELSE \/ \E code \in {"negative", "zero", "one"} : StartFails("process_exited", status, code)
            \/ StartFails("timeout", status, "null")

StatusUnknown == StartStage /\ StartFails("status_failed", Unknown, "null")

AuditNext ==
    \/ \E catalog \in DOMAIN AuditTells : \E event \in DOMAIN AuditTells[catalog] : TellOf(catalog, event)
    \/ \E asked \in {"start", "stop", "restart"} : BeginCommand(asked)
    \/ \E status \in Found : StopLooks(status) \/ StartFinds(status) \/ StartLooks(status)
    \/ StopGivesUp \/ StatusUnknown

AuditSpec == AuditInit /\ [][AuditNext]_auditVars

-----------------------------------------------------------------------------
(* What the contracts guarantee *)

\* The audits that no contract takes: a published candidate of the sixth type, a chunk
\* timed while the clock is set back, and a memory whose type was left empty by hand.
Strange(event, data) ==
    \/ event = "cycle_completed" /\ data.idea_type = "share_bundle"
    \/ event = "reason_output_chunk_completed" /\ data.duration = "negative"
    \/ "memory_type" \in DOMAIN data /\ data.memory_type = "empty"
Unforeseen == Strange(told.event, told.data)

\* Every other audit an operation tells is accepted: what was done is not followed by an
\* AuditSchemaError (AuditEventDefinition.validate), whatever the probes of a start, a
\* stop or a restart saw in between.
AuditsAccepted ==
    (told # Silence /\ ~Unforeseen) => Accepted(told.catalog, told.event, told.data)

-----------------------------------------------------------------------------
(* Said of the code, and not true of it: TLC has a counterexample to each. *)

\* The type of a candidate is question, connection, contradiction, action or
\* profile_update (docs/spec/reflection.md:28), and so the end of a cycle is told of.
CyclesTold ==
    told.event = "cycle_completed" => Accepted(told.catalog, told.event, told.data)

\* A chunk that was written is told of, whatever the clock does.
ChunksTold ==
    told.event = "reason_output_chunk_completed" => Accepted(told.catalog, told.event, told.data)

\* A command that was begun is told of when it ends.
CommandsTold ==
    [][command' = "none" /\ command # "none" =>
         told'.event \notin {"start_requested", "stop_requested", "restart_requested"}]_auditVars
=============================================================================
