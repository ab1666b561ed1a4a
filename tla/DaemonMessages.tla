--------------------------- MODULE DaemonMessages ----------------------------
(***************************************************************************)
(* What the daemon and its clients send each other, and the records of the *)
(* runtime: how each is read and written, and the rules that several       *)
(* fields of one record obey.                                              *)
(***************************************************************************)
EXTENDS RecordKinds

\* A frame is one line: not nothing, not too long, not cut, not two, UTF-8, an object
\* of JSON that has no field twice and no number but finite ones.
Frame == Word({"line"})
Version == Only({"one"})

\* The decoder of the envelope refuses other fields, and does not look for missing ones:
\* the kinds of the fields do.
DaemonRequest ==
    Exact([frame |-> Frame, version |-> Version, request_id |-> NonBlank,
           type |-> Word({"ping", "health", "chat", "shutdown", "activity_open",
                          "activity_next", "activity_close"}),
           payload |-> Object])

\* An answer has an error, not blank, just if it is not ok.
DaemonResponse ==
    Exact([frame |-> Frame, version |-> Version, request_id |-> NonBlank,
           status |-> Word({"ok", "error"}), payload |-> Object,
           error |-> Omitted(Missing(NonBlank, "null"), {"null"})])
AnswerOrError(response) == (response.status = "ok") <=> (response.error = "null")

-----------------------------------------------------------------------------
(* Payloads *)

EmptyPayload == Exact([f \in {} |-> Str])
DaemonIdentityPayload == Exact([authority_id |-> NonBlank])
ChatRequestPayload ==
    Exact([message |-> Str, conversation_id |-> Missing(NonBlank, "text"),
           turn_id |-> Omitted(Missing(NonBlank, "null"), {"null"}),
           effect_resolution |-> Omitted(Missing(Only({"formed"}), "null"), {"null"})])

SchedulerHealthPayload ==
    Exact([running |-> Bool, accepting |-> Bool, pending |-> Count, in_flight |-> Count,
           capacity |-> Only(Ints \ {"negative", "zero"}), last_error |-> Nullable(Str)])

ChatResponsePayload ==
    Exact([answer |-> Str, conversation_id |-> NonBlank,
           evidence_references |-> StrList,
           epistemic_status |-> Nullable(Word({"grounded", "inferred", "uncertain", "unsupported"})),
           confidence |-> Omitted(Missing(Only({"zero", "half", "one"}), "null"), {"null"})])
ChatToolEffectPayload == Exact([conversation_id |-> NonBlank, tool_effect |-> Only({"formed"})])

ActivityOpenRequestPayload == Exact([turn_id |-> NonBlank])
ActivityNextRequestPayload ==
    Exact([subscription_id |-> NonBlank,
           timeout_ms |-> Missing(Only({"zero", "one", "int"}), "int"),
           limit |-> Missing(Only({"one", "int"}), "int")])
ActivitySubscriptionPayload == Exact([subscription_id |-> NonBlank])
ActivityEventsResponsePayload == Exact([events |-> ItemList, dropped_count |-> Count])

-----------------------------------------------------------------------------
(* Effects *)

Risk == Word({"reversible", "destructive", "external"})
ApprovalRequest ==
    Exact([kind |-> Word({"approval"}), component |-> NonBlank, operation |-> NonBlank,
           action |-> NonBlank, resource |-> NonBlank, risk |-> Risk, summary |-> NonBlank])
ApprovalResolution ==
    Exact([kind |-> Word({"approval"}), request |-> Only({"formed"}), approved |-> Bool,
           approver |-> Nullable(Str),
           input_kind |-> Word({"affirmative", "declined", "eof", "interrupt", "unavailable"})])

\* A decision is an approval if its input is, and an approval is someone's.
Decided(resolution) ==
    /\ (resolution.approved = "true") <=> (resolution.input_kind = "affirmative")
    /\ resolution.approved = "true" => resolution.approver \notin Blanks \cup {"null"}

-----------------------------------------------------------------------------
(* The runtime *)

\* A correlation id is missing or not blank.
ContextId == Omitted(Missing(NonBlank, "null"), {"null"})
RuntimeContext ==
    Exact([conversation_id |-> ContextId, reason_id |-> ContextId, request_id |-> ContextId,
           turn_id |-> ContextId, job_id |-> ContextId, trace_id |-> ContextId,
           source |-> ContextId])

RuntimeEnvelope ==
    Exact([message_id |-> NonBlank, schema_version |-> Version,
           kind |-> Word({"event", "job", "audit"}), name |-> NonBlank, producer |-> NonBlank,
           created_at |-> Aware, context |-> Typed(Context, Objects),
           payload |-> Typed(Object, Objects)])

\* A field that is left out when it is null.
Unset(kind, type) == Omitted(Optional(Typed(kind, type)), {"null"})
LogId == Unset(Str, Strings)
\* Looked up in a set, which lists and objects cannot be.
Level == Typed(Word({"debug", "info", "warning", "error"}), FieldValues \ (Lists \cup Objects))
LogEvent ==
    Form([time |-> Aware, level |-> Level, component |-> Word({"chat", "memory"}),
          event |-> Only(Strings \cup {"named"}), message |-> Str,
          event_id |-> Unset(NonBlank, Strings), schema_version |-> Unset(Version, Ints),
          conversation_id |-> LogId, reason_id |-> LogId, request_id |-> LogId,
          turn_id |-> LogId, job_id |-> LogId, trace_id |-> LogId, source |-> LogId,
          node |-> LogId, duration_ms |-> Unset(Count, Ints \ {"negative"}), status |-> LogId,
          error |-> LogId, metadata |-> Unset(Object, Objects)])

\* A log event has an id and a version, or it is of an older version and has neither.
\* Only an event with a version must have a valid name.
Identified(event) ==
    /\ (event.event_id = "null") <=> (event.schema_version = "null")
    /\ event.schema_version # "null" => event.event = "named"

RuntimeLogEventPayload ==
    Exact([message |-> LogId, level |-> Typed(Missing(Word({"debug", "info", "warning", "error"}), "info"),
                                             Strings),
           node |-> LogId, duration_ms |-> Unset(Count, Ints \ {"negative"}), status |-> LogId,
           error |-> LogId, metadata |-> Unset(Object, Objects)])

\* The endpoint of a model that answered last.
LLMEndpointState == Exact([schema_version |-> Version, active_endpoint_index |-> Count])
=============================================================================
