------------------------------- MODULE Records -------------------------------
(***************************************************************************)
(* One record of the program, from the moment it is made: it is updated,   *)
(* made into a record of another form, stored or sent, changed where it is *)
(* stored by an edit of the data or by a peer of another version, and read *)
(* again. Every decoder is strict, or takes what older versions wrote, and *)
(* what it lets through must be a record the program can store and read.   *)
(***************************************************************************)
EXTENDS StoredRecords, DaemonMessages

CONSTANTS Names,         \* the forms that are looked at
          MaxRecordSteps, \* bounds the changes and conversions of a record
          MaxEdits       \* bounds those that are edits

Forms ==
    [MemoryEntry |-> MemoryEntry, MemoryObject |-> MemoryObject,
     MemoryCandidate |-> MemoryCandidate, MemoryEvidence |-> MemoryEvidence,
     MemoryObservation |-> MemoryObservation, ProfileItem |-> ProfileItem,
     SourceDocument |-> SourceDocument, SourceChunk |-> SourceChunk,
     ThoughtTrace |-> ThoughtTrace, TraceLink |-> TraceLink, TrackedItem |-> TrackedItem,
     ReasoningThread |-> ReasoningThread, ReasoningStep |-> ReasoningStep,
     IdeaCandidate |-> IdeaCandidate, RelevanceScore |-> RelevanceScore,
     PersonaPrompt |-> PersonaPrompt, ReasonOutputSection |-> ReasonOutputSection,
     ReasonOutputChunk |-> ReasonOutputChunk, DaemonRequest |-> DaemonRequest,
     DaemonResponse |-> DaemonResponse, EmptyPayload |-> EmptyPayload,
     DaemonIdentityPayload |-> DaemonIdentityPayload, ChatRequestPayload |-> ChatRequestPayload,
     SchedulerHealthPayload |-> SchedulerHealthPayload,
     ChatResponsePayload |-> ChatResponsePayload,
     ChatToolEffectPayload |-> ChatToolEffectPayload,
     ActivityOpenRequestPayload |-> ActivityOpenRequestPayload,
     ActivityNextRequestPayload |-> ActivityNextRequestPayload,
     ActivitySubscriptionPayload |-> ActivitySubscriptionPayload,
     ActivityEventsResponsePayload |-> ActivityEventsResponsePayload,
     ApprovalRequest |-> ApprovalRequest, ApprovalResolution |-> ApprovalResolution,
     RuntimeContext |-> RuntimeContext, RuntimeEnvelope |-> RuntimeEnvelope,
     LogEvent |-> LogEvent, RuntimeLogEventPayload |-> RuntimeLogEventPayload,
     LLMEndpointState |-> LLMEndpointState]

ASSUME NamesAssumption == Names \subseteq DOMAIN Forms

VARIABLES form,    \* the name of its form
          held,    \* the values the program has, or had when it stored the record
          wire,    \* what is stored
          more,    \* whether a field was added there that the form does not have
          place,   \* held, stored, edited, invalid or refused
          refusal, \* the errors it was refused with when it was read
          steps,   \* the changes and conversions made
          edits    \* the edits among them

recordVars == <<form, held, wire, more, place, refusal, steps, edits>>

NoWire == [f \in {} |-> "absent"]

\* What the fields of a record must be together.
Together(name, values) ==
    CASE name = "DaemonResponse" -> AnswerOrError(values)
      [] name = "ApprovalResolution" -> Decided(values)
      [] name = "LogEvent" -> Identified(values)
      [] OTHER -> TRUE

RecordTypeOK ==
    /\ form \in Names /\ more \in BOOLEAN /\ steps \in 0..MaxRecordSteps /\ edits \in 0..MaxEdits
    /\ refusal \subseteq Errors
    /\ place \in {"held", "stored", "edited", "invalid", "refused"}
    /\ place \in {"held", "stored"} => \A f \in Fields(Forms[form]) : held[f] \in Kept(Forms[form].fields[f])
    /\ place \in {"stored", "edited"} => DOMAIN wire = Fields(Forms[form])

-----------------------------------------------------------------------------
(* A record is made *)

\* An ordinary value of a kind.
Ordinary(kind) ==
    LET likely == {"text", "aware", "one", "true", "strings", "object", "line", "null"} \cap Kept(kind)
    IN CHOOSE v \in (IF likely = {} THEN Kept(kind) ELSE likely) : TRUE

\* Two records that differ in what belongs together.
Ordinaries(name) ==
    LET base == [f \in Fields(Forms[name]) |-> Ordinary(Forms[name].fields[f])]
        Plus(own) == own ++ base
    IN  CASE name = "DaemonResponse" ->
               {Plus([status |-> "ok", error |-> "null"]), Plus([status |-> "error", error |-> "text"])}
          [] name = "ApprovalResolution" ->
               {Plus([approved |-> "true", input_kind |-> "affirmative", approver |-> "text"]),
                Plus([approved |-> "false", input_kind |-> "declined", approver |-> "null"])}
          [] name = "LogEvent" ->
               {Plus([event |-> "named", event_id |-> "text", schema_version |-> "one"]),
                Plus([event |-> "text", event_id |-> "null", schema_version |-> "null"])}
          [] name = "MemoryEntry" -> {Plus([type |-> t]) : t \in {"belief", "persona_instruction"}}
          [] OTHER -> {base}

\* The memories that are merged into another differ from an ordinary one in one field.
Incoming ==
    UNION {{[o EXCEPT ![f] = v] : v \in Kept(MemoryObject.fields[f])} :
               o \in Ordinaries("MemoryObject"), f \in Fields(MemoryObject)}

RecordInit ==
    /\ form \in Names /\ held \in Ordinaries(form)
    /\ wire = NoWire /\ more = FALSE /\ place = "held" /\ refusal = {} /\ steps = 0 /\ edits = 0

-----------------------------------------------------------------------------
(* The program has it *)

Changed == steps < MaxRecordSteps /\ steps' = steps + 1

\* with_updates: an entry, a candidate or an item of the profile is edited or reviewed.
UpdateRecord(field, value) ==
    /\ place = "held" /\ Changed /\ form \in {"MemoryEntry", "MemoryCandidate", "ProfileItem"}
    /\ field \in UpdatesOf(form) /\ value \in Kept(Forms[form].fields[field])
    /\ held' = IF form = "MemoryCandidate" THEN Reviewed(held, field, value)
               ELSE WithUpdate(held, field, value)
    /\ UNCHANGED <<form, wire, more, place, refusal, edits>>

\* The records that may be made of this one; the new one has the same content.
MadeOf(name, values) ==
    CASE name = "MemoryCandidate" ->
           {<<"ProfileItem", FromCandidate(values)>>}
           \cup {<<"MemoryEntry", ToEntry(values, s)>> :
                    s \in IF values.action = "delete" THEN {} ELSE {"draft", "reviewed"}}
      [] name = "MemoryEntry" ->
           IF values.type \in EntryTypes THEN {<<"MemoryObject", ToMemoryObject(values)>>} ELSE {}
      [] name = "MemoryObject" -> {<<"MemoryEntry", FromMemoryObject(values)>>}
      [] OTHER -> {}

Convert ==
    /\ place = "held" /\ Changed
    /\ \E made \in MadeOf(form, held) : form' = made[1] /\ held' = made[2]
    /\ form' \in Names
    /\ UNCHANGED <<wire, more, place, refusal, edits>>

\* A newer memory is merged into one that is there.
MergeWith(incoming) ==
    /\ place = "held" /\ Changed
    /\ held' = Merge(held, incoming)
    /\ UNCHANGED <<form, wire, more, place, refusal, edits>>

\* Entries are checked first; the other records are stored as they are.
Stored(name, values) == IF name = "MemoryEntry" THEN Admitted(values) ELSE values
MayStore(name, values) == name = "MemoryEntry" => Valid(Admitted(values)) \/ Quarantined(values)

StoreRecord ==
    /\ place = "held" /\ more' = FALSE /\ UNCHANGED <<form, refusal, steps, edits>>
    /\ IF MayStore(form, held)
       THEN /\ held' = Stored(form, held)
            /\ wire' = Encode(Forms[form], held') /\ place' = "stored"
       ELSE place' = "invalid" /\ UNCHANGED <<held, wire>>

-----------------------------------------------------------------------------
(* It is stored, or on its way *)

Edited == Changed /\ edits < MaxEdits /\ edits' = edits + 1

\* nuself data edit, or a peer of another version.
EditRecord(field, value) ==
    /\ place = "stored" /\ Edited /\ field \in Fields(Forms[form]) /\ wire[field] # value
    /\ wire' = [wire EXCEPT ![field] = value] /\ place' = "edited"
    /\ UNCHANGED <<form, held, more, refusal>>

AddField ==
    /\ place = "stored" /\ Edited /\ more' = TRUE /\ place' = "edited"
    /\ UNCHANGED <<form, held, wire, refusal>>

\* The decoders look at one field after the other and at the whole at last; any of the
\* errors that are there may be the one that is raised.
RefusedWith(name, values, extra) ==
    Refusals(Forms[name], values)
    \cup (IF \/ extra /\ Forms[name].exact
             \/ Wrong(Forms[name], values) = {} /\ ~Together(name, Values0(Forms[name], values))
          THEN {"ValueError"} ELSE {})

ReadRecord ==
    /\ place \in {"stored", "edited"} /\ UNCHANGED <<form, more, steps, edits>>
    /\ refusal' = RefusedWith(form, wire, more)
    /\ IF refusal' = {}
       THEN place' = "held" /\ held' = Values0(Forms[form], wire) /\ wire' = NoWire
       ELSE place' = "refused" /\ held' = NoWire /\ wire' = NoWire

RecordNext ==
    \/ \E f \in Fields(Forms[form]) :
          \/ \E v \in Kept(Forms[form].fields[f]) : UpdateRecord(f, v)
          \/ \E v \in FieldValues : EditRecord(f, v)
    \/ form = "MemoryObject" /\ \E incoming \in Incoming : MergeWith(incoming)
    \/ Convert \/ StoreRecord \/ AddField \/ ReadRecord

RecordSpec == RecordInit /\ [][RecordNext]_recordVars

-----------------------------------------------------------------------------
(* What the codecs guarantee *)

\* Whatever the program has stored or sent - after any reads, updates, merges and
\* conversions, and any edit that was accepted - is accepted when it is read, and
\* read back as it was (to_wire and from_wire, with the checks of save between them).
StoredIsRead ==
    place = "stored" =>
        RefusedWith(form, wire, more) = {} /\ Values0(Forms[form], wire) = held

\* A record that is made of another has all that the two forms share (to_entry,
\* from_candidate, to_memory_object, from_memory_object): only the review state and
\* the times are new, and the importance of an item of the profile.
Own == {"review_state", "created_at", "updated_at"}
NothingLost ==
    [][form' # form =>
        \A f \in (Fields(Forms[form]) \cap Fields(Forms[form'])) \ Own :
            \/ held'[f] = held[f]
            \/ f = "importance" /\ form' = "ProfileItem"
            \/ f \in {"title", "payload"} /\ form = "MemoryEntry" /\ held.payload = "titled"]_recordVars

-----------------------------------------------------------------------------
(* Said of the code, and not true of it: TLC has a counterexample to each. *)

\* What is read can be saved again unchanged: a confidence out of range is read, and so
\* is a memory of an unknown type that was reviewed.
ReadCanBeSaved == place # "invalid"

\* Importance is kept by every conversion.
ImportanceKept ==
    [][form' # form /\ "importance" \in Fields(Forms[form]) \cap Fields(Forms[form']) =>
         held'.importance = held.importance]_recordVars

\* A record that cannot be read is refused with a ValueError or a TypeError, which the
\* readers of collections catch (runtime/observability.py, DEFAULT_DECODE_ERRORS).
RefusedAsExpected == "OverflowError" \notin refusal

\* A bad event from the daemon is refused as a bad answer (daemon/payloads.py catches
\* the ValueError of a log event only).
EventsRefused ==
    form = "LogEvent" => "TypeError" \notin refusal
=============================================================================
