---------------------------- MODULE StoredRecords ----------------------------
(***************************************************************************)
(* The records of the database: how each is read and written, how one is   *)
(* made of another, and what is checked before a memory is saved. The id   *)
(* of a record is the key of its row and left out. Of the words a field    *)
(* may hold some are named, those the program treats apart among them.     *)
(***************************************************************************)
EXTENDS RecordKinds

\* The helpers of memory/model.py. A type is any string when it is read.
EntryTypes == {"belief", "persona_instruction"}     \* belief for the ten types of entries
Type == Only(Strings \cup EntryTypes)
ReviewState == Word({"draft", "reviewed", "rejected", "quarantined", "archived"})
Privacy == Word({"private", "shareable"})
Evidence == Default(ItemList, "none")
NoLegacyLinks == [supersedes |-> Obsolete, related_memory_ids |-> Obsolete]
Links == NoLegacyLinks ++ [relations |-> Relations, evidence |-> Evidence]

\* When something was observed, and when it is valid.
Period ==
    [observed_at |-> Optional(Str), valid_from |-> Optional(Str), valid_until |-> Optional(Str),
     temporal_note |-> Or(Str, "empty")]
Written == [created_at |-> Str, updated_at |-> Str]
Statement == [title |-> Str, body |-> Str, tags |-> StrList]
Weight == [source_refs |-> StrList, confidence |-> LooseFloat,
           importance |-> Default(Float, "half"), privacy |-> Privacy]

MemoryEvidence ==
    Form([source_type |-> Word({"observation", "manual", "source", "optimizer"}),
          source_ref |-> Str, summary |-> Or(Str, "empty"), observed_at |-> Optional(Str),
          quote |-> Or(Str, "empty"), created_at |-> Str])

MemoryEntry ==
    Form([type |-> Type, review_state |-> ReviewState, revisit_at |-> Optional(Str),
          payload |-> Omitted(Default(Object, "void"), {"void"})]
         ++ Statement ++ Weight ++ Period ++ Links ++ Written)

\* The form of entries in older databases: the statement is in the payload, with what
\* else the payload of the entry holds.
MemoryObject ==
    Form([type |-> Only(EntryTypes), review_state |-> ReviewState,
          revisit_at |-> Optional(Str), metadata |-> Object,
          payload |-> Omitted(Missing(Only(Objects \ {"titled"}), "void"), {"void"}),
          importance |-> Default(Float, "one"),
          temporal_note |-> ReadAs(Str, FieldValues \ Strings, "empty")]
         ++ Statement ++ Weight ++ Period ++ Links ++ Written)

MemoryCandidate ==
    Form([type |-> Type, action |-> Word({"create", "update", "merge", "delete"}),
          review_state |-> Word({"pending", "accepted", "rejected"}),
          reason |-> Or(Str, "empty"), reviewed_at |-> Optional(Str),
          target_entry_id |-> Optional(Str)]
         ++ Statement ++ Weight ++ Period ++ Links ++ Written)

ProfileItem == Form([type |-> Type] ++ Statement ++ Weight ++ Period ++ Links ++ Written)

MemoryObservation ==
    Exact([source_ref |-> NonEmpty, fragments |-> Only({"strings", "twice"}),
           observed_at |-> NonEmpty, status |-> Word({"pending", "processed"}),
           source_trace_id |-> Nullable(Str)])

-----------------------------------------------------------------------------
(* Entries are checked when they are saved *)

\* The payload of an entry covers its own title.
Title(entry) == IF entry.payload = "titled" THEN "text" ELSE entry.title

EntryPayload(entry) == Title(entry) \notin Blanks /\ entry.body \notin Blanks
PersonaInstruction(entry) == entry.payload = "formed"

\* A descriptor checks the types it knows; other types are drafts only.
Valid(entry) ==
    CASE entry.type = "belief" ->
           EntryPayload(entry) /\ entry.confidence \in {"zero", "half", "one"}
      [] entry.type = "persona_instruction" ->
           PersonaInstruction(entry) /\ entry.confidence \in {"zero", "half", "one"}
      [] OTHER -> entry.review_state = "draft"

\* What is saved: a draft of an unknown type is put in quarantine, unchecked.
Quarantined(entry) == entry.type \notin EntryTypes /\ entry.review_state = "draft"
Admitted(entry) ==
    IF Quarantined(entry)
    THEN [entry EXCEPT !.review_state = "quarantined", !.updated_at = "aware"] ELSE entry

-----------------------------------------------------------------------------
(* One record made of another *)

Shared(form, other) == Fields(form) \cap Fields(other)
New(form, values, own) ==
    [f \in Fields(form) |-> IF f \in DOMAIN own THEN own[f] ELSE values[f]]

\* Fault: an entry made of a candidate is weighed anew.
Unweighed(candidate, state) ==
    New(MemoryEntry, candidate,
        [review_state |-> state, revisit_at |-> "null", payload |-> "void",
         confidence |-> "one", created_at |-> "aware", updated_at |-> "aware"])

\* An accepted candidate becomes an entry or an item of the profile.
ToEntry(candidate, state) ==
    New(MemoryEntry, candidate,
        [review_state |-> state, revisit_at |-> "null", payload |-> "void",
         created_at |-> "aware", updated_at |-> "aware"])

\* The importance of a candidate is not passed on.
FromCandidate(candidate) ==
    New(ProfileItem, candidate,
        [importance |-> "half", created_at |-> "aware", updated_at |-> "aware"])

ToMemoryObject(entry) ==
    New(MemoryObject, entry,
        [metadata |-> "object", title |-> Title(entry),
         payload |-> IF entry.payload = "titled" THEN "void" ELSE entry.payload])

FromMemoryObject(object) == New(MemoryEntry, object, [x \in {} |-> x])

\* Two memories made one: the older keeps its type and its age, the newer gives the rest.
\* The importance is that of an object for which none is given.
Joined(list, other) == IF {list, other} = {"none"} THEN "none" ELSE "strings"
Merged(existing, incoming) ==
    [type |-> existing.type, created_at |-> existing.created_at, metadata |-> "object",
     importance |-> "one",
     payload |-> IF incoming.payload = "void" THEN existing.payload ELSE incoming.payload,
     source_refs |-> Joined(incoming.source_refs, existing.source_refs)] ++ incoming
EntryMerged(existing, incoming) ==
    [tags |-> Joined(incoming.tags, existing.tags)] ++ Merged(existing, incoming)
Merge(existing, incoming) ==
    IF existing.type = "persona_instruction" THEN Merged(existing, incoming)
    ELSE EntryMerged(existing, incoming)

\* What an update may change. Null leaves a field as it is.
UpdatesOf(form) ==
    {"title", "body", "tags", "importance", "observed_at", "valid_from", "valid_until",
     "temporal_note"} \cup
    (CASE form = "MemoryEntry" -> {"confidence", "review_state"}
       [] form = "MemoryCandidate" -> {"review_state", "target_entry_id"}
       [] form = "ProfileItem" -> {"confidence"})
WithUpdate(values, field, value) ==
    [values EXCEPT ![field] = IF value = "null" THEN @ ELSE value, !.updated_at = "aware"]
Reviewed(values, field, value) ==
    IF field = "review_state" /\ value \in {"accepted", "rejected"}
    THEN [values EXCEPT !.review_state = value, !.updated_at = "aware", !.reviewed_at = "aware"]
    ELSE WithUpdate(values, field, value)

-----------------------------------------------------------------------------
(* The other records *)

SourceDocument ==
    Form([title |-> Str, path |-> Str, kind |-> Word({"markdown", "text"}),
          origin |-> Or(Str, "text"), privacy |-> Privacy, tags |-> StrList,
          source_date |-> Optional(Str)] ++ Written)
SourceChunk ==
    Form([source_id |-> Str, source_ref |-> Str, index |-> LooseInt, text |-> Str,
          title |-> Str, path |-> Str, created_at |-> Str])

TextList == Default(StrList, "none")
TraceKinds == {"chat_turn", "memory_update", "reason_step", "decision"}
ThoughtTrace ==
    Form([kind |-> Word(TraceKinds), title |-> NonBlank, summary |-> NonBlank,
          inputs |-> TextList, evidence_refs |-> TextList, derived_from |-> TextList,
          outputs |-> TextList, participants |-> TextList, decision_points |-> TextList,
          conversation_id |-> Optional(Str), created_at |-> Str,
          visibility |-> Word({"private", "shareable", "internal"}),
          metadata |-> Default(Object, "void")])
TraceLink ==
    Form([source_id |-> NonBlank, target_id |-> NonBlank, summary |-> NonBlank,
          relation |-> Word({"supports", "derived", "cites"}), created_at |-> Str,
          metadata |-> Default(Object, "void")])

\* An item that is tracked; the lists of a thread hold objects that need not be items.
TrackedItem ==
    Form([label |-> NonBlank, description |-> Missing(Str, "empty"),
          kind |-> Missing(Str, "empty"), status |-> Missing(Str, "text")])
ReasoningThread ==
    Form([topic |-> NonBlank, status |-> Word({"active", "paused", "resolved", "archived"}),
          working_summary |-> Str, evidence_refs |-> StrList,
          priority |-> Word({"normal", "high"}), last_advanced_at |-> Nullable(Aware),
          next_review_after |-> Nullable(Aware), skip_next_advance_until |-> Nullable(Aware),
          created_at |-> Aware, updated_at |-> Aware, active_items_data |-> ObjectList,
          pending_items_data |-> ObjectList, next_steps_data |-> ObjectList,
          mandates_data |-> StrList, reasoning_prompt |-> Str])
ReasoningStep ==
    Form([thread_id |-> NonBlank, kind |-> Word({"progress", "question", "planning"}),
          summary |-> NonBlank, delta |-> Str, evidence_refs |-> StrList, output |-> Str,
          tool_logs |-> ObjectList, confidence |-> Nullable(Float), created_at |-> Str,
          new_findings_data |-> ObjectList, new_pending_data |-> ObjectList,
          retired_findings_data |-> ObjectList, next_steps_data |-> ObjectList,
          terminal_status |-> Word({"continue", "suggest_resolved", "suggest_paused"}),
          terminal_reason |-> Str])

\* Strings that are blank are dropped from a list, and what is no list is an empty one.
Cleaned ==
    LET lists == {"strings", "twice"}
    IN  ReadAs(ReadAs(Only(lists), {"mixed", "blanks"}, "strings"),
               FieldValues \ (lists \cup {"mixed", "blanks"}), "none")
IdeaCandidate ==
    Form([title |-> Str, body |-> Str,
          candidate_type |-> Word({"contradiction", "question", "action"}),
          confidence |-> LooseFloat, novelty |-> LooseFloat, urgency |-> LooseFloat,
          interruption_cost |-> LooseFloat, evidence_refs |-> Cleaned,
          source_summary |-> Str, created_at |-> Str])
RelevanceScore ==
    Form([passes |-> Bool, novelty |-> LooseFloat, confidence |-> LooseFloat,
          urgency |-> LooseFloat, interruption_cost |-> LooseFloat, cooldown_ok |-> Bool,
          composite |-> LooseFloat, reasons |-> Cleaned])

PersonaPrompt ==
    Form([name |-> Str, prompt |-> Str,
          disabled |-> ReadAs(Bool, FieldValues \ Bools, "false")] ++ Written)

\* The plan for an output of a thread. The lists hold chunks and sections.
ReasonOutputSection ==
    Exact([index |-> Integer, title |-> NonBlank, focus |-> NonBlank, step_ids |-> NonBlankList,
           source_start_index |-> Integer, source_end_index |-> Integer, summary |-> Str,
           created_at |-> Aware])
ReasonOutputChunk ==
    Exact([index |-> Integer, filename |-> NonBlank, step_ids |-> NonBlankList, created_at |-> Aware])
=============================================================================
