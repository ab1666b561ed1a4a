----------------------------- MODULE RecordKinds -----------------------------
(***************************************************************************)
(* What the fields of a record may hold, as far as the decoders of the     *)
(* program tell JSON values apart, and what a decoder makes of each value. *)
(*                                                                         *)
(* A kind is one way to read a field: "reads" gives for every value it     *)
(* accepts the value the program goes on with, "omits" the values that are *)
(* left out of what is written, "typeErrors" and "overflows" the values it *)
(* refuses with a TypeError and an OverflowError, as it refuses the others *)
(* with a ValueError. A form is a record type: a kind for every field, and *)
(* whether other fields are refused.                                       *)
(***************************************************************************)
EXTENDS Naturals, FiniteSets

Nothing == {"absent", "null"}
Bools == {"true", "false"}
Ints == {"negative", "zero", "one", "int", "huge"}
Numbers == Ints \cup {"half", "over"}
Strings == {"empty", "blank", "text", "padded", "naive", "aware"}
Blanks == {"empty", "blank"}
\* Lists: empty, of strings, one repeated, with an empty one, with other things than
\* strings, of well-formed items, of other objects, of objects and other things.
Lists == {"none", "strings", "twice", "blanks", "mixed", "items", "objects"}
\* Objects: empty, of lists of strings, of correlation ids, with the title of an entry,
\* another, well-formed.
Objects == {"void", "relations", "context", "titled", "object", "formed"}

FieldValues == Nothing \cup Bools \cup Numbers \cup Strings \cup Lists \cup Objects

\* A record with the fields of two others; where both have a field it is that of the first.
f ++ g == [x \in DOMAIN f \cup DOMAIN g |-> IF x \in DOMAIN f THEN f[x] ELSE g[x]]

Errors == {"ValueError", "TypeError", "OverflowError"}

\* The kind that accepts these values as they are.
Only(values) == [accepts |-> values, instead |-> {}, omits |-> {}, typeErrors |-> {}, overflows |-> {}]

Accepts(kind) == kind.accepts
\* What is read for a value: itself, or what is read in its place.
Reading(kind, v) ==
    IF \E p \in kind.instead : p[1] = v THEN (CHOOSE p \in kind.instead : p[1] = v)[2] ELSE v
Kept(kind) == {Reading(kind, v) : v \in Accepts(kind)}

\* A field for which these values are read as that one.
ReadAs(kind, values, value) ==
    [kind EXCEPT !.accepts = @ \cup values, !.instead = @ \cup {<<v, value>> : v \in values}]

\* A field that may be missing or null: read as null.
Optional(kind) == ReadAs(kind, Nothing, "null")
\* A field that must be there and may be null.
Nullable(kind) == ReadAs(kind, {"null"}, "null")
\* What is read for a missing field.
Missing(kind, value) == ReadAs(kind, {"absent"}, value)
\* What is read for a field that is missing, null or empty.
Or(kind, value) == ReadAs(kind, Nothing \cup {"empty"}, value)
\* What is read for a field that is missing or null.
Default(kind, value) == ReadAs(kind, Nothing, value)
\* A field that is not written if it holds one of these.
Omitted(kind, values) == [kind EXCEPT !.omits = values]
\* FieldValues of another type are refused with a TypeError.
Typed(kind, type) == [kind EXCEPT !.typeErrors = FieldValues \ type]

Str == Only(Strings)
NonEmpty == Only(Strings \ {"empty"})
NonBlank == Only(Strings \ Blanks)
Aware == Only({"aware"})
Bool == Only(Bools)
Integer == Only(Ints)
Count == Only(Ints \ {"negative"})
\* float() raises for an integer that no float can hold.
Float == [Only(Numbers \ {"huge"}) EXCEPT !.overflows = {"huge"}]
\* isinstance(True, int): a boolean passes for a number, and float(True) is 1.0.
LooseFloat == ReadAs(ReadAs(Float, {"true"}, "one"), {"false"}, "zero")
LooseInt == Only(Ints \cup Bools)
StrList == Only({"none", "strings", "twice", "blanks"})
NonBlankList == Only({"none", "strings", "twice"})
\* A list of records of another form, each read by its own decoder.
ItemList == Only({"none", "items"})
\* A list of objects that are not looked into.
ObjectList == Only({"none", "items", "objects"})
Object == Only(Objects)
Relations == Only({"void", "relations"})
Context == Only({"void", "context"})
Word(words) == Only(words)
\* A field of older versions, which must not be there.
Obsolete == Omitted(Only({"absent"}), {"absent"})

-----------------------------------------------------------------------------
Form(fields) == [fields |-> fields, exact |-> FALSE]
Exact(fields) == [fields |-> fields, exact |-> TRUE]
Fields(form) == DOMAIN form.fields

\* The values read from a record all of whose fields are accepted.
Values0(form, wire) == [f \in Fields(form) |-> Reading(form.fields[f], wire[f])]

\* The fields a decoder refuses, and how.
Wrong(form, wire) == {f \in Fields(form) : wire[f] \notin Accepts(form.fields[f])}
Refusals(form, wire) ==
    {IF wire[f] \in form.fields[f].typeErrors THEN "TypeError"
     ELSE IF wire[f] \in form.fields[f].overflows THEN "OverflowError"
     ELSE "ValueError" : f \in Wrong(form, wire)}

\* Fault: what is null is not written.
Sparse(form, values) ==
    [f \in Fields(form) |-> IF values[f] = "null" THEN "absent" ELSE values[f]]

\* What is written for the values of a record.
Encode(form, values) ==
    [f \in Fields(form) |-> IF values[f] \in form.fields[f].omits THEN "absent" ELSE values[f]]
=============================================================================
