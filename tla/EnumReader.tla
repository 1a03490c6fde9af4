------------------------------ MODULE EnumReader -------------------------------
(***************************************************************************)
(* What the readers that #[derive(FromJson)] generates for enums have in   *)
(* common (bourne-derive/src/from_json/enums.rs): the variants, and the    *)
(* reading of a variant's body.  There is one module per tagging mode,     *)
(* ExternalEnum, InternalEnum, AdjacentEnum and UntaggedEnum, for what the *)
(* mode's own code does around a body.                                     *)
(***************************************************************************)
EXTENDS StructReader

CONSTANTS
  Order,            \* the variants, by their tags, in declaration order
  Shape,            \* variant -> "unit", "newtype" (i64), "tuple" (i64, i64)
                    \* or "struct"
  FieldsOf,         \* variant -> the fields of its struct shape
  Tag, Content,     \* the keys of #[bourne(tag = "...", content = "...")]
  DenyUnknown       \* #[bourne(deny_unknown_fields)], for struct variants

VARIABLES
  step,             \* where the enum's own code is; "body" inside a variant
  variant           \* the variant being read, or NoTag

enumVars == <<step, variant>>
readerVars == <<lexVars, structVars, enumVars>>

Variants == {Order[i] : i \in DOMAIN Order}

ASSUME EnumAssumption ==
  /\ Order \in Seq({Decoded[s] : s \in DOMAIN Decoded})
  /\ Shape \in [Variants -> {"unit", "newtype", "tuple", "struct"}]
  /\ FieldsOf \in [Variants -> SUBSET Fields]
  /\ Tag # Content /\ NoTag \notin {Tag, Content}

Data == {v \in Variants : Shape[v] # "unit"}
Unit == Variants \ Data

EnumInit ==
  /\ StructInit("idle", [fields |-> {}, reject |-> FALSE, tag |-> NoTag])
  /\ step = "enum" /\ variant = NoTag

(* Every `?` of the enum's own code; what it refuses by itself also goes   *)
(* to "failed".                                                            *)
Go(next) == step' = IF ret' \in ReaderError THEN "failed" ELSE next

(* The text key_to_cow decodes, or NoTag where it fails.                   *)
TextOf(token) == IF token \in DOMAIN Decoded THEN Decoded[token] ELSE NoTag

(* A _lex key walker and key_to_cow of what it read.                       *)
WalkKeyLex(first) ==
  /\ IF first THEN ObjectFirstKey(TRUE) ELSE ObjectNextKey(TRUE)
  /\ key' = IF ret' = "Key" THEN TextOf(Peek(KeyAt(first))) ELSE NoTag
  /\ UNCHANGED <<pc, plan, entry, slots>>

-----------------------------------------------------------------------------
(* The body of a variant, at the cursor.                                   *)

EnterBody(v, tag, reject) ==
  /\ step' = "body"
  /\ variant' = v
  /\ pc' = CASE Shape[v] = "newtype" -> "newtype"
             [] Shape[v] = "tuple"   -> "tuple"
             [] Shape[v] = "struct"  -> "object"
             [] Shape[v] = "unit"    -> "null"
  /\ plan' = [fields |-> FieldsOf[v], reject |-> reject, tag |-> tag]
  /\ slots' = [f \in Fields |-> "unset"]
  /\ tagSeen' = FALSE
  /\ UNCHANGED entry

Newtype ==
  /\ pc = "newtype"
  /\ I64FromLex(offset)
  /\ Then("read")

(* tuple_body, of two elements.                                            *)
Tuple ==
  \/ /\ pc = "tuple"
     /\ ArrayStart
     /\ pc' = IF ret' = "Open" THEN "first" ELSE "failed"
  \/ /\ pc = "first"
     /\ I64FromLex(offset)
     /\ Then("comma")
  \/ /\ pc = "comma"
     /\ ArrayContinue("]")
     /\ pc' = IF ret' = "More" THEN "second" ELSE "failed"
  \/ /\ pc = "second"
     /\ I64FromLex(offset)
     /\ Then("close")
  \/ /\ pc = "close"
     /\ ArrayContinue("]")
     /\ pc' = IF ret' = "Closed" THEN "read" ELSE "failed"

(* <() as FromJson>::from_lex, for a unit variant of an untagged enum:     *)
(* read_value, whatever it is; a container is left open behind the error.  *)
Null ==
  /\ pc = "null"
  /\ ReadValue(offset)
  /\ pc' = IF ret' = "Literal" THEN "read" ELSE "failed"

ReadBody ==
  /\ step = "body"
  /\ \/ ReadFields
     \/ (Newtype \/ Tuple \/ Null) /\ UNCHANGED <<plan, entry, slots, key, tagSeen>>
  /\ UNCHANGED enumVars

BodyRead == step = "body" /\ pc = "read"
BodyFailed == step = "body" /\ pc = "failed"

EnumFailed == step = "failed" \/ BodyFailed

-----------------------------------------------------------------------------
(* Whatever was scanned, skipped, rewound or tried, a reader that succeeds *)
(* leaves the nesting stack as it found it, and none ever pops a frame of  *)
(* its caller's (doc of Checkpoint, lexer.rs:177-183).                     *)
EnumFramesKept ==
  /\ Len(frames) >= Len(entry) /\ SubSeq(frames, 1, Len(entry)) = entry
  /\ step = "built" => frames = entry

(* read_string_no_validate is called at a quote (debug_assert of           *)
(* lexer.rs:432).                                                          *)
TagIsAtAQuote == step = "tagValue" => IsQuote(offset)

-----------------------------------------------------------------------------
(* The same reading said of a whole text.                                  *)

BodyPlan(v, tag, reject) == [fields |-> FieldsOf[v], reject |-> reject, tag |-> tag]

BodyAccepts(v, t, reject) ==
  CASE Shape[v] = "newtype" -> t = <<"1">>
    [] Shape[v] = "tuple"   -> t = <<"[", "1", ",", "1", "]">>
    [] Shape[v] = "struct"  -> ObjectAccepts(t, BodyPlan(v, NoTag, reject))
    [] Shape[v] = "unit"    -> t = <<"kw">>

(* t is JSON that nests no deeper than the reader may.                     *)
WellFormed(t) ==
  /\ t # << >>
  /\ Derives(t, ScalarTokens, Strings \cup {"lone"}, MaxDepth - Len(entry))

(* For a reference Reads(t, v), "text t is variant v": what was built is   *)
(* what the text is, and where it failed no text stands.                   *)
BuiltRightly(Reads(_, _), Slots(_, _)) ==
  LET upTo(e) == Lexemes(SubSeq(input, 1, e))
  IN  /\ step = "built" =>
           /\ WellFormed(upTo(offset)) /\ Reads(upTo(offset), variant)
           /\ Shape[variant] = "struct" => slots = Slots(upTo(offset), variant)
      /\ EnumFailed => \A e \in 0..Len(input), v \in Variants :
                         ~ (WellFormed(upTo(e)) /\ Reads(upTo(e), v))
=============================================================================
