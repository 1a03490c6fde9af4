------------------------------ MODULE TypedReader ------------------------------
(***************************************************************************)
(* FromJson for the types of de.rs: scalars, Option, Vec, [T; N], tuples,  *)
(* maps and sets, nested in each other and around a derived struct, and    *)
(* parse, which reads one of them from a whole text.  calls is the call    *)
(* stack of the from_lex methods that are reading an item: what each has   *)
(* collected so far, and the key of a map's member under way.              *)
(*                                                                         *)
(* A type is a record: kind, the type `of` its items (a sequence of types  *)
(* for a tuple), the length `len` of an array, and whether the `key` of a  *)
(* map is a borrowed &str or an owned text.                                *)
(***************************************************************************)
EXTENDS StructReader

CONSTANT
  Declared          \* the fields of the struct in the order they are declared

VARIABLES
  want,             \* the type whose from_lex is under way
  calls,            \* the callers that wait for it
  value             \* the last value read, struct values aside

typedVars == <<want, calls, value>>

structRest == <<plan, slots, key, tagSeen, entry>>

ASSUME DeclaredAssumption == {Declared[i] : i \in DOMAIN Declared} = Fields

-----------------------------------------------------------------------------
(* A value is what it is (a text, a number, a kind of collection) and its  *)
(* parts; a map's part is a name with one part.  Parts are in the order of *)
(* insertion, which no map or set promises to keep.                        *)
Atom(text) == [is |-> text, parts |-> << >>]

StructValue ==
  [is |-> "struct", parts |-> [i \in DOMAIN Declared |-> Atom(slots[Declared[i]])]]

ValueRead == IF want.kind = "struct" THEN StructValue ELSE value

Top == calls[Len(calls)]

TypedInit(type) ==
  /\ want = type /\ calls = << >> /\ value = Atom("unset")

(* The caller's type is under way again, and has been read.                *)
Give(parts) ==
  /\ value' = [is |-> Top.type.kind, parts |-> parts]
  /\ want' = Top.type
  /\ calls' = SubSeq(calls, 1, Len(calls) - 1)
  /\ pc' = "read"

Collect(parts, name) ==
  calls' = [calls EXCEPT ![Len(calls)].parts = parts, ![Len(calls)].name = name]

Enter == calls' = Append(calls, [type |-> want, parts |-> << >>, name |-> NoTag])

Failed == pc' = "failed" /\ UNCHANGED typedVars

-----------------------------------------------------------------------------
(* peek_value_kind, and the type's own error for a value of another kind.  *)
ValueStart == Strings \cup {"{", "[", "lone", "kw", "1"}

OtherKind(o, kinds, error) ==
  \/ Peek(o) \in ValueStart \ kinds /\ Return(o, error)
  \/ Peek(o) \notin ValueStart /\ Unexpected(o)

(* &str borrows, so no escape may stand in it; String decodes.             *)
StrFromLex ==
  LET o == SkipWhitespace(offset)
  IN  \/ BorrowedString(o) /\ Return(o + 1, "String")
      \/ EscapedString(o) /\ Return(o, "InvalidEscape")
      \/ OtherKind(o, Strings \cup {"lone"}, "ExpectedString")

StringFromLex ==
  LET o == SkipWhitespace(offset)
  IN  \/ ReadString(o, "String")
      \/ OtherKind(o, Strings \cup {"lone"}, "ExpectedString")

(* (): any other event than null is refused after it has been read, a      *)
(* container's opening bracket with its frame.                             *)
UnitFromLex == ReadValue(offset)

ScalarText ==
  LET token == Peek(SkipWhitespace(offset))
  IN  IF token \in Strings THEN Decoded[token] ELSE token

ReadScalar ==
  /\ pc = "value" /\ want.kind \in {"i64", "str", "String", "()"}
  /\ \/ want.kind = "i64" /\ I64FromLex(offset)
     \/ want.kind = "str" /\ StrFromLex
     \/ want.kind = "String" /\ StringFromLex
     \/ want.kind = "()" /\ UnitFromLex
  /\ IF ret' \in {"Number", "String", "Literal"} /\ (want.kind = "()" => ret' = "Literal")
       THEN pc' = "read" /\ value' = Atom(ScalarText) /\ UNCHANGED <<want, calls>>
       ELSE Failed
  /\ UNCHANGED structRest

(* Option<T>: null, or whatever T reads.                                   *)
ReadOption ==
  /\ pc = "value" /\ want.kind = "Option"
  /\ LET o == SkipWhitespace(offset)
     IN  \/ /\ Peek(o) = "kw"
            /\ Return(o + 1, "Literal")
            /\ pc' = "read" /\ value' = Atom("kw") /\ UNCHANGED <<want, calls>>
         \/ /\ Peek(o) \in ValueStart \ {"kw"}
            /\ Return(o, "None")
            /\ want' = want.of /\ UNCHANGED <<pc, calls, value>>
         \/ /\ Peek(o) \notin ValueStart
            /\ Unexpected(o) /\ Failed
  /\ UNCHANGED structRest

ReadStruct ==
  /\ pc = "value" /\ want.kind = "struct"
  /\ pc' = "object"
  /\ UNCHANGED <<lexVars, structRest, typedVars>>

-----------------------------------------------------------------------------
(* Vec, sets, [T; N] and tuples: an array, its items one after the other.  *)
ArrayTypes == {"Vec", "set", "array", "tuple"}

Unbounded(type) == type.kind \in {"Vec", "set"}

ItemType(type, n) == IF type.kind = "tuple" THEN type.of[n] ELSE type.of

(* Vec<i64> and Vec<&str> read their items without a look at their kind.   *)
ItemStep(type) ==
  IF type.kind = "Vec" /\ type.of.kind \in {"i64", "str"} THEN "item" ELSE "value"

NextItem(type, n) ==
  /\ want' = ItemType(type, n)
  /\ pc' = ItemStep(type)
  /\ UNCHANGED value

EnterSequence ==
  /\ pc = "value" /\ want.kind \in ArrayTypes
  /\ ArrayStart
  /\ IF ret' = "Empty" /\ (Unbounded(want) \/ want.len = 0)
       THEN /\ pc' = "read" /\ value' = [is |-> want.kind, parts |-> << >>]
            /\ UNCHANGED <<want, calls>>
     ELSE IF ret' = "Open" /\ (Unbounded(want) \/ want.len > 0)
       THEN Enter /\ NextItem(want, 1)
     ELSE Failed
  /\ UNCHANGED structRest

ReadFusedItem ==
  /\ pc = "item"
  /\ \/ want.kind = "i64" /\ ParseI64Value
     \/ want.kind = "str" /\ ParseStrValue
  /\ IF ret' \in {"Number", "String"}
       THEN /\ pc' = "read" /\ value' = Atom(ScalarText)
            /\ UNCHANGED <<want, calls>>
       ELSE Failed
  /\ UNCHANGED structRest

(* A set drops an item it has.                                             *)
Pushed(call, v) ==
  IF call.type.kind = "set" /\ \E i \in DOMAIN call.parts : call.parts[i] = v
    THEN call.parts
    ELSE Append(call.parts, v)

(* array_continue after an item: a [T; N] or a tuple must be closed behind *)
(* its last item and no other.                                             *)
TakeItem ==
  /\ pc = "read" /\ calls # << >> /\ Top.type.kind \in ArrayTypes
  /\ LET parts == Pushed(Top, ValueRead)
         last  == Unbounded(Top.type) \/ Len(parts) = Top.type.len
         more  == Unbounded(Top.type) \/ Len(parts) < Top.type.len
     IN  /\ ArrayContinue("]")
         /\ IF ret' = "Closed" /\ last      THEN Give(parts)
            ELSE IF ret' = "More" /\ more   THEN /\ Collect(parts, NoTag)
                                                 /\ NextItem(Top.type, Len(parts) + 1)
            ELSE Failed
  /\ UNCHANGED structRest

-----------------------------------------------------------------------------
(* Maps: parse_map.                                                        *)
EnterMap ==
  /\ pc = "value" /\ want.kind = "map"
  /\ LET o == SkipWhitespace(offset)
     IN  \/ Peek(o) = "{" /\ ObjectStart
         \/ OtherKind(o, {"{"}, "TypeMismatch")
  /\ IF ret' = "StartObject"
       THEN Enter /\ pc' = "firstMember" /\ UNCHANGED <<want, value>>
       ELSE Failed
  /\ UNCHANGED structRest

(* The key walk, key_to_cow and from_key: the colon has been consumed when *)
(* the key is decoded, and a &str key takes no escape.                     *)
WalkMember ==
  /\ pc \in {"firstMember", "nextMember"}
  /\ IF pc = "firstMember" THEN ObjectFirstKey(TRUE) ELSE ObjectNextKey(TRUE)
  /\ LET token == Peek(KeyAt(pc = "firstMember"))
     IN  IF ret' = "Key" /\ token \in (IF Top.type.key = "str" THEN Plain ELSE Strings)
           THEN /\ Collect(Top.parts, Decoded[token])
                /\ want' = Top.type.of /\ pc' = "value"
                /\ UNCHANGED value
         ELSE IF ret' = "Closed" THEN Give(Top.parts)
         ELSE Failed
  /\ UNCHANGED structRest

TakeMemberAnyTime == \* mutant: a repeated key replaces nothing and is no error
  /\ pc = "read" /\ calls # << >> /\ Top.type.kind = "map"
  /\ LET member == [is |-> Top.name, parts |-> <<ValueRead>>]
     IN  /\ Collect(Append(Top.parts, member), NoTag)
         /\ pc' = "nextMember" /\ UNCHANGED <<lexVars, want, value>>
  /\ UNCHANGED structRest

(* The value has been read by the time its key is found to be repeated.    *)
TakeMember ==
  /\ pc = "read" /\ calls # << >> /\ Top.type.kind = "map"
  /\ LET member == [is |-> Top.name, parts |-> <<ValueRead>>]
     IN  IF \E i \in DOMAIN Top.parts : Top.parts[i].is = Top.name
           THEN Return(offset, "DuplicateKey") /\ Failed
           ELSE /\ Collect(Append(Top.parts, member), NoTag)
                /\ pc' = "nextMember" /\ UNCHANGED <<lexVars, want, value>>
  /\ UNCHANGED structRest

-----------------------------------------------------------------------------
(* parse: one value, and nothing behind it.                                *)
FinishDocument ==
  /\ pc = "read" /\ calls = << >> /\ entry = << >>
  /\ LET o == SkipWhitespace(offset)
     IN  IF o = Len(input) THEN pc' = "parsed" /\ Return(o, "None")
                           ELSE pc' = "refused" /\ Return(o, "TrailingData")
  /\ UNCHANGED <<structRest, typedVars>>

TypedNext ==
  \/ ReadScalar
  \/ ReadOption
  \/ ReadStruct
  \/ ReadFields /\ UNCHANGED typedVars
  \/ EnterSequence
  \/ ReadFusedItem
  \/ TakeItem
  \/ EnterMap
  \/ WalkMember
  \/ TakeMember
  \/ FinishDocument

-----------------------------------------------------------------------------
(* A reader of any type, around any struct, entered with any frames.       *)
typedReaderVars == <<lexVars, structVars, typedVars>>

TypedStart == \E type, p : StructInit("value", p) /\ TypedInit(type)

TypedSpec == TypedStart /\ [][TypedNext]_typedReaderVars

(* Between two items the frames are the caller's and one for each          *)
(* container under way, of its kind: a reader that succeeds leaves the     *)
(* stack as it found it, and one that fails never closes a container of    *)
(* its caller's.                                                           *)
CallerFramesKept ==
  /\ Len(frames) >= Len(entry) /\ SubSeq(frames, 1, Len(entry)) = entry
  /\ pc \in {"value", "item", "read", "firstMember", "nextMember"} =>
       frames = entry \o [i \in DOMAIN calls |->
                            IF calls[i].type.kind = "map" THEN "Object" ELSE "Array"]
=============================================================================
