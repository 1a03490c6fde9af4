----------------------------- MODULE StructReader ------------------------------
(***************************************************************************)
(* The reader that #[derive(FromJson)] generates for a set of named fields *)
(* (ObjectReader in bourne-derive/src/from_json/object.rs): named structs  *)
(* and the struct variants of enums.  Keys are read borrowed first and     *)
(* decoded on a retry; each field has a slot, filled once; unknown keys    *)
(* are skipped or refused; unfilled slots are settled at the end.          *)
(***************************************************************************)
EXTENDS Lexer, JsonGrammar

CONSTANTS
  Decoded,          \* the text of a string: Strings \cup {"unopened"} -> names
  Fields,           \* the named fields of every struct and variant
  Key,              \* the JSON key of a field (rename, rename_all)
  Type,             \* "i64", "str" (a borrowed &str) or "Option" (of i64)
  Default,          \* fields with #[bourne(default)]
  Skip,             \* fields with #[bourne(skip)]
  Entered           \* frame stacks the reader may be entered with

VARIABLES
  pc,               \* the step of the generated code that is next
  plan,             \* the fields being read, what unknown keys do, the tag
  slots,            \* field -> the value read for it, or "unset"
  key,              \* the decoded key of the member being read
  tagSeen,          \* __bourne_tag_seen
  entry             \* history: the frames the reader was entered with

structVars == <<pc, plan, slots, key, tagSeen, entry>>

NoTag == "no tag"

ASSUME StructAssumption ==
  /\ DOMAIN Decoded = Strings \cup {"unopened"}
  /\ \A s \in DOMAIN Decoded : Decoded[s] # NoTag
  /\ Key \in [Fields -> {Decoded[s] : s \in DOMAIN Decoded}]
  /\ Type \in [Fields -> {"i64", "str", "Option"}]
  /\ Default \subseteq Fields /\ Skip \subseteq Fields
  /\ \A f, g \in Fields : Key[f] = Key[g] => f = g

ASSUME EnteredAssumption ==
  \A s \in Entered : s \in Seq(FS!Frame) /\ Len(s) <= MaxDepth

ReaderError ==
  ErrorKind \cup {"DuplicateKey", "UnknownField", "MissingField", "ExpectedNumber",
                  "ExpectedString", "BorrowedKeyNeedsDecode"}

(* Before the reader is called, with step its first one.                   *)
StructInit(step, p) ==
  /\ input \in Inputs /\ entry \in Entered
  /\ offset = 0 /\ frames = entry /\ ret = "None"
  /\ pc = step /\ plan = p
  /\ slots = [f \in Fields |-> "unset"] /\ key = NoTag /\ tagSeen = FALSE

(* Every `?`: an error leaves the reader at once.                          *)
Then(next) == pc' = IF ret' \in ReaderError THEN "failed" ELSE next

Fail(e) ==
  /\ Return(offset, e)
  /\ Then("failed")

(* skip_value by what it promises (SkipValue!SkipsExactlyOneValue): behind *)
(* one value, or failed where none stands.  Nobody looks at the frames of  *)
(* a failed skip.                                                          *)
IsValue(from, to) ==
  /\ IsDocument(SubSeq(input, from + 1, to), ScalarTokens, Strings \cup {"lone"},
                MaxDepth - Len(frames))
  /\ Peek(to) = "1" => input[to] # "1"

SkipOneValue ==
  \/ \E e \in offset..Len(input) : IsValue(offset, e) /\ Return(e, "Skipped")
  \/ /\ \A e \in offset..Len(input) : ~ IsValue(offset, e)
     /\ Unexpected(offset)

(* The quote of the key that a key walker reads next.                      *)
KeyAt(first) ==
  LET o == SkipWhitespace(offset)
  IN  IF first THEN o ELSE SkipWhitespace(o + 1)

-----------------------------------------------------------------------------
(* key_walk: borrowed first; an escape rewinds to the quote and decodes.   *)

ReadObject ==
  /\ pc = "object"
  /\ ObjectStart
  /\ Then("firstKey")
  /\ slots' = [f \in Fields |-> "unset"]
  /\ tagSeen' = FALSE
  /\ UNCHANGED <<plan, entry, key>>

WalkKeyAgain == \* mutant: an escaped key is read borrowed again
  /\ pc \in {"firstKey", "nextKey"}
  /\ IF pc = "firstKey" THEN ObjectFirstKey(FALSE) ELSE ObjectNextKey(FALSE)
  /\ CASE ret' = "Key" ->
            /\ key' = Decoded[Peek(KeyAt(pc = "firstKey"))]
            /\ pc' = "arm"
       [] ret' = "InvalidEscape" -> pc' = "firstKey" /\ UNCHANGED key
       [] ret' = "Closed"        -> pc' = "finish" /\ UNCHANGED key
       [] OTHER                  -> pc' = "failed" /\ UNCHANGED key
  /\ UNCHANGED <<plan, entry, slots, tagSeen>>

WalkKey ==
  /\ pc \in {"firstKey", "nextKey"}
  /\ IF pc = "firstKey" THEN ObjectFirstKey(FALSE) ELSE ObjectNextKey(FALSE)
  /\ CASE ret' = "Key" ->
            /\ key' = Decoded[Peek(KeyAt(pc = "firstKey"))]
            /\ pc' = "arm"
       [] ret' = "InvalidEscape" -> pc' = "retry" /\ UNCHANGED key
       [] ret' = "Closed"        -> pc' = "finish" /\ UNCHANGED key
       [] OTHER                  -> pc' = "failed" /\ UNCHANGED key
  /\ UNCHANGED <<plan, entry, slots, tagSeen>>

(* object_key_cow: the colon is read before the text is decoded.           *)
DecodeKey ==
  /\ pc = "retry"
  /\ \/ /\ Peek(offset) \in Escaped
        /\ ExpectColon(offset + 1)
        /\ Then("arm")
        /\ key' = Decoded[Peek(offset)]
     \/ /\ Peek(offset) = "lone"
        /\ LET o == SkipWhitespace(offset + 1)
           IN  IF Peek(o) = ":" THEN Return(SkipWhitespace(o + 1), "UnpairedSurrogate")
                                ELSE Unexpected(o)
        /\ Then("failed")
        /\ UNCHANGED key
  /\ UNCHANGED <<plan, entry, slots, tagSeen>>

-----------------------------------------------------------------------------
(* The arms of the key match.                                              *)

Known == {f \in plan.fields \ Skip : Key[f] = key}

(* <i64 as FromJson>::from_lex                                             *)
I64FromLex(from) ==
  LET o == SkipWhitespace(from)
  IN  \/ Peek(o) = "1" /\ Return(RunEnd(o, "1"), "Number")
      \/ Peek(o) \in {"{", "[", "lone", "kw"} \cup Strings
           /\ Return(o, "ExpectedNumber")
      \/ Peek(o) \notin {"1", "{", "[", "lone", "kw"} \cup Strings
           /\ Unexpected(o)

Acquire(type) ==
  \/ type = "i64" /\ ParseI64Value
  \/ type = "str" /\ ParseStrValue
  \/ /\ type = "Option"
     /\ LET o == SkipWhitespace(offset)
        IN  \/ Peek(o) = "kw" /\ Return(o + 1, "Literal")
            \/ Peek(o) # "kw" /\ I64FromLex(o)

FieldArm ==
  /\ pc = "arm"
  /\ \E f \in Known :
       \/ /\ slots[f] # "unset"
          /\ Fail("DuplicateKey")
          /\ UNCHANGED slots
       \/ /\ slots[f] = "unset"
          /\ Acquire(Type[f])
          /\ Then("nextKey")
          /\ slots' = IF ret' \in ReaderError THEN slots
                      ELSE [slots EXCEPT ![f] = Peek(offset)]
  /\ UNCHANGED <<plan, entry, key, tagSeen>>

TagArmAnyNumber == \* mutant: a repeated tag is skipped like the first
  /\ pc = "arm" /\ Known = {} /\ key = plan.tag
  /\ SkipOneValue /\ Then("nextKey")
  /\ tagSeen' = TRUE
  /\ UNCHANGED <<plan, entry, slots, key>>

TagArm ==
  /\ pc = "arm" /\ Known = {} /\ key = plan.tag
  /\ \/ tagSeen /\ Fail("DuplicateKey")
     \/ ~ tagSeen /\ SkipOneValue /\ Then("nextKey")
  /\ tagSeen' = TRUE
  /\ UNCHANGED <<plan, entry, slots, key>>

UnknownArm ==
  /\ pc = "arm" /\ Known = {} /\ key # plan.tag
  /\ IF plan.reject THEN Fail("UnknownField") ELSE SkipOneValue /\ Then("nextKey")
  /\ UNCHANGED <<plan, entry, slots, key, tagSeen>>

FinishNeedsOptions == \* mutant: an Option is not recognised as one
  /\ pc = "finish"
  /\ IF \E f \in plan.fields \ (Skip \cup Default) : slots[f] = "unset"
       THEN Fail("MissingField")
       ELSE pc' = "read" /\ UNCHANGED lexVars
  /\ UNCHANGED <<plan, entry, slots, key, tagSeen>>

(* finalize: default and Option fields may be absent.                      *)
Finish ==
  /\ pc = "finish"
  /\ IF \E f \in plan.fields \ (Skip \cup Default) :
          slots[f] = "unset" /\ Type[f] # "Option"
       THEN Fail("MissingField")
       ELSE pc' = "read" /\ UNCHANGED lexVars
  /\ UNCHANGED <<plan, entry, slots, key, tagSeen>>

ReadFields ==
  \/ ReadObject
  \/ WalkKey
  \/ DecodeKey
  \/ FieldArm
  \/ TagArm
  \/ UnknownArm
  \/ Finish

-----------------------------------------------------------------------------
(* The same reading said of a whole text: which members an object has, and *)
(* which objects a set of fields accepts.                                  *)

Named(t, name) == {c \in Members(t) : t[c - 1] \in Strings /\ Decoded[t[c - 1]] = name}

OfType(value, type) ==
  \/ type \in {"i64", "Option"} /\ value = <<"1">>
  \/ type = "Option" /\ value = <<"kw">>
  \/ type = "str" /\ Len(value) = 1 /\ value[1] \in Plain

MayBeAbsent(f) == f \in Default \/ Type[f] = "Option"

(* t is an object, and p can be read from it.                              *)
ObjectAccepts(t, p) ==
  LET fields == p.fields \ Skip
  IN  /\ t[1] = "{"
      /\ \A c \in Members(t) : t[c - 1] \in Strings
      /\ \A f \in fields :
           LET at == Named(t, Key[f])
           IN  \/ at = {} /\ MayBeAbsent(f)
               \/ \E c \in at : at = {c} /\ OfType(MemberValue(t, c), Type[f])
      /\ Cardinality(Named(t, p.tag)) <= 1
      /\ p.reject => \A c \in Members(t) :
           Decoded[t[c - 1]] \in {Key[f] : f \in fields} \cup {p.tag}

(* What the slots hold after it.                                           *)
SlotsOf(t, p) ==
  [f \in Fields |->
     IF f \in p.fields \ Skip /\ Named(t, Key[f]) # {}
       THEN MemberValue(t, CHOOSE c \in Named(t, Key[f]) : TRUE)[1]
       ELSE "unset"]
=============================================================================
