------------------------------- MODULE RoundTrip -------------------------------
(***************************************************************************)
(* Writer and TypedReader on one text: what the writers have written, by   *)
(* the compact or the pretty sink, is parsed again as a value of the type  *)
(* it was written from.  The two share nothing but the text and the        *)
(* attributes of the fields, which the derive macros read twice: to_json   *)
(* decides from them what is left out, from_json what may be absent.       *)
(*                                                                         *)
(* A struct is read with deny_unknown_fields.  A tagged one is read behind *)
(* the tag its reader has found before (InternalEnum); the other variants  *)
(* are read in ExternalEnum and AdjacentEnum, and not here.                *)
(***************************************************************************)
EXTENDS Writer

CONSTANTS
  MaxDepth, Plain, Escaped, Inputs,                         \* of Lexer
  Decoded, Fields, Key, Type, Default, Skip, Entered,       \* of StructReader
  Declared                                                  \* of TypedReader

VARIABLES
  input, offset, frames, ret,
  pc,                                     \* "writing" until the text is there
  plan, slots, key, tagSeen, entry,
  want, calls,
  got                                     \* what has been read (value there)

R == INSTANCE TypedReader WITH value <- got

readVars ==
  <<input, offset, frames, ret, pc, plan, slots, key, tagSeen, entry, want, calls, got>>

RoundTripInit ==
  /\ Init
  /\ input = << >> /\ offset = 0 /\ frames = << >> /\ ret = "None"
  /\ pc = "writing" /\ entry = << >>
  /\ plan = [fields |-> {}, reject |-> TRUE, tag |-> R!NoTag]
  /\ slots = [f \in Fields |-> "unset"] /\ key = R!NoTag /\ tagSeen = FALSE
  /\ want = [kind |-> "()"] /\ calls = << >> /\ got = R!Atom("unset")

-----------------------------------------------------------------------------
(* The type a value is of.  Items of one type make a Vec, others a tuple.  *)
NameOf(field) == Decoded[field.key]

ItemValues(v) ==
  IF v.kind = "map" THEN [i \in DOMAIN v.items |-> v.items[i].value] ELSE v.items

RECURSIVE TypeOf(_)
TypeOf(v) ==
  CASE v.kind = "scalar" ->
         [kind |-> CASE v.text = "1"  -> "i64"
                     [] v.text = "kw" -> "()"
                     [] OTHER         -> "String"]
    [] v.kind = "object" -> [kind |-> "struct"]
    [] v.kind \in {"array", "map"} ->
         LET types == [i \in DOMAIN v.items |-> TypeOf(ItemValues(v)[i])]
             alike == \A i \in DOMAIN types : types[i] = types[1]
             item  == IF types = << >> THEN [kind |-> "i64"] ELSE types[1]
         IN  IF v.kind = "map" THEN [kind |-> "map", key |-> "String", of |-> item]
             ELSE IF alike     THEN [kind |-> "Vec", of |-> item]
             ELSE [kind |-> "tuple", of |-> types, len |-> Len(types)]

(* The structs in a value, each by the plan its reader has, and whether    *)
(* there is nothing in it that TypedReader does not read.                  *)
PlanOf(object) ==
  [fields |-> {NameOf(object.fields[i]) : i \in DOMAIN object.fields},
   reject |-> TRUE, tag |-> IF object.tagged THEN TagKey ELSE R!NoTag]

RECURSIVE PlansIn(_)
PlansIn(v) ==
  CASE v.kind = "object"           -> {PlanOf(v)}
    [] v.kind \in {"array", "map"} -> UNION {PlansIn(ItemValues(v)[i]) : i \in DOMAIN v.items}
    [] OTHER                       -> {}

RECURSIVE OnlyKnownTypes(_)
OnlyKnownTypes(v) ==
  CASE v.kind = "scalar" -> TRUE
    [] v.kind = "object" ->
         \A i \in DOMAIN v.fields : v.fields[i].value.kind = "scalar"
    [] v.kind \in {"array", "map"} ->
         /\ \A i \in DOMAIN v.items : OnlyKnownTypes(ItemValues(v)[i])
         /\ v.kind = "map" => \A i \in DOMAIN v.items :
              TypeOf(v.items[i].value) = TypeOf(v.items[1].value)
    [] OTHER -> FALSE

Readable(v) == OnlyKnownTypes(v) /\ Cardinality(PlansIn(v)) <= 1

-----------------------------------------------------------------------------
AsInput(text) ==
  [i \in DOMAIN text |-> IF text[i] \in P!Layout THEN "ws" ELSE text[i]]

(* parse is called on the text.                                            *)
HandOver ==
  /\ Done /\ pc = "writing" /\ Readable(value)
  /\ input' \in {AsInput(plain), AsInput(pretty.out)}
  /\ want' = TypeOf(value) /\ pc' = "value"
  /\ plan' = IF PlansIn(value) = {} THEN plan ELSE CHOOSE p \in PlansIn(value) : TRUE
  /\ UNCHANGED <<vars, offset, frames, ret, slots, key, tagSeen, entry, calls, got>>

RoundTripNext ==
  \/ Next /\ UNCHANGED readVars
  \/ HandOver
  \/ R!TypedNext /\ UNCHANGED vars

RoundTripSpec ==
  /\ RoundTripInit
  /\ [][RoundTripNext]_<<vars, readVars>>
  /\ WF_<<vars, readVars>>(RoundTripNext)

-----------------------------------------------------------------------------
(* The value that must come back: a skipped field has its default, an      *)
(* Option that holds None is None whether it was left out or written.      *)
FieldBack(object, name) ==
  LET back == {i \in DOMAIN object.fields :
                 LET f == object.fields[i] IN NameOf(f) = name /\ ~ f.skip /\ ~ f.none}
  IN  IF back = {} THEN "unset" ELSE object.fields[CHOOSE i \in back : TRUE].value.text

RECURSIVE Original(_)
Original(v) ==
  CASE v.kind = "scalar" ->
         R!Atom(IF v.text \in Literals THEN v.text ELSE Decoded[v.text])
    [] v.kind = "object" ->
         [is |-> "struct",
          parts |-> [i \in DOMAIN Declared |-> R!Atom(FieldBack(v, Declared[i]))]]
    [] v.kind = "array" ->
         [is |-> TypeOf(v).kind, parts |-> [i \in DOMAIN v.items |-> Original(v.items[i])]]
    [] v.kind = "map" ->
         [is |-> "map",
          parts |-> [i \in DOMAIN v.items |->
                       [is |-> Decoded[v.items[i].key],
                        parts |-> <<Original(v.items[i].value)>>]]]

RECURSIVE NoneIsAbsent(_)
NoneIsAbsent(read) ==
  [is |-> read.is,
   parts |-> [i \in DOMAIN read.parts |->
                IF read.is = "struct" /\ read.parts[i] = R!Atom("kw") THEN R!Atom("unset")
                ELSE NoneIsAbsent(read.parts[i])]]

(* What is written is read back as the value it was, from the compact text *)
(* and from the pretty one: the reader supplies exactly what the writer    *)
(* left out (skip, skip_if_none), finds each member under the key it was   *)
(* written with, renamed ones behind their escapes, and meets no member it *)
(* does not know (to_json/object.rs:61-140, from_json/object.rs:48-58,     *)
(* option_shape.rs).                                                       *)
ReadsBack ==
  Readable(value) => <>(pc = "parsed" /\ NoneIsAbsent(R!ValueRead) = Original(value))
=============================================================================
