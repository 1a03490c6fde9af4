----------------------------- MODULE MCTypedReader -----------------------------
(***************************************************************************)
(* Typed reading, inside and outside another container.  A derived struct  *)
(* from objects of up to three members and from what is one token away     *)
(* from the smaller ones; containers of each kind, of scalars, of each     *)
(* other and of the struct, from documents of up to three items two levels *)
(* deep and what is one token away from some that fit.  Judged by a        *)
(* declarative reading of the whole text.                                  *)
(***************************************************************************)
EXTENDS TypedReader, Documents

CONSTANTS
  Keys, Values,     \* key tokens and value texts of the struct's documents
  Edits

VARIABLE asked    \* history: the type the reader was asked for

vars == <<lexVars, structVars, typedVars, asked>>

MCDecoded ==
  [str |-> "a", esc |-> "a", other |-> "b", third |-> "c", last |-> "d", unopened |-> "a"]

(* a is required, b may be absent, c has a default, d is never read.       *)
MCFields   == {"a", "b", "c", "d"}
MCDeclared == <<"a", "b", "c", "d">>
MCKey      == [a |-> "a", b |-> "b", c |-> "c", d |-> "d"]
MCType     == [a |-> "i64", b |-> "Option", c |-> "str", d |-> "i64"]
MCDefault  == {"c"}
MCSkip     == {"d"}

MCValues == {<<"1">>, <<"kw">>, <<"str">>, <<"[", "]">>, <<"{", "lone", ":", "1", "}">>}

StructInputs ==
  LET members == {<<k, ":">> \o v : k \in Keys, v \in Values}
      few  == ObjectsOf(Keys, Values)
      more == {<<"{">> \o m \o <<",">> \o n \o <<",">> \o o \o <<"}">> :
                 m, n, o \in {<<k, ":", "1">> : k \in Keys}}
  IN  few \cup more \cup OneTokenAway(ObjectsOf(Keys, {<<"1">>}), Edits)

(* With and without #[bourne(deny_unknown_fields)], as a struct and as a   *)
(* variant whose tag, among the fields, is called d.                       *)
Plans == {[fields |-> Fields, reject |-> r, tag |-> t] : r \in BOOLEAN, t \in {NoTag, "d"}}

Lenient == [fields |-> Fields, reject |-> FALSE, tag |-> NoTag]

-----------------------------------------------------------------------------
Of(kind)           == [kind |-> kind]
I64                == Of("i64")
Str                == Of("str")
Text               == Of("String")
Struct             == Of("struct")
Option(t)          == [kind |-> "Option", of |-> t]
Vec(t)             == [kind |-> "Vec", of |-> t]
Set(t)             == [kind |-> "set", of |-> t]
Array(t, n)        == [kind |-> "array", of |-> t, len |-> n]
Pair(t, u)         == [kind |-> "tuple", of |-> <<t, u>>, len |-> 2]
Map(k, t)          == [kind |-> "map", key |-> k, of |-> t]

ArrayTypesRead ==
  {Vec(I64), Vec(Str), Vec(Text), Set(Text), Array(Text, 0), Array(I64, 2),
   Pair(Str, Option(I64)), Vec(Option(I64)), Vec(Of("()")), Option(Vec(Text))}

NestedTypesRead ==
  {Vec(Vec(I64)), Set(Vec(Text)), Pair(Vec(I64), Map("String", I64)), Array(Option(Array(I64, 1)), 2),
   Vec(Struct), Vec(Map("str", I64))}

MapTypesRead ==
  {Map("String", I64), Map("str", Option(I64)), Map("String", Vec(Str)), Map("String", Struct),
   Map("str", Map("String", I64))}

Leaves == {<<"1">>, <<"kw">>, <<"str">>, <<"esc">>, <<"other">>, <<"lone">>}

Three(values) ==
  {<<"[">> \o u \o <<",">> \o v \o <<",">> \o w \o <<"]">> : u, v, w \in values}

Inner == {<<"1">>, <<"[", "]">>, <<"[", "1", "]">>, <<"[", "str", ",", "esc", "]">>,
          <<"[", "1", ",", "1", "]">>, <<"{", "}">>, <<"{", "str", ":", "1", "}">>,
          <<"{", "esc", ":", "1", "}">>}

FlatInputs ==
  Leaves \cup ArraysOf(Leaves) \cup Three({<<"1">>, <<"str">>, <<"esc">>, <<"other">>})
  \cup OneTokenAway({<<"[", "1", ",", "1", "]">>, <<"[", "str", ",", "kw", "]">>,
                     <<"[", "str", "]">>, <<"1">>}, Edits)

NestedInputs ==
  ArraysOf(Inner)
  \cup OneTokenAway({<<"[", "[", "1", "]", ",", "[", "1", "]", "]">>,
                     <<"[", "[", "1", "]", ",", "{", "str", ":", "1", "}", "]">>,
                     <<"[", "kw", ",", "[", "1", "]", "]">>}, Edits)

MapInputs ==
  Leaves
  \cup ObjectsOf({"str", "esc", "other", "lone"}, {<<"1">>, <<"kw">>})
  \cup ObjectsOf({"str", "esc", "other"}, {<<"[", "str", "]">>, <<"{", "esc", ":", "1", "}">>})
  \cup OneTokenAway({<<"{", "str", ":", "1", ",", "other", ":", "1", "}">>,
                     <<"{", "str", ":", "[", "str", "]", "}">>,
                     <<"{", "other", ":", "{", "str", ":", "1", "}", "}">>}, Edits)

MCInputs == UNION {StructInputs, FlatInputs, NestedInputs, MapInputs}

MCEntered == {<< >>, <<"Array">>, <<"Array", "Array">>}

-----------------------------------------------------------------------------
Starts(type, p, inputs) ==
  StructInit("value", p) /\ input \in inputs /\ TypedInit(type) /\ asked = type

Init ==
  \/ \E p \in Plans : Starts(Struct, p, StructInputs)
  \/ \E type \in ArrayTypesRead : Starts(type, Lenient, FlatInputs)
  \/ \E type \in NestedTypesRead : Starts(type, Lenient, NestedInputs)
  \/ \E type \in MapTypesRead : Starts(type, Lenient, MapInputs)

Next == TypedNext /\ UNCHANGED asked

Spec == Init /\ [][Next]_vars /\ WF_vars(Next)

-----------------------------------------------------------------------------
(* The declarative reading: which value of a type a text is, if any.       *)

Items(t) ==
  LET cuts == {1, Len(t)} \cup {i \in 1..Len(t) : t[i] = "," /\ DepthAt(t, i) = 1}
      at   == SetToSortSeq(cuts, <)
  IN  IF Len(t) = 2 THEN << >>
      ELSE [i \in 1..(Len(at) - 1) |-> SubSeq(t, at[i] + 1, at[i + 1] - 1)]

Distinct(parts) ==
  SelectSeq([i \in DOMAIN parts |-> i],
            LAMBDA i : \A j \in 1..(i - 1) : parts[j] # parts[i])

SlotParts(t, p) ==
  [i \in DOMAIN Declared |-> Atom(SlotsOf(t, p)[Declared[i]])]

RECURSIVE Readings(_, _)
(* One value, or none.                                                     *)
Readings(t, type) ==
  CASE type.kind = "i64"    -> IF t = <<"1">> THEN {Atom("1")} ELSE {}
    [] type.kind = "()"     -> IF t = <<"kw">> THEN {Atom("kw")} ELSE {}
    [] type.kind = "str"    -> {Atom(Decoded[s]) : s \in {s \in Plain : t = <<s>>}}
    [] type.kind = "String" -> {Atom(Decoded[s]) : s \in {s \in Strings : t = <<s>>}}
    [] type.kind = "Option" ->
         IF t = <<"kw">> THEN {Atom("kw")} ELSE Readings(t, type.of)
    [] type.kind = "struct" ->
         IF ObjectAccepts(t, plan)
           THEN {[is |-> "struct", parts |-> SlotParts(t, plan)]} ELSE {}
    [] type.kind \in ArrayTypes ->
         LET items == Items(t)
             fits(i) == Readings(items[i], ItemType(type, i)) # {}
             parts == [i \in DOMAIN items |-> CHOOSE v \in Readings(items[i], ItemType(type, i)) : TRUE]
             kept  == IF type.kind = "set" THEN Distinct(parts) ELSE [i \in DOMAIN parts |-> i]
         IN  IF /\ t[1] = "["
                /\ Unbounded(type) \/ Len(items) = type.len
                /\ \A i \in DOMAIN items : fits(i)
               THEN {[is |-> type.kind, parts |-> [k \in DOMAIN kept |-> parts[kept[k]]]]}
               ELSE {}
    [] type.kind = "map" ->
         LET colons == SetToSortSeq(Members(t), <)
             name(i) == t[colons[i] - 1]
             reading(i) == Readings(MemberValue(t, colons[i]), type.of)
         IN  IF /\ t[1] = "{"
                /\ \A i \in DOMAIN colons :
                     /\ name(i) \in (IF type.key = "str" THEN Plain ELSE Strings)
                     /\ reading(i) # {}
                     /\ \A j \in 1..(i - 1) : Decoded[name(j)] # Decoded[name(i)]
               THEN {[is |-> "map",
                      parts |-> [i \in DOMAIN colons |->
                                   [is |-> Decoded[name(i)],
                                    parts |-> <<CHOOSE v \in reading(i) : TRUE>>]]]}
               ELSE {}

(* The readings of a text that may not be JSON.  A type's own nesting goes *)
(* as deep as the frames allow.                                            *)
DocumentReadings(text, type) ==
  LET t == Lexemes(text)
  IN  IF /\ t # << >>
         /\ Derives(t, ScalarTokens, Strings \cup {"lone"}, MaxDepth - Len(entry))
        THEN Readings(t, type) ELSE {}

(* A reader of a type accepts exactly the JSON values that fit it, the     *)
(* containers to the item (a [T; N] its length, a map its keys, each once, *)
(* a struct its fields), and gives back the value that stands there,       *)
(* whatever the order, the escapes and the way the items are read          *)
(* (de.rs:61-79, 105-125, 327-349, 584-606; object.rs:48-58); parse        *)
(* accepts nothing behind it (de.rs:32-37).                                *)
ReadsTheType ==
  LET readings(e) == DocumentReadings(SubSeq(input, 1, e), asked)
  IN  /\ pc = "read" /\ calls = << >> => readings(offset) = {ValueRead}
      /\ pc = "failed" => \A e \in 0..Len(input) : readings(e) = {}
      /\ pc = "parsed" => readings(Len(input)) = {ValueRead}
      /\ pc = "refused" => readings(Len(input)) = {}

(* Every loop over items and members makes progress and ends; a key that   *)
(* was rewound for its escapes is read again only once.                    *)
ReaderReturns == <>(pc = "failed" \/ (pc = "read" /\ calls = << >>))
=============================================================================
