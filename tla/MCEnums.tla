-------------------------------- MODULE MCEnums --------------------------------
(***************************************************************************)
(* One enum, read in each of the four tagging modes, on its own, inside an *)
(* array, and where no container may be opened any more; from the objects  *)
(* of up to three members that fit the mode, and from what is one token    *)
(* away from a few of them.                                                *)
(***************************************************************************)
EXTENDS ExternalEnum, InternalEnum, AdjacentEnum, UntaggedEnum, Documents

CONSTANT Edits

VARIABLE mode

modeVars == <<mode, start, origin, attempt, cps>>
vars == <<readerVars, modeVars>>

-----------------------------------------------------------------------------
(* One string spells each name and an escaped one the tag's; an unopened   *)
(* string spells the struct variant's.                                     *)
MCDecoded ==
  [str |-> "a", other |-> "b", tag |-> "t", esc |-> "t", cont |-> "c",
   unit |-> "U", new |-> "N", tup |-> "T", rec |-> "S", unopened |-> "S"]

(* U, T(i64, i64), N(i64), S { a: i64, b: Option<i64> }                    *)
MCOrder   == <<"U", "T", "N", "S">>
MCShape   == [U |-> "unit", N |-> "newtype", T |-> "tuple", S |-> "struct"]
MCFieldsOf == [U |-> {}, N |-> {}, T |-> {}, S |-> {"a", "b"}]
MCFields  == {"a", "b"}
MCKey     == [a |-> "a", b |-> "b"]
MCType    == [a |-> "i64", b |-> "Option"]
MCEntered == {<< >>, <<"Array">>, <<"Array", "Array">>}

-----------------------------------------------------------------------------
UpToThree(members) ==
  {<<"{", "}">>}
  \cup {<<"{">> \o m \o <<"}">> : m \in members}
  \cup {<<"{">> \o m \o <<",">> \o n \o <<"}">> : m, n \in members}
  \cup {<<"{">> \o m \o <<",">> \o n \o <<",">> \o o \o <<"}">> : m, n, o \in members}

MCExternal ==
  LET contents == {<<"1">>, <<"kw">>} \cup ArraysOf({<<"1">>, <<"kw">>})
                  \cup ObjectsOf({"str", "other", "tag", "esc"}, {<<"1">>, <<"kw">>})
      few == {<<"1">>, <<"[", "1", ",", "1", "]">>, <<"{", "str", ":", "1", "}">>}
      around(cs) == {<<"{", k, ":">> \o c \o <<"}">> : k \in {"new", "tup", "rec"}, c \in cs}
  IN  around(contents)
      \cup ObjectsOf({"unit", "new", "tup", "rec", "str"}, few)
      \cup OneTokenAway({<<"unit">>} \cup around(few), Edits \cup {"unopened"})

MCInternal ==
  UpToThree({<<"tag", ":", "unit">>, <<"tag", ":", "rec">>, <<"esc", ":", "rec">>,
             <<"tag", ":", "1">>, <<"str", ":", "1">>, <<"other", ":", "kw">>,
             <<"cont", ":", "[", "1", "]">>})
  \cup OneTokenAway({<<"{", "tag", ":", "rec", ",", "str", ":", "1", "}">>,
                     <<"{", "str", ":", "1", ",", "esc", ":", "rec", "}">>,
                     <<"{", "tag", ":", "unit", "}">>}, Edits \cup {"unopened"})

(* Without unopened strings: the reader takes one for a tag.               *)
MCAdjacent ==
  UpToThree({<<"tag", ":", "unit">>, <<"tag", ":", "new">>, <<"esc", ":", "rec">>,
             <<"tag", ":", "tup">>, <<"tag", ":", "1">>, <<"cont", ":", "1">>,
             <<"cont", ":", "{", "str", ":", "1", "}">>, <<"str", ":", "1">>})
  \cup OneTokenAway(
     {<<"{", "tag", ":", "new", ",", "cont", ":", "1", "}">>,
      <<"{", "cont", ":", "1", ",", "esc", ":", "new", "}">>,
      <<"{", "tag", ":", "unit", "}">>}
     \cup {<<"{", "tag", ":", "tup", ",", "cont", ":">> \o c \o <<"}">> :
             c \in ArraysOf({<<"1">>, <<"kw">>})}
     \cup {<<"{", "cont", ":">> \o c \o <<",", "tag", ":", "rec", "}">> :
             c \in ObjectsOf({"str", "esc"}, {<<"1">>, <<"kw">>})}, Edits)

MCUntagged ==
  {<<"1">>, <<"kw">>, <<"str">>}
  \cup ArraysOf({<<"1">>, <<"kw">>, <<"[", "]">>})
  \cup ObjectsOf({"str", "other", "cont"}, {<<"1">>, <<"kw">>, <<"{", "}">>})
  \cup OneTokenAway(
     {<<"1">>, <<"kw">>, <<"[", "1", ",", "1", "]">>, <<"[", "[", "]", ",", "1", "]">>,
      <<"{", "str", ":", "1", "}">>,
      <<"{", "str", ":", "1", ",", "other", ":", "kw", "}">>}, Edits \cup {"unopened"})

MCInputs == UNION {MCExternal, MCInternal, MCAdjacent, MCUntagged}

-----------------------------------------------------------------------------
Init ==
  /\ EnumInit
  /\ start = Checkpoint /\ origin = Checkpoint /\ attempt = 0
  /\ content = NoCheckpoint /\ post = NoCheckpoint /\ early = FALSE
  /\ \/ mode = "external" /\ input \in MCExternal
     \/ mode = "internal" /\ input \in MCInternal
     \/ mode = "adjacent" /\ input \in MCAdjacent
     \/ mode = "untagged" /\ input \in MCUntagged

Next ==
  \/ /\ mode = "external" /\ ExternalNext
     /\ UNCHANGED modeVars
  \/ /\ mode = "internal" /\ InternalNext
     /\ UNCHANGED <<mode, origin, attempt, cps>>
  \/ /\ mode = "adjacent" /\ AdjacentNext
     /\ UNCHANGED <<mode, start, origin, attempt>>
  \/ /\ mode = "untagged" /\ UntaggedNext
     /\ UNCHANGED <<mode, start, cps>>

Spec == Init /\ [][Next]_vars /\ WF_vars(Next)

-----------------------------------------------------------------------------
(* Each mode's property, where the mode is under way.                      *)
ExternalReadsOneMember    == mode = "external" => ReadsOneMember
InternalReadsTaggedObject == mode = "internal" => ReadsTaggedObject
AdjacentReadsBoth         == mode = "adjacent" => ReadsTagAndContent
UntaggedReadsTheFirst     == mode = "untagged" => FirstVariantThatReads

(* Scanning for the tag, reading again and trying variants all end; a      *)
(* failed attempt at a variant is no end.                                  *)
EnumReturns ==
  <>(step \in {"built", "failed"} \/ (mode # "untagged" /\ BodyFailed))
=============================================================================
