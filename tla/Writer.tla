-------------------------------- MODULE Writer ---------------------------------
(***************************************************************************)
(* Serialization: the ToJson code of ser.rs (arrays, maps) and what        *)
(* #[derive(ToJson)] generates (bourne-derive/src/to_json), writing the    *)
(* same value to a compact sink and to PrettySink at once.                 *)
(*                                                                         *)
(* On the compact sink generated code fuses a comma, a key and a colon     *)
(* into one literal where it can; whether a member needs a comma is partly *)
(* decided at expansion (comma) and partly at run time (first), because a  *)
(* field under skip_if_none may or may not be written.                     *)
(*                                                                         *)
(* A value is a record: a "scalar", which is one token; an "array" or a    *)
(* "map" of items; an "object" of fields, after a tag if it is an          *)
(* internally tagged variant; an "external" or "adjacent" variant around   *)
(* one content.  A field has its key, its value and what its attributes    *)
(* make of it: plain (neither renamed nor cased), skip, conditional        *)
(* (skip_if_none), none (it is an Option and holds None).                  *)
(***************************************************************************)
EXTENDS Naturals, Sequences, FiniteSets, JsonGrammar

CONSTANTS
  Values,           \* the values to write
  Nodes,            \* they and their parts
  Words,            \* the tokens of their texts and keys
  TagKey, ContentKey, TagName

VARIABLES
  value,            \* the value written; never changes
  job,              \* the value to write next, as a sequence of at most one
  stack,            \* the writers under way, innermost last
  plain,            \* the text of the compact sink
  pretty            \* the pretty sink

vars == <<value, job, stack, plain, pretty>>

P == INSTANCE PrettySink

(* The words that stand without quotes, numbers and keywords: no keys.     *)
Literals == {"1", "kw"}
KeyTokens == Words \ Literals

Entry == [key : KeyTokens, value : Nodes]

Field ==
  [key : KeyTokens, value : Nodes,
   plain : BOOLEAN, skip : BOOLEAN, conditional : BOOLEAN, none : BOOLEAN]

ASSUME WriterAssumption ==
  /\ Values \subseteq Nodes
  /\ {TagKey, ContentKey, TagName} \subseteq KeyTokens
  /\ Words \cap P!Layout = {}
  /\ \A v \in Nodes :
       \/ v.kind = "scalar" /\ v.text \in Words
       \/ v.kind = "array" /\ v.items \in Seq(Nodes)
       \/ v.kind = "map" /\ v.items \in Seq(Entry)
       \/ v.kind = "object" /\ v.tagged \in BOOLEAN /\ v.fields \in Seq(Field)
       \/ v.kind \in {"external", "adjacent"} /\ v.value \in Nodes

(* No text or key is written as one of the marks.                          *)
ASSUME WordsAssumption == Words \cap {"[", "]", "{", "}", ",", ":"} = {}

Init ==
  /\ value \in Values
  /\ job = <<value>>
  /\ stack = << >>
  /\ plain = << >>
  /\ pretty = P!New

-----------------------------------------------------------------------------
(* A writer under way: what it has left to write and how.                  *)
Under(style, todo, comma, first, close) ==
  [style |-> style, todo |-> todo, comma |-> comma, first |-> first, close |-> close]

Inner == stack[Len(stack)]
Todo(style) ==
  /\ job = << >> /\ stack # << >>
  /\ Inner.style = style /\ Inner.todo # << >>

(* The innermost writer has dealt with its next item.                      *)
Advance(comma, first) ==
  stack' = [stack EXCEPT ![Len(stack)] =
              Under(Inner.style, Tail(Inner.todo), comma, first, Inner.close)]

Writing(kind) == job # << >> /\ job[1].kind = kind

WriteScalar ==
  /\ Writing("scalar")
  /\ plain' = Append(plain, job[1].text)
  /\ pretty' = P!WriteRaw(pretty, job[1].text)
  /\ job' = << >>
  /\ UNCHANGED <<value, stack>>

(* write_array, write_array_hinted, tuples; write_object for maps.         *)
WriteItems ==
  /\ Writing("array") \/ Writing("map")
  /\ LET open == IF Writing("array") THEN "[" ELSE "{"
         close == IF Writing("array") THEN "]" ELSE "}"
     IN  /\ plain' = Append(plain, open)
         /\ pretty' = P!Begin(pretty, open)
         /\ stack' = Append(stack, Under(job[1].kind, job[1].items, "Never", TRUE, close))
  /\ job' = << >>
  /\ UNCHANGED value

NextItem ==
  /\ Todo("array")
  /\ LET v == Inner.todo[1]
     IN  /\ plain' = IF Inner.first THEN plain ELSE Append(plain, ",")
         /\ pretty' = IF Inner.first THEN pretty ELSE P!Separator(pretty)
         /\ job' = <<v>>
  /\ Advance("Never", FALSE)
  /\ UNCHANGED value

NextEntry ==
  /\ Todo("map")
  /\ LET entry == Inner.todo[1]
         lead == IF Inner.first THEN << >> ELSE <<",">>
     IN  /\ plain' = plain \o lead \o <<entry.key, ":">>
         /\ pretty' = P!ObjectKey(IF Inner.first THEN pretty ELSE P!Separator(pretty),
                                  entry.key)
         /\ job' = <<entry.value>>
  /\ Advance("Never", FALSE)
  /\ UNCHANGED value

-----------------------------------------------------------------------------
(* Generated code.  The tag of an internally tagged variant is the first   *)
(* member already written (already_emitted).                               *)

WriteObject ==
  /\ Writing("object")
  /\ LET tag == IF job[1].tagged THEN <<TagKey, ":", TagName>> ELSE << >>
         opened == P!Begin(pretty, "{")
     IN  /\ plain' = Append(plain, "{") \o tag
         /\ pretty' = IF job[1].tagged
                        THEN P!WriteRaw(P!ObjectKey(opened, TagKey), TagName)
                        ELSE opened
         /\ stack' = Append(stack, Under("object", job[1].fields,
                                         IF job[1].tagged THEN "Always" ELSE "Never",
                                         ~ job[1].tagged, "}"))
  /\ job' = << >>
  /\ UNCHANGED value

(* The comma as planned at expansion, behind the members before it.        *)
PlannedLead ==
  CASE Inner.comma = "Never"   -> FALSE
    [] Inner.comma = "Always"  -> TRUE
    [] Inner.comma = "Runtime" -> ~ Inner.first

SkipField ==
  /\ Todo("object") /\ Inner.todo[1].skip
  /\ Advance(Inner.comma, Inner.first)
  /\ UNCHANGED <<value, job, plain, pretty>>

(* A member on both sinks; lead and prettyLead say whether a comma is due. *)
WriteMember(lead, prettyLead) ==
  LET f == Inner.todo[1]
  IN  /\ plain' = plain \o (IF lead THEN <<",">> ELSE << >>) \o <<f.key, ":">>
      /\ pretty' = P!ObjectKey(IF prettyLead THEN P!Separator(pretty) ELSE pretty, f.key)
      /\ job' = <<f.value>>
      /\ UNCHANGED value

ConditionalFieldStatic == \* mutant: the plan takes the field to be written
  /\ Todo("object")
  /\ LET f == Inner.todo[1]
     IN  /\ ~ f.skip /\ f.conditional
         /\ \/ /\ f.none
               /\ Advance("Always", Inner.first)
               /\ UNCHANGED <<value, job, plain, pretty>>
            \/ /\ ~ f.none
               /\ Advance("Always", FALSE)
               /\ WriteMember(PlannedLead, PlannedLead)

(* A field under skip_if_none: behind it every comma is decided at run     *)
(* time.                                                                   *)
ConditionalField ==
  /\ Todo("object")
  /\ LET f == Inner.todo[1]
     IN  /\ ~ f.skip /\ f.conditional
         /\ \/ /\ f.none
               /\ Advance("Runtime", Inner.first)
               /\ UNCHANGED <<value, job, plain, pretty>>
            \/ /\ ~ f.none
               /\ Advance("Runtime", FALSE)
               /\ WriteMember(PlannedLead, PlannedLead)

LiteralFieldFirst == \* mutant: a fused member does not clear __first
  /\ Todo("object") /\ Inner.comma # "Runtime"
  /\ LET f == Inner.todo[1]
     IN  ~ f.skip /\ ~ f.conditional /\ f.plain
  /\ Advance("Always", Inner.first)
  /\ WriteMember(Inner.comma = "Always", ~ Inner.first)

(* A plain field: the compact sink gets one literal with the comma in it,  *)
(* the pretty sink asks __first.                                           *)
LiteralField ==
  /\ Todo("object") /\ Inner.comma # "Runtime"
  /\ LET f == Inner.todo[1]
     IN  ~ f.skip /\ ~ f.conditional /\ f.plain
  /\ Advance("Always", FALSE)
  /\ WriteMember(Inner.comma = "Always", ~ Inner.first)

(* Any other field: renamed, or behind a conditional one.                  *)
RenamedField ==
  /\ Todo("object")
  /\ LET f == Inner.todo[1]
     IN  /\ ~ f.skip /\ ~ f.conditional
         /\ ~ f.plain \/ Inner.comma = "Runtime"
  /\ Advance(IF Inner.comma = "Runtime" THEN "Runtime" ELSE "Always", FALSE)
  /\ WriteMember(PlannedLead, PlannedLead)

(* {"Variant": content}, and {tag: "Variant", content: ...}                *)
WriteVariant ==
  /\ Writing("external") \/ Writing("adjacent")
  /\ LET opened == P!Begin(pretty, "{")
         tagged == P!WriteRaw(P!ObjectKey(opened, TagKey), TagName)
     IN  IF Writing("external")
           THEN /\ plain' = plain \o <<"{", TagName, ":">>
                /\ pretty' = P!ObjectKey(opened, TagName)
           ELSE /\ plain' = plain \o <<"{", TagKey, ":", TagName, ",", ContentKey, ":">>
                /\ pretty' = P!ObjectKey(P!Separator(tagged), ContentKey)
  /\ stack' = Append(stack, Under("variant", << >>, "Always", FALSE, "}"))
  /\ job' = <<job[1].value>>
  /\ UNCHANGED value

Close ==
  /\ job = << >> /\ stack # << >> /\ Inner.todo = << >>
  /\ plain' = Append(plain, Inner.close)
  /\ pretty' = P!End(pretty, Inner.close)
  /\ stack' = SubSeq(stack, 1, Len(stack) - 1)
  /\ UNCHANGED <<value, job>>

Done == job = << >> /\ stack = << >>

(* Nothing is left to write.  That nothing else stops a writer, TLC checks *)
(* as the absence of deadlock.                                             *)
Finished == Done /\ UNCHANGED vars

Next ==
  \/ WriteScalar
  \/ WriteItems \/ NextItem \/ NextEntry
  \/ WriteObject \/ SkipField \/ ConditionalField \/ LiteralField \/ RenamedField
  \/ WriteVariant
  \/ Close
  \/ Finished

Spec == Init /\ [][Next]_vars

-----------------------------------------------------------------------------
(* What is left of a text without its layout: the tokens of text, each at  *)
(* its rank among those that are shown.                                    *)
Shown(out) == {i \in DOMAIN out : out[i] \notin P!Layout}

Rank(out, i) == Cardinality({j \in Shown(out) : j <= i})

Shows(out, text) ==
  /\ Len(text) = Cardinality(Shown(out))
  /\ \A i \in Shown(out) : text[Rank(out, i)] = out[i]

(* The pretty text is the compact text plus layout, at every moment and    *)
(* with the bracket that is held back: no comma, key or bracket is only on *)
(* one of the two, in whatever way it got there (object.rs:38-55, audit    *)
(* 3.8).                                                                   *)
SameText == Shows(pretty.out \o pretty.pending, plain)

(* The depth never drifts from the nesting: a container is counted once it *)
(* has something in it (end_container: "it cannot underflow").             *)
DepthIsNesting == pretty.depth + Len(pretty.pending) = Len(stack)

(* What has been written in the end is one JSON text, whatever fields were *)
(* left out: no comma is missing, doubled or trailing.                     *)
WrittenIsJson ==
  Done => plain # << >> /\ Derives(plain, Words, KeyTokens, Len(plain))

(* Every line of the pretty text is indented by the containers open at its *)
(* start, a closing bracket like the line of its opening one, and an empty *)
(* container is on one line.                                               *)
Lines == {i \in DOMAIN pretty.out : pretty.out[i] = "nl"}

Indentation(i) ==
  CHOOSE n \in 0..(Len(pretty.out) - i) :
    /\ \A k \in 1..n : pretty.out[i + k] = "indent"
    /\ i + n < Len(pretty.out) => pretty.out[i + n + 1] # "indent"

LinesAreIndented ==
  \A i \in Lines :
    LET n == Indentation(i)
        first == IF i + n < Len(pretty.out) THEN pretty.out[i + n + 1] ELSE "none"
        closes == first \in {"]", "}"}
    IN  /\ n + (IF closes THEN 1 ELSE 0) = DepthAt(pretty.out, i)
        /\ closes => pretty.out[i - 1] \notin {"[", "{"}
=============================================================================
