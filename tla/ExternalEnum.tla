----------------------------- MODULE ExternalEnum ------------------------------
(***************************************************************************)
(* The default tagging: "Variant" for a unit, {"Variant": content} for any *)
(* other variant.                                                          *)
(***************************************************************************)
EXTENDS EnumReader

externalVars == readerVars

ExternalInit == EnumInit

(* peek_value_kind, then the dispatch on a string...                       *)
DispatchString ==
  LET o == SkipWhitespace(offset)
  IN  /\ step = "enum" /\ IsQuote(o)
      /\ ReadStringNoValidate(o)
      /\ variant' = TextOf(Peek(o))
      /\ Go(IF variant' \in Unit THEN "built" ELSE "failed")
      /\ UNCHANGED structVars

(* ...on an object, if any variant has content...                          *)
DispatchObject ==
  /\ step = "enum" /\ Peek(SkipWhitespace(offset)) = "{" /\ Data # {}
  /\ ObjectStart
  /\ Go("key")
  /\ UNCHANGED <<structVars, variant>>

(* ...and on anything else.                                                *)
DispatchNothing ==
  LET o == SkipWhitespace(offset)
  IN  /\ step = "enum"
      /\ ~ IsQuote(o) /\ ~ (Peek(o) = "{" /\ Data # {})
      /\ IF Peek(o) \in {"{", "[", "kw", "1"} THEN Return(o, "TypeMismatch")
                                            ELSE Unexpected(o)
      /\ step' = "failed"
      /\ UNCHANGED <<structVars, variant>>

VariantKey ==
  /\ step = "key"
  /\ ObjectFirstKey(TRUE)
  /\ key' = IF ret' = "Key" THEN TextOf(Peek(KeyAt(TRUE))) ELSE NoTag
  /\ \/ /\ key' \in Data
        /\ EnterBody(key', NoTag, DenyUnknown)
     \/ /\ key' \notin Data
        /\ step' = "failed"
        /\ UNCHANGED <<pc, plan, entry, slots, tagSeen, variant>>

CheckFirstMember == \* mutant: further members are not looked for
  /\ BodyRead
  /\ \/ /\ ObjectNextKey(TRUE)
        /\ ret' = "Closed"
        /\ step' = "built"
     \/ /\ Peek(SkipWhitespace(offset)) = ","
        /\ PopFrame("Object", SkipWhitespace(offset) + 1, "Closed")
        /\ step' = "built"
  /\ UNCHANGED <<structVars, variant>>

(* The variant's member must be the only one.                              *)
CheckOnlyMember ==
  /\ BodyRead
  /\ ObjectNextKey(TRUE)
  /\ step' = IF ret' = "Closed" THEN "built" ELSE "failed"
  /\ UNCHANGED <<structVars, variant>>

ExternalNext ==
  \/ DispatchString \/ DispatchObject \/ DispatchNothing
  \/ VariantKey
  \/ ReadBody
  \/ CheckOnlyMember

ExternalSpec == ExternalInit /\ [][ExternalNext]_externalVars /\ WF_externalVars(ExternalNext)

-----------------------------------------------------------------------------
(* Text t is variant v.                                                    *)
ExternalReads(t, v) ==
  IF v \in Unit THEN Len(t) = 1 /\ t[1] \in Strings /\ Decoded[t[1]] = v
  ELSE /\ t[1] = "{"
       /\ \E c \in Members(t) :
            /\ Members(t) = {c} /\ TextOf(t[c - 1]) = v
            /\ BodyAccepts(v, MemberValue(t, c), DenyUnknown)

ExternalSlots(t, v) ==
  SlotsOf(MemberValue(t, CHOOSE c \in Members(t) : TRUE),
          BodyPlan(v, NoTag, DenyUnknown))

(* A unit is its name, any other variant the one member of an object, and  *)
(* nothing else is read (enums.rs:45-122).                                 *)
ReadsOneMember == BuiltRightly(ExternalReads, ExternalSlots)
=============================================================================
