----------------------------- MODULE InternalEnum ------------------------------
(***************************************************************************)
(* #[bourne(tag = "...")]: the tag is a member among the variant's own.    *)
(* The object is scanned for it, skipping what comes before, then read     *)
(* again from its opening brace.                                           *)
(***************************************************************************)
EXTENDS EnumReader

VARIABLE start      \* __cp

internalVars == <<readerVars, start>>

(* The derive refuses an enum with variants of other shapes.               *)
Tagged == {v \in Variants : Shape[v] \in {"unit", "struct"}}

InternalInit ==
  /\ EnumInit
  /\ start = Checkpoint

Scan ==
  /\ step = "enum"
  /\ start' = Checkpoint
  /\ ObjectStart
  /\ Go("scanFirst")
  /\ UNCHANGED <<structVars, variant>>

ScanKey ==
  /\ step \in {"scanFirst", "scanNext"}
  /\ WalkKeyLex(step = "scanFirst")
  /\ step' = CASE ret' = "Key" /\ key' = Tag   -> "tagValue"
               [] ret' = "Key" /\ key' # NoTag -> "scanSkip"
               [] OTHER                        -> "failed"
  /\ UNCHANGED <<start, tagSeen, variant>>

ScanSkip ==
  /\ step = "scanSkip"
  /\ SkipOneValue
  /\ Go("scanNext")
  /\ UNCHANGED <<structVars, start, variant>>

DispatchKeepsFrames == \* mutant: only the cursor is restored
  /\ step = "dispatch"
  /\ offset' = start.offset
  /\ UNCHANGED <<input, frames, ret>>
  /\ \/ /\ variant \in Data \cap Tagged
        /\ EnterBody(variant, Tag, DenyUnknown)
     \/ /\ variant \in Unit
        /\ step' = "unitObject" /\ tagSeen' = FALSE
        /\ UNCHANGED <<pc, plan, entry, slots, variant>>
     \/ /\ variant \notin Tagged
        /\ step' = "failed"
        /\ UNCHANGED <<pc, plan, entry, slots, tagSeen, variant>>
  /\ UNCHANGED <<start, key>>

(* The tag's value, its first byte not looked at; back to the start.       *)
ScanTag ==
  /\ step = "tagValue"
  /\ ReadStringNoValidate(offset)
  /\ variant' = TextOf(Peek(offset))
  /\ Go(IF variant' = NoTag THEN "failed" ELSE "dispatch")
  /\ UNCHANGED <<structVars, start>>

Dispatch ==
  /\ step = "dispatch"
  /\ Restore(start)
  /\ \/ /\ variant \in Data \cap Tagged
        /\ EnterBody(variant, Tag, DenyUnknown)
     \/ /\ variant \in Unit
        /\ step' = "unitObject" /\ tagSeen' = FALSE
        /\ UNCHANGED <<pc, plan, entry, slots, variant>>
     \/ /\ variant \notin Tagged
        /\ step' = "failed"
        /\ UNCHANGED <<pc, plan, entry, slots, tagSeen, variant>>
  /\ UNCHANGED <<start, key>>

(* A unit variant's object holds its tag once and nothing else.            *)
UnitObject ==
  /\ step = "unitObject"
  /\ ObjectStart
  /\ Go("unitFirst")
  /\ UNCHANGED <<structVars, start, variant>>

UnitKey ==
  /\ step \in {"unitFirst", "unitNext"}
  /\ WalkKeyLex(step = "unitFirst")
  /\ step' = CASE ret' = "Closed"                       -> "built"
               [] ret' = "Key" /\ key' = Tag /\ ~ tagSeen -> "unitTag"
               [] OTHER                                 -> "failed"
  /\ tagSeen' = (tagSeen \/ key' = Tag)
  /\ UNCHANGED <<start, variant>>

UnitTag ==
  /\ step = "unitTag"
  /\ SkipOneValue
  /\ Go("unitNext")
  /\ UNCHANGED <<structVars, start, variant>>

InternalBuilt ==
  /\ BodyRead
  /\ step' = "built"
  /\ UNCHANGED <<lexVars, structVars, start, variant>>

InternalNext ==
  \/ Scan \/ ScanKey \/ ScanSkip \/ ScanTag \/ Dispatch
  \/ UnitObject \/ UnitKey \/ UnitTag
  \/ InternalBuilt
  \/ ReadBody /\ UNCHANGED start

InternalSpec == InternalInit /\ [][InternalNext]_internalVars /\ WF_internalVars(InternalNext)

-----------------------------------------------------------------------------
(* Text t is variant v: an object whose one tag is v's name, and which is  *)
(* otherwise what v reads.                                                 *)
VariantPlan(v) == BodyPlan(v, Tag, DenyUnknown \/ v \in Unit)

InternalReads(t, v) ==
  /\ v \in Tagged
  /\ t[1] = "{"
  /\ \E c \in Named(t, Tag) :
       LET value == MemberValue(t, c)
       IN  Len(value) = 1 /\ value[1] \in Strings /\ Decoded[value[1]] = v
  /\ ObjectAccepts(t, VariantPlan(v))

InternalSlots(t, v) == SlotsOf(t, VariantPlan(v))

(* The variant is found and its fields are read whatever the order of the  *)
(* members and the spelling of the keys; a second tag, a tag that is no    *)
(* string and a unit variant with fields are refused (enums.rs:124-225).   *)
ReadsTaggedObject == BuiltRightly(InternalReads, InternalSlots)
=============================================================================
