----------------------------- MODULE AdjacentEnum ------------------------------
(***************************************************************************)
(* #[bourne(tag = "...", content = "...")]: an object of a tag and, unless *)
(* the variant is a unit, a content, in either order.  A content behind    *)
(* its tag is read where it stands and the rest of the object is checked   *)
(* afterwards; one before its tag is skipped, the object is read to its    *)
(* end, and the content is then read from a checkpoint.                    *)
(***************************************************************************)
EXTENDS EnumReader

VARIABLES
  content,          \* __content_cp: a checkpoint, or NoCheckpoint
  post,             \* __post_cp
  early             \* __early: the content is read where it stands

cps == <<content, post, early>>
adjacentVars == <<readerVars, cps>>

NoCheckpoint == [offset |-> 0, depth |-> 0]

AdjacentInit ==
  /\ EnumInit
  /\ content = NoCheckpoint /\ post = NoCheckpoint /\ early = FALSE

Start ==
  /\ step = "enum"
  /\ ObjectStart
  /\ Go("firstKey")
  /\ UNCHANGED <<structVars, variant, cps>>

WalkAnyTag == \* mutant: a second tag replaces the first
  /\ step \in {"firstKey", "nextKey"}
  /\ WalkKeyLex(step = "firstKey")
  /\ content' = IF key' = Content /\ content = NoCheckpoint THEN Checkpoint'
                ELSE content
  /\ early' = (key' = Content /\ variant # NoTag)
  /\ step' = CASE ret' = "Closed"                           -> "match"
               [] key' = Tag                                -> "tagValue"
               [] key' = Content /\ content = NoCheckpoint  ->
                    IF early' THEN "match" ELSE "skip"
               [] OTHER                                     -> "failed"
  /\ UNCHANGED <<tagSeen, variant, post>>

(* One round of the 'keys loop up to the member's value; the checkpoint is *)
(* the content's first byte.                                               *)
WalkTagOrContent ==
  /\ step \in {"firstKey", "nextKey"}
  /\ WalkKeyLex(step = "firstKey")
  /\ content' = IF key' = Content /\ content = NoCheckpoint THEN Checkpoint'
                ELSE content
  /\ early' = (key' = Content /\ variant # NoTag)
  /\ step' = CASE ret' = "Closed"                           -> "match"
               [] key' = Tag /\ variant = NoTag             -> "tagValue"
               [] key' = Content /\ content = NoCheckpoint  ->
                    IF early' THEN "match" ELSE "skip"
               [] OTHER                                     -> "failed"
  /\ UNCHANGED <<tagSeen, variant, post>>

(* The tag's value, its first byte not looked at.                          *)
ReadTag ==
  /\ step = "tagValue"
  /\ ReadStringNoValidate(offset)
  /\ variant' = TextOf(Peek(offset))
  /\ Go(IF variant' = NoTag THEN "failed" ELSE "nextKey")
  /\ UNCHANGED <<structVars, cps>>

SkipContent ==
  /\ step = "skip"
  /\ SkipOneValue
  /\ Go("nextKey")
  /\ UNCHANGED <<structVars, variant, cps>>

(* The match on the tag: a unit must have no content, any other variant    *)
(* must, and is read from it.                                              *)
MatchUnit ==
  /\ step = "match" /\ variant \in Unit
  /\ step' = IF content = NoCheckpoint THEN "rest" ELSE "failed"
  /\ post' = Checkpoint
  /\ UNCHANGED <<lexVars, structVars, variant, content, early>>

MatchData ==
  /\ step = "match" /\ variant \in Data /\ content # NoCheckpoint
  /\ post' = Checkpoint
  /\ Restore(content)
  /\ EnterBody(variant, NoTag, DenyUnknown)
  /\ UNCHANGED <<key, content, early>>

(* No tag, a tag that names no variant, a variant without its content.     *)
MatchNothing ==
  /\ step = "match"
  /\ variant \notin Variants \/ (variant \in Data /\ content = NoCheckpoint)
  /\ step' = "failed"
  /\ UNCHANGED <<lexVars, structVars, variant, cps>>

BodyDone ==
  /\ BodyRead
  /\ step' = "rest"
  /\ UNCHANGED <<lexVars, structVars, variant, cps>>

(* Behind the content: nothing more may follow a content read in place;    *)
(* otherwise the object was read to its end before.                        *)
CheckRest ==
  /\ step = "rest"
  /\ \/ /\ early
        /\ ObjectNextKey(TRUE)
        /\ step' = IF ret' = "Closed" THEN "built" ELSE "failed"
     \/ /\ ~ early
        /\ Restore(post)
        /\ step' = "built"
  /\ UNCHANGED <<structVars, variant, cps>>

AdjacentNext ==
  \/ Start \/ WalkTagOrContent \/ ReadTag \/ SkipContent
  \/ MatchUnit \/ MatchData \/ MatchNothing
  \/ ReadBody /\ UNCHANGED cps
  \/ BodyDone \/ CheckRest

AdjacentSpec == AdjacentInit /\ [][AdjacentNext]_adjacentVars /\ WF_adjacentVars(AdjacentNext)

-----------------------------------------------------------------------------
(* Text t is variant v: one tag, which is v's name, at most one content,   *)
(* which v reads, and no other member.                                     *)
AdjacentReads(t, v) ==
  /\ t[1] = "{"
  /\ \A c \in Members(t) : TextOf(t[c - 1]) \in {Tag, Content}
  /\ \E c \in Named(t, Tag) :
       /\ Named(t, Tag) = {c}
       /\ Len(MemberValue(t, c)) = 1
       /\ MemberValue(t, c)[1] \in Strings
       /\ Decoded[MemberValue(t, c)[1]] = v
  /\ IF v \in Unit THEN Named(t, Content) = {}
     ELSE \E c \in Named(t, Content) :
            /\ Named(t, Content) = {c}
            /\ BodyAccepts(v, MemberValue(t, c), DenyUnknown)

AdjacentSlots(t, v) ==
  SlotsOf(MemberValue(t, CHOOSE c \in Named(t, Content) : TRUE),
          BodyPlan(v, NoTag, DenyUnknown))

(* A content is read the same before its tag and behind it, and what is    *)
(* not exactly a tag and its content is refused (enums.rs:227-370).        *)
ReadsTagAndContent == BuiltRightly(AdjacentReads, AdjacentSlots)
=============================================================================
