------------------------------- MODULE SkipValue -------------------------------
(***************************************************************************)
(* Lexer::skip_value (lexer.rs:1305-1386): consume one value and discard   *)
(* it, for unknown struct fields and for the scan of a tagged enum.  The   *)
(* code recurses through skip_array_body and skip_object_body; each open   *)
(* body is one frame above the depth skip_value was entered at, so the     *)
(* frame stack itself tells which body a finished value returns to.        *)
(***************************************************************************)
EXTENDS Lexer, JsonGrammar

CONSTANT SkipEntered    \* frame stacks skip_value may be entered with

ASSUME SkipAssumption ==
  \A s \in SkipEntered : s \in Seq(FS!Frame) /\ Len(s) <= MaxDepth

VARIABLES
  skipStep,         \* the call skip_value makes next, "ok" or "error"
  skipEntry         \* history: the frames at entry

skipVars == <<input, offset, frames, ret, skipStep, skipEntry>>

SkipInit ==
  /\ input \in Inputs
  /\ skipEntry \in SkipEntered
  /\ offset = 0
  /\ frames = skipEntry
  /\ ret = "None"
  /\ skipStep = "value"

AfterSkippedAtRoot(s) ==   \* mutant: stops only when every frame is closed
  CASE s = << >>              -> "ok"
    [] FS!TopOf(s) = "Array"  -> "arrayNext"
    [] FS!TopOf(s) = "Object" -> "nextKey"

(* Where the code is once a value is skipped: back in the caller, or in    *)
(* the loop of the body that value belongs to.                             *)
AfterSkipped(s) ==
  IF Len(s) = Len(skipEntry) THEN "ok"
  ELSE IF FS!TopOf(s) = "Array" THEN "arrayNext" ELSE "nextKey"

(* Every `?`: an error leaves skip_value at once.                          *)
SkipThen(next) ==
  /\ skipStep' = IF ret' \in ErrorKind THEN "error" ELSE next
  /\ UNCHANGED skipEntry

SkipOne ==
  /\ skipStep = "value"
  /\ ReadValue(offset)
  /\ SkipThen(CASE ret' = "StartArray"  -> "arrayBody"
                [] ret' = "StartObject" -> "firstKey"
                [] OTHER                -> AfterSkipped(frames))

SkipArrayBodyUnclosed ==   \* mutant: the bracket of an empty array is not consumed
  LET o == SkipWhitespace(offset)
  IN  /\ skipStep = "arrayBody"
      /\ Return(o, "More")
      /\ SkipThen(IF Peek(o) = "]" THEN "arrayBody" ELSE "value")

(* An empty array closes at once; otherwise its first element is skipped.  *)
SkipArrayBody ==
  LET o == SkipWhitespace(offset)
  IN  /\ skipStep = "arrayBody"
      /\ \/ /\ Peek(o) = "]"
            /\ PopFrame("Array", o + 1, "Closed")
            /\ SkipThen(AfterSkipped(frames'))
         \/ /\ Peek(o) # "]"
            /\ Return(o, "More")
            /\ SkipThen("value")

SkipArrayNext ==
  /\ skipStep = "arrayNext"
  /\ ArrayContinue("]")
  /\ SkipThen(IF ret' = "Closed" THEN AfterSkipped(frames') ELSE "value")

SkipFirstKey ==
  /\ skipStep = "firstKey"
  /\ ObjectFirstKey(TRUE)
  /\ SkipThen(IF ret' = "Closed" THEN AfterSkipped(frames') ELSE "value")

SkipNextKeyBorrowed ==     \* mutant: escaped keys are refused after a comma
  /\ skipStep = "nextKey"
  /\ ObjectNextKey(FALSE)
  /\ SkipThen(IF ret' = "Closed" THEN AfterSkipped(frames') ELSE "value")

SkipNextKey ==
  /\ skipStep = "nextKey"
  /\ ObjectNextKey(TRUE)
  /\ SkipThen(IF ret' = "Closed" THEN AfterSkipped(frames') ELSE "value")

SkipNext == SkipOne \/ SkipArrayBody \/ SkipArrayNext \/ SkipFirstKey \/ SkipNextKey

SkipSpec == SkipInit /\ [][SkipNext]_skipVars /\ WF_skipVars(SkipNext)

-----------------------------------------------------------------------------
(* The frames of the caller are never popped, and a skip that succeeds     *)
(* leaves exactly them (doc of skip_value: "the structural frame stack     *)
(* stays balanced").                                                       *)
SkipFramesKept ==
  /\ Len(frames) >= Len(skipEntry)
  /\ SubSeq(frames, 1, Len(skipEntry)) = skipEntry
  /\ skipStep = "ok" => frames = skipEntry

(* The number of tokens up to e are one value, for a skip that may still   *)
(* nest as deep as the caller left room for.  Unpaired surrogates in keys  *)
(* are let through: the documented gap of skip_object_body.                *)
ValueEndsAt(e) ==
  IsDocument(SubSeq(input, 1, e), ScalarTokens, Strings \cup {"lone"},
             MaxDepth - Len(skipEntry))

(* skip_value ends right behind one complete value of the grammar, and     *)
(* fails only where no value stands: it validates what it throws away, and *)
(* neither stops short nor runs into what follows (lexer.rs:1305-1341).    *)
SkipsExactlyOneValue ==
  /\ skipStep = "ok" =>
       /\ ValueEndsAt(offset)
       /\ Peek(offset) = "1" => input[offset] # "1"
  /\ skipStep = "error" => \A e \in 0..Len(input) : ~ ValueEndsAt(e)

(* The recursion ends.                                                     *)
SkipReturns == <>(skipStep \in {"ok", "error"})
=============================================================================
