----------------------------- MODULE ParserClient ------------------------------
(***************************************************************************)
(* Two consumers of Parser that mix the fast-path methods with next_event, *)
(* as parser.rs:253-260 says they may.  The typed one knows from what it   *)
(* has been returned which construct comes next, and calls a method that   *)
(* reads that construct.  The careless one calls any method at any time,   *)
(* whatever it has been returned.                                          *)
(***************************************************************************)
EXTENDS Parser

CONSTANTS
  EventsAfterComma, \* next_event also reads the element after a comma that
                    \* array_continue consumed
  CarelessLength    \* the longest document the careless consumer reads

VARIABLE want       \* the construct the typed consumer reads next, or
                    \* "anything": the careless one

clientVars == <<input, offset, frames, ret, state, failed, want>>

Want ==
  {"value", "element", "firstElement", "nextElement",
   "firstKey", "colon", "nextKey", "nothing"}

ClientInit ==
  /\ Init
  /\ want = "value" \/ (want = "anything" /\ Len(input) <= CarelessLength)

(* What the consumer wants next once a value is complete.                  *)
WantAfterValue(s) ==
  CASE FS!TopOf(s) = "None"   -> "nothing"
    [] FS!TopOf(s) = "Array"  -> "nextElement"
    [] FS!TopOf(s) = "Object" -> "nextKey"

Learn ==
  want' = CASE ret' \in ErrorKind      -> want
            [] ret' = "StartArray"     -> "firstElement"
            [] ret' = "StartObject"    -> "firstKey"
            [] ret' = "Open"           -> "value"
            [] ret' = "More"           -> "element"
            [] ret' = "None"           -> "nothing"
            [] OTHER                   -> WantAfterValue(frames')

(* A key out of next_event leaves the colon unread, one out of a key       *)
(* walker does not.                                                        *)
PullEvent ==
  /\ want \in Want
  /\ want = "element" => EventsAfterComma
  /\ NextEvent
  /\ IF ret' = "Key" THEN want' = "colon" ELSE Learn

ReadTyped ==
  /\ want \in {"value", "element", "firstElement"}
  /\ ParseI64 \/ ParseStr \/ StartArray
  /\ Learn

Continue ==
  /\ want = "nextElement"
  /\ ContinueArray("]")
  /\ Learn

WalkKey ==
  /\ \E lex \in BOOLEAN :
       \/ want = "firstKey" /\ FirstKey(lex)
       \/ want = "nextKey" /\ NextKey(lex)
  /\ IF ret' = "Key" THEN want' = "value" ELSE Learn

CallAnything ==
  /\ want = "anything"
  /\ AnyCall
  /\ UNCHANGED want

ClientNext ==
  /\ ret # "InvalidEscape"
  /\ \/ PullEvent
     \/ ReadTyped
     \/ Continue
     \/ WalkKey
     \/ CallAnything

ClientSpec == ClientInit /\ [][ClientNext]_clientVars

-----------------------------------------------------------------------------
(* The grammar state the parser must be in for next_event to read what the *)
(* consumer wants.  After a comma of array_continue no state does: the     *)
(* parser has none for "a value, and no close".                            *)
StatesFor ==
  [value        |-> {"Start", "ArrayValueOrEnd", "ObjectValue"},
   element      |-> State,
   firstElement |-> {"ArrayValueOrEnd"},
   nextElement  |-> {"ArrayCommaOrEnd"},
   firstKey     |-> {"ObjectKeyOrEnd"},
   colon        |-> {"ObjectColon"},
   nextKey      |-> {"ObjectCommaOrEnd"},
   nothing      |-> {"DocumentEnd"}]

(* Every fast-path method leaves the parser where a next_event for the     *)
(* same construct would have, errors included (parser.rs:256-257).         *)
StateFollowsClient == want \in Want => state \in StatesFor[want]

(* However a consumer mixes the methods, the end of the document is        *)
(* reached without an error only on a document of the grammar; the _lex    *)
(* walkers hand out keys with unpaired surrogates for the caller to decode *)
(* (parser.rs:253-260, lexer.rs:1103-1163).                                *)
MixedAcceptsOnlyJson ==
  (want = "nothing" /\ ret = "None" /\ ~ failed)
    => IsDocument(input, ScalarTokens, Strings \cup {"lone"}, MaxDepth)

(* The containers the first n tokens of a text leave open, and whether     *)
(* their brackets nest: no close of the other kind or without a container, *)
(* and never more than MAX_DEPTH open.                                     *)
FrameOf(bracket) == IF bracket \in {"[", "]"} THEN "Array" ELSE "Object"

WithToken(read, t) ==
  CASE t \in {"[", "{"} ->
         [open   |-> Append(read.open, FrameOf(t)),
          nested |-> read.nested /\ Len(read.open) < MaxDepth]
    [] t \in {"]", "}"} ->
         [open   |-> FS!Popped(read.open),
          nested |-> read.nested /\ FS!TopOf(read.open) = FrameOf(t)]
    [] OTHER -> read

NestingUpTo(text) ==
  LET upTo[n \in 0..Len(text)] ==
        IF n = 0 THEN [open |-> << >>, nested |-> TRUE]
        ELSE WithToken(upTo[n - 1], text[n])
  IN  upTo

(* Whatever methods are called, in whatever order and after whatever       *)
(* errors: where the text read so far nests, the open frames are the       *)
(* containers it leaves open, and where it does not, an error has said so. *)
(* No order of calls closes an array with a brace, or loses a container    *)
(* (parser.rs, impl Parser; lexer.rs, push_frame and pop_frame).           *)
FramesFollowText ==
  LET read == NestingUpTo(input)[offset]
  IN  IF read.nested THEN frames = read.open ELSE failed
=============================================================================
