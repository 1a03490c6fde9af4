-------------------------------- MODULE Parser ---------------------------------
(***************************************************************************)
(* parser.rs: the streaming parser, a Lexer plus a grammar state.  Stream  *)
(* is the pull loop over next_event (which may go on after an error);      *)
(* ParserClient adds the consumers that mix in the fast-path methods.      *)
(***************************************************************************)
EXTENDS Lexer, JsonGrammar

VARIABLES
  state,            \* Parser::state
  failed            \* history: some call has returned an error

vars == <<input, offset, frames, ret, state, failed>>

State ==
  {"Start", "DocumentEnd", "ArrayValueOrEnd", "ArrayCommaOrEnd",
   "ObjectKeyOrEnd", "ObjectColon", "ObjectValue", "ObjectCommaOrEnd"}

(* What may follow once a value is consumed: decided by the open frame.    *)
StateValueConsumed(s) ==
  CASE FS!TopOf(s) = "None"   -> "DocumentEnd"
    [] FS!TopOf(s) = "Array"  -> "ArrayCommaOrEnd"
    [] FS!TopOf(s) = "Object" -> "ObjectCommaOrEnd"

StateAfterValue(ev, scalarNext) ==
  CASE ev = "StartObject" -> "ObjectKeyOrEnd"
    [] ev = "StartArray"  -> "ArrayValueOrEnd"
    [] OTHER              -> scalarNext

Init ==
  /\ input \in Inputs
  /\ offset = 0
  /\ frames = << >>
  /\ ret = "None"
  /\ state = "Start"
  /\ failed = FALSE

-----------------------------------------------------------------------------
(* The handlers of next_event, each entered at the offset o that follows   *)
(* the whitespace.  An error returns early: the state stays, the bytes     *)
(* consumed before it stay consumed.                                       *)

Refuse(o) == Unexpected(o) /\ UNCHANGED state

EmitValue(o, scalarNext) ==
  /\ ReadValue(o)
  /\ state' = IF ret' \in ErrorKind THEN state
              ELSE StateAfterValue(ret', scalarNext)

CloseContainerOldTop(f, o, ev) == \* mutant: the state is taken before the pop
  /\ PopFrame(f, o + 1, ev)
  /\ state' = IF ret' = ev THEN StateValueConsumed(frames) ELSE state

CloseContainerPeeks(f, o, ev) == \* mutant: the bracket is left unconsumed
  /\ Return(o, ev)
  /\ UNCHANGED state

CloseContainer(f, o, ev) ==
  /\ PopFrame(f, o + 1, ev)
  /\ state' = IF ret' = ev THEN StateValueConsumed(frames') ELSE state

EvStart(o) ==
  /\ state = "Start"
  /\ EmitValue(o, "DocumentEnd")

EvDocumentEnd(o) ==
  /\ state = "DocumentEnd"
  /\ Return(o, IF Peek(o) = "eof" THEN "None" ELSE "TrailingData")
  /\ UNCHANGED state

EvArrayValueOrEnd(o) ==
  /\ state = "ArrayValueOrEnd"
  /\ \/ Peek(o) = "]" /\ CloseContainer("Array", o, "EndArray")
     \/ Peek(o) # "]" /\ EmitValue(o, "ArrayCommaOrEnd")

CommaThenAnything(o) ==      \* mutant: `[1,]` is not refused
  LET next == SkipWhitespace(o + 1)
  IN  \/ Peek(next) = "]" /\ CloseContainer("Array", next, "EndArray")
      \/ Peek(next) # "]" /\ EmitValue(next, "ArrayCommaOrEnd")

CommaThenValue(o) ==
  LET next == SkipWhitespace(o + 1)
  IN  \/ Peek(next) = "]" /\ Refuse(next)
      \/ Peek(next) # "]" /\ EmitValue(next, "ArrayCommaOrEnd")

EvArrayCommaOrEnd(o) ==
  /\ state = "ArrayCommaOrEnd"
  /\ \/ Peek(o) = "," /\ CommaThenValue(o)
     \/ Peek(o) = "]" /\ CloseContainer("Array", o, "EndArray")
     \/ Peek(o) \notin {",", "]"} /\ Refuse(o)

KeyOrEnd(o) ==
  \/ Peek(o) = "}" /\ CloseContainer("Object", o, "EndObject")
  \/ /\ IsQuote(o)
     /\ ReadString(o, "Key")
     /\ state' = IF ret' = "Key" THEN "ObjectColon" ELSE state
  \/ Peek(o) # "}" /\ ~ IsQuote(o) /\ Refuse(o)

EvObjectKeyOrEnd(o) ==
  /\ state = "ObjectKeyOrEnd"
  /\ KeyOrEnd(o)

EvObjectColon(o) ==
  /\ state = "ObjectColon"
  /\ \/ Peek(o) = ":" /\ EmitValue(o + 1, "ObjectCommaOrEnd")
     \/ Peek(o) # ":" /\ Refuse(o)

EvObjectValue(o) ==
  /\ state = "ObjectValue"
  /\ EmitValue(o, "ObjectCommaOrEnd")

CommaThenMember(o) ==        \* mutant: a value is read where a key is due
  LET next == SkipWhitespace(o + 1)
  IN  \/ Peek(next) = "}" /\ Refuse(next)
      \/ Peek(next) # "}" /\ EmitValue(next, "ObjectColon")

CommaThenKey(o) ==
  LET next == SkipWhitespace(o + 1)
  IN  \/ Peek(next) = "}" /\ Refuse(next)
      \/ Peek(next) # "}" /\ KeyOrEnd(next)

EvObjectCommaOrEnd(o) ==
  /\ state = "ObjectCommaOrEnd"
  /\ \/ Peek(o) = "," /\ CommaThenKey(o)
     \/ Peek(o) = "}" /\ CloseContainer("Object", o, "EndObject")
     \/ Peek(o) \notin {",", "}"} /\ Refuse(o)

RecordFailure == failed' = (failed \/ ret' \in ErrorKind)

NextEvent ==
  LET o == SkipWhitespace(offset)
  IN  /\ \/ EvStart(o)
         \/ EvDocumentEnd(o)
         \/ EvArrayValueOrEnd(o)
         \/ EvArrayCommaOrEnd(o)
         \/ EvObjectKeyOrEnd(o)
         \/ EvObjectColon(o)
         \/ EvObjectValue(o)
         \/ EvObjectCommaOrEnd(o)
      /\ RecordFailure

(* The streaming consumer.  The pull loop calls again after every event,   *)
(* which is the fairness.                                                  *)
Stream == Init /\ [][NextEvent]_vars

FairStream == Stream /\ WF_vars(NextEvent)

-----------------------------------------------------------------------------
(* The fast-path methods for typed consumers: the Lexer method, then the   *)
(* state written back.                                                     *)

SyncIf(results, s) == state' = IF ret' \in results THEN s ELSE state

ParseI64 ==
  /\ ParseI64Value
  /\ SyncIf({"Number"}, StateValueConsumed(frames))
  /\ RecordFailure

ParseStr ==
  /\ ParseStrValue
  /\ SyncIf({"String"}, StateValueConsumed(frames))
  /\ RecordFailure

StartArray ==
  /\ ArrayStart
  /\ state' = CASE ret' = "Empty" -> StateValueConsumed(frames)
                [] ret' = "Open"  -> "ArrayValueOrEnd"
                [] OTHER          -> state
  /\ RecordFailure

(* Only a close is written back: after a comma the state is left alone.    *)
ContinueArray(end_byte) ==
  /\ ArrayContinue(end_byte)
  /\ SyncIf({"Closed"}, StateValueConsumed(frames'))
  /\ RecordFailure

SyncKeyOnly ==               \* mutant: the state after a key is that of next_event
  /\ state' = CASE ret' = "Closed" -> StateValueConsumed(frames')
                [] ret' = "Key"    -> "ObjectColon"
                [] OTHER           -> state
  /\ RecordFailure

SyncKey ==
  /\ state' = CASE ret' = "Closed" -> StateValueConsumed(frames')
                [] ret' = "Key"    -> "ObjectValue"
                [] OTHER           -> state
  /\ RecordFailure

FirstKey(lex) == ObjectFirstKey(lex) /\ SyncKey

NextKey(lex) == ObjectNextKey(lex) /\ SyncKey

(* Any method at any time.  Only InvalidEscape, whose cursor tokens cannot *)
(* place, ends the sequence of calls.                                      *)
AnyCall ==
  /\ ret # "InvalidEscape"
  /\ \/ NextEvent
     \/ ParseI64
     \/ ParseStr
     \/ StartArray
     \/ \E end_byte \in {"]", "}"} : ContinueArray(end_byte)
     \/ \E lex \in BOOLEAN : FirstKey(lex) \/ NextKey(lex)

AnyCalls == Init /\ [][AnyCall]_vars

-----------------------------------------------------------------------------
TypeOK ==
  /\ input \in Seq(Token)
  /\ offset \in 0..Len(input)
  /\ frames \in Seq(FS!Frame) /\ Len(frames) <= MaxDepth
  /\ ret \in ErrorKind \cup Scalar \cup
       {"None", "StartArray", "EndArray", "StartObject", "EndObject", "Key",
        "Open", "Empty", "More", "Closed"}
  /\ state \in State
  /\ failed \in BOOLEAN

(* The two things the parser keeps about the nesting never disagree: the   *)
(* grammar state names the container the frame stack has on top, also      *)
(* after errors.  close_container's TypeMismatch is then unreachable from  *)
(* next_event (parser.rs:244-271).                                         *)
StateMatchesFrames ==
  /\ state \in {"Start", "DocumentEnd"} <=> frames = << >>
  /\ state \in {"ArrayValueOrEnd", "ArrayCommaOrEnd"}
       <=> FS!TopOf(frames) = "Array"

(* Whatever order the methods are called in, a close is reported only for  *)
(* the container that is innermost, by its own kind of bracket: no call    *)
(* sequence closes an array with a brace or an object with a bracket.      *)
NoCrossClose ==
  [][ (Len(frames') < Len(frames) /\ ret' \notin ErrorKind)
        => /\ frames' = FS!Popped(frames)
           /\ FS!TopOf(frames) =
                IF input[offset'] = "]" THEN "Array" ELSE "Object" ]_vars

(* An object waits for a value between its key and the next comma only; an *)
(* object under another container is always waiting for that container.    *)
ObjectWaits(innermost, st) ==
  IF innermost /\ st \in {"ObjectKeyOrEnd", "ObjectCommaOrEnd"}
  THEN "key" ELSE "value"

WaitsFor(fs, st) ==
  [i \in 1..Len(fs) |->
     IF fs[i] = "Array" THEN "element" ELSE ObjectWaits(i = Len(fs), st)]

Waiting == WaitsFor(frames, state)

Events ==
  INSTANCE EventGrammar WITH
    open     <- Waiting,
    complete <- state = "DocumentEnd",
    event    <- ret

(* The events next_event hands out form one document, whatever the input,  *)
(* and an error leaves that document where it was (Parser::next_event).    *)
ImplementsEventGrammar == Events!Spec

(* next_event reaches the end of a document without an error only on a     *)
(* document of the grammar, and reports an error only when the input is    *)
(* none, or nests deeper than MAX_DEPTH (Parser::next_event,               *)
(* ev_document_end).                                                       *)
AcceptsExactlyJson ==
  LET document == IsDocument(input, ScalarTokens, Strings, MaxDepth)
  IN  /\ (state = "DocumentEnd" /\ ret = "None" /\ ~ failed) => document
      /\ failed => ~ document

(* Every call that does not end the stream consumes input, so a pull loop, *)
(* even one that goes on after errors, comes to where every call answers   *)
(* None or an error: no document makes next_event yield events for ever.   *)
Ended == ret \in ErrorKind \/ (ret = "None" /\ state = "DocumentEnd")

PullLoopEnds == <>[]Ended
=============================================================================
