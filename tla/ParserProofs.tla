------------------------------ MODULE ParserProofs -----------------------------
(***************************************************************************)
(* The streaming parser, for every document, token set and depth limit.    *)
(*                                                                         *)
(* The pull loop: its types, the agreement of its grammar state with the   *)
(* nesting, and that the events it hands out are those of one document.    *)
(* Every handler has one of the effects below.  The effects mention        *)
(* neither tokens nor offsets, so everything about the pull loop follows   *)
(* from them, and the input is looked at only once, in NextEventEffect.    *)
(*                                                                         *)
(* The mixing consumer: the parser follows it through every fast-path      *)
(* method.                                                                 *)
(*                                                                         *)
(* The grammar: what next_event has read, and what the mixing consumer     *)
(* has, can be completed to a document exactly if the input is one, and    *)
(* the grammar state says what is due (Reading of LexerProofs).  At the    *)
(* end nothing is left to complete.                                        *)
(*                                                                         *)
(* The methods in any order, also after errors and with the grammar state  *)
(* out of step with the nesting: the open frames are the containers that   *)
(* the text read so far leaves open, or an error has said that the text    *)
(* does not nest, and no close is reported for a container of the other    *)
(* kind.  The grammar state is not looked at: opening and closing rest on  *)
(* the byte and the frames alone.  So the invariant is the lexer's types   *)
(* and the agreement of frames and text at the cursor (Reads), which every *)
(* method carries over each token it steps over.                           *)
(***************************************************************************)
EXTENDS ParserClient, LexerProofs

Inv == TypeOK /\ StateMatchesFrames

ValueState ==
  {"Start", "ArrayValueOrEnd", "ArrayCommaOrEnd", "ObjectColon", "ObjectValue"}

KeyState == {"ObjectKeyOrEnd", "ObjectCommaOrEnd"}

ScalarRead ==
  /\ state \in ValueState
  /\ ret' \in Scalar
  /\ UNCHANGED frames
  /\ state' = StateValueConsumed(frames)

ContainerOpened(f, ev, s) ==
  /\ state \in ValueState
  /\ Opened(f, ev)
  /\ state' = s

ContainerClosed(f, ev, from) ==
  /\ state \in from
  /\ FS!TopOf(frames) = f
  /\ ret' = ev
  /\ frames' = FS!Popped(frames)
  /\ state' = StateValueConsumed(frames')

KeyRead ==
  /\ state \in KeyState
  /\ ret' = "Key"
  /\ UNCHANGED frames
  /\ state' = "ObjectColon"

StreamEnded ==
  /\ state = "DocumentEnd"
  /\ ret' = "None"
  /\ UNCHANGED <<frames, state>>

CallFailed ==
  /\ Refused
  /\ UNCHANGED state

Effect ==
  \/ ScalarRead
  \/ ContainerOpened("Object", "StartObject", "ObjectKeyOrEnd")
  \/ ContainerOpened("Array", "StartArray", "ArrayValueOrEnd")
  \/ ContainerClosed("Object", "EndObject", KeyState)
  \/ ContainerClosed("Array", "EndArray", {"ArrayValueOrEnd", "ArrayCommaOrEnd"})
  \/ KeyRead
  \/ StreamEnded
  \/ CallFailed

-----------------------------------------------------------------------------
LEMMA InvLexType == ASSUME Inv PROVE LexType
BY DEF Inv, TypeOK, LexType

LEMMA ConsumedCases ==
  ASSUME NEW s \in Seq(FS!Frame)
  PROVE  /\ FS!TopOf(s) = "None" => StateValueConsumed(s) = "DocumentEnd"
         /\ FS!TopOf(s) = "Array" => StateValueConsumed(s) = "ArrayCommaOrEnd"
         /\ FS!TopOf(s) = "Object" => StateValueConsumed(s) = "ObjectCommaOrEnd"
BY DEF StateValueConsumed

(* In every grammar state, which frame is on top.                          *)
LEMMA TopByState ==
  ASSUME Inv
  PROVE  /\ state \in {"Start", "DocumentEnd"} => FS!TopOf(frames) = "None"
         /\ state \in {"ArrayValueOrEnd", "ArrayCommaOrEnd"}
              => FS!TopOf(frames) = "Array"
         /\ state \in {"ObjectKeyOrEnd", "ObjectColon", "ObjectValue",
                       "ObjectCommaOrEnd"}
              => FS!TopOf(frames) = "Object"
<1>1. frames \in Seq(FS!Frame) /\ state \in State
  BY DEF Inv, TypeOK
<1>2. FS!TopOf(frames) \in {"None", "Array", "Object"}
  BY <1>1, TopOfType DEF FS!Frame
<1>3. QED
  BY <1>1, <1>2, TopOfType DEF Inv, StateMatchesFrames, State

(* ev_* that read a value: emit_value followed by state_after_value.       *)
LEMMA EmitValueEffect ==
  ASSUME Inv, NEW from \in 0..Len(input), NEW s, EmitValue(from, s),
         state \in ValueState, s = StateValueConsumed(frames)
  PROVE  LexType' /\ Effect
<1>1. ReadValue(from)
  BY DEF EmitValue
<1>2. /\ LexType'
      /\ \/ Opened("Object", "StartObject")
         \/ Opened("Array", "StartArray")
         \/ ret' \in Scalar /\ frames' = frames
         \/ Refused
  BY <1>1, InvLexType, ReadValueEffect
<1>3. CASE Opened("Object", "StartObject")
  BY <1>2, <1>3
     DEF EmitValue, Opened, ErrorKind, StateAfterValue, Effect, ContainerOpened
<1>4. CASE Opened("Array", "StartArray")
  BY <1>2, <1>4
     DEF EmitValue, Opened, ErrorKind, StateAfterValue, Effect, ContainerOpened
<1>5. CASE ret' \in Scalar /\ frames' = frames
  BY <1>2, <1>5
     DEF EmitValue, Scalar, ErrorKind, StateAfterValue, Effect, ScalarRead
<1>6. CASE Refused
  BY <1>2, <1>6 DEF EmitValue, Refused, Effect, CallFailed
<1>7. QED
  BY <1>2, <1>3, <1>4, <1>5, <1>6

LEMMA RefuseEffect ==
  ASSUME Inv, NEW o \in 0..Len(input), Refuse(o)
  PROVE  LexType' /\ Effect
BY InvLexType, UnexpectedEffect DEF Refuse, Effect, CallFailed

(* close_container with the frame of the grammar state on top.             *)
LEMMA CloseContainerEffect ==
  ASSUME Inv, NEW o \in 0..Len(input), Peek(o) # "eof",
         NEW f \in FS!Frame, NEW ev, CloseContainer(f, o, ev),
         FS!TopOf(frames) = f
  PROVE  LexType' /\ ContainerClosed(f, ev, {state})
<1>1. o + 1 \in 0..Len(input)
  BY InvLexType, InsideInput
<1>2. PopFrame(f, o + 1, ev)
  BY DEF CloseContainer
<1>3. frames # << >>
  BY TopOfType DEF Inv, TypeOK, FS!Frame
<1>4. /\ LexType'
      /\ frames' = FS!Popped(frames)
      /\ ret' = ev
  BY <1>1, <1>2, <1>3, InvLexType, PopFrameEffect DEF PopFrame
<1>5. state' = StateValueConsumed(frames')
  BY <1>4 DEF CloseContainer
<1>6. QED
  BY <1>4, <1>5 DEF ContainerClosed

LEMMA KeyOrEndEffect ==
  ASSUME Inv, NEW o \in 0..Len(input), KeyOrEnd(o), state \in KeyState
  PROVE  LexType' /\ Effect
<1>1. FS!TopOf(frames) = "Object"
  BY TopByState DEF KeyState
<1>2. CASE Peek(o) = "}" /\ CloseContainer("Object", o, "EndObject")
  <2>1. LexType' /\ ContainerClosed("Object", "EndObject", {state})
    BY <1>1, <1>2, CloseContainerEffect DEF FS!Frame
  <2>2. QED
    BY <2>1 DEF Effect, ContainerClosed
<1>3. CASE /\ ReadString(o, "Key")
           /\ state' = IF ret' = "Key" THEN "ObjectColon" ELSE state
  <2>1. LexType' /\ (Refused \/ (ret' = "Key" /\ frames' = frames))
    BY <1>3, InvLexType, ReadStringEffect
  <2>2. CASE Refused
    BY <1>3, <2>1, <2>2 DEF Refused, ErrorKind, Effect, CallFailed
  <2>3. CASE ret' = "Key" /\ frames' = frames
    BY <1>3, <2>1, <2>3 DEF Effect, KeyRead
  <2>4. QED
    BY <2>1, <2>2, <2>3
<1>4. CASE Refuse(o)
  BY <1>4, RefuseEffect
<1>5. QED
  BY <1>2, <1>3, <1>4 DEF KeyOrEnd

(* The input, looked at once: whatever it holds, a call of next_event has  *)
(* one of the effects.                                                     *)
LEMMA NextEventEffect ==
  ASSUME Inv, NextEvent
  PROVE  LexType' /\ Effect
<1> DEFINE o == SkipWhitespace(offset)
           next == SkipWhitespace(o + 1)
<1>1. LexType /\ o \in 0..Len(input)
  BY InvLexType, SkipWhitespaceInRange DEF LexType
<1>2. Peek(o) # "eof" => next \in 0..Len(input)
  BY <1>1, InsideInput, SkipWhitespaceInRange
<1>3. /\ state = "Start" => StateValueConsumed(frames) = "DocumentEnd"
      /\ state \in {"ArrayValueOrEnd", "ArrayCommaOrEnd"}
           => StateValueConsumed(frames) = "ArrayCommaOrEnd"
      /\ state \in {"ObjectColon", "ObjectValue"}
           => StateValueConsumed(frames) = "ObjectCommaOrEnd"
  BY ConsumedCases, TopByState DEF Inv, TypeOK
<1> HIDE DEF o, next
<1>4. ASSUME Peek(o) = "]", state \in {"ArrayValueOrEnd", "ArrayCommaOrEnd"},
             CloseContainer("Array", o, "EndArray")
      PROVE  LexType' /\ Effect
  <2>1. LexType' /\ ContainerClosed("Array", "EndArray", {state})
    BY <1>1, <1>4, TopByState, CloseContainerEffect DEF FS!Frame
  <2>2. QED
    BY <1>4, <2>1 DEF Effect, ContainerClosed
<1>5. CASE EvStart(o)
  BY <1>1, <1>3, <1>5, EmitValueEffect DEF EvStart, ValueState
<1>6. CASE EvDocumentEnd(o)
  <2>1. LexType' /\ frames' = frames
        /\ ret' = IF Peek(o) = "eof" THEN "None" ELSE "TrailingData"
    BY <1>1, <1>6, ReturnEffect DEF EvDocumentEnd
  <2>2. QED
    BY <1>6, <2>1
       DEF EvDocumentEnd, Effect, StreamEnded, CallFailed, Refused, ErrorKind
<1>7. CASE EvArrayValueOrEnd(o)
  <2>1. CASE Peek(o) = "]" /\ CloseContainer("Array", o, "EndArray")
    BY <1>4, <1>7, <2>1 DEF EvArrayValueOrEnd
  <2>2. CASE EmitValue(o, "ArrayCommaOrEnd")
    BY <1>1, <1>3, <1>7, <2>2, EmitValueEffect DEF EvArrayValueOrEnd, ValueState
  <2>3. QED
    BY <1>7, <2>1, <2>2 DEF EvArrayValueOrEnd
<1>8. CASE EvArrayCommaOrEnd(o)
  <2>1. CASE Peek(o) = "," /\ CommaThenValue(o)
    <3>1. next \in 0..Len(input)
      BY <1>2, <2>1
    <3>2. Refuse(next) \/ EmitValue(next, "ArrayCommaOrEnd")
      BY <2>1 DEF CommaThenValue, next
    <3>3. QED
      BY <1>3, <1>8, <3>1, <3>2, RefuseEffect, EmitValueEffect
         DEF EvArrayCommaOrEnd, ValueState
  <2>2. CASE Peek(o) = "]" /\ CloseContainer("Array", o, "EndArray")
    BY <1>4, <1>8, <2>2 DEF EvArrayCommaOrEnd
  <2>3. CASE Refuse(o)
    BY <1>1, <2>3, RefuseEffect
  <2>4. QED
    BY <1>8, <2>1, <2>2, <2>3 DEF EvArrayCommaOrEnd
<1>9. CASE EvObjectKeyOrEnd(o)
  BY <1>1, <1>9, KeyOrEndEffect DEF EvObjectKeyOrEnd, KeyState
<1>10. CASE EvObjectColon(o)
  <2>1. CASE Peek(o) = ":" /\ EmitValue(o + 1, "ObjectCommaOrEnd")
    <3>1. o + 1 \in 0..Len(input)
      BY <1>1, <2>1, InsideInput
    <3>2. QED
      BY <1>3, <1>10, <2>1, <3>1, EmitValueEffect DEF EvObjectColon, ValueState
  <2>2. CASE Refuse(o)
    BY <1>1, <2>2, RefuseEffect
  <2>3. QED
    BY <1>10, <2>1, <2>2 DEF EvObjectColon
<1>11. CASE EvObjectValue(o)
  BY <1>1, <1>3, <1>11, EmitValueEffect DEF EvObjectValue, ValueState
<1>12. CASE EvObjectCommaOrEnd(o)
  <2>1. CASE Peek(o) = "," /\ CommaThenKey(o)
    <3>1. next \in 0..Len(input)
      BY <1>2, <2>1
    <3>2. Refuse(next) \/ KeyOrEnd(next)
      BY <2>1 DEF CommaThenKey, next
    <3>3. QED
      BY <1>12, <3>1, <3>2, RefuseEffect, KeyOrEndEffect
         DEF EvObjectCommaOrEnd, KeyState
  <2>2. CASE Peek(o) = "}" /\ CloseContainer("Object", o, "EndObject")
    BY <1>1, <1>12, <2>2, KeyOrEndEffect DEF EvObjectCommaOrEnd, KeyState, KeyOrEnd
  <2>3. CASE Refuse(o)
    BY <1>1, <2>3, RefuseEffect
  <2>4. QED
    BY <1>12, <2>1, <2>2, <2>3 DEF EvObjectCommaOrEnd
<1>13. QED
  BY <1>5, <1>6, <1>7, <1>8, <1>9, <1>10, <1>11, <1>12 DEF NextEvent, o

-----------------------------------------------------------------------------
(* Both invariants follow from the effects.                                *)
LEMMA EffectKeepsInv ==
  ASSUME Inv, LexType', Effect, RecordFailure
  PROVE  Inv'
<1>1. /\ frames \in Seq(FS!Frame) /\ frames' \in Seq(FS!Frame)
      /\ state \in State /\ failed' \in BOOLEAN
  BY DEF Inv, TypeOK, LexType, RecordFailure
<1>2. ASSUME state' = StateValueConsumed(frames')
      PROVE  state' \in State /\ StateMatchesFrames'
  BY <1>1, <1>2, ConsumedCases, TopOfType
     DEF State, StateMatchesFrames, FS!Frame
<1>3. CASE ScalarRead
  BY <1>1, <1>2, <1>3 DEF ScalarRead, Scalar, Inv, TypeOK, LexType
<1>4. ASSUME NEW f \in FS!Frame, NEW ev, NEW s, ContainerOpened(f, ev, s)
      PROVE  /\ FS!TopOf(frames') = f /\ frames' # << >>
             /\ ret' = ev /\ state' = s
  BY <1>1, <1>4, AppendProperties DEF ContainerOpened, Opened, FS!TopOf
<1>5. CASE ContainerOpened("Object", "StartObject", "ObjectKeyOrEnd")
  BY <1>1, <1>4, <1>5 DEF Inv, TypeOK, LexType, StateMatchesFrames, State, FS!Frame
<1>6. CASE ContainerOpened("Array", "StartArray", "ArrayValueOrEnd")
  BY <1>1, <1>4, <1>6 DEF Inv, TypeOK, LexType, StateMatchesFrames, State, FS!Frame
<1>7. CASE ContainerClosed("Object", "EndObject", KeyState)
  BY <1>1, <1>2, <1>7 DEF ContainerClosed, Inv, TypeOK, LexType
<1>8. CASE ContainerClosed("Array", "EndArray",
                           {"ArrayValueOrEnd", "ArrayCommaOrEnd"})
  BY <1>1, <1>2, <1>8 DEF ContainerClosed, Inv, TypeOK, LexType
<1>9. CASE KeyRead
  BY <1>1, <1>9, TopByState
     DEF KeyRead, KeyState, Inv, TypeOK, LexType, StateMatchesFrames, State
<1>10. CASE StreamEnded
  BY <1>1, <1>10 DEF StreamEnded, Inv, TypeOK, LexType, StateMatchesFrames
<1>11. CASE CallFailed
  BY <1>1, <1>11 DEF CallFailed, Refused, Inv, TypeOK, LexType, StateMatchesFrames
<1>12. QED
  BY <1>3, <1>5, <1>6, <1>7, <1>8, <1>9, <1>10, <1>11 DEF Effect

LEMMA InitInv == Init => Inv
<1> SUFFICES ASSUME Init
             PROVE  Inv
  OBVIOUS
<1>1. input \in Seq(Token) /\ 0 \in 0..Len(input)
  BY LexerAssumption, LenProperties DEF Init
<1>2. /\ frames \in Seq(FS!Frame) /\ Len(frames) <= MaxDepth
      /\ FS!TopOf(frames) = "None"
  BY LexerAssumption, EmptySeq DEF Init, FS!TopOf
<1>3. QED
  BY <1>1, <1>2 DEF Init, Inv, TypeOK, StateMatchesFrames, State

LEMMA StepInv == Inv /\ [NextEvent]_vars => Inv'
<1> SUFFICES ASSUME Inv, [NextEvent]_vars
             PROVE  Inv'
  OBVIOUS
<1>1. CASE NextEvent
  BY <1>1, NextEventEffect, EffectKeepsInv DEF NextEvent
<1>2. CASE UNCHANGED vars
  BY <1>2 DEF vars, Inv, TypeOK, StateMatchesFrames
<1>3. QED
  BY <1>1, <1>2

(* The parser's fields keep their types; the cursor stays inside the       *)
(* document and the nesting inside MAX_DEPTH (Parser::next_event).         *)
THEOREM TypeCorrect == Stream => []TypeOK
<1>1. Inv => TypeOK
  BY DEF Inv
<1>2. QED
  BY <1>1, InitInv, StepInv, PTL DEF Stream

(* The grammar state names the container on top of the frame stack, after  *)
(* every call and every error (parser.rs, close_container and              *)
(* state_value_consumed).                                                  *)
THEOREM StateFollowsFrames == Stream => []StateMatchesFrames
<1>1. Inv => StateMatchesFrames
  BY DEF Inv
<1>2. QED
  BY <1>1, InitInv, StepInv, PTL DEF Stream

-----------------------------------------------------------------------------
(* The events are those of one document.                                   *)

Due == {"element", "key", "value"}

LEMMA WaitsForType ==
  ASSUME NEW fs \in Seq(FS!Frame), NEW st
  PROVE  /\ WaitsFor(fs, st) \in Seq(Due)
         /\ Len(WaitsFor(fs, st)) = Len(fs)
         /\ \A i \in 1..Len(fs) :
              WaitsFor(fs, st)[i] =
                IF fs[i] = "Array" THEN "element"
                                   ELSE ObjectWaits(i = Len(fs), st)
         /\ WaitsFor(fs, st) = << >> <=> fs = << >>
<1>1. Len(fs) \in Nat
  BY LenProperties
<1>2. WaitsFor(fs, st) \in [1..Len(fs) -> Due]
  BY <1>1 DEF WaitsFor, ObjectWaits, Due
<1>3. WaitsFor(fs, st) \in Seq(Due) /\ Len(WaitsFor(fs, st)) = Len(fs)
  BY <1>1, <1>2
<1>4. \A i \in 1..Len(fs) :
        WaitsFor(fs, st)[i] =
          IF fs[i] = "Array" THEN "element" ELSE ObjectWaits(i = Len(fs), st)
  BY DEF WaitsFor
<1>5. WaitsFor(fs, st) = << >> <=> fs = << >>
  BY <1>3, EmptySeq
<1>6. QED
  BY <1>3, <1>4, <1>5

LEMMA SettledType ==
  ASSUME NEW w \in Seq(Due)
  PROVE  /\ Events!Settled(w) \in Seq(Due)
         /\ Len(Events!Settled(w)) = Len(w)
         /\ \A i \in 1..Len(w) :
              Events!Settled(w)[i] =
                IF i = Len(w) /\ w[i] = "value" THEN "key" ELSE w[i]
<1>1. Len(w) \in Nat
  BY LenProperties
<1>2. Events!Settled(w) \in [1..Len(w) -> Due]
  BY <1>1, ElementOfSeq DEF Events!Settled, Due
<1>3. QED
  BY <1>1, <1>2 DEF Events!Settled

(* Consuming a value inside fs settles what fs waited for.                 *)
LEMMA ConsumedSettles ==
  ASSUME NEW fs \in Seq(FS!Frame), NEW w \in Seq(Due), Len(w) = Len(fs),
         \A i \in 1..Len(fs) :
           w[i] = IF fs[i] = "Array" THEN "element" ELSE "value"
  PROVE  WaitsFor(fs, StateValueConsumed(fs)) = Events!Settled(w)
<1> DEFINE u == WaitsFor(fs, StateValueConsumed(fs))
           v == Events!Settled(w)
<1>1. u \in Seq(Due) /\ v \in Seq(Due) /\ Len(u) = Len(fs) /\ Len(v) = Len(fs)
  BY WaitsForType, SettledType
<1>2. ASSUME NEW i \in 1..Len(fs)
      PROVE  u[i] = v[i]
  <2>1. v[i] = IF i = Len(fs) /\ w[i] = "value" THEN "key" ELSE w[i]
    BY SettledType
  <2>2. u[i] = IF fs[i] = "Array" THEN "element"
               ELSE ObjectWaits(i = Len(fs), StateValueConsumed(fs))
    BY WaitsForType
  <2>3. fs[i] = "Array" \/ fs[i] = "Object"
    BY ElementOfSeq DEF FS!Frame
  <2>4. i = Len(fs) /\ fs[i] = "Object"
          => StateValueConsumed(fs) = "ObjectCommaOrEnd"
    BY ConsumedCases, TopOfType, EmptySeq
  <2> HIDE DEF u, v
  <2>5. QED
    BY <2>1, <2>2, <2>3, <2>4 DEF ObjectWaits
<1> HIDE DEF u, v
<1>3. u = v
  BY <1>1, <1>2, SeqEqual
<1>4. QED
  BY <1>3 DEF u, v

(* What the consumer may be handed next, read off the grammar state.       *)
LEMMA DueByState ==
  ASSUME Inv
  PROVE  /\ frames = << >> => Events!Innermost = "root"
         /\ state \in {"ArrayValueOrEnd", "ArrayCommaOrEnd"}
              => Events!Innermost = "element"
         /\ state \in KeyState => Events!Innermost = "key"
         /\ state \in {"ObjectColon", "ObjectValue"}
              => Events!Innermost = "value"
         /\ state \in ValueState => Events!ValueDue
<1> DEFINE n == Len(frames)
<1>1. frames \in Seq(FS!Frame) /\ state \in State /\ n \in Nat
  BY LenProperties DEF Inv, TypeOK
<1>2. Len(Waiting) = n /\ (Waiting = << >> <=> frames = << >>)
  BY <1>1, WaitsForType DEF Waiting
<1>3. CASE frames = << >>
  <2>1. Events!Innermost = "root" /\ state \in {"Start", "DocumentEnd"}
    BY <1>2, <1>3 DEF Events!Innermost, Inv, StateMatchesFrames
  <2>2. QED
    BY <1>3, <2>1 DEF Events!ValueDue, ValueState, KeyState
<1>4. CASE frames # << >>
  <2>1. n \in 1..n /\ FS!TopOf(frames) = frames[n]
    BY <1>1, <1>4, EmptySeq, TopOfType
  <2>2. Events!Innermost = Waiting[n]
    BY <1>2, <1>4 DEF Events!Innermost
  <2>3. Waiting[n] = IF frames[n] = "Array" THEN "element"
                     ELSE ObjectWaits(TRUE, state)
    BY <1>1, <2>1, WaitsForType DEF Waiting
  <2>4. QED
    BY <1>1, <1>4, <2>1, <2>2, <2>3, TopByState
       DEF ObjectWaits, Events!ValueDue, ValueState, KeyState,
           Inv, StateMatchesFrames
<1>5. QED
  BY <1>3, <1>4

(* While a value is due, no object waits for a key.                        *)
LEMMA WaitingForValue ==
  ASSUME Inv, state \in ValueState
  PROVE  /\ Waiting \in Seq(Due) /\ Len(Waiting) = Len(frames)
         /\ \A i \in 1..Len(frames) :
              Waiting[i] = IF frames[i] = "Array" THEN "element" ELSE "value"
BY WaitsForType DEF Waiting, Inv, TypeOK, ObjectWaits, ValueState

LEMMA ScalarSimulates ==
  ASSUME Inv, LexType', ScalarRead
  PROVE  Events!ScalarValue
<1>1. Events!ValueDue
  BY DueByState DEF ScalarRead
<1>2. Waiting' = Events!Settled(Waiting)
  BY WaitingForValue, ConsumedSettles DEF ScalarRead, Waiting, Inv, TypeOK
<1>3. (state = "DocumentEnd")' = (Waiting = << >>)
  BY ConsumedCases, TopOfType, WaitsForType
     DEF ScalarRead, Waiting, Inv, TypeOK, FS!Frame
<1>4. QED
  BY <1>1, <1>2, <1>3
     DEF Events!ScalarValue, Events!ScalarEvent, ScalarRead, Scalar

LEMMA AppendDue ==
  ASSUME NEW w \in Seq(Due), NEW d \in Due
  PROVE  /\ Append(w, d) \in Seq(Due)
         /\ Len(Append(w, d)) = Len(w) + 1
         /\ Append(w, d)[Len(w) + 1] = d
         /\ \A i \in 1..Len(w) : Append(w, d)[i] = w[i]
BY AppendProperties

LEMMA OpenSimulates ==
  ASSUME Inv, LexType',
         NEW f \in FS!Frame, NEW ev, NEW s, ContainerOpened(f, ev, s),
         NEW first \in Due, s # "DocumentEnd",
         first = IF f = "Array" THEN "element" ELSE ObjectWaits(TRUE, s)
  PROVE  Events!StartContainer(ev, first)
<1> DEFINE n == Len(frames)
           g == Append(frames, f)
           u == WaitsFor(g, s)
           v == Append(Waiting, first)
<1>1. /\ Events!ValueDue
      /\ n \in Nat /\ frames \in Seq(FS!Frame) /\ frames' = g
  BY DueByState, LenProperties DEF ContainerOpened, Opened, Inv, TypeOK
<1>2. /\ g \in Seq(FS!Frame) /\ Len(g) = n + 1 /\ g[n + 1] = f
      /\ \A i \in 1..n : g[i] = frames[i]
  BY <1>1, AppendProperties
<1>3. /\ Waiting \in Seq(Due) /\ Len(Waiting) = n
      /\ \A i \in 1..n :
           Waiting[i] = IF frames[i] = "Array" THEN "element" ELSE "value"
  BY WaitingForValue DEF ContainerOpened
<1>4. /\ v \in Seq(Due) /\ Len(v) = n + 1 /\ v[n + 1] = first
      /\ \A i \in 1..n : v[i] = Waiting[i]
  <2> HIDE DEF n
  <2> QED
    BY <1>3, AppendDue
<1>5. /\ u \in Seq(Due) /\ Len(u) = n + 1
      /\ \A i \in 1..(n + 1) :
           u[i] = IF g[i] = "Array" THEN "element" ELSE ObjectWaits(i = n + 1, s)
  <2> HIDE DEF g
  <2> QED
    BY <1>2, WaitsForType
<1> HIDE DEF g, u, v, n
<1>6. u = v
  <2>1. ASSUME NEW i \in 1..(n + 1)
        PROVE  u[i] = v[i]
    <3>1. CASE i = n + 1
      BY <1>2, <1>4, <1>5, <3>1
    <3>2. CASE i \in 1..n
      BY <1>1, <1>2, <1>3, <1>4, <1>5, <3>2 DEF ObjectWaits
    <3>3. i = n + 1 \/ i \in 1..n
      BY <1>1
    <3>4. QED
      BY <3>1, <3>2, <3>3
  <2>2. QED
    BY <1>4, <1>5, <2>1, SeqEqual
<1>7. Waiting' = Append(Waiting, first)
  BY <1>1, <1>6 DEF Waiting, u, v, ContainerOpened
<1>8. Len(Waiting) < MaxDepth /\ ret' = ev
  BY WaitingForValue DEF ContainerOpened, Opened
<1>9. (state = "DocumentEnd")' = (state = "DocumentEnd")
  BY DEF ContainerOpened, ValueState
<1>10. QED
  BY <1>1, <1>7, <1>8, <1>9 DEF Events!StartContainer

LEMMA CloseSimulates ==
  ASSUME Inv, LexType', NEW f \in FS!Frame, NEW ev, NEW from,
         ContainerClosed(f, ev, from), NEW due, Events!Innermost = due
  PROVE  Events!EndContainer(ev, due)
<1> DEFINE fs == FS!Popped(frames)
           n == Len(frames)
<1>1. /\ frames \in Seq(FS!Frame) /\ frames # << >> /\ n \in Nat \ {0}
      /\ fs \in Seq(FS!Frame) /\ Len(fs) = n - 1
      /\ \A i \in 1..(n - 1) : fs[i] = frames[i]
  BY TopOfType, EmptySeq, PoppedProperties
     DEF ContainerClosed, Inv, TypeOK, FS!Frame
<1>2. /\ Waiting \in Seq(Due) /\ Len(Waiting) = n
      /\ \A i \in 1..n : Waiting[i] = IF frames[i] = "Array" THEN "element"
                                      ELSE ObjectWaits(i = n, state)
  BY <1>1, WaitsForType DEF Waiting
<1>3. /\ Events!Outer \in Seq(Due) /\ Len(Events!Outer) = n - 1
      /\ \A i \in 1..(n - 1) : Events!Outer[i] = Waiting[i]
  <2> DEFINE m == n - 1
             w == SubSeq(Waiting, 1, m)
  <2>1. m \in Nat /\ \A i \in 1..m : Waiting[i] \in Due
    BY <1>1, <1>2, ElementOfSeq
  <2>2. /\ w \in Seq(Due)
        /\ Len(w) = IF 1 <= m THEN m - 1 + 1 ELSE 0
        /\ \A i \in 1..(m - 1 + 1) : w[i] = Waiting[1 + i - 1]
    <3> HIDE DEF m
    <3> QED
      BY <2>1, SubSeqProperties
  <2>3. Events!Outer = w
    BY <1>2 DEF Events!Outer
  <2> HIDE DEF w, m
  <2>4. m - 1 + 1 = m /\ \A i \in 1..m : 1 + i - 1 = i
    BY <2>1
  <2>5. Len(w) = m
    BY <2>1, <2>2
  <2>6. QED
    BY <2>2, <2>3, <2>4, <2>5 DEF m
<1> HIDE DEF fs
<1>4. \A i \in 1..Len(fs) :
        Events!Outer[i] = IF fs[i] = "Array" THEN "element" ELSE "value"
  BY <1>1, <1>2, <1>3 DEF ObjectWaits
<1>5. WaitsFor(fs, StateValueConsumed(fs)) = Events!Settled(Events!Outer)
  BY <1>1, <1>3, <1>4, ConsumedSettles
<1>6. Waiting' = Events!Settled(Events!Outer)
  BY <1>5 DEF Waiting, ContainerClosed, fs
<1>7. (state = "DocumentEnd")' = (Events!Outer = << >>)
  <2>1. state' = StateValueConsumed(fs)
    BY DEF ContainerClosed, fs
  <2>2. Events!Outer = << >> <=> fs = << >>
    BY <1>1, <1>3, EmptySeq
  <2>3. QED
    BY <1>1, <2>1, <2>2, ConsumedCases, TopOfType DEF FS!Frame
<1>8. QED
  BY <1>6, <1>7 DEF Events!EndContainer, ContainerClosed

LEMMA KeySimulates ==
  ASSUME Inv, KeyRead
  PROVE  Events!Key
<1> DEFINE n == Len(frames)
           u == WaitsFor(frames, "ObjectColon")
           v == [Waiting EXCEPT ![n] = "value"]
<1>1. Events!Innermost = "key" /\ FS!TopOf(frames) = "Object"
  BY DueByState, TopByState DEF KeyRead, KeyState
<1>2. frames \in Seq(FS!Frame) /\ n \in 1..n /\ frames[n] = "Object"
  BY <1>1, TopOfType, EmptySeq DEF Inv, TypeOK, FS!Frame
<1>3. /\ Waiting \in Seq(Due) /\ Len(Waiting) = n
      /\ \A i \in 1..n : Waiting[i] = IF frames[i] = "Array" THEN "element"
                                      ELSE ObjectWaits(i = n, state)
      /\ u \in Seq(Due) /\ Len(u) = n
      /\ \A i \in 1..n : u[i] = IF frames[i] = "Array" THEN "element" ELSE "value"
  BY <1>2, WaitsForType DEF Waiting, ObjectWaits
<1>4. /\ v \in Seq(Due) /\ Len(v) = n
      /\ \A i \in 1..n : v[i] = IF i = n THEN "value" ELSE Waiting[i]
  <2> "value" \in Due
    BY DEF Due
  <2> HIDE DEF n
  <2> QED
    BY <1>2, <1>3, ExceptSeq
<1> HIDE DEF u, v
<1>5. \A i \in 1..n : u[i] = v[i]
  BY <1>2, <1>3, <1>4 DEF ObjectWaits
<1>6. u = v
  BY <1>3, <1>4, <1>5, SeqEqual
<1>7. Waiting' = [Waiting EXCEPT ![Len(Waiting)] = "value"]
  BY <1>3, <1>6 DEF Waiting, u, v, KeyRead
<1>8. (state = "DocumentEnd")' = (state = "DocumentEnd")
  BY DEF KeyRead, KeyState
<1>9. QED
  BY <1>1, <1>7, <1>8 DEF Events!Key, KeyRead

(* One call of next_event is one step of the event grammar.                *)
LEMMA StepSimulates ==
  ASSUME Inv, Inv', [NextEvent]_vars
  PROVE  [Events!Next]_(Events!grammarVars)
<1>1. CASE UNCHANGED vars
  BY <1>1 DEF vars, Events!grammarVars, Waiting
<1>2. CASE NextEvent
  <2>1. LexType' /\ Effect
    BY <1>2, NextEventEffect
  <2>2. CASE ScalarRead
    BY <2>1, <2>2, ScalarSimulates DEF Events!Next
  <2>3. CASE ContainerOpened("Object", "StartObject", "ObjectKeyOrEnd")
    BY <2>1, <2>3, OpenSimulates DEF Events!Next, FS!Frame, Due, ObjectWaits
  <2>4. CASE ContainerOpened("Array", "StartArray", "ArrayValueOrEnd")
    BY <2>1, <2>4, OpenSimulates DEF Events!Next, FS!Frame, Due
  <2>5. CASE ContainerClosed("Object", "EndObject", KeyState)
    BY <2>1, <2>5, DueByState, CloseSimulates
       DEF Events!Next, FS!Frame, ContainerClosed
  <2>6. CASE ContainerClosed("Array", "EndArray",
                             {"ArrayValueOrEnd", "ArrayCommaOrEnd"})
    BY <2>1, <2>6, DueByState, CloseSimulates
       DEF Events!Next, FS!Frame, ContainerClosed
  <2>7. CASE KeyRead
    BY <2>7, KeySimulates DEF Events!Next
  <2>8. CASE StreamEnded
    BY <2>8 DEF StreamEnded, Waiting, Events!End, Events!Next
  <2>9. CASE CallFailed
    BY <2>9
       DEF CallFailed, Refused, ErrorKind, Waiting, Events!Fail,
           Events!Failure, Events!Next
  <2>10. QED
    BY <2>1, <2>2, <2>3, <2>4, <2>5, <2>6, <2>7, <2>8, <2>9 DEF Effect
<1>3. QED
  BY <1>1, <1>2

(* The streaming parser implements the event grammar: for every input and  *)
(* every depth limit, next_event hands out the events of one document, and *)
(* an error leaves that document where it was (Parser::next_event).        *)
THEOREM EventsAreOneDocument == Stream => ImplementsEventGrammar
<1>1. Init => Events!Init
  <2> SUFFICES ASSUME Init
               PROVE  Events!Init
    OBVIOUS
  <2>1. Waiting = << >>
    BY WaitsForType, EmptySeq DEF Init, Waiting
  <2>2. QED
    BY <2>1 DEF Init, Events!Init
<1>2. Inv /\ Inv' /\ [NextEvent]_vars => [Events!Next]_(Events!grammarVars)
  BY StepSimulates
<1>3. QED
  BY <1>1, <1>2, InitInv, StepInv, PTL DEF Stream, ImplementsEventGrammar, Events!Spec

-----------------------------------------------------------------------------
(* The consumer that mixes the fast-path methods with next_event.          *)

(* What the consumer wants and where the parser is, to the letter: behind  *)
(* a comma of array_continue the parser still waits for that comma.        *)
ClientStates ==
  [StatesFor EXCEPT !["element"] = {"ArrayCommaOrEnd"}]

ClientInv ==
  /\ Inv
  /\ want \in Want
  /\ state \in ClientStates[want]

LEMMA ClientStatesCases ==
  /\ ClientStates["value"] = {"Start", "ArrayValueOrEnd", "ObjectValue"}
  /\ ClientStates["element"] = {"ArrayCommaOrEnd"}
  /\ ClientStates["firstElement"] = {"ArrayValueOrEnd"}
  /\ ClientStates["nextElement"] = {"ArrayCommaOrEnd"}
  /\ ClientStates["firstKey"] = {"ObjectKeyOrEnd"}
  /\ ClientStates["colon"] = {"ObjectColon"}
  /\ ClientStates["nextKey"] = {"ObjectCommaOrEnd"}
  /\ ClientStates["nothing"] = {"DocumentEnd"}
BY DEF ClientStates, StatesFor

(* Once a value is complete, the consumer and the parser draw the same     *)
(* conclusion from the frame on top.                                       *)
LEMMA ConsumedWant ==
  ASSUME NEW s \in Seq(FS!Frame)
  PROVE  /\ WantAfterValue(s) \in Want
         /\ ClientStates[WantAfterValue(s)] = {StateValueConsumed(s)}
         /\ StateValueConsumed(s) \in State
         /\ s = << >> <=> StateValueConsumed(s) = "DocumentEnd"
         /\ FS!TopOf(s) = "Array" <=> StateValueConsumed(s) = "ArrayCommaOrEnd"
         /\ StateValueConsumed(s) \in {"DocumentEnd", "ArrayCommaOrEnd", "ObjectCommaOrEnd"}
<1>1. FS!TopOf(s) \in {"None", "Array", "Object"}
  BY TopOfType DEF FS!Frame
<1>2. s = << >> <=> FS!TopOf(s) = "None"
  BY TopOfType
<1>3. QED
  BY <1>1, <1>2, ClientStatesCases DEF WantAfterValue, StateValueConsumed, Want, State

(* A call that completed a value and moved the state behind it.            *)
LEMMA ValueCompleted ==
  ASSUME Inv, LexType', RecordFailure,
         ret' \in Scalar \cup {"EndArray", "EndObject", "Empty", "Closed"},
         state' = StateValueConsumed(frames'),
         Learn
  PROVE  ClientInv'
<1>1. frames' \in Seq(FS!Frame)
  BY DEF LexType
<1>2. want' = WantAfterValue(frames')
  BY DEF Learn, Scalar, ErrorKind
<1>3. TypeOK'
  BY <1>1, ConsumedWant DEF TypeOK, LexType, RecordFailure, Inv
<1>4. StateMatchesFrames'
  BY <1>1, ConsumedWant DEF StateMatchesFrames
<1>5. QED
  BY <1>1, <1>2, <1>3, <1>4, ConsumedWant DEF ClientInv, Inv

LEMMA ClientRefused ==
  ASSUME ClientInv, LexType', RecordFailure, Refused, UNCHANGED state, Learn
  PROVE  ClientInv'
<1>1. want' = want
  BY DEF Refused, Learn, ErrorKind
<1>2. Inv'
  BY EffectKeepsInv DEF ClientInv, Effect, CallFailed
<1>3. QED
  BY <1>1, <1>2 DEF ClientInv

(* next_event for whatever the consumer wants, a comma it has left behind  *)
(* included.                                                               *)
LEMMA PullEventKeeps ==
  ASSUME ClientInv, PullEvent
  PROVE  ClientInv'
<1>1. Inv /\ NextEvent /\ RecordFailure
  BY DEF ClientInv, PullEvent, NextEvent
<1>2. LexType' /\ Effect
  BY <1>1, NextEventEffect
<1>3. Inv'
  BY <1>1, <1>2, EffectKeepsInv
<1>4. IF ret' = "Key" THEN want' = "colon" ELSE Learn
  BY DEF PullEvent
<1>5. CASE ScalarRead
  <2>1. Learn /\ state' = StateValueConsumed(frames')
    BY <1>4, <1>5 DEF ScalarRead, Scalar
  <2>2. QED
    BY <1>1, <1>2, <1>5, <2>1, ValueCompleted DEF ScalarRead
<1>6. CASE ContainerOpened("Object", "StartObject", "ObjectKeyOrEnd")
  BY <1>3, <1>4, <1>6, ClientStatesCases
     DEF ContainerOpened, Opened, Learn, ErrorKind, ClientInv, Want
<1>7. CASE ContainerOpened("Array", "StartArray", "ArrayValueOrEnd")
  BY <1>3, <1>4, <1>7, ClientStatesCases
     DEF ContainerOpened, Opened, Learn, ErrorKind, ClientInv, Want
<1>8. CASE \/ ContainerClosed("Object", "EndObject", KeyState)
           \/ ContainerClosed("Array", "EndArray", {"ArrayValueOrEnd", "ArrayCommaOrEnd"})
  BY <1>1, <1>2, <1>4, <1>8, ValueCompleted DEF ContainerClosed
<1>9. CASE KeyRead
  BY <1>3, <1>4, <1>9, ClientStatesCases DEF KeyRead, ClientInv, Want
<1>10. CASE StreamEnded
  BY <1>3, <1>4, <1>10, ClientStatesCases
     DEF StreamEnded, Learn, ErrorKind, ClientInv, Want
<1>11. CASE CallFailed
  <2>1. Learn
    BY <1>4, <1>11 DEF CallFailed, Refused, ErrorKind
  <2>2. QED
    BY <1>1, <1>2, <1>11, <2>1, ClientRefused DEF CallFailed
<1>12. QED
  BY <1>2, <1>5, <1>6, <1>7, <1>8, <1>9, <1>10, <1>11 DEF Effect

LEMMA ScalarCallKeeps ==
  ASSUME ClientInv, ParseI64 \/ ParseStr, Learn
  PROVE  ClientInv'
<1>1. Inv /\ LexType /\ offset \in 0..Len(input) /\ RecordFailure
  BY InvLexType DEF ClientInv, LexType, ParseI64, ParseStr
<1>2. RunEnd(offset, "1") \in 0..Len(input)
  BY <1>1, RunEndInRange, LenProperties DEF LexType
<1>3. BorrowedString(offset) => offset + 1 \in 0..Len(input)
  BY <1>1, InsideInput, StringsAreTokens DEF BorrowedString, Strings
<1>4. CASE \/ ParseI64 /\ Return(RunEnd(offset, "1"), "Number")
           \/ ParseStr /\ BorrowedString(offset) /\ Return(offset + 1, "String")
  <2>1. LexType' /\ frames' = frames /\ ret' \in {"Number", "String"}
    BY <1>1, <1>2, <1>3, <1>4, ReturnEffect
  <2>2. state' = StateValueConsumed(frames')
    BY <1>4, <2>1 DEF ParseI64, ParseStr, SyncIf, Return
  <2>3. QED
    BY <1>1, <2>1, <2>2, ValueCompleted DEF Scalar
<1>5. CASE Unexpected(offset) \/ Return(offset, "InvalidEscape")
  <2>1. LexType' /\ Refused
    BY <1>1, <1>5, UnexpectedEffect, ReturnEffect DEF Refused, ErrorKind
  <2>2. UNCHANGED state
    BY <2>1 DEF Refused, ErrorKind, ParseI64, ParseStr, SyncIf
  <2>3. QED
    BY <1>1, <2>1, <2>2, ClientRefused
<1>6. QED
  BY <1>4, <1>5 DEF ParseI64, ParseI64Value, ParseStr, ParseStrValue

LEMMA StartArrayKeeps ==
  ASSUME ClientInv, StartArray, Learn
  PROVE  ClientInv'
<1>1. Inv /\ LexType /\ RecordFailure
  BY InvLexType DEF ClientInv, StartArray
<1>2. /\ LexType'
      /\ \/ Opened("Array", "Open")
         \/ ret' = "Empty" /\ frames' = frames
         \/ Refused
  BY <1>1, ArrayStartEffect DEF StartArray
<1>3. CASE Opened("Array", "Open")
  <2>1. state' = "ArrayValueOrEnd" /\ want' = "value"
    BY <1>3 DEF Opened, StartArray, Learn, ErrorKind
  <2>2. FS!TopOf(frames') = "Array" /\ frames' # << >>
    BY <1>1, <1>3, AppendProperties DEF Opened, LexType, FS!TopOf, FS!Frame
  <2>3. Inv'
    BY <1>1, <1>2, <1>3, <2>1, <2>2
       DEF Opened, Inv, TypeOK, LexType, StateMatchesFrames, State, RecordFailure
  <2>4. QED
    BY <2>1, <2>3, ClientStatesCases DEF ClientInv, Want
<1>4. CASE ret' = "Empty" /\ frames' = frames
  <2>1. state' = StateValueConsumed(frames')
    BY <1>4 DEF StartArray
  <2>2. QED
    BY <1>1, <1>2, <1>4, <2>1, ValueCompleted
<1>5. CASE Refused
  <2>1. UNCHANGED state
    BY <1>5 DEF Refused, ErrorKind, StartArray
  <2>2. QED
    BY <1>1, <1>2, <1>5, <2>1, ClientRefused
<1>6. QED
  BY <1>2, <1>3, <1>4, <1>5

(* The array the consumer is in is the innermost container: its bracket    *)
(* closes it.                                                              *)
LEMMA ContinueKeeps ==
  ASSUME ClientInv, Continue
  PROVE  ClientInv'
<1>1. /\ Inv /\ LexType /\ ContinueArray("]") /\ RecordFailure /\ Learn
      /\ state = "ArrayCommaOrEnd"
  BY InvLexType, ClientStatesCases DEF ClientInv, Continue, ContinueArray
<1>2. FS!TopOf(frames) = "Array"
  BY <1>1, TopByState
<1>3. /\ LexType'
      /\ \/ Closes("Array", "Closed")
         \/ ret' = "More" /\ frames' = frames
         \/ Refused
  BY <1>1, ArrayContinueEffect DEF ContinueArray
<1>4. CASE Closes("Array", "Closed")
  BY <1>1, <1>2, <1>3, <1>4, ValueCompleted DEF Closes, ContinueArray, SyncIf
<1>5. CASE ret' = "More" /\ frames' = frames
  <2>1. UNCHANGED state /\ want' = "element"
    BY <1>1, <1>5 DEF ContinueArray, SyncIf, Learn, ErrorKind
  <2>2. Inv'
    BY <1>1, <1>3, <1>5, <2>1
       DEF Inv, TypeOK, LexType, StateMatchesFrames, RecordFailure
  <2>3. QED
    BY <1>1, <2>1, <2>2, ClientStatesCases DEF ClientInv, Want
<1>6. CASE Refused
  BY <1>1, <1>3, <1>6, ClientRefused DEF Refused, ErrorKind, ContinueArray, SyncIf
<1>7. QED
  BY <1>3, <1>4, <1>5, <1>6

LEMMA WalkKeyKeeps ==
  ASSUME ClientInv, WalkKey
  PROVE  ClientInv'
<1>1. /\ Inv /\ LexType /\ RecordFailure /\ state \in KeyState
      /\ state' = CASE ret' = "Closed" -> StateValueConsumed(frames')
                    [] ret' = "Key"    -> "ObjectValue"
                    [] OTHER           -> state
      /\ IF ret' = "Key" THEN want' = "value" ELSE Learn
  BY InvLexType, ClientStatesCases
     DEF ClientInv, WalkKey, FirstKey, NextKey, SyncKey, KeyState
<1>2. FS!TopOf(frames) = "Object"
  BY <1>1, TopByState DEF KeyState
<1>3. LexType' /\ KeyWalked
  BY <1>1, ObjectFirstKeyEffect, ObjectNextKeyEffect DEF WalkKey, FirstKey, NextKey
<1>4. CASE Closes("Object", "Closed")
  BY <1>1, <1>2, <1>3, <1>4, ValueCompleted DEF Closes
<1>5. CASE ret' = "Key" /\ frames' = frames
  <2>1. state' = "ObjectValue" /\ want' = "value"
    BY <1>1, <1>5
  <2>2. Inv'
    BY <1>1, <1>2, <1>3, <1>5, <2>1
       DEF Inv, TypeOK, LexType, StateMatchesFrames, State, KeyState, RecordFailure
  <2>3. QED
    BY <2>1, <2>2, ClientStatesCases DEF ClientInv, Want
<1>6. CASE Refused
  BY <1>1, <1>3, <1>6, ClientRefused DEF Refused, ErrorKind
<1>7. QED
  BY <1>3, <1>4, <1>5, <1>6 DEF KeyWalked

LEMMA ClientStep ==
  ASSUME ClientInv, [ClientNext]_clientVars
  PROVE  ClientInv'
<1>1. CASE PullEvent
  BY <1>1, PullEventKeeps
<1>2. CASE ReadTyped
  BY <1>2, ScalarCallKeeps, StartArrayKeeps DEF ReadTyped
<1>3. CASE Continue
  BY <1>3, ContinueKeeps
<1>4. CASE WalkKey
  BY <1>4, WalkKeyKeeps
<1>5. ~ CallAnything
  BY DEF CallAnything, ClientInv, Want
<1>6. CASE UNCHANGED clientVars
  BY <1>6 DEF clientVars, ClientInv, Inv, TypeOK, StateMatchesFrames
<1>7. QED
  BY <1>1, <1>2, <1>3, <1>4, <1>5, <1>6 DEF ClientNext

(* A careless consumer stays one.                                          *)
LEMMA CarelessStays ==
  ASSUME want = "anything", [ClientNext]_clientVars
  PROVE  want' = "anything"
BY DEF ClientNext, PullEvent, ReadTyped, Continue, WalkKey, CallAnything, Want, clientVars

(* Whatever construct the consumer reads next, the parser is in a grammar  *)
(* state for it, after any mix of the fast-path methods and next_event and *)
(* after errors (parser.rs:253-260).                                       *)
THEOREM ClientIsFollowed == ClientSpec => []StateFollowsClient
<1> DEFINE Followed == want = "anything" \/ ClientInv
<1>1. ClientInit => Followed
  BY InitInv, ClientStatesCases DEF ClientInit, Init, ClientInv, Want
<1>2. Followed /\ [ClientNext]_clientVars => Followed'
  BY ClientStep, CarelessStays
<1>3. Followed => StateFollowsClient
  BY DEF ClientInv, ClientStates, StateFollowsClient, StatesFor, Want, Inv, TypeOK
<1> HIDE DEF Followed
<1>4. QED
  BY <1>1, <1>2, <1>3, PTL DEF ClientSpec

-----------------------------------------------------------------------------
(* The pull loop accepts exactly the documents of the grammar.  As long as *)
(* no call has failed, the input is a document exactly if what is read so  *)
(* far can be completed to one; the grammar state says what is due.        *)

DocumentReading(keys) ==
  [scalars |-> ScalarTokens, keys |-> keys, text |-> Lexemes(input),
   depth |-> MaxDepth, end |-> Len(Lexemes(input))]

StateDue ==
  [Start |-> "value", DocumentEnd |-> "next",
   ArrayValueOrEnd |-> "firstValue", ArrayCommaOrEnd |-> "next",
   ObjectKeyOrEnd |-> "firstKey", ObjectColon |-> "colon",
   ObjectValue |-> "value", ObjectCommaOrEnd |-> "next"]

(* r reads this document to its end, and takes every string for a key.     *)
ReadsDocument(r) ==
  /\ Reading(r) /\ Strings \subseteq r.keys
  /\ r.depth = MaxDepth /\ r.end = Len(Lexemes(input))

(* The end of the document is told apart from its last value by looking.   *)
SawTheEnd == (state = "DocumentEnd" /\ ret = "None") => Peek(offset) = "eof"

StreamReads ==
  LET r == DocumentReading(Strings)
  IN  /\ failed => ~ ReadsWhole(r)
      /\ ~ failed => Expects(r, StateDue[state], frames, offset)
      /\ SawTheEnd

LEMMA DocumentIsRead ==
  ASSUME LexType, NEW keys, keys \in {Strings, Strings \cup {"lone"}}
  PROVE  /\ ReadsDocument(DocumentReading(keys))
         /\ DocumentReading(keys).keys = keys
         /\ IsDocument(input, ScalarTokens, keys, MaxDepth)
              <=> ReadsWhole(DocumentReading(keys))
<1> DEFINE r == DocumentReading(keys)
           t == Lexemes(input)
<1>1. /\ t \in Seq(Token) /\ Len(t) \in Nat /\ MaxDepth \in Nat
  BY LexerAssumption, BegunBounds DEF LexType
<1>2. /\ ScalarTokens \cap Structural = {}
      /\ (Strings \cup {"lone"}) \cap Structural = {}
  <2>1. Structural = Punctuation
    BY Zenon DEF Structural, Punctuation, Brace, EndBrace, Comma, Colon
  <2>2. Strings \cap Punctuation = {}
    BY StringsAreTokens
  <2>3. "lone" \notin Punctuation /\ "kw" \notin Punctuation /\ "1" \notin Punctuation
    BY DEF Punctuation
  <2>4. QED
    BY <2>1, <2>2, <2>3 DEF ScalarTokens
<1>3. /\ r.scalars = ScalarTokens /\ r.keys = keys /\ r.text = t
      /\ r.depth = MaxDepth /\ r.end = Len(t)
  BY DEF DocumentReading
<1> HIDE DEF r, t
<1>4. keys \subseteq Strings \cup {"lone"} /\ Strings \subseteq keys
  OBVIOUS
<1>5. Reading(r) /\ ReadsDocument(r)
  BY <1>1, <1>2, <1>3, <1>4 DEF Reading, Readable, ReadsDocument, t
<1>6. IsDocument(input, r.scalars, r.keys, MaxDepth)
        <=> t # << >> /\ Derives(t, r.scalars, r.keys, MaxDepth)
  BY DEF IsDocument, t
<1>7. t = << >> <=> Len(t) = 0
  BY <1>1, EmptySeq
<1>8. ReadsWhole(r) <=> Derived(r, t, <<"value", 1, Len(t), MaxDepth>>)
  BY <1>3 DEF ReadsWhole, IsA
<1>9. ReadsWhole(r) => Len(t) # 0
  <2>1. ReadsWhole(r) => Len(t) \in 1..Len(t)
    BY <1>3, <1>5, IsBounds DEF ReadsWhole, Reading
  <2>2. QED
    BY <2>1
<1>10. Len(t) # 0 => (Derives(t, r.scalars, r.keys, MaxDepth)
                        <=> Derived(r, t, <<"value", 1, Len(t), MaxDepth>>))
  BY <1>1, DerivesExactly
<1>11. IsDocument(input, ScalarTokens, keys, MaxDepth) <=> ReadsWhole(r)
  BY <1>3, <1>6, <1>7, <1>8, <1>9, <1>10
<1>12. QED
  BY <1>3, <1>5, <1>11 DEF r

LEMMA StateDueCases ==
  ASSUME NEW s \in Seq(FS!Frame)
  PROVE  /\ StateDue[StateValueConsumed(s)] = "next"
         /\ StateDue["Start"] = "value" /\ StateDue["ObjectValue"] = "value"
         /\ StateDue["ArrayValueOrEnd"] = "firstValue" /\ StateDue["ObjectKeyOrEnd"] = "firstKey"
         /\ StateDue["ObjectColon"] = "colon" /\ StateDue["ArrayCommaOrEnd"] = "next"
         /\ StateDue["ObjectCommaOrEnd"] = "next" /\ StateDue["DocumentEnd"] = "next"
<1>1. StateValueConsumed(s) \in {"DocumentEnd", "ArrayCommaOrEnd", "ObjectCommaOrEnd"}
  BY ConsumedCases, TopOfType DEF FS!Frame
<1>2. QED
  BY <1>1 DEF StateDue

LEMMA DocumentRoom ==
  ASSUME LexType, NEW r, ReadsDocument(r)
  PROVE  Room(r, frames)
BY DEF Room, ReadsDocument

LEMMA InnermostIsTop ==
  ASSUME NEW fs \in Seq(FS!Frame), NEW f \in FS!Frame, FS!TopOf(fs) = f
  PROVE  /\ fs # << >> /\ f \in Kinds
         /\ Innermost(fs) = MarksOf(f) /\ Shorter(fs) = FS!Popped(fs)
BY FramesAreKinds DEF FS!TopOf, FS!Frame, FS!Popped, Innermost, Shorter

(* What a call leaves: an exact reader has failed for good reason.         *)
ReadOn(r) ==
  /\ ret' \notin ErrorKind => Expects(r, StateDue[state'], frames', offset')
  /\ ret' \in ErrorKind /\ r.keys = Strings => ~ ReadsWhole(r)

LEMMA RefuseReads ==
  ASSUME NEW r, NEW o, Refuse(o), r.keys = Strings => ~ ReadsWhole(r)
  PROVE  ReadOn(r)
BY UnexpectedReads DEF Refuse, ReadOn

LEMMA EmitValueReads ==
  ASSUME Inv, NEW r, ReadsDocument(r), NEW from \in 0..Len(input), NEW s,
         Expects(r, "value", frames, from), EmitValue(from, s), s = StateValueConsumed(frames)
  PROVE  ReadOn(r)
<1>1. LexType /\ frames \in Seq(FS!Frame) /\ Reading(r) /\ ReadValue(from)
  BY InvLexType DEF Inv, TypeOK, ReadsDocument, EmitValue
<1>2. \/ Opened("Object", "StartObject")
      \/ Opened("Array", "StartArray")
      \/ ret' \in Scalar /\ frames' = frames
      \/ Refused
  BY <1>1, ReadValueEffect
<1>3. /\ ret' = "StartObject" => Expects(r, "firstKey", Append(frames, "Object"), offset')
      /\ ret' = "StartArray" => Expects(r, "firstValue", Append(frames, "Array"), offset')
      /\ ret' \in Scalar => Expects(r, "next", frames, offset')
      /\ ret' \in ErrorKind => ~ ReadsWhole(r)
  BY <1>1, DocumentRoom, ReadValueReads
<1>4. CASE Opened("Object", "StartObject")
  <2>1. /\ state' = "ObjectKeyOrEnd" /\ frames' = Append(frames, "Object")
        /\ ret' = "StartObject" /\ ret' \notin ErrorKind
    BY <1>4 DEF EmitValue, Opened, ErrorKind, StateAfterValue
  <2>2. QED
    BY <1>1, <1>3, <2>1, StateDueCases DEF ReadOn
<1>5. CASE Opened("Array", "StartArray")
  <2>1. /\ state' = "ArrayValueOrEnd" /\ frames' = Append(frames, "Array")
        /\ ret' = "StartArray" /\ ret' \notin ErrorKind
    BY <1>5 DEF EmitValue, Opened, ErrorKind, StateAfterValue
  <2>2. QED
    BY <1>1, <1>3, <2>1, StateDueCases DEF ReadOn
<1>6. CASE ret' \in Scalar /\ frames' = frames
  <2>1. state' = StateValueConsumed(frames) /\ ret' \notin ErrorKind
    BY <1>6 DEF EmitValue, Scalar, ErrorKind, StateAfterValue
  <2>2. QED
    BY <1>1, <1>3, <1>6, <2>1, StateDueCases DEF ReadOn
<1>7. CASE Refused
  BY <1>3, <1>7 DEF Refused, ReadOn
<1>8. QED
  BY <1>2, <1>4, <1>5, <1>6, <1>7

LEMMA CloseContainerReads ==
  ASSUME Inv, NEW r, ReadsDocument(r), NEW o \in 0..Len(input),
         NEW due \in {"next", "firstValue", "firstKey"}, Expects(r, due, frames, o),
         NEW f \in FS!Frame, NEW ev, ev \notin ErrorKind, CloseContainer(f, o, ev),
         FS!TopOf(frames) = f, Peek(o) = MarksOf(f).close
  PROVE  ReadOn(r)
<1>1. LexType /\ frames \in Seq(FS!Frame) /\ Reading(r)
  BY InvLexType DEF Inv, TypeOK, ReadsDocument
<1>2. /\ frames # << >> /\ f \in Kinds
      /\ Innermost(frames) = MarksOf(f) /\ Shorter(frames) = FS!Popped(frames)
  BY <1>1, InnermostIsTop
<1>3. PopFrame(f, o + 1, ev)
  BY DEF CloseContainer
<1>4. ret' = ev /\ Expects(r, "next", FS!Popped(frames), offset')
  BY <1>1, <1>2, <1>3, PopReads
<1>5. frames' = FS!Popped(frames) /\ frames' \in Seq(FS!Frame)
  BY <1>1, <1>2, <1>3, PoppedProperties DEF PopFrame
<1>6. state' = StateValueConsumed(frames')
  BY <1>4 DEF CloseContainer
<1>7. QED
  BY <1>4, <1>5, <1>6, StateDueCases DEF ReadOn

LEMMA KeyOrEndReads ==
  ASSUME Inv, NEW r, ReadsDocument(r), NEW o \in 0..Len(input), Peek(o) # "ws",
         \/ Expects(r, "firstKey", frames, o)
         \/ Expects(r, "key", frames, o) /\ Peek(o) # EndBrace,
         KeyOrEnd(o), FS!TopOf(frames) = "Object"
  PROVE  ReadOn(r)
<1>1. LexType /\ frames \in Seq(FS!Frame) /\ Reading(r)
  BY InvLexType DEF Inv, TypeOK, ReadsDocument
<1>2. /\ frames # << >> /\ Innermost(frames) = ObjectMarks
      /\ MarksOf("Object") = ObjectMarks /\ ObjectMarks.close = EndBrace
      /\ "Object" \in FS!Frame
  BY <1>1, InnermostIsTop DEF MarksOf, ObjectMarks, FS!Frame
<1>3. \/ Peek(o) = EndBrace /\ CloseContainer("Object", o, "EndObject")
      \/ /\ IsQuote(o) /\ ReadString(o, "Key")
         /\ state' = IF ret' = "Key" THEN "ObjectColon" ELSE state
      \/ Peek(o) # EndBrace /\ ~ IsQuote(o) /\ Refuse(o)
  BY Zenon DEF KeyOrEnd, EndBrace
<1>4. Peek(o) # EndBrace => Expects(r, "key", frames, o)
  BY <1>1, <1>2, FirstIsAnother
<1>5. CASE Peek(o) = EndBrace /\ CloseContainer("Object", o, "EndObject")
  <2>1. "EndObject" \notin ErrorKind
    BY DEF ErrorKind
  <2>2. QED
    BY <1>1, <1>2, <1>5, <2>1, CloseContainerReads
<1>6. CASE /\ IsQuote(o) /\ ReadString(o, "Key")
           /\ state' = IF ret' = "Key" THEN "ObjectColon" ELSE state
  <2>1. CASE Peek(o) \in Strings /\ Return(o + 1, "Key")
    <3>1. Peek(o) # EndBrace /\ Peek(o) \in r.keys
      <4>1. EndBrace \notin r.keys
        BY <1>1, MarksAreNoWords DEF Structural
      <4>2. QED
        BY <2>1, <4>1 DEF ReadsDocument
    <3>2. Expects(r, "colon", frames, o + 1)
      BY <1>1, <1>4, <3>1, ExpectsKey
    <3>3. ret' = "Key" /\ ret' \notin ErrorKind /\ offset' = o + 1 /\ frames' = frames
      BY <2>1 DEF Return, ErrorKind
    <3>4. QED
      BY <1>1, <1>6, <3>2, <3>3, StateDueCases DEF ReadOn
  <2>2. CASE Peek(o) = "lone" /\ Return(o + 1, "UnpairedSurrogate")
    <3>1. ret' \in ErrorKind
      BY <2>2 DEF Return, ErrorKind
    <3>2. Peek(o) \notin Strings /\ Peek(o) # EndBrace
      BY <2>2, StringsAreTokens DEF EndBrace
    <3>3. r.keys = Strings => ~ ReadsWhole(r)
      BY <1>1, <1>4, <3>2, ExpectsNothing
    <3>4. QED
      BY <3>1, <3>3 DEF ReadOn
  <2>3. QED
    BY <1>6, <2>1, <2>2 DEF ReadString
<1>7. CASE Peek(o) # EndBrace /\ ~ IsQuote(o) /\ Refuse(o)
  <2>1. Peek(o) \notin Strings
    BY <1>7 DEF IsQuote, BorrowedString, EscapedString, Strings
  <2>2. r.keys = Strings => ~ ReadsWhole(r)
    BY <1>1, <1>4, <1>7, <2>1, ExpectsNothing
  <2>3. QED
    BY <1>7, <2>2, RefuseReads
<1>8. QED
  BY <1>3, <1>5, <1>6, <1>7

(* The arrays of next_event, entered behind the whitespace.                *)
LEMMA ArrayEventReads ==
  ASSUME Inv, NEW r, ReadsDocument(r), NEW o \in 0..Len(input), Peek(o) # "ws",
         Expects(r, StateDue[state], frames, o),
         EvArrayValueOrEnd(o) \/ EvArrayCommaOrEnd(o)
  PROVE  ReadOn(r)
<1> DEFINE next == SkipWhitespace(o + 1)
<1>1. /\ LexType /\ frames \in Seq(FS!Frame) /\ Reading(r)
      /\ state \in {"ArrayValueOrEnd", "ArrayCommaOrEnd"} /\ FS!TopOf(frames) = "Array"
  BY InvLexType, TopByState
     DEF Inv, TypeOK, ReadsDocument, EvArrayValueOrEnd, EvArrayCommaOrEnd
<1>2. /\ frames # << >> /\ Innermost(frames) = ArrayMarks
      /\ MarksOf("Array") = ArrayMarks /\ ArrayMarks.close = "]" /\ "Array" \in FS!Frame
  BY <1>1, InnermostIsTop DEF MarksOf, ArrayMarks, FS!Frame
<1>3. StateValueConsumed(frames) = "ArrayCommaOrEnd"
  BY <1>1, ConsumedCases
<1>4. /\ state = "ArrayValueOrEnd" => Expects(r, "firstValue", frames, o)
      /\ state = "ArrayCommaOrEnd" => Expects(r, "next", frames, o)
  BY <1>1, StateDueCases
<1>5. ASSUME Peek(o) = "]", CloseContainer("Array", o, "EndArray")
      PROVE  ReadOn(r)
  <2>1. "EndArray" \notin ErrorKind
    BY DEF ErrorKind
  <2>2. \E due \in {"next", "firstValue", "firstKey"} : Expects(r, due, frames, o)
    BY <1>1, <1>4
  <2>3. QED
    BY <1>1, <1>2, <1>5, <2>1, <2>2, CloseContainerReads
<1>6. CASE EvArrayValueOrEnd(o)
  <2>1. Expects(r, "firstValue", frames, o)
    BY <1>4, <1>6 DEF EvArrayValueOrEnd
  <2>2. CASE Peek(o) = "]" /\ CloseContainer("Array", o, "EndArray")
    BY <1>5, <2>2
  <2>3. CASE Peek(o) # "]" /\ EmitValue(o, "ArrayCommaOrEnd")
    <3>1. Expects(r, "value", frames, o)
      BY <1>1, <1>2, <2>1, <2>3, FirstIsAnother
    <3>2. QED
      BY <1>3, <2>3, <3>1, EmitValueReads
  <2>4. QED
    BY <1>6, <2>2, <2>3 DEF EvArrayValueOrEnd
<1>7. CASE EvArrayCommaOrEnd(o)
  <2>1. Expects(r, "next", frames, o)
    BY <1>4, <1>7 DEF EvArrayCommaOrEnd
  <2>2. CASE Peek(o) = Comma /\ CommaThenValue(o)
    <3>1. Expects(r, "value", frames, o + 1) /\ o + 1 \in 0..Len(input)
      BY <1>1, <1>2, <2>1, <2>2, ExpectsComma, InsideInput DEF Comma
    <3>2. next \in 0..Len(input) /\ Peek(next) # "ws" /\ Expects(r, "value", frames, next)
      BY <1>1, <3>1, AtWhitespace, ExpectsBehindWhitespace DEF Expects
    <3>3. \/ Peek(next) = "]" /\ Refuse(next)
          \/ Peek(next) # "]" /\ EmitValue(next, "ArrayCommaOrEnd")
      BY <2>2 DEF CommaThenValue
    <3> HIDE DEF next
    <3>4. CASE Peek(next) = "]" /\ Refuse(next)
      <4>1. Peek(next) \notin ScalarTokens /\ Peek(next) \notin {"[", Brace}
        BY <1>1, <3>4, MarksAreNoWords DEF Structural, Reading, Brace
      <4>2. ~ ReadsWhole(r)
        BY <1>1, <3>2, <4>1, ExpectsNothing
      <4>3. QED
        BY <3>4, <4>2, RefuseReads
    <3>5. CASE Peek(next) # "]" /\ EmitValue(next, "ArrayCommaOrEnd")
      BY <1>3, <3>2, <3>5, EmitValueReads
    <3>6. QED
      BY <3>3, <3>4, <3>5
  <2>3. CASE Peek(o) = "]" /\ CloseContainer("Array", o, "EndArray")
    BY <1>5, <2>3
  <2>4. CASE Peek(o) \notin {Comma, "]"} /\ Refuse(o)
    <3>1. ~ ReadsWhole(r)
      BY <1>1, <1>2, <2>1, <2>4, ExpectsNothing
    <3>2. QED
      BY <2>4, <3>1, RefuseReads
  <2>5. \/ Peek(o) = Comma /\ CommaThenValue(o)
        \/ Peek(o) = "]" /\ CloseContainer("Array", o, "EndArray")
        \/ Peek(o) \notin {Comma, "]"} /\ Refuse(o)
    BY <1>7, Zenon DEF EvArrayCommaOrEnd, Comma
  <2>6. QED
    BY <2>2, <2>3, <2>4, <2>5
<1>8. QED
  BY <1>6, <1>7

(* The objects of next_event.                                              *)
LEMMA ObjectEventReads ==
  ASSUME Inv, NEW r, ReadsDocument(r), NEW o \in 0..Len(input), Peek(o) # "ws",
         Expects(r, StateDue[state], frames, o),
         \/ EvObjectKeyOrEnd(o) \/ EvObjectColon(o)
         \/ EvObjectValue(o) \/ EvObjectCommaOrEnd(o)
  PROVE  ReadOn(r)
<1> DEFINE next == SkipWhitespace(o + 1)
<1>1. /\ LexType /\ frames \in Seq(FS!Frame) /\ Reading(r)
      /\ FS!TopOf(frames) = "Object"
  BY InvLexType, TopByState
     DEF Inv, TypeOK, ReadsDocument, EvObjectKeyOrEnd, EvObjectColon, EvObjectValue,
         EvObjectCommaOrEnd
<1>2. /\ frames # << >> /\ Innermost(frames) = ObjectMarks
      /\ MarksOf("Object") = ObjectMarks /\ ObjectMarks.close = EndBrace /\ "Object" \in FS!Frame
  BY <1>1, InnermostIsTop DEF MarksOf, ObjectMarks, FS!Frame
<1>3. StateValueConsumed(frames) = "ObjectCommaOrEnd"
  BY <1>1, ConsumedCases
<1>4. CASE EvObjectKeyOrEnd(o)
  <2>1. Expects(r, "firstKey", frames, o) /\ KeyOrEnd(o)
    BY <1>1, <1>4, StateDueCases DEF EvObjectKeyOrEnd
  <2>2. QED
    BY <1>1, <2>1, KeyOrEndReads
<1>5. CASE EvObjectColon(o)
  <2>1. Expects(r, "colon", frames, o)
    BY <1>1, <1>5, StateDueCases DEF EvObjectColon
  <2>2. \/ Peek(o) = Colon /\ EmitValue(o + 1, "ObjectCommaOrEnd")
        \/ Peek(o) # Colon /\ Refuse(o)
    BY <1>5, Zenon DEF EvObjectColon, Colon
  <2>3. CASE Peek(o) = Colon /\ EmitValue(o + 1, "ObjectCommaOrEnd")
    <3>1. Expects(r, "value", frames, o + 1) /\ o + 1 \in 0..Len(input)
      BY <1>1, <2>1, <2>3, ExpectsColon, InsideInput DEF Colon
    <3>2. QED
      BY <1>3, <2>3, <3>1, EmitValueReads
  <2>4. CASE Peek(o) # Colon /\ Refuse(o)
    <3>1. ~ ReadsWhole(r)
      BY <1>1, <2>1, <2>4, ExpectsNothing
    <3>2. QED
      BY <2>4, <3>1, RefuseReads
  <2>5. QED
    BY <2>2, <2>3, <2>4
<1>6. CASE EvObjectValue(o)
  <2>1. Expects(r, "value", frames, o) /\ EmitValue(o, "ObjectCommaOrEnd")
    BY <1>1, <1>6, StateDueCases DEF EvObjectValue
  <2>2. QED
    BY <1>3, <2>1, EmitValueReads
<1>7. CASE EvObjectCommaOrEnd(o)
  <2>1. Expects(r, "next", frames, o)
    BY <1>1, <1>7, StateDueCases DEF EvObjectCommaOrEnd
  <2>2. CASE Peek(o) = Comma /\ CommaThenKey(o)
    <3>1. Expects(r, "key", frames, o + 1) /\ o + 1 \in 0..Len(input)
      BY <1>1, <1>2, <2>1, <2>2, ExpectsComma, InsideInput DEF Comma
    <3>2. next \in 0..Len(input) /\ Peek(next) # "ws" /\ Expects(r, "key", frames, next)
      BY <1>1, <3>1, AtWhitespace, ExpectsBehindWhitespace DEF Expects
    <3>3. \/ Peek(next) = EndBrace /\ Refuse(next)
          \/ Peek(next) # EndBrace /\ KeyOrEnd(next)
      BY <2>2, Zenon DEF CommaThenKey, EndBrace
    <3> HIDE DEF next
    <3>4. CASE Peek(next) = EndBrace /\ Refuse(next)
      <4>1. Peek(next) \notin r.keys
        BY <1>1, <3>4, MarksAreNoWords DEF Structural
      <4>2. ~ ReadsWhole(r)
        BY <1>1, <3>2, <4>1, ExpectsNothing
      <4>3. QED
        BY <3>4, <4>2, RefuseReads
    <3>5. CASE Peek(next) # EndBrace /\ KeyOrEnd(next)
      BY <1>1, <3>2, <3>5, KeyOrEndReads
    <3>6. QED
      BY <3>3, <3>4, <3>5
  <2>3. CASE Peek(o) = EndBrace /\ CloseContainer("Object", o, "EndObject")
    <3>1. "EndObject" \notin ErrorKind
      BY DEF ErrorKind
    <3>2. QED
      BY <1>1, <1>2, <2>1, <2>3, <3>1, CloseContainerReads
  <2>4. CASE Peek(o) \notin {Comma, EndBrace} /\ Refuse(o)
    <3>1. ~ ReadsWhole(r)
      BY <1>1, <1>2, <2>1, <2>4, ExpectsNothing
    <3>2. QED
      BY <2>4, <3>1, RefuseReads
  <2>5. \/ Peek(o) = Comma /\ CommaThenKey(o)
        \/ Peek(o) = EndBrace /\ CloseContainer("Object", o, "EndObject")
        \/ Peek(o) \notin {Comma, EndBrace} /\ Refuse(o)
    BY <1>7, Zenon DEF EvObjectCommaOrEnd, Comma, EndBrace
  <2>6. QED
    BY <2>2, <2>3, <2>4, <2>5
<1>8. QED
  BY <1>4, <1>5, <1>6, <1>7

(* Every call of next_event: what it hands out is what the grammar allows, *)
(* and it fails only where the grammar allows nothing.                     *)
LEMMA NextEventReads ==
  ASSUME Inv, NEW r, ReadsDocument(r), Expects(r, StateDue[state], frames, offset), NextEvent
  PROVE  ReadOn(r)
<1> DEFINE o == SkipWhitespace(offset)
<1>1. LexType /\ Reading(r) /\ offset \in 0..Len(input) /\ frames \in Seq(FS!Frame)
  BY InvLexType DEF LexType, ReadsDocument
<1>2. /\ o \in 0..Len(input) /\ Peek(o) # "ws" /\ Fresh(o)
      /\ Expects(r, StateDue[state], frames, o)
  BY <1>1, AtWhitespace, ExpectsBehindWhitespace DEF Expects
<1>3. \/ EvStart(o) \/ EvDocumentEnd(o)
      \/ EvArrayValueOrEnd(o) \/ EvArrayCommaOrEnd(o)
      \/ EvObjectKeyOrEnd(o) \/ EvObjectColon(o)
      \/ EvObjectValue(o) \/ EvObjectCommaOrEnd(o)
  BY DEF NextEvent
<1> HIDE DEF o
<1>4. ASSUME EvStart(o)
      PROVE  ReadOn(r)
  <2>1. Expects(r, "value", frames, o) /\ EmitValue(o, "DocumentEnd")
    BY <1>1, <1>2, <1>4, StateDueCases DEF EvStart
  <2>2. StateValueConsumed(frames) = "DocumentEnd"
    BY <1>1, <1>4, TopByState, ConsumedCases DEF EvStart
  <2>3. QED
    BY <1>2, <2>1, <2>2, EmitValueReads
<1>5. ASSUME EvDocumentEnd(o)
      PROVE  ReadOn(r)
  <2>1. Expects(r, "next", frames, o) /\ frames = << >>
    BY <1>1, <1>2, <1>5, StateDueCases DEF EvDocumentEnd, Inv, StateMatchesFrames
  <2>2. CASE Peek(o) = "eof"
    <3>1. UNCHANGED <<input, frames, state>> /\ offset' = o /\ ret' = "None"
      BY <1>5, <2>2 DEF EvDocumentEnd, Return
    <3>2. ret' \notin ErrorKind
      BY <3>1 DEF ErrorKind
    <3>3. StateDue[state'] = "next"
      BY <1>1, <1>5, <3>1, StateDueCases DEF EvDocumentEnd
    <3>4. QED
      BY <2>1, <3>1, <3>2, <3>3 DEF ReadOn
  <2>3. CASE Peek(o) # "eof"
    <3>1. ret' = "TrailingData"
      BY <1>5, <2>3 DEF EvDocumentEnd, Return
    <3>2. ret' \in ErrorKind
      BY <3>1 DEF ErrorKind
    <3>3. At(o) # r.end
      <4>1. At(o) + 1 \in 1..Len(r.text) /\ At(o) \in Nat /\ Len(r.text) \in Nat
        BY <1>1, <1>2, <2>3, AtSomething
      <4>2. r.end = Len(r.text)
        BY DEF ReadsDocument, Reading
      <4>3. QED
        BY <4>1, <4>2
    <3>4. ~ ReadsWhole(r)
      BY <1>1, <2>1, <3>3, ExpectsEnd
    <3>5. QED
      BY <3>2, <3>4 DEF ReadOn
  <2>4. QED
    BY <2>2, <2>3
<1>6. ASSUME EvArrayValueOrEnd(o) \/ EvArrayCommaOrEnd(o)
      PROVE  ReadOn(r)
  BY <1>2, <1>6, ArrayEventReads
<1>7. ASSUME \/ EvObjectKeyOrEnd(o) \/ EvObjectColon(o)
             \/ EvObjectValue(o) \/ EvObjectCommaOrEnd(o)
      PROVE  ReadOn(r)
  BY <1>2, <1>7, ObjectEventReads
<1>8. QED
  BY <1>3, <1>4, <1>5, <1>6, <1>7

LEMMA NextEventSawTheEnd == Inv /\ NextEvent => SawTheEnd'
<1> SUFFICES ASSUME Inv, NextEvent, ret' = "None"
             PROVE  (Peek(offset) = "eof")'
  BY DEF SawTheEnd
<1>1. StreamEnded
  <2>1. LexType' /\ Effect
    BY NextEventEffect
  <2>2. QED
    BY <2>1
       DEF Effect, ScalarRead, ContainerOpened, Opened, ContainerClosed, KeyRead,
           CallFailed, Refused, Scalar, ErrorKind
<1>2. EvDocumentEnd(SkipWhitespace(offset))
  BY <1>1
     DEF StreamEnded, NextEvent, EvStart, EvArrayValueOrEnd, EvArrayCommaOrEnd,
         EvObjectKeyOrEnd, EvObjectColon, EvObjectValue, EvObjectCommaOrEnd
<1>3. Peek(SkipWhitespace(offset)) = "eof" /\ offset' = SkipWhitespace(offset) /\ input' = input
  BY <1>2 DEF EvDocumentEnd, Return
<1>4. QED
  BY <1>3 DEF Peek

(* No call changes the document, so it is read by the same grammar.        *)
LEMMA NextEventKeepsInput == NextEvent => UNCHANGED input
<1> USE DEF Return
<1>1. \A f, p, ev : PushFrame(f, p, ev) \/ PopFrame(f, p, ev) => UNCHANGED input
  BY DEF PushFrame, PopFrame
<1>2. \A p : Refuse(p) => UNCHANGED input
  BY DEF Refuse, Unexpected
<1>3. \A p, ev : ReadString(p, ev) => UNCHANGED input
  BY DEF ReadString
<1>4. \A p, s : EmitValue(p, s) => UNCHANGED input
  BY <1>1, <1>3 DEF EmitValue, ReadValue, Unexpected
<1>5. \A f, p, ev : CloseContainer(f, p, ev) => UNCHANGED input
  BY <1>1 DEF CloseContainer
<1>6. \A p : KeyOrEnd(p) => UNCHANGED input
  BY <1>2, <1>3, <1>5 DEF KeyOrEnd
<1>7. \A p : \/ EvStart(p) \/ EvDocumentEnd(p)
             \/ EvArrayValueOrEnd(p) \/ EvArrayCommaOrEnd(p)
             => UNCHANGED input
  BY <1>2, <1>4, <1>5
     DEF EvStart, EvDocumentEnd, EvArrayValueOrEnd, EvArrayCommaOrEnd, CommaThenValue
<1>8. \A p : \/ EvObjectKeyOrEnd(p) \/ EvObjectColon(p)
             \/ EvObjectValue(p) \/ EvObjectCommaOrEnd(p)
             => UNCHANGED input
  BY <1>2, <1>4, <1>5, <1>6
     DEF EvObjectKeyOrEnd, EvObjectColon, EvObjectValue, EvObjectCommaOrEnd, CommaThenKey
<1>9. QED
  BY <1>7, <1>8 DEF NextEvent

LEMMA DocumentStays ==
  ASSUME UNCHANGED input, NEW keys
  PROVE  /\ ReadsWhole(DocumentReading(keys))' <=> ReadsWhole(DocumentReading(keys))
         /\ Expects(DocumentReading(keys), StateDue[state], frames, offset)'
              <=> Expects(DocumentReading(keys), StateDue[state'], frames', offset')
BY DEF DocumentReading, Expects, Fresh, At, Peek, StateDue

LEMMA DocumentBegins ==
  ASSUME Init, LexType, NEW keys, keys \in {Strings, Strings \cup {"lone"}}
  PROVE  Expects(DocumentReading(keys), "value", << >>, 0)
<1> DEFINE r == DocumentReading(keys)
<1>1. Reading(r) /\ Readable(r)
  BY DocumentIsRead DEF ReadsDocument, Reading
<1> HIDE DEF r
<1>2. At(0) = 0 /\ Fresh(0)
  BY BegunBounds DEF At, LexType, Fresh
<1>3. Completable(r, "value", << >>, 0) <=> ReadsWhole(r)
  BY <1>1, WholeIsDue
<1>4. << >> \in Seq(Kinds) /\ Len(<< >>) = 0 /\ r.depth - 0 \in Nat
  BY <1>1 DEF Readable
<1>5. Expects(r, "value", << >>, 0)
  BY <1>2, <1>3, <1>4 DEF Expects
<1>6. QED
  BY <1>5 DEF r

LEMMA StreamInitReads == Init => StreamReads
<1> SUFFICES ASSUME Init
             PROVE  StreamReads
  OBVIOUS
<1>1. LexType
  BY InitInv, InvLexType
<1>2. state = "Start" /\ ~ failed /\ frames = << >> /\ offset = 0
  BY DEF Init
<1>3. Expects(DocumentReading(Strings), StateDue[state], frames, offset)
  <2>1. StateDue[state] = "value"
    BY <1>2 DEF StateDue
  <2>2. QED
    BY <1>1, <1>2, <2>1, DocumentBegins
<1>4. QED
  BY <1>2, <1>3 DEF StreamReads, SawTheEnd

LEMMA StreamStepReads ==
  ASSUME Inv, StreamReads, [NextEvent]_vars
  PROVE  StreamReads'
<1> DEFINE r == DocumentReading(Strings)
<1>1. CASE NextEvent
  <2>1. UNCHANGED input
    BY <1>1, NextEventKeepsInput
  <2>2. ReadsDocument(r) /\ r.keys = Strings
    BY InvLexType, DocumentIsRead
  <2>3. failed' = (failed \/ ret' \in ErrorKind)
    BY <1>1 DEF NextEvent, RecordFailure
  <2>4. /\ failed => ~ ReadsWhole(r)
        /\ ~ failed => Expects(r, StateDue[state], frames, offset)
    BY DEF StreamReads
  <2>5. ~ failed => ReadOn(r)
    BY <1>1, <2>2, <2>4, NextEventReads
  <2>6. /\ failed' => ~ ReadsWhole(r)
        /\ ~ failed' => Expects(r, StateDue[state'], frames', offset')
    BY <2>2, <2>3, <2>4, <2>5 DEF ReadOn
  <2>7. SawTheEnd'
    BY <1>1, NextEventSawTheEnd
  <2>8. QED
    BY <2>1, <2>6, <2>7, DocumentStays DEF StreamReads
<1>2. CASE UNCHANGED vars
  <2>1. UNCHANGED <<input, offset, frames, ret, state, failed>>
    BY <1>2 DEF vars
  <2>2. QED
    BY <2>1 DEF StreamReads, SawTheEnd, DocumentReading, Expects, Fresh, At, Peek
<1>3. QED
  BY <1>1, <1>2

(* At the end nothing is left, so what was read is the document.           *)
LEMMA EndIsReached ==
  ASSUME Inv, NEW keys, keys \in {Strings, Strings \cup {"lone"}},
         state = "DocumentEnd", Peek(offset) = "eof",
         Expects(DocumentReading(keys), StateDue[state], frames, offset)
  PROVE  IsDocument(input, ScalarTokens, keys, MaxDepth)
<1> DEFINE r == DocumentReading(keys)
<1>1. LexType /\ offset \in 0..Len(input) /\ frames = << >> /\ frames \in Seq(FS!Frame)
  BY InvLexType DEF Inv, TypeOK, StateMatchesFrames
<1>2. ReadsDocument(r) /\ Reading(r) /\ r.text = Lexemes(input) /\ r.end = Len(Lexemes(input))
  BY <1>1, DocumentIsRead DEF ReadsDocument, Reading
<1>3. Expects(r, "next", << >>, offset)
  BY <1>1, StateDueCases
<1> HIDE DEF r
<1>4. At(offset) = Len(Lexemes(input)) /\ At(offset) \in Nat /\ At(offset) # 0
  BY <1>1, <1>3, AtEnd, AtBounds DEF Expects
<1>5. ReadsWhole(r)
  <2>1. At(offset) = r.end /\ At(offset) \in 1..Len(r.text)
    BY <1>2, <1>4
  <2>2. QED
    BY <1>2, <1>3, <2>1, ExpectsEnd
<1>6. QED
  BY <1>1, <1>5, DocumentIsRead DEF r

(* next_event reads to the end of a document of the grammar and of no      *)
(* other input, and reports an error on no document: for every input and   *)
(* every depth limit (Parser::next_event, ev_document_end).                *)
THEOREM AcceptsJson == Stream => []AcceptsExactlyJson
<1>1. Init => Inv /\ StreamReads
  BY InitInv, StreamInitReads
<1>2. Inv /\ StreamReads /\ [NextEvent]_vars => Inv' /\ StreamReads'
  BY StepInv, StreamStepReads
<1>3. ASSUME Inv, StreamReads
      PROVE  AcceptsExactlyJson
  <2>1. ASSUME state = "DocumentEnd", ret = "None", ~ failed
        PROVE  IsDocument(input, ScalarTokens, Strings, MaxDepth)
    BY <1>3, <2>1, EndIsReached DEF StreamReads, SawTheEnd
  <2>2. failed => ~ IsDocument(input, ScalarTokens, Strings, MaxDepth)
    BY <1>3, InvLexType, DocumentIsRead DEF StreamReads
  <2>3. QED
    BY <2>1, <2>2 DEF AcceptsExactlyJson
<1>4. QED
  BY <1>1, <1>2, <1>3, PTL DEF Stream

-----------------------------------------------------------------------------
(* The mixing consumer reads the same grammar.  Behind a comma of          *)
(* array_continue a value is due, which no grammar state says.             *)
ClientDue == IF want = "element" THEN "value" ELSE StateDue[state]

ClientDocument == DocumentReading(Strings \cup {"lone"})

ClientReads ==
  /\ ~ failed => Expects(ClientDocument, ClientDue, frames, offset)
  /\ SawTheEnd

(* Where a value is due, the first of an array included: an array that is  *)
(* not closed here goes on with a value.                                   *)
ValueDue(r, fs, o) ==
  /\ fs \in Seq(FS!Frame) /\ o \in 0..Len(input)
  /\ \/ Expects(r, "value", fs, o)
     \/ Expects(r, "firstValue", fs, o) /\ fs # << >> /\ Innermost(fs).close = "]"

LEMMA ValueIsDue ==
  ASSUME LexType, NEW r, Reading(r), NEW fs, NEW o, ValueDue(r, fs, o), Peek(o) \notin {"ws", "]"}
  PROVE  Expects(r, "value", fs, o)
BY FirstIsAnother DEF ValueDue

LEMMA ScalarCallReads ==
  ASSUME LexType, NEW r, Reading(r), ValueDue(r, frames, offset),
         ParseI64Value \/ ParseStrValue
  PROVE  /\ ret' \in Scalar \cup ErrorKind
         /\ ret' \in Scalar => Expects(r, "next", frames, offset') /\ frames' = frames
<1>1. /\ Scalar \cap ErrorKind = {} /\ {"Number", "String"} \subseteq Scalar
      /\ "InvalidEscape" \in ErrorKind
  BY DEF Scalar, ErrorKind
<1>2. offset \in 0..Len(input) /\ "1" \notin Strings
  BY StringsAreTokens DEF ValueDue
<1>3. CASE Peek(offset) = "1" /\ Return(RunEnd(offset, "1"), "Number")
  <2>1. Peek(offset) \in ScalarTokens
    BY <1>3 DEF ScalarTokens
  <2>2. Expects(r, "value", frames, offset)
    BY <1>3, ValueIsDue
  <2>3. QED
    BY <1>1, <1>2, <1>3, <2>1, <2>2, ExpectsScalar DEF Return
<1>4. CASE BorrowedString(offset) /\ Return(offset + 1, "String")
  <2>1. Peek(offset) \in Strings
    BY <1>4 DEF BorrowedString, Strings
  <2>2. Peek(offset) \in ScalarTokens /\ Peek(offset) \notin {"1", "ws", "]"}
    BY <1>2, <2>1, StringsAreTokens DEF ScalarTokens, Punctuation
  <2>3. Expects(r, "value", frames, offset)
    BY <2>2, ValueIsDue
  <2>4. QED
    BY <1>1, <1>2, <1>4, <2>2, <2>3, ExpectsScalar DEF Return
<1>5. CASE Unexpected(offset) \/ Return(offset, "InvalidEscape")
  <2>1. ret' \in ErrorKind
    BY <1>1, <1>5, UnexpectedReads DEF Return
  <2>2. QED
    BY <1>1, <2>1
<1>6. QED
  BY <1>3, <1>4, <1>5 DEF ParseI64Value, ParseStrValue

LEMMA AppendedIsInnermost ==
  ASSUME NEW fs \in Seq(Kinds), NEW f \in Kinds
  PROVE  /\ Append(fs, f) # << >> /\ Innermost(Append(fs, f)) = MarksOf(f)
         /\ Shorter(Append(fs, f)) = fs
<1> DEFINE g == Append(fs, f)
<1>1. /\ g \in Seq(Kinds) /\ Len(g) = Len(fs) + 1 /\ g[Len(fs) + 1] = f /\ Len(fs) \in Nat
      /\ \A i \in 1..Len(fs) : g[i] = fs[i]
  BY AppendProperties
<1>2. g # << >>
  BY <1>1, EmptySeq
<1> HIDE DEF g
<1>3. Shorter(g) = fs
  <2>1. /\ Shorter(g) \in Seq(Kinds) /\ Len(Shorter(g)) = Len(g) - 1
        /\ \A k \in 1..(Len(g) - 1) : Shorter(g)[k] = g[k]
    BY <1>1, <1>2, ShorterProperties
  <2>2. Len(Shorter(g)) = Len(fs) /\ Len(g) - 1 = Len(fs)
    BY <1>1, <2>1
  <2>3. \A i \in 1..Len(fs) : Shorter(g)[i] = fs[i]
    BY <1>1, <2>1, <2>2
  <2>4. QED
    BY <2>1, <2>2, <2>3, SeqEqual
<1>4. Innermost(g) = MarksOf(f)
  BY <1>1 DEF Innermost
<1>5. QED
  BY <1>2, <1>3, <1>4 DEF g

LEMMA ArrayStartReads ==
  ASSUME LexType, NEW r, ReadsDocument(r), ValueDue(r, frames, offset), ArrayStart
  PROVE  /\ ret' \in {"Open", "Empty"} \cup ErrorKind
         /\ ret' = "Open" => Expects(r, "firstValue", frames', offset')
         /\ ret' = "Empty" => Expects(r, "next", frames', offset')
<1> DEFINE o == SkipWhitespace(offset)
           first == SkipWhitespace(o + 1)
           opened == Append(frames, "Array")
<1>1. /\ Reading(r) /\ frames \in Seq(FS!Frame) /\ frames \in Seq(Kinds)
      /\ offset \in 0..Len(input) /\ Fresh(offset)
  BY FramesAreKinds DEF ReadsDocument, ValueDue, Expects
<1>2. o \in 0..Len(input) /\ Peek(o) # "ws" /\ ValueDue(r, frames, o)
  BY <1>1, AtWhitespace, ExpectsBehindWhitespace DEF ValueDue
<1>3. /\ "Open" \notin ErrorKind /\ "Empty" \notin ErrorKind /\ "DepthLimitExceeded" \in ErrorKind
  BY DEF ErrorKind
<1>4. \/ Unexpected(o)
      \/ Peek(o) = "[" /\ Len(frames) < MaxDepth /\ PushFrame("Array", first, "Open")
      \/ /\ Peek(o) = "[" /\ Peek(first) = "]" /\ Len(frames) < MaxDepth
         /\ Return(first + 1, "Empty")
      \/ Return(o + 1, "DepthLimitExceeded")
  BY DEF ArrayStart
<1>5. ASSUME Peek(o) = "[", Len(frames) < MaxDepth
      PROVE  Expects(r, "firstValue", opened, first) /\ first \in 0..Len(input)
  <2>1. Expects(r, "value", frames, o)
    BY <1>1, <1>2, <1>5, ValueIsDue
  <2>2. "Array" \in Kinds /\ MarksOf("Array").open = "[" /\ Len(frames) < r.depth
    BY <1>5 DEF Kinds, MarksOf, ArrayMarks, ReadsDocument
  <2> HIDE DEF o, first, opened
  <2>3. Expects(r, "firstValue", Append(frames, "Array"), o + 1)
    BY <1>1, <1>2, <1>5, <2>1, <2>2, ExpectsOpened
  <2>4. o + 1 \in 0..Len(input)
    BY <1>2, <1>5, InsideInput
  <2>5. QED
    BY <2>3, <2>4, AtWhitespace, ExpectsBehindWhitespace DEF Expects, first, opened
<1> HIDE DEF o, first, opened
<1>6. CASE Unexpected(o) \/ Return(o + 1, "DepthLimitExceeded")
  BY <1>3, <1>6, UnexpectedReads DEF Return
<1>7. CASE Peek(o) = "[" /\ Len(frames) < MaxDepth /\ PushFrame("Array", first, "Open")
  <2>1. ret' = "Open" /\ frames' = opened /\ offset' = first
    <3>1. Len(frames) \in Nat /\ MaxDepth \in Nat
      BY <1>1, LexerAssumption, LenProperties
    <3>2. QED
      BY <1>7, <3>1 DEF PushFrame, opened
  <2>2. QED
    BY <1>3, <1>5, <1>7, <2>1
<1>8. CASE /\ Peek(o) = "[" /\ Peek(first) = "]" /\ Len(frames) < MaxDepth
           /\ Return(first + 1, "Empty")
  <2>1. Expects(r, "firstValue", opened, first) /\ first \in 0..Len(input)
    BY <1>5, <1>8
  <2>2. opened # << >> /\ Innermost(opened).close = "]" /\ Shorter(opened) = frames
    BY <1>1, AppendedIsInnermost DEF opened, Kinds, MarksOf, ArrayMarks
  <2>3. Expects(r, "next", frames, first + 1)
    BY <1>1, <1>8, <2>1, <2>2, ExpectsClosed
  <2>4. ret' = "Empty" /\ frames' = frames /\ offset' = first + 1
    BY <1>8 DEF Return
  <2>5. QED
    BY <1>3, <2>3, <2>4
<1>9. QED
  BY <1>4, <1>6, <1>7, <1>8

(* What the consumer wants is what the grammar has due.                    *)
LEMMA ClientValueDue ==
  ASSUME ClientInv, want \in {"value", "element", "firstElement"}, NEW r,
         Expects(r, ClientDue, frames, offset)
  PROVE  ValueDue(r, frames, offset)
<1>1. frames \in Seq(FS!Frame) /\ offset \in 0..Len(input)
  BY DEF ClientInv, Inv, TypeOK
<1>2. state \in {"Start", "ArrayValueOrEnd", "ObjectValue"} \/ want = "element"
  BY ClientStatesCases DEF ClientInv
<1>3. CASE want = "element" \/ state \in {"Start", "ObjectValue"}
  <2>1. ClientDue = "value"
    BY <1>1, <1>3, StateDueCases DEF ClientDue
  <2>2. QED
    BY <1>1, <2>1 DEF ValueDue
<1>4. CASE want # "element" /\ state = "ArrayValueOrEnd"
  <2>1. ClientDue = "firstValue"
    BY <1>1, <1>4, StateDueCases DEF ClientDue
  <2>2. FS!TopOf(frames) = "Array" /\ "Array" \in FS!Frame
    BY <1>4, TopByState DEF ClientInv, FS!Frame
  <2>3. frames # << >> /\ Innermost(frames) = ArrayMarks
    BY <1>1, <2>2, InnermostIsTop DEF MarksOf
  <2>4. QED
    BY <1>1, <2>1, <2>3 DEF ValueDue, ArrayMarks
<1>5. QED
  BY <1>2, <1>3, <1>4

(* A call that consumed a construct: the next one is due by the grammar    *)
(* state, except behind a comma.                                           *)
ClientOn(r) ==
  ret' \notin ErrorKind =>
    /\ want' = "element" => Expects(r, "value", frames', offset')
    /\ want' # "element" => Expects(r, StateDue[state'], frames', offset')

LEMMA ConsumedOn ==
  ASSUME NEW r, frames' \in Seq(FS!Frame), Learn,
         ret' \in Scalar \cup {"EndArray", "EndObject", "Empty", "Closed"},
         state' = StateValueConsumed(frames'), Expects(r, "next", frames', offset')
  PROVE  ClientOn(r)
<1>1. want' = WantAfterValue(frames')
  BY DEF Learn, Scalar, ErrorKind
<1>2. want' # "element"
  <2>1. FS!TopOf(frames') \in {"None", "Array", "Object"}
    BY TopOfType DEF FS!Frame
  <2>2. QED
    BY <1>1, <2>1 DEF WantAfterValue
<1>3. QED
  BY <1>2, StateDueCases DEF ClientOn

LEMMA PullEventOn ==
  ASSUME ClientInv, ~ EventsAfterComma, NEW r, ReadsDocument(r),
         Expects(r, ClientDue, frames, offset), PullEvent
  PROVE  ClientOn(r)
<1>1. Inv /\ NextEvent /\ want # "element"
  BY DEF ClientInv, PullEvent
<1>2. ReadOn(r)
  BY <1>1, NextEventReads DEF ClientDue
<1>3. ret' \notin ErrorKind => ret' # "More"
  <2>1. LexType' /\ Effect
    BY <1>1, NextEventEffect
  <2>2. QED
    BY <2>1
       DEF Effect, ScalarRead, ContainerOpened, Opened, ContainerClosed, KeyRead, StreamEnded,
           CallFailed, Refused, Scalar
<1>4. ret' \notin ErrorKind => want' # "element"
  <2>1. FS!TopOf(frames') \in {"None", "Array", "Object"}
    <3>1. frames' \in Seq(FS!Frame)
      BY <1>1, NextEventEffect DEF LexType
    <3>2. QED
      BY <3>1, TopOfType DEF FS!Frame
  <2>2. WantAfterValue(frames') # "element"
    BY <2>1 DEF WantAfterValue
  <2>3. QED
    BY <1>3, <2>2 DEF PullEvent, Learn
<1>5. QED
  BY <1>2, <1>4 DEF ReadOn, ClientOn

LEMMA ReadTypedOn ==
  ASSUME ClientInv, NEW r, ReadsDocument(r), Expects(r, ClientDue, frames, offset), ReadTyped
  PROVE  ClientOn(r)
<1>1. /\ LexType /\ Reading(r) /\ ValueDue(r, frames, offset) /\ Learn
      /\ frames \in Seq(FS!Frame)
  BY InvLexType, ClientValueDue DEF ClientInv, ReadTyped, ReadsDocument, LexType
<1>2. CASE ParseI64 \/ ParseStr
  <2>1. /\ ret' \in Scalar \cup ErrorKind
        /\ ret' \in Scalar => Expects(r, "next", frames, offset') /\ frames' = frames
    BY <1>1, <1>2, ScalarCallReads DEF ParseI64, ParseStr
  <2>2. ret' \in Scalar => state' = StateValueConsumed(frames')
    <3>1. /\ ParseI64 => ret' \in {"Number"} \cup ErrorKind
          /\ ParseStr => ret' \in {"String"} \cup ErrorKind
      BY DEF ParseI64, ParseI64Value, ParseStr, ParseStrValue, Unexpected, Return, ErrorKind
    <3>2. Scalar \cap ErrorKind = {}
      BY DEF Scalar, ErrorKind
    <3>3. QED
      BY <1>2, <2>1, <3>1, <3>2 DEF ParseI64, ParseStr, SyncIf
  <2>3. ret' \in Scalar => ClientOn(r)
    BY <1>1, <2>1, <2>2, ConsumedOn
  <2>4. QED
    BY <2>1, <2>3 DEF ClientOn
<1>3. CASE StartArray
  <2>1. /\ ret' \in {"Open", "Empty"} \cup ErrorKind
        /\ ret' = "Open" => Expects(r, "firstValue", frames', offset')
        /\ ret' = "Empty" => Expects(r, "next", frames', offset')
    BY <1>1, <1>3, ArrayStartReads DEF StartArray
  <2>2. CASE ret' = "Open"
    <3>1. state' = "ArrayValueOrEnd" /\ want' = "value"
      BY <1>1, <1>3, <2>2 DEF StartArray, Learn, ErrorKind
    <3>2. QED
      BY <1>1, <2>1, <2>2, <3>1, StateDueCases DEF ClientOn
  <2>3. CASE ret' = "Empty"
    <3>1. state' = StateValueConsumed(frames) /\ frames' = frames
      <4>1. \/ Opened("Array", "Open")
            \/ ret' = "Empty" /\ frames' = frames
            \/ Refused
        BY <1>1, <1>3, ArrayStartEffect DEF StartArray
      <4>2. QED
        BY <1>3, <2>3, <4>1 DEF StartArray, Opened, Refused, ErrorKind
    <3>2. QED
      BY <1>1, <2>1, <2>3, <3>1, ConsumedOn
  <2>4. QED
    BY <2>1, <2>2, <2>3 DEF ClientOn
<1>4. QED
  BY <1>2, <1>3 DEF ReadTyped

LEMMA ContinueOn ==
  ASSUME ClientInv, NEW r, ReadsDocument(r), Expects(r, ClientDue, frames, offset), Continue
  PROVE  ClientOn(r)
<1>1. /\ LexType /\ Reading(r) /\ Learn /\ frames \in Seq(FS!Frame)
      /\ state = "ArrayCommaOrEnd" /\ want # "element" /\ ContinueArray("]")
  BY InvLexType, ClientStatesCases DEF ClientInv, Continue, ReadsDocument, LexType
<1>2. FS!TopOf(frames) = "Array" /\ "Array" \in FS!Frame
  BY <1>1, TopByState DEF ClientInv, FS!Frame
<1>3. /\ frames # << >> /\ Innermost(frames) = ArrayMarks
      /\ Shorter(frames) = FS!Popped(frames)
  BY <1>1, <1>2, InnermostIsTop DEF MarksOf
<1>4. Expects(r, "next", frames, offset)
  BY <1>1, StateDueCases DEF ClientDue
<1>5. /\ ret' = "Closed" => Expects(r, "next", Shorter(frames), offset')
      /\ ret' = "More" => Expects(r, "value", frames, offset')
  BY <1>1, <1>2, <1>3, <1>4, ArrayContinueReads DEF ContinueArray
<1>6. /\ LexType'
      /\ \/ Closes("Array", "Closed")
         \/ ret' = "More" /\ frames' = frames
         \/ Refused
  BY <1>1, ArrayContinueEffect DEF ContinueArray
<1>7. CASE Closes("Array", "Closed") /\ ret' = "Closed"
  <2>1. frames' = FS!Popped(frames) /\ frames' \in Seq(FS!Frame)
    BY <1>6, <1>7 DEF Closes, LexType
  <2>2. state' = StateValueConsumed(frames')
    BY <1>1, <1>7 DEF ContinueArray, SyncIf
  <2>3. QED
    BY <1>1, <1>3, <1>5, <1>7, <2>1, <2>2, ConsumedOn
<1>8. CASE ret' = "More" /\ frames' = frames
  <2>1. want' = "element"
    BY <1>1, <1>8 DEF Learn, ErrorKind
  <2>2. QED
    BY <1>5, <1>8, <2>1 DEF ClientOn
<1>9. CASE ret' \in ErrorKind
  BY <1>9 DEF ClientOn
<1>10. QED
  BY <1>6, <1>7, <1>8, <1>9 DEF Closes, Refused, ErrorKind

LEMMA WalkKeyOn ==
  ASSUME ClientInv, NEW r, ReadsDocument(r), AnyKey(r),
         Expects(r, ClientDue, frames, offset), WalkKey
  PROVE  ClientOn(r)
<1>1. /\ LexType /\ Reading(r) /\ frames \in Seq(FS!Frame)
      /\ state' = CASE ret' = "Closed" -> StateValueConsumed(frames')
                    [] ret' = "Key"    -> "ObjectValue"
                    [] OTHER           -> state
      /\ IF ret' = "Key" THEN want' = "value" ELSE Learn
  BY InvLexType DEF ClientInv, WalkKey, FirstKey, NextKey, SyncKey, ReadsDocument, LexType
<1>2. PICK lex \in BOOLEAN :
        \/ want = "firstKey" /\ ObjectFirstKey(lex)
        \/ want = "nextKey" /\ ObjectNextKey(lex)
  BY DEF WalkKey, FirstKey, NextKey
<1>3. /\ want = "firstKey" => state = "ObjectKeyOrEnd"
      /\ want = "nextKey" => state = "ObjectCommaOrEnd"
  BY ClientStatesCases DEF ClientInv
<1>4. FS!TopOf(frames) = "Object" /\ "Object" \in FS!Frame
  BY <1>2, <1>3, TopByState DEF ClientInv, FS!Frame
<1>5. /\ frames # << >> /\ Innermost(frames) = ObjectMarks
      /\ Shorter(frames) = FS!Popped(frames)
  BY <1>1, <1>4, InnermostIsTop DEF MarksOf
<1>6. /\ want = "firstKey" => Expects(r, "firstKey", frames, offset)
      /\ want = "nextKey" => Expects(r, "next", frames, offset)
  BY <1>1, <1>3, StateDueCases DEF ClientDue
<1>7. /\ ret' = "Closed" => Expects(r, "next", Shorter(frames), offset')
      /\ ret' = "Key" => Expects(r, "value", frames, offset')
  BY <1>1, <1>2, <1>4, <1>5, <1>6, ObjectFirstKeyReads, ObjectNextKeyReads
<1>8. LexType' /\ KeyWalked
  BY <1>1, <1>2, ObjectFirstKeyEffect, ObjectNextKeyEffect
<1>9. CASE Closes("Object", "Closed") /\ ret' = "Closed"
  <2>1. frames' = FS!Popped(frames) /\ frames' \in Seq(FS!Frame)
    BY <1>8, <1>9 DEF Closes, LexType
  <2>2. QED
    BY <1>1, <1>5, <1>7, <1>9, <2>1, ConsumedOn
<1>10. CASE ret' = "Key" /\ frames' = frames
  <2>1. state' = "ObjectValue" /\ want' = "value"
    BY <1>1, <1>10
  <2>2. QED
    BY <1>1, <1>7, <1>10, <2>1, StateDueCases DEF ClientOn
<1>11. CASE ret' \in ErrorKind
  BY <1>11 DEF ClientOn
<1>12. QED
  BY <1>8, <1>9, <1>10, <1>11 DEF KeyWalked, Closes, Refused, ErrorKind

LEMMA FastPathAnswers ==
  ASSUME ClientInv, ReadTyped \/ Continue \/ WalkKey
  PROVE  UNCHANGED input /\ ret' # "None"
<1>1. LexType /\ "]" \in {"]", "}"}
  BY InvLexType DEF ClientInv
<1>2. ASSUME ParseI64 \/ ParseStr
      PROVE  UNCHANGED input /\ ret' # "None"
  BY <1>2 DEF ParseI64, ParseI64Value, ParseStr, ParseStrValue, Unexpected, Return
<1>3. \A f, p, ev : ev # "None" /\ (PushFrame(f, p, ev) \/ PopFrame(f, p, ev))
                      => UNCHANGED input /\ ret' # "None"
  BY DEF PushFrame, PopFrame, Return
<1>4. \A p, ev : ev # "None" /\ (Return(p, ev) \/ Unexpected(p)) => UNCHANGED input /\ ret' # "None"
  BY DEF Return, Unexpected
<1>5. ASSUME StartArray
      PROVE  UNCHANGED input /\ ret' # "None"
  BY <1>3, <1>4, <1>5 DEF StartArray, ArrayStart
<1>6. ASSUME Continue
      PROVE  UNCHANGED input /\ ret' # "None"
  BY <1>3, <1>4, <1>6 DEF Continue, ContinueArray, ArrayContinue
<1>7. \A o : \A lex \in BOOLEAN : KeyThenColon(o, lex) => UNCHANGED input /\ ret' # "None"
  BY <1>4 DEF KeyThenColon, ExpectColon
<1>8. ASSUME WalkKey
      PROVE  UNCHANGED input /\ ret' # "None"
  <2>1. PICK lex \in BOOLEAN : ObjectFirstKey(lex) \/ ObjectNextKey(lex)
    BY <1>8 DEF WalkKey, FirstKey, NextKey
  <2>2. CASE ObjectFirstKey(lex)
    <3>1. \E o : \/ PopFrame("Object", o + 1, "Closed")
                \/ KeyThenColon(o, lex)
                \/ Unexpected(o)
      BY <2>2, Zenon DEF ObjectFirstKey
    <3>2. QED
      BY <1>3, <1>4, <1>7, <3>1
  <2>3. CASE ObjectNextKey(lex)
    BY <1>3, <1>4, <1>7, <2>3 DEF ObjectNextKey
  <2>4. QED
    BY <2>1, <2>2, <2>3
<1>9. QED
  BY <1>2, <1>5, <1>6, <1>8 DEF ReadTyped

LEMMA ClientStays ==
  ASSUME UNCHANGED input
  PROVE  Expects(ClientDocument, ClientDue, frames, offset)'
           <=> Expects(ClientDocument, ClientDue', frames', offset')
BY DEF ClientDocument, DocumentReading, Expects, Fresh, At, Peek, ClientDue, StateDue

LEMMA ClientStepReads ==
  ASSUME ClientInv, ClientReads, ~ EventsAfterComma, [ClientNext]_clientVars
  PROVE  ClientReads'
<1> DEFINE r == ClientDocument
<1>1. CASE ClientNext
  <2>1. ReadsDocument(r) /\ AnyKey(r)
    BY InvLexType, DocumentIsRead DEF ClientInv, ClientDocument, AnyKey
  <2>2. PullEvent \/ ReadTyped \/ Continue \/ WalkKey
    BY <1>1 DEF ClientNext, CallAnything, ClientInv, Want
  <2>3. failed' = (failed \/ ret' \in ErrorKind)
    BY <2>2
       DEF PullEvent, NextEvent, ReadTyped, ParseI64, ParseStr, StartArray, Continue,
           ContinueArray, WalkKey, FirstKey, NextKey, SyncKey, RecordFailure
  <2>4. UNCHANGED input /\ SawTheEnd'
    <3>1. CASE PullEvent
      BY <3>1, NextEventKeepsInput, NextEventSawTheEnd DEF PullEvent, ClientInv
    <3>2. CASE ReadTyped \/ Continue \/ WalkKey
      BY <3>2, FastPathAnswers DEF SawTheEnd
    <3>3. QED
      BY <2>2, <3>1, <3>2
  <2>5. ~ failed => ClientOn(r)
    BY <2>1, <2>2, PullEventOn, ReadTypedOn, ContinueOn, WalkKeyOn DEF ClientReads
  <2>6. ~ failed' => Expects(r, ClientDue', frames', offset')
    <3>1. ClientDue' = IF want' = "element" THEN "value" ELSE StateDue[state']
      BY DEF ClientDue, StateDue
    <3>2. QED
      BY <2>3, <2>5, <3>1 DEF ClientOn
  <2>7. QED
    BY <2>4, <2>6, ClientStays DEF ClientReads
<1>2. CASE UNCHANGED clientVars
  <2>1. UNCHANGED <<input, offset, frames, ret, state, failed, want>>
    BY <1>2 DEF clientVars
  <2>2. ClientDue' = ClientDue
    BY <2>1 DEF ClientDue, StateDue
  <2>3. SawTheEnd' <=> SawTheEnd
    BY <2>1 DEF SawTheEnd, Peek
  <2>4. QED
    BY <2>1, <2>2, <2>3, ClientStays DEF ClientReads
<1>3. QED
  BY <1>1, <1>2

(* However the fast-path methods and next_event are mixed, the end is      *)
(* reached without an error only on a document of the grammar, if only     *)
(* next_event does not read the element behind a comma that                *)
(* array_continue consumed: for every input and every depth limit          *)
(* (parser.rs:253-260).                                                    *)
THEOREM MixingAcceptsOnlyJson ==
  ASSUME ~ EventsAfterComma
  PROVE  ClientSpec => []MixedAcceptsOnlyJson
<1> DEFINE Mixing == want = "anything" \/ (ClientInv /\ ClientReads)
<1>1. ClientInit => Mixing
  <2> SUFFICES ASSUME ClientInit, want # "anything"
               PROVE  ClientInv /\ ClientReads
    OBVIOUS
  <2>1. ClientInv
    BY InitInv, ClientStatesCases DEF ClientInit, Init, ClientInv, Want
  <2>2. /\ LexType /\ Init /\ want = "value" /\ state = "Start" /\ offset = 0
        /\ frames = << >> /\ ClientDue = "value"
    BY <2>1, InvLexType DEF ClientInit, Init, ClientInv, ClientDue, StateDue
  <2>3. Expects(ClientDocument, ClientDue, frames, offset)
    BY <2>2, DocumentBegins DEF ClientDocument
  <2>4. QED
    BY <2>1, <2>2, <2>3 DEF ClientReads, SawTheEnd
<1>2. Mixing /\ [ClientNext]_clientVars => Mixing'
  BY ClientStep, ClientStepReads, CarelessStays
<1>3. ASSUME Mixing
      PROVE  MixedAcceptsOnlyJson
  <2>1. SUFFICES ASSUME want = "nothing", ret = "None", ~ failed, ClientInv, ClientReads
                 PROVE  IsDocument(input, ScalarTokens, Strings \cup {"lone"}, MaxDepth)
    BY <1>3 DEF MixedAcceptsOnlyJson
  <2>2. state = "DocumentEnd" /\ Inv
    BY <2>1, ClientStatesCases DEF ClientInv
  <2>3. Peek(offset) = "eof"
    BY <2>1, <2>2 DEF ClientReads, SawTheEnd
  <2>4. Expects(DocumentReading(Strings \cup {"lone"}), StateDue[state], frames, offset)
    BY <2>1 DEF ClientReads, ClientDocument, ClientDue
  <2>5. QED
    BY <2>2, <2>3, <2>4, EndIsReached
<1> HIDE DEF Mixing
<1>4. QED
  BY <1>1, <1>2, <1>3, PTL DEF ClientSpec

-----------------------------------------------------------------------------
(* Any call at any time.                                                   *)

(* What the text up to o leaves open, and that the reader at o has it so.  *)
NestingAt(o) == NestingUpTo(input)[o]

Reads(o) ==
  /\ o \in 0..Len(input)
  /\ IF NestingAt(o).nested THEN frames = NestingAt(o).open ELSE failed

Bracket == {"[", "]", "{", "}"}

ClosesItsOwn ==
  (Len(frames') < Len(frames) /\ ret' \notin ErrorKind)
    => /\ frames' = FS!Popped(frames)
       /\ FS!TopOf(frames) = IF input[offset'] = "]" THEN "Array" ELSE "Object"

Sound == LexType' /\ ClosesItsOwn /\ Reads(offset)'

-----------------------------------------------------------------------------
(* The nesting of a text is computed token by token.                       *)
NestingStep(s, f, n) ==
  IF n = 0 THEN [open |-> << >>, nested |-> TRUE] ELSE WithToken(f[n - 1], s[n])

LEMMA NestingStepwise ==
  ASSUME NEW s, Len(s) \in Nat
  PROVE  /\ NestingUpTo(s)[0] = [open |-> << >>, nested |-> TRUE]
         /\ \A n \in 1..Len(s) : NestingUpTo(s)[n] = WithToken(NestingUpTo(s)[n - 1], s[n])
<1> DEFINE D == 0..Len(s)
           Made(f, m) == [n \in 0..m |-> NestingStep(s, f, n)]
           Missing == {m \in D : ~ \E f : f = Made(f, m)}
           g == CHOOSE f : f = [n \in D |-> NestingStep(s, f, n)]
<1>1. \E f : f = Made(f, 0)
  <2>1. Made(0, 0) = Made(Made(0, 0), 0)
    <3>1. \A f : Made(f, 0) = [n \in 0..0 |-> [open |-> << >>, nested |-> TRUE]]
      BY DEF NestingStep
    <3> HIDE DEF Made
    <3>2. QED
      BY <3>1
  <2> HIDE DEF Made
  <2>2. QED
    BY <2>1
<1>2. ASSUME NEW m \in Nat, NEW f, f = Made(f, m)
      PROVE  \E h : h = Made(h, m + 1)
  <2> DEFINE h == [n \in 0..(m + 1) |-> IF n \in 0..m THEN f[n] ELSE NestingStep(s, f, n)]
  <2>1. \A n \in 0..m : h[n] = f[n]
    OBVIOUS
  <2>2. \A n \in 0..(m + 1) : NestingStep(s, h, n) = NestingStep(s, f, n)
    <3>1. ASSUME NEW n \in 0..(m + 1), n # 0 PROVE h[n - 1] = f[n - 1]
      BY <2>1, <3>1
    <3> HIDE DEF h
    <3>2. QED
      BY <3>1 DEF NestingStep
  <2>3. \A n \in 0..m : f[n] = NestingStep(s, f, n)
    <3> DEFINE F == [n \in 0..m |-> NestingStep(s, f, n)]
    <3>1. f = F
      BY <1>2
    <3>2. \A n \in 0..m : F[n] = NestingStep(s, f, n)
      OBVIOUS
    <3> HIDE DEF F
    <3>3. QED
      BY <3>1, <3>2
  <2>4. \A n \in 0..(m + 1) : h[n] = NestingStep(s, h, n)
    <3>1. \A n \in 0..(m + 1) : h[n] = NestingStep(s, f, n)
      BY <2>3
    <3>2. QED
      BY <2>2, <3>1
  <2>5. h = Made(h, m + 1)
    <3>1. h = [n \in 0..(m + 1) |-> h[n]]
      OBVIOUS
    <3> HIDE DEF h
    <3>2. QED
      BY <2>4, <3>1
  <2> HIDE DEF h, Made
  <2>6. QED
    BY <2>5
<1> HIDE DEF Made
<1>3. Missing = {}
  <2>1. SUFFICES ASSUME Missing # {} PROVE FALSE
    OBVIOUS
  <2>2. Missing \subseteq Nat
    OBVIOUS
  <2>3. PICK m \in Missing : \A k \in Missing : m <= k
    <3> HIDE DEF Missing
    <3>1. QED
      BY <2>1, <2>2, LeastOf
  <2>4. m # 0
    BY <1>1
  <2>5. m - 1 \in D /\ m - 1 \in Nat /\ m - 1 \notin Missing
    BY <2>3, <2>4
  <2>6. PICK f : f = Made(f, m - 1)
    BY <2>5
  <2>7. \E h : h = Made(h, m - 1 + 1)
    BY <1>2, <2>5, <2>6
  <2>8. m - 1 + 1 = m
    OBVIOUS
  <2>9. QED
    BY <2>7, <2>8
<1>4. \E f : f = Made(f, Len(s))
  BY <1>3
<1>5. g = [n \in D |-> NestingStep(s, g, n)]
  <2>1. \E f : f = [n \in D |-> NestingStep(s, f, n)]
    BY <1>4 DEF Made
  <2>2. QED
    BY <2>1, Zenon
<1>6. NestingUpTo(s) = g
  BY DEF NestingUpTo, NestingStep
<1> HIDE DEF g
<1>7. \A n \in D : g[n] = NestingStep(s, g, n)
  <2> DEFINE G == [n \in D |-> NestingStep(s, g, n)]
  <2>1. \A n \in D : G[n] = NestingStep(s, g, n)
    OBVIOUS
  <2>2. g = G
    BY <1>5
  <2> HIDE DEF G
  <2>3. QED
    BY <2>1, <2>2
<1>8. g[0] = [open |-> << >>, nested |-> TRUE]
  <2>1. 0 \in D
    OBVIOUS
  <2>2. QED
    BY <1>7, <2>1 DEF NestingStep
<1>9. \A n \in 1..Len(s) : g[n] = WithToken(g[n - 1], s[n])
  <2>1. \A n \in 1..Len(s) : n \in D /\ n # 0
    OBVIOUS
  <2>2. QED
    BY <1>7, <2>1 DEF NestingStep
<1>10. QED
  BY <1>6, <1>8, <1>9

LEMMA NestingAtToken ==
  ASSUME LexType, NEW o \in 0..Len(input), Peek(o) # "eof"
  PROVE  /\ o + 1 \in 0..Len(input)
         /\ NestingAt(o + 1) = WithToken(NestingAt(o), Peek(o))
<1>1. o # Len(input) /\ Len(input) \in Nat
  BY PeekInside, LenProperties DEF LexType
<1>2. o + 1 \in 1..Len(input) /\ Peek(o) = input[o + 1] /\ o + 1 - 1 = o
  BY <1>1, PeekInside
<1>3. QED
  BY <1>1, <1>2, NestingStepwise DEF NestingAt

LEMMA FieldsOf ==
  ASSUME NEW x, NEW b, NEW read, read = [open |-> x, nested |-> b]
  PROVE  read.open = x /\ read.nested = b
OBVIOUS

LEMMA NotLess ==
  ASSUME NEW n \in Nat, NEW m \in Nat, n >= m
  PROVE  ~ (n < m)
OBVIOUS

(* What a bracket makes of what was open.                                  *)
LEMMA WithOpening ==
  ASSUME NEW read, NEW f \in FS!Frame, NEW t, t = (IF f = "Array" THEN "[" ELSE "{")
  PROVE  /\ WithToken(read, t).open = Append(read.open, f)
         /\ WithToken(read, t).nested <=> read.nested /\ Len(read.open) < MaxDepth
<1>1. FrameOf(t) = f /\ t \in {"[", "{"}
  BY DEF FrameOf, FS!Frame
<1>2. PICK b : b = (read.nested /\ Len(read.open) < MaxDepth)
  OBVIOUS
<1> DEFINE w == WithToken(read, t)
           x == Append(read.open, f)
<1>3. w = [open |-> x, nested |-> b]
  BY <1>1, <1>2, Zenon DEF WithToken
<1> HIDE DEF w, x
<1>4. w.open = x /\ w.nested = b
  BY <1>3, FieldsOf
<1>5. QED
  BY <1>2, <1>4, Zenon DEF w, x

LEMMA WithClosing ==
  ASSUME NEW read, NEW f \in FS!Frame, NEW t, t = (IF f = "Array" THEN "]" ELSE "}")
  PROVE  /\ WithToken(read, t).open = FS!Popped(read.open)
         /\ WithToken(read, t).nested <=> read.nested /\ FS!TopOf(read.open) = f
<1>1. FrameOf(t) = f /\ t \in {"]", "}"} /\ t \notin {"[", "{"}
  BY DEF FrameOf, FS!Frame
<1>2. PICK b : b = (read.nested /\ FS!TopOf(read.open) = f)
  OBVIOUS
<1> DEFINE w == WithToken(read, t)
           x == FS!Popped(read.open)
<1>3. w = [open |-> x, nested |-> b]
  BY <1>1, <1>2, Zenon DEF WithToken
<1> HIDE DEF w, x
<1>4. w.open = x /\ w.nested = b
  BY <1>3, FieldsOf
<1>5. QED
  BY <1>2, <1>4, Zenon DEF w, x

LEMMA NestingAtOpening ==
  ASSUME LexType, NEW o \in 0..Len(input), NEW f \in FS!Frame,
         Peek(o) = (IF f = "Array" THEN "[" ELSE "{")
  PROVE  /\ o + 1 \in 0..Len(input)
         /\ NestingAt(o + 1).open = Append(NestingAt(o).open, f)
         /\ NestingAt(o + 1).nested
              <=> NestingAt(o).nested /\ Len(NestingAt(o).open) < MaxDepth
<1>1. Peek(o) # "eof"
  OBVIOUS
<1>2. o + 1 \in 0..Len(input) /\ NestingAt(o + 1) = WithToken(NestingAt(o), Peek(o))
  BY <1>1, NestingAtToken
<1> DEFINE t == Peek(o)
<1>3. t = (IF f = "Array" THEN "[" ELSE "{")
  OBVIOUS
<1> HIDE DEF t
<1>4. /\ WithToken(NestingAt(o), t).open = Append(NestingAt(o).open, f)
      /\ WithToken(NestingAt(o), t).nested
           <=> NestingAt(o).nested /\ Len(NestingAt(o).open) < MaxDepth
  BY <1>3, WithOpening, Zenon
<1>5. QED
  BY <1>2, <1>4, Zenon DEF t

LEMMA NestingAtClosing ==
  ASSUME LexType, NEW o \in 0..Len(input), NEW f \in FS!Frame,
         Peek(o) = (IF f = "Array" THEN "]" ELSE "}")
  PROVE  /\ o + 1 \in 0..Len(input)
         /\ NestingAt(o + 1).open = FS!Popped(NestingAt(o).open)
         /\ NestingAt(o + 1).nested
              <=> NestingAt(o).nested /\ FS!TopOf(NestingAt(o).open) = f
<1>1. Peek(o) # "eof"
  OBVIOUS
<1>2. o + 1 \in 0..Len(input) /\ NestingAt(o + 1) = WithToken(NestingAt(o), Peek(o))
  BY <1>1, NestingAtToken
<1> DEFINE t == Peek(o)
<1>3. t = (IF f = "Array" THEN "]" ELSE "}")
  OBVIOUS
<1> HIDE DEF t
<1>4. /\ WithToken(NestingAt(o), t).open = FS!Popped(NestingAt(o).open)
      /\ WithToken(NestingAt(o), t).nested
           <=> NestingAt(o).nested /\ FS!TopOf(NestingAt(o).open) = f
  BY <1>3, WithClosing, Zenon
<1>5. QED
  BY <1>2, <1>4, Zenon DEF t

LEMMA NestingAtOther ==
  ASSUME LexType, NEW o \in 0..Len(input), Peek(o) \notin Bracket \cup {"eof"}
  PROVE  o + 1 \in 0..Len(input) /\ NestingAt(o + 1) = NestingAt(o)
BY NestingAtToken DEF WithToken, Bracket

(* A run of a token that is no bracket: the first position that nests      *)
(* otherwise would be behind a bracket.                                    *)
LEMMA NestingAtRun ==
  ASSUME LexType, NEW o \in 0..Len(input), NEW t \in {"ws", "1"}
  PROVE  RunEnd(o, t) \in 0..Len(input) /\ NestingAt(RunEnd(o, t)) = NestingAt(o)
<1> DEFINE p == RunEnd(o, t)
           Other == {n \in o..p : NestingAt(n) # NestingAt(o)}
<1>1. Len(input) \in Nat
  BY LenProperties DEF LexType
<1>2. p \in o..Len(input) /\ \A i \in o..(p - 1) : Peek(i) = t
  BY RunEndInRange
<1> HIDE DEF p
<1>3. Other = {}
  <2>1. SUFFICES ASSUME Other # {} PROVE FALSE
    OBVIOUS
  <2>2. Other \subseteq Nat
    BY <1>1, <1>2
  <2>3. PICK n \in Other : \A k \in Other : n <= k
    <3> HIDE DEF Other
    <3>1. QED
      BY <2>1, <2>2, LeastOf
  <2>4. n # o /\ n \in o..p
    BY <2>3
  <2>5. n - 1 \in o..(p - 1) /\ n - 1 \in 0..Len(input) /\ n - 1 + 1 = n
    BY <1>1, <1>2, <2>4
  <2>6. n - 1 \notin Other /\ n - 1 \in o..p
    BY <1>1, <1>2, <2>3, <2>5
  <2>7. NestingAt(n - 1) = NestingAt(o)
    BY <2>6
  <2>8. Peek(n - 1) \notin Bracket \cup {"eof"}
    BY <1>2, <2>5 DEF Bracket
  <2>9. NestingAt(n) = NestingAt(n - 1)
    BY <2>5, <2>8, NestingAtOther
  <2>10. QED
    BY <2>3, <2>7, <2>9
<1>4. p \in o..p /\ p \in 0..Len(input)
  BY <1>1, <1>2
<1>5. QED
  BY <1>3, <1>4 DEF p

LEMMA NestingAtWhitespace ==
  ASSUME LexType, NEW o \in 0..Len(input)
  PROVE  /\ SkipWhitespace(o) \in 0..Len(input)
         /\ NestingAt(SkipWhitespace(o)) = NestingAt(o)
BY NestingAtRun DEF SkipWhitespace

LEMMA ReadsWhitespace ==
  ASSUME LexType, NEW o, Reads(o)
  PROVE  SkipWhitespace(o) \in 0..Len(input) /\ Reads(SkipWhitespace(o))
BY NestingAtWhitespace DEF Reads

LEMMA ReadsOther ==
  ASSUME LexType, NEW o, Reads(o), Peek(o) \notin Bracket \cup {"eof"}
  PROVE  o + 1 \in 0..Len(input) /\ Reads(o + 1)
BY NestingAtOther DEF Reads

LEMMA ReadsRun ==
  ASSUME LexType, NEW o, Reads(o)
  PROVE  RunEnd(o, "1") \in 0..Len(input) /\ Reads(RunEnd(o, "1"))
BY NestingAtRun DEF Reads

LEMMA StringsAreNoBrackets ==
  ASSUME NEW t \in Strings \cup {"lone"}
  PROVE  t \notin Bracket \cup {"eof"}
BY StringsAreTokens DEF Bracket, Punctuation

-----------------------------------------------------------------------------
(* How a method ends.                                                      *)
LEMMA FramesStay ==
  ASSUME LexType, frames' = frames \/ \E f \in FS!Frame : frames' = Append(frames, f)
  PROVE  ClosesItsOwn
<1>1. Len(frames') >= Len(frames) /\ Len(frames) \in Nat /\ Len(frames') \in Nat
  BY AppendProperties, LenProperties DEF LexType
<1>2. QED
  BY <1>1 DEF ClosesItsOwn

LEMMA ReturnSound ==
  ASSUME LexType, NEW o, Reads(o), NEW r, Return(o, r), RecordFailure
  PROVE  Sound
<1>1. o \in 0..Len(input)
  BY DEF Reads
<1>2. LexType' /\ frames' = frames /\ offset' = o /\ UNCHANGED input
  BY <1>1, ReturnEffect DEF Return
<1>3. ClosesItsOwn
  BY <1>2, FramesStay
<1>4. Reads(offset)'
  BY <1>2 DEF Reads, NestingAt, RecordFailure
<1>5. QED
  BY <1>2, <1>3, <1>4 DEF Sound

LEMMA UnexpectedSound ==
  ASSUME LexType, NEW o, Reads(o), Unexpected(o), RecordFailure
  PROVE  Sound
BY ReturnSound DEF Unexpected

LEMMA PoppedBack ==
  ASSUME NEW s \in Seq(FS!Frame), NEW f \in FS!Frame
  PROVE  FS!Popped(Append(s, f)) = s
<1>1. /\ Append(s, f) \in Seq(FS!Frame) /\ Len(Append(s, f)) = Len(s) + 1
      /\ \A i \in 1..Len(s) : Append(s, f)[i] = s[i]
  BY AppendProperties
<1>2. Append(s, f) # << >> /\ Len(s) \in Nat /\ Len(s) + 1 - 1 = Len(s)
  <2>1. Len(s) \in Nat
    BY LenProperties
  <2>2. Len(Append(s, f)) # 0 /\ Len(s) + 1 - 1 = Len(s)
    BY <1>1, <2>1
  <2>3. Len(<< >>) = 0
    BY EmptySeq
  <2>4. QED
    BY <2>1, <2>2, <2>3
<1>3. /\ FS!Popped(Append(s, f)) \in Seq(FS!Frame)
      /\ Len(FS!Popped(Append(s, f))) = Len(s)
      /\ \A i \in 1..Len(s) : FS!Popped(Append(s, f))[i] = s[i]
  <2> DEFINE a == Append(s, f)
  <2> HIDE DEF a
  <2>1. a \in Seq(FS!Frame) /\ a # << >> /\ Len(a) - 1 = Len(s) /\ \A i \in 1..Len(s) : a[i] = s[i]
    BY <1>1, <1>2 DEF a
  <2>2. QED
    BY <2>1, PoppedProperties DEF a
<1>4. QED
  BY <1>3, SeqEqual

(* Behind an opening bracket at o there is no room for.                    *)
LEMMA TooDeepSound ==
  ASSUME LexType, NEW o, Reads(o), Peek(o) \in {"[", "{"}, Len(frames) >= MaxDepth,
         NEW p \in 0..Len(input), NestingAt(p) = NestingAt(o + 1),
         Return(p, "DepthLimitExceeded"), RecordFailure
  PROVE  Sound
<1>1. LexType' /\ frames' = frames /\ offset' = p /\ UNCHANGED input /\ failed'
  BY ReturnEffect DEF Return, RecordFailure, ErrorKind
<1>2. ClosesItsOwn
  BY <1>1, FramesStay
<1>3. NestingAt(p).nested => NestingAt(o).nested /\ Len(NestingAt(o).open) < MaxDepth
  <2>1. PICK f \in FS!Frame : Peek(o) = IF f = "Array" THEN "[" ELSE "{"
    BY DEF FS!Frame
  <2>2. NestingAt(o + 1).nested => NestingAt(o).nested /\ Len(NestingAt(o).open) < MaxDepth
    BY <2>1, NestingAtOpening, Zenon DEF Reads
  <2>3. QED
    BY <2>2, Zenon
<1>4. ~ NestingAt(p).nested
  <2>1. Len(frames) \in Nat /\ MaxDepth \in Nat
    BY LenProperties, LexerAssumption DEF LexType
  <2>2. ~ (Len(frames) < MaxDepth)
    BY <2>1, NotLess, Zenon
  <2>3. SUFFICES ASSUME NestingAt(p).nested PROVE FALSE
    OBVIOUS
  <2>4. frames = NestingAt(o).open /\ Len(NestingAt(o).open) < MaxDepth
    BY <1>3, <2>3, Zenon DEF Reads
  <2>5. QED
    BY <2>2, <2>4, Zenon
<1>5. Reads(offset)'
  BY <1>1, <1>4 DEF Reads, NestingAt
<1>6. QED
  BY <1>1, <1>2, <1>5 DEF Sound

(* Behind an opening bracket at o.                                         *)
LEMMA PushSound ==
  ASSUME LexType, NEW o, Reads(o), NEW f \in FS!Frame,
         Peek(o) = (IF f = "Array" THEN "[" ELSE "{"),
         NEW p \in 0..Len(input), NestingAt(p) = NestingAt(o + 1),
         NEW r, PushFrame(f, p, r), RecordFailure
  PROVE  Sound
<1>1. CASE /\ Len(frames) < MaxDepth
           /\ frames' = Append(frames, f)
           /\ offset' = p
           /\ UNCHANGED input
  <2>1. LexType'
    BY PushFrameEffect
  <2>2. ClosesItsOwn
    BY <1>1, FramesStay
  <2>3. /\ NestingAt(o + 1).open = Append(NestingAt(o).open, f)
        /\ NestingAt(o + 1).nested
             <=> NestingAt(o).nested /\ Len(NestingAt(o).open) < MaxDepth
    BY NestingAtOpening, Zenon DEF Reads
  <2>4. /\ NestingAt(o).nested => frames = NestingAt(o).open
        /\ ~ NestingAt(o).nested => failed
    BY Zenon DEF Reads
  <2>5. /\ NestingAt(p).nested => frames' = NestingAt(p).open
        /\ ~ NestingAt(p).nested => failed'
    BY <1>1, <2>3, <2>4, Zenon DEF RecordFailure
  <2>6. NestingAt(offset)' = NestingAt(p) /\ Len(input') = Len(input)
    BY <1>1 DEF NestingAt
  <2>7. Reads(offset)'
    BY <1>1, <2>5, <2>6 DEF Reads
  <2>8. QED
    BY <2>1, <2>2, <2>7 DEF Sound
<1>2. CASE Len(frames) >= MaxDepth /\ Return(p, "DepthLimitExceeded")
  BY <1>2, TooDeepSound
<1>3. QED
  BY <1>1, <1>2 DEF PushFrame

(* Behind a closing bracket at o.                                          *)
LEMMA PopsItsOwn ==
  ASSUME LexType, NEW o, Reads(o), NEW f \in FS!Frame, NEW r,
         Peek(o) = (IF f = "Array" THEN "]" ELSE "}"),
         PopFrame(f, o + 1, r), RecordFailure
  PROVE  Sound
<1>1. Peek(o) # "eof" /\ o \in 0..Len(input) /\ o + 1 \in 0..Len(input)
  BY InsideInput DEF Reads
<1>2. LexType'
  BY <1>1, PopFrameEffect
<1>3. offset' = o + 1 /\ UNCHANGED input
  BY DEF PopFrame, Return
<1>4. input[o + 1] = (IF f = "Array" THEN "]" ELSE "}")
  BY <1>1 DEF Peek
<1>5. /\ NestingAt(o + 1).open = FS!Popped(NestingAt(o).open)
      /\ NestingAt(o + 1).nested
           <=> NestingAt(o).nested /\ FS!TopOf(NestingAt(o).open) = f
  BY <1>1, NestingAtClosing, Zenon
<1>6. CASE frames = << >> /\ Return(o + 1, "UnexpectedByte")
  <2>1. frames' = frames /\ failed'
    BY <1>6 DEF Return, RecordFailure, ErrorKind
  <2>2. ClosesItsOwn
    BY <2>1, FramesStay
  <2>3. FS!TopOf(frames) # f
    BY <1>6 DEF FS!TopOf, FS!Frame
  <2>4. Reads(offset)'
    BY <1>1, <1>3, <1>5, <2>1, <2>3 DEF Reads, NestingAt
  <2>5. QED
    BY <1>2, <2>2, <2>4 DEF Sound
<1>7. CASE /\ frames' = FS!Popped(frames)
           /\ ret' = IF FS!TopOf(frames) = f THEN r ELSE "TypeMismatch"
  <2>1. FS!TopOf(frames) # f => ret' \in ErrorKind
    BY <1>7 DEF ErrorKind
  <2>2. ClosesItsOwn
    BY <1>3, <1>4, <1>7, <2>1 DEF ClosesItsOwn, FS!Frame
  <2>3. NestingAt(o + 1).nested => frames' = NestingAt(o + 1).open
    BY <1>5, <1>7 DEF Reads
  <2>4. ~ NestingAt(o + 1).nested => failed'
    <3>1. CASE FS!TopOf(frames) # f
      BY <2>1, <3>1 DEF RecordFailure
    <3>2. CASE ~ NestingAt(o).nested
      BY <3>2 DEF Reads, RecordFailure
    <3>3. CASE NestingAt(o).nested /\ FS!TopOf(frames) = f
      BY <1>5, <3>3 DEF Reads
    <3>4. QED
      BY <3>1, <3>2, <3>3
  <2>5. Reads(offset)'
    BY <1>1, <1>3, <2>3, <2>4 DEF Reads, NestingAt
  <2>6. QED
    BY <1>2, <2>2, <2>5 DEF Sound
<1>8. QED
  BY <1>6, <1>7 DEF PopFrame

LEMMA StringSound ==
  ASSUME LexType, NEW o, Reads(o), NEW r, ReadString(o, r), RecordFailure
  PROVE  Sound
<1>1. Peek(o) \in Strings \cup {"lone"}
      /\ (Return(o + 1, r) \/ Return(o + 1, "UnpairedSurrogate"))
  BY DEF ReadString
<1>2. Reads(o + 1)
  BY <1>1, StringsAreNoBrackets, ReadsOther
<1>3. QED
  BY <1>1, <1>2, ReturnSound

LEMMA ValueSound ==
  ASSUME LexType, NEW from, Reads(from), ReadValue(from), RecordFailure
  PROVE  Sound
<1> DEFINE o == SkipWhitespace(from)
<1>1. o \in 0..Len(input) /\ Reads(o)
  BY ReadsWhitespace
<1>2. \/ Peek(o) = "{" /\ PushFrame("Object", o + 1, "StartObject")
      \/ Peek(o) = "[" /\ PushFrame("Array", o + 1, "StartArray")
      \/ ReadString(o, "String")
      \/ Peek(o) = "kw" /\ Return(o + 1, "Literal")
      \/ Peek(o) = "1" /\ Return(RunEnd(o, "1"), "Number")
      \/ Unexpected(o)
  BY DEF ReadValue
<1> HIDE DEF o
<1>3. CASE Peek(o) = "{" /\ PushFrame("Object", o + 1, "StartObject")
  BY <1>1, <1>3, InsideInput, PushSound DEF FS!Frame
<1>4. CASE Peek(o) = "[" /\ PushFrame("Array", o + 1, "StartArray")
  BY <1>1, <1>4, InsideInput, PushSound DEF FS!Frame
<1>5. CASE ReadString(o, "String")
  BY <1>1, <1>5, StringSound
<1>6. CASE Peek(o) = "kw" /\ Return(o + 1, "Literal")
  BY <1>1, <1>6, ReadsOther, ReturnSound DEF Bracket
<1>7. CASE Peek(o) = "1" /\ Return(RunEnd(o, "1"), "Number")
  BY <1>1, <1>7, ReadsRun, ReturnSound
<1>8. CASE Unexpected(o)
  BY <1>1, <1>8, UnexpectedSound
<1>9. QED
  BY <1>2, <1>3, <1>4, <1>5, <1>6, <1>7, <1>8

LEMMA KeySound ==
  ASSUME LexType, NEW o, Reads(o), NEW lex \in BOOLEAN, KeyThenColon(o, lex), RecordFailure
  PROVE  Sound
<1> DEFINE p == SkipWhitespace(o + 1)
<1>1. CASE Return(o, "InvalidEscape")
  BY <1>1, ReturnSound
<1>2. CASE IsQuote(o) /\ ExpectColon(o + 1)
  <2>1. Peek(o) \in Strings \cup {"lone"}
    BY <1>2 DEF IsQuote, BorrowedString, EscapedString, Strings
  <2>2. Reads(o + 1)
    BY <2>1, StringsAreNoBrackets, ReadsOther
  <2>3. p \in 0..Len(input) /\ Reads(p)
    BY <2>2, ReadsWhitespace
  <2>4. \/ Peek(p) = ":" /\ Return(SkipWhitespace(p + 1), "Key")
        \/ Unexpected(p)
    BY <1>2 DEF ExpectColon
  <2> HIDE DEF p
  <2>5. CASE Peek(p) = ":" /\ Return(SkipWhitespace(p + 1), "Key")
    <3>1. Reads(p + 1)
      BY <2>3, <2>5, ReadsOther DEF Bracket
    <3>2. QED
      BY <2>5, <3>1, ReadsWhitespace, ReturnSound
  <2>6. QED
    BY <2>3, <2>4, <2>5, UnexpectedSound
<1>3. QED
  BY <1>1, <1>2 DEF KeyThenColon, IsQuote

-----------------------------------------------------------------------------
(* next_event, in whatever state it is called.                             *)
LEMMA KeyOrEndSound ==
  ASSUME LexType, NEW o, Reads(o), KeyOrEnd(o), RecordFailure
  PROVE  Sound
<1>1. CASE Peek(o) = "}" /\ CloseContainer("Object", o, "EndObject")
  BY <1>1, PopsItsOwn DEF CloseContainer, FS!Frame
<1>2. CASE ReadString(o, "Key")
  BY <1>2, StringSound
<1>3. CASE Refuse(o)
  BY <1>3, UnexpectedSound DEF Refuse
<1>4. QED
  BY <1>1, <1>2, <1>3 DEF KeyOrEnd

LEMMA NextEventSound ==
  ASSUME LexType, Reads(offset), NextEvent
  PROVE  Sound
<1> DEFINE o == SkipWhitespace(offset)
           next == SkipWhitespace(o + 1)
<1>1. o \in 0..Len(input) /\ Reads(o) /\ RecordFailure
  BY ReadsWhitespace DEF NextEvent
<1>2. /\ Peek(o) = "," => Reads(next)
      /\ Peek(o) = ":" => Reads(o + 1)
  BY <1>1, ReadsOther, ReadsWhitespace DEF Bracket
<1> HIDE DEF o, next
<1>3. ASSUME Peek(o) = "]", CloseContainer("Array", o, "EndArray")
      PROVE  Sound
  BY <1>1, <1>3, PopsItsOwn DEF CloseContainer, FS!Frame
<1>4. CASE EvStart(o)
  BY <1>1, <1>4, ValueSound DEF EvStart, EmitValue
<1>5. CASE EvDocumentEnd(o)
  BY <1>1, <1>5, ReturnSound DEF EvDocumentEnd
<1>6. CASE EvArrayValueOrEnd(o)
  BY <1>1, <1>3, <1>6, ValueSound DEF EvArrayValueOrEnd, EmitValue
<1>7. CASE EvArrayCommaOrEnd(o)
  <2>1. CASE Peek(o) = "," /\ CommaThenValue(o)
    <3>1. Reads(next)
      BY <1>2, <2>1
    <3>2. Unexpected(next) \/ ReadValue(next)
      BY <2>1 DEF CommaThenValue, EmitValue, Refuse, next
    <3>3. QED
      BY <1>1, <3>1, <3>2, UnexpectedSound, ValueSound
  <2>2. CASE Refuse(o)
    BY <1>1, <2>2, UnexpectedSound DEF Refuse
  <2>3. QED
    BY <1>3, <1>7, <2>1, <2>2 DEF EvArrayCommaOrEnd
<1>8. CASE EvObjectKeyOrEnd(o)
  BY <1>1, <1>8, KeyOrEndSound DEF EvObjectKeyOrEnd
<1>9. CASE EvObjectColon(o)
  <2>1. CASE Peek(o) = ":" /\ EmitValue(o + 1, "ObjectCommaOrEnd")
    BY <1>1, <1>2, <2>1, ValueSound DEF EmitValue
  <2>2. CASE Refuse(o)
    BY <1>1, <2>2, UnexpectedSound DEF Refuse
  <2>3. QED
    BY <1>9, <2>1, <2>2 DEF EvObjectColon
<1>10. CASE EvObjectValue(o)
  BY <1>1, <1>10, ValueSound DEF EvObjectValue, EmitValue
<1>11. CASE EvObjectCommaOrEnd(o)
  <2>1. CASE Peek(o) = "," /\ CommaThenKey(o)
    <3>1. Reads(next)
      BY <1>2, <2>1
    <3>2. Unexpected(next) \/ KeyOrEnd(next)
      BY <2>1 DEF CommaThenKey, Refuse, next
    <3>3. QED
      BY <1>1, <3>1, <3>2, UnexpectedSound, KeyOrEndSound
  <2>2. CASE Peek(o) = "}" /\ CloseContainer("Object", o, "EndObject")
    BY <1>1, <2>2, PopsItsOwn DEF CloseContainer, FS!Frame
  <2>3. CASE Refuse(o)
    BY <1>1, <2>3, UnexpectedSound DEF Refuse
  <2>4. QED
    BY <1>11, <2>1, <2>2, <2>3 DEF EvObjectCommaOrEnd
<1>12. QED
  BY <1>4, <1>5, <1>6, <1>7, <1>8, <1>9, <1>10, <1>11 DEF NextEvent, o

-----------------------------------------------------------------------------
(* The fast-path methods.                                                  *)
LEMMA ScalarCallsSound ==
  ASSUME LexType, Reads(offset), ParseI64 \/ ParseStr
  PROVE  Sound
<1>1. RecordFailure
  BY DEF ParseI64, ParseStr
<1>2. CASE ParseI64
  BY <1>1, <1>2, ReadsRun, ReturnSound, UnexpectedSound DEF ParseI64, ParseI64Value
<1>3. CASE ParseStr
  <2>1. BorrowedString(offset) => Reads(offset + 1)
    BY StringsAreNoBrackets, ReadsOther DEF BorrowedString, Strings
  <2>2. QED
    BY <1>1, <1>3, <2>1, ReturnSound, UnexpectedSound DEF ParseStr, ParseStrValue
<1>4. QED
  BY <1>2, <1>3

LEMMA StartArraySound ==
  ASSUME LexType, Reads(offset), StartArray
  PROVE  Sound
<1> DEFINE o == SkipWhitespace(offset)
           first == SkipWhitespace(o + 1)
<1>1. o \in 0..Len(input) /\ Reads(o) /\ RecordFailure
  BY ReadsWhitespace DEF StartArray
<1>2. \/ Unexpected(o)
      \/ Peek(o) = "[" /\ PushFrame("Array", first, "Open")
      \/ /\ Peek(o) = "[" /\ Peek(first) = "]" /\ Len(frames) < MaxDepth
         /\ Return(first + 1, "Empty")
      \/ /\ Peek(o) = "[" /\ Len(frames) >= MaxDepth
         /\ Return(o + 1, "DepthLimitExceeded")
  BY DEF StartArray, ArrayStart
<1>3. Peek(o) = "[" =>
        /\ o + 1 \in 0..Len(input) /\ first \in 0..Len(input)
        /\ NestingAt(first) = NestingAt(o + 1)
  BY <1>1, InsideInput, NestingAtWhitespace
<1> HIDE DEF o, first
<1>4. CASE Unexpected(o)
  BY <1>1, <1>4, UnexpectedSound
<1>5. CASE Peek(o) = "[" /\ PushFrame("Array", first, "Open")
  BY <1>1, <1>3, <1>5, PushSound DEF FS!Frame
<1>6. CASE /\ Peek(o) = "[" /\ Peek(first) = "]" /\ Len(frames) < MaxDepth
           /\ Return(first + 1, "Empty")
  <2>1. /\ NestingAt(o + 1).open = Append(NestingAt(o).open, "Array")
        /\ NestingAt(o + 1).nested
             <=> NestingAt(o).nested /\ Len(NestingAt(o).open) < MaxDepth
    BY <1>1, <1>6, NestingAtOpening DEF FS!Frame
  <2>2. /\ first + 1 \in 0..Len(input)
        /\ NestingAt(first + 1).open = FS!Popped(NestingAt(o + 1).open)
        /\ NestingAt(first + 1).nested
             <=> NestingAt(o + 1).nested /\ FS!TopOf(NestingAt(o + 1).open) = "Array"
    BY <1>3, <1>6, NestingAtClosing DEF FS!Frame
  <2>3. CASE NestingAt(o).nested
    <3>1. NestingAt(o).open = frames /\ frames \in Seq(FS!Frame) /\ "Array" \in FS!Frame
      BY <1>1, <2>3 DEF Reads, LexType, FS!Frame
    <3>2. FS!TopOf(Append(frames, "Array")) = "Array"
      BY <3>1, AppendProperties, EmptySeq DEF FS!TopOf
    <3>3. FS!Popped(Append(frames, "Array")) = frames
      BY <3>1, PoppedBack
    <3>4. NestingAt(first + 1).open = frames /\ NestingAt(first + 1).nested
      BY <1>6, <2>1, <2>2, <2>3, <3>1, <3>2, <3>3, Zenon
    <3>5. Reads(first + 1)
      BY <2>2, <3>4 DEF Reads
    <3>6. QED
      BY <1>1, <1>6, <3>5, ReturnSound
  <2>4. CASE ~ NestingAt(o).nested
    <3>1. Reads(first + 1)
      BY <1>1, <2>1, <2>2, <2>4 DEF Reads
    <3>2. QED
      BY <1>1, <1>6, <3>1, ReturnSound
  <2>5. QED
    BY <2>3, <2>4
<1>7. CASE /\ Peek(o) = "[" /\ Len(frames) >= MaxDepth
           /\ Return(o + 1, "DepthLimitExceeded")
  BY <1>1, <1>3, <1>7, TooDeepSound
<1>8. QED
  BY <1>2, <1>4, <1>5, <1>6, <1>7

LEMMA ContinueArraySound ==
  ASSUME LexType, Reads(offset), NEW end_byte \in {"]", "}"}, ContinueArray(end_byte)
  PROVE  Sound
<1> DEFINE o == SkipWhitespace(offset)
           frame == IF end_byte = "]" THEN "Array" ELSE "Object"
<1>1. o \in 0..Len(input) /\ Reads(o) /\ RecordFailure
  BY ReadsWhitespace DEF ContinueArray
<1>2. CASE Peek(o) = end_byte /\ PopFrame(frame, o + 1, "Closed")
  <2>1. frame \in FS!Frame /\ end_byte = (IF frame = "Array" THEN "]" ELSE "}")
    BY DEF FS!Frame
  <2> HIDE DEF frame, o
  <2>2. QED
    BY <1>1, <1>2, <2>1, PopsItsOwn
<1>3. CASE Peek(o) = "," /\ Return(SkipWhitespace(o + 1), "More")
  <2>1. Reads(o + 1)
    BY <1>1, <1>3, ReadsOther DEF Bracket
  <2>2. QED
    BY <1>1, <1>3, <2>1, ReadsWhitespace, ReturnSound
<1>4. CASE Unexpected(o)
  BY <1>1, <1>4, UnexpectedSound
<1>5. QED
  BY <1>2, <1>3, <1>4 DEF ContinueArray, ArrayContinue

LEMMA KeyCallsSound ==
  ASSUME LexType, Reads(offset), NEW lex \in BOOLEAN, FirstKey(lex) \/ NextKey(lex)
  PROVE  Sound
<1> DEFINE o == SkipWhitespace(offset)
           q == SkipWhitespace(o + 1)
<1>1. o \in 0..Len(input) /\ Reads(o) /\ RecordFailure
  BY ReadsWhitespace DEF FirstKey, NextKey, SyncKey
<1>2. Peek(o) = "," => Reads(q)
  BY <1>1, ReadsOther, ReadsWhitespace DEF Bracket
<1>3. \/ Peek(o) = "}" /\ PopFrame("Object", o + 1, "Closed")
      \/ KeyThenColon(o, lex) \/ Unexpected(o)
      \/ Peek(o) = "," /\ (KeyThenColon(q, lex) \/ Unexpected(q))
  BY DEF FirstKey, NextKey, ObjectFirstKey, ObjectNextKey
<1> HIDE DEF o, q
<1>4. CASE Peek(o) = "}" /\ PopFrame("Object", o + 1, "Closed")
  BY <1>1, <1>4, PopsItsOwn DEF FS!Frame
<1>5. CASE KeyThenColon(o, lex) \/ Unexpected(o)
  BY <1>1, <1>5, KeySound, UnexpectedSound
<1>6. CASE Peek(o) = "," /\ (KeyThenColon(q, lex) \/ Unexpected(q))
  BY <1>1, <1>2, <1>6, KeySound, UnexpectedSound
<1>7. QED
  BY <1>3, <1>4, <1>5, <1>6

-----------------------------------------------------------------------------
LEMMA CallSound ==
  ASSUME LexType, Reads(offset), AnyCall
  PROVE  Sound
BY NextEventSound, ScalarCallsSound, StartArraySound, ContinueArraySound, KeyCallsSound
   DEF AnyCall

LEMMA CallsBegin ==
  ASSUME Init
  PROVE  LexType /\ Reads(offset)
<1>1. LexType /\ offset = 0 /\ frames = << >>
  BY LexerAssumption, LenProperties, EmptySeq DEF Init, LexType
<1>2. NestingAt(0) = [open |-> << >>, nested |-> TRUE]
  BY <1>1, NestingStepwise, LenProperties DEF NestingAt, LexType
<1>3. QED
  BY <1>1, <1>2 DEF Reads, LexType

LEMMA CallsStep ==
  ASSUME LexType, Reads(offset), [AnyCall]_vars
  PROVE  LexType' /\ Reads(offset)' /\ (vars' # vars => ClosesItsOwn)
<1>1. CASE AnyCall
  BY <1>1, CallSound DEF Sound
<1>2. CASE UNCHANGED vars
  BY <1>2 DEF vars, LexType, Reads, NestingAt
<1>3. QED
  BY <1>1, <1>2

(* Both consumers do no more than call the methods.                        *)
LEMMA ClientCalls ==
  ASSUME [ClientNext]_clientVars
  PROVE  [AnyCall]_vars
BY DEF ClientNext, PullEvent, ReadTyped, Continue, WalkKey, CallAnything, AnyCall,
       clientVars, vars

(* Whatever methods are called, in whatever order and after whatever       *)
(* errors, the open frames are the containers that the text read so far    *)
(* leaves open, or an error has said that the text does not nest: for      *)
(* every input and every depth limit (parser.rs, impl Parser; lexer.rs,    *)
(* push_frame and pop_frame).                                              *)
THEOREM FramesAreWhatIsOpen == ClientSpec => []FramesFollowText
<1>1. ClientInit => LexType /\ Reads(offset)
  BY CallsBegin DEF ClientInit
<1>2. LexType /\ Reads(offset) /\ [ClientNext]_clientVars => LexType' /\ Reads(offset)'
  BY ClientCalls, CallsStep
<1>3. Reads(offset) => FramesFollowText
  BY DEF Reads, NestingAt, FramesFollowText
<1>4. QED
  BY <1>1, <1>2, <1>3, PTL DEF ClientSpec

(* Whatever order the public methods are called in, and whatever errors    *)
(* they have returned, a close is reported only for the innermost          *)
(* container, by its own bracket (parser.rs, impl Parser).                 *)
THEOREM NoCallClosesAcross == AnyCalls => NoCrossClose
<1>1. Init => LexType /\ Reads(offset)
  BY CallsBegin
<1>2. LexType /\ Reads(offset) /\ [AnyCall]_vars => LexType' /\ Reads(offset)'
  BY CallsStep
<1>3. LexType /\ Reads(offset) /\ [AnyCall]_vars =>
        [ (Len(frames') < Len(frames) /\ ret' \notin ErrorKind)
            => /\ frames' = FS!Popped(frames)
               /\ FS!TopOf(frames) =
                    IF input[offset'] = "]" THEN "Array" ELSE "Object" ]_vars
  BY CallsStep DEF ClosesItsOwn
<1>4. QED
  BY <1>1, <1>2, <1>3, PTL DEF AnyCalls, NoCrossClose
=============================================================================
