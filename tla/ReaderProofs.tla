------------------------------ MODULE ReaderProofs -----------------------------
(***************************************************************************)
(* The readers of de.rs and the readers generated by the derive macro      *)
(* leave the frames of their caller alone, for every type however nested,  *)
(* every enum in every tagging mode, every input, every set of fields and  *)
(* every stack they are entered with.                                      *)
(***************************************************************************)
EXTENDS TypedReader, ExternalEnum, InternalEnum, AdjacentEnum, UntaggedEnum, LexerProofs

(* Above the caller's frames a reader may do what it likes.                *)
Above ==
  /\ Len(frames) >= Len(entry)
  /\ \A i \in 1..Len(entry) : frames[i] = entry[i]

LEMMA PrefixKept ==
  ASSUME LexType, entry \in Seq(FS!Frame), Above
  PROVE  SubSeq(frames, 1, Len(entry)) = entry
<1> DEFINE n == Len(entry)
           p == SubSeq(frames, 1, n)
<1>1. n \in 0..Len(frames) /\ frames \in Seq(FS!Frame)
  BY LenProperties DEF LexType, Above
<1> HIDE DEF n
<1>2. p \in Seq(FS!Frame) /\ Len(p) = n /\ \A i \in 1..n : p[i] = frames[i]
  BY <1>1, PrefixProperties
<1> HIDE DEF p
<1>3. \A i \in 1..n : p[i] = entry[i]
  BY <1>2 DEF n, Above
<1>4. p = entry
  BY <1>2, <1>3, SeqEqual DEF n
<1>5. QED
  BY <1>4 DEF n, p

(* Where the frames are the caller's and those of the calls under way, and *)
(* where the struct being read has one of its own above them.              *)
Between  == {"value", "item", "object", "finish", "read", "firstMember", "nextMember"}
InStruct == {"firstKey", "nextKey", "retry", "arm"}

-----------------------------------------------------------------------------
(* What the parts of the struct reader do to the frames.                   *)

FramesStay == LexType' /\ frames' = frames

LEMMA ReturnStays ==
  ASSUME LexType, NEW o \in 0..Len(input), NEW r, Return(o, r)
  PROVE  FramesStay
BY ReturnEffect DEF FramesStay

LEMMA UnexpectedStays ==
  ASSUME LexType, NEW o \in 0..Len(input), Unexpected(o)
  PROVE  FramesStay
BY UnexpectedEffect DEF FramesStay, Refused

LEMMA I64FromLexStays ==
  ASSUME LexType, NEW from \in 0..Len(input), I64FromLex(from)
  PROVE  FramesStay
<1> DEFINE o == SkipWhitespace(from)
<1>1. o \in 0..Len(input)
  BY SkipWhitespaceInRange
<1>2. RunEnd(o, "1") \in 0..Len(input)
  BY <1>1, RunEndInRange, LenProperties DEF LexType
<1>3. \/ Return(RunEnd(o, "1"), "Number")
      \/ Return(o, "ExpectedNumber")
      \/ Unexpected(o)
  BY DEF I64FromLex
<1> HIDE DEF o
<1>4. QED
  BY <1>1, <1>2, <1>3, ReturnStays, UnexpectedStays

LEMMA ParseI64ValueStays ==
  ASSUME LexType, ParseI64Value
  PROVE  FramesStay
<1>1. offset \in 0..Len(input)
  BY DEF LexType
<1>2. RunEnd(offset, "1") \in 0..Len(input)
  BY <1>1, RunEndInRange, LenProperties DEF LexType
<1>3. QED
  BY <1>1, <1>2, ReturnStays, UnexpectedStays DEF ParseI64Value

LEMMA ParseStrValueStays ==
  ASSUME LexType, ParseStrValue
  PROVE  FramesStay
<1>1. offset \in 0..Len(input)
  BY DEF LexType
<1>2. BorrowedString(offset) => offset + 1 \in 0..Len(input)
  BY <1>1, InsideInput, StringsAreTokens DEF BorrowedString, Strings
<1>3. QED
  BY <1>1, <1>2, ReturnStays, UnexpectedStays DEF ParseStrValue

LEMMA AcquireStays ==
  ASSUME LexType, NEW type, Acquire(type)
  PROVE  FramesStay
<1> DEFINE o == SkipWhitespace(offset)
<1>1. offset \in 0..Len(input)
  BY DEF LexType
<1>2. o \in 0..Len(input)
  BY <1>1, SkipWhitespaceInRange
<1>3. Peek(o) = "kw" => o + 1 \in 0..Len(input)
  BY <1>2, InsideInput
<1>4. \/ ParseI64Value
      \/ ParseStrValue
      \/ Peek(o) = "kw" /\ Return(o + 1, "Literal")
      \/ I64FromLex(o)
  BY DEF Acquire
<1> HIDE DEF o
<1>5. QED
  BY <1>2, <1>3, <1>4, ParseI64ValueStays, ParseStrValueStays, ReturnStays,
     I64FromLexStays

LEMMA SkipOneValueStays ==
  ASSUME LexType, SkipOneValue
  PROVE  FramesStay
<1>1. offset \in 0..Len(input) /\ Len(input) \in Nat
  BY LenProperties DEF LexType
<1>2. \A e \in offset..Len(input) : e \in 0..Len(input)
  BY <1>1
<1>3. QED
  BY <1>1, <1>2, ReturnStays, UnexpectedStays DEF SkipOneValue

LEMMA FailStays ==
  ASSUME LexType, NEW e, Fail(e)
  PROVE  FramesStay
BY ReturnStays DEF Fail, LexType

LEMMA DecodeKeyStays ==
  ASSUME LexType, DecodeKey
  PROVE  FramesStay /\ pc' \in {"arm", "failed"}
<1> DEFINE o == SkipWhitespace(offset + 1)
<1>1. offset \in 0..Len(input)
  BY DEF LexType
<1>2. Peek(offset) \in Escaped \cup {"lone"}
  BY DEF DecodeKey
<1>3. offset + 1 \in 0..Len(input)
  BY <1>1, <1>2, InsideInput, StringsAreTokens DEF Strings
<1>4. o \in 0..Len(input)
  BY <1>3, SkipWhitespaceInRange
<1>5. Peek(o) = ":" => SkipWhitespace(o + 1) \in 0..Len(input)
  BY <1>4, InsideInput, SkipWhitespaceInRange
<1>6. \/ ExpectColon(offset + 1)
      \/ Peek(o) = ":" /\ Return(SkipWhitespace(o + 1), "UnpairedSurrogate")
      \/ Unexpected(o)
  BY DEF DecodeKey
<1> HIDE DEF o
<1>7. FramesStay
  BY <1>3, <1>4, <1>5, <1>6, ExpectColonEffect, ReturnStays, UnexpectedStays
     DEF FramesStay, Refused
<1>8. QED
  BY <1>7 DEF DecodeKey, Then

(* A step of the struct reader, whatever it reads: it opens the object's   *)
(* frame, works inside it, or closes it, and fails where it stands or by   *)
(* closing the wrong frame.                                                *)
StructStep ==
  \/ pc = "object" /\ pc' = "firstKey" /\ Opened("Object", "StartObject")
  \/ pc \in InStruct /\ pc' \in InStruct /\ frames' = frames
  \/ pc \in InStruct /\ Closes("Object", "Closed")
       /\ pc' = IF FS!TopOf(frames) = "Object" THEN "finish" ELSE "failed"
  \/ pc = "finish" /\ pc' = "read" /\ frames' = frames
  \/ pc \in InStruct \cup {"object", "finish"} /\ pc' = "failed" /\ frames' = frames

LEMMA ReadFieldsEffect ==
  ASSUME LexType, ReadFields
  PROVE  LexType' /\ UNCHANGED entry /\ StructStep
<1>1. CASE ReadObject
  <2>1. LexType' /\ (Opened("Object", "StartObject") \/ Refused)
    BY <1>1, ObjectStartEffect DEF ReadObject
  <2>2. QED
    BY <1>1, <2>1 DEF ReadObject, Then, Opened, Refused, ReaderError, ErrorKind, StructStep
<1>2. CASE WalkKey
  <2>1. LexType' /\ KeyWalked
    BY <1>2, ObjectFirstKeyEffect, ObjectNextKeyEffect DEF WalkKey
  <2>2. pc \in InStruct /\ UNCHANGED entry
    BY <1>2 DEF WalkKey, InStruct
  <2>3. pc' = CASE ret' = "Key"           -> "arm"
                [] ret' = "InvalidEscape" -> "retry"
                [] ret' = "Closed"        -> "finish"
                [] OTHER                  -> "failed"
    BY <1>2 DEF WalkKey
  <2>4. CASE Closes("Object", "Closed")
    BY <2>1, <2>2, <2>3, <2>4 DEF Closes, StructStep
  <2>5. CASE ret' = "Key" /\ frames' = frames
    BY <2>1, <2>2, <2>3, <2>5 DEF StructStep, InStruct
  <2>6. CASE Refused
    BY <2>1, <2>2, <2>3, <2>6 DEF Refused, ErrorKind, StructStep, InStruct
  <2>7. QED
    BY <2>1, <2>4, <2>5, <2>6 DEF KeyWalked
<1>3. CASE DecodeKey
  BY <1>3, DecodeKeyStays DEF DecodeKey, FramesStay, StructStep, InStruct
<1>4. CASE FieldArm
  <2>1. FramesStay /\ pc' \in {"nextKey", "failed"}
    BY <1>4, FailStays, AcquireStays DEF FieldArm, Fail, Then
  <2>2. QED
    BY <1>4, <2>1 DEF FieldArm, FramesStay, StructStep, InStruct
<1>5. CASE TagArm \/ UnknownArm
  <2>1. FramesStay /\ pc' \in {"nextKey", "failed"}
    BY <1>5, FailStays, SkipOneValueStays DEF TagArm, UnknownArm, Fail, Then
  <2>2. QED
    BY <1>5, <2>1 DEF TagArm, UnknownArm, FramesStay, StructStep, InStruct
<1>6. CASE Finish
  <2>1. FramesStay /\ pc' \in {"read", "failed"}
    BY <1>6, FailStays DEF Finish, Fail, Then, FramesStay, lexVars, LexType
  <2>2. QED
    BY <1>6, <2>1 DEF Finish, FramesStay, StructStep
<1>7. QED
  BY <1>1, <1>2, <1>3, <1>4, <1>5, <1>6 DEF ReadFields

-----------------------------------------------------------------------------
(* The call stack is a list; its items are of no set in particular, since  *)
(* a type may be nested in any other.                                      *)

IsList(s) == s \in Seq({s[i] : i \in DOMAIN s})

LEMMA ListProperties ==
  ASSUME NEW s, IsList(s)
  PROVE  Len(s) \in Nat /\ DOMAIN s = 1..Len(s)
BY LenProperties DEF IsList

LEMMA ListIntro ==
  ASSUME NEW S, NEW s \in Seq(S)
  PROVE  IsList(s)
<1> DEFINE T == {s[i] : i \in DOMAIN s}
<1>1. Len(s) \in Nat /\ DOMAIN s = 1..Len(s) /\ s \in [1..Len(s) -> S]
  BY LenProperties
<1>2. s \in [1..Len(s) -> T]
  BY <1>1
<1>3. QED
  BY <1>1, <1>2 DEF IsList

LEMMA FunctionIsSeq ==
  ASSUME NEW T, NEW n \in Nat, NEW t \in [1..n -> T]
  PROVE  t \in Seq(T) /\ Len(t) = n
OBVIOUS

LEMMA ListAppend ==
  ASSUME NEW s, IsList(s), NEW e
  PROVE  /\ IsList(Append(s, e))
         /\ Len(Append(s, e)) = Len(s) + 1
         /\ Append(s, e)[Len(s) + 1] = e
         /\ \A i \in 1..Len(s) : Append(s, e)[i] = s[i]
<1> DEFINE S == {s[i] : i \in DOMAIN s} \cup {e}
<1>1. s \in Seq(S) /\ e \in S
  BY DEF IsList
<1>2. Append(s, e) \in Seq(S)
  BY <1>1, AppendProperties
<1> HIDE DEF S
<1>3. IsList(Append(s, e))
  BY <1>2, ListIntro
<1>4. QED
  BY <1>1, <1>3, AppendProperties

LEMMA ListPop ==
  ASSUME NEW s, IsList(s), s # << >>, NEW p, p = SubSeq(s, 1, Len(s) - 1)
  PROVE  /\ IsList(p)
         /\ Len(p) = Len(s) - 1
         /\ \A i \in 1..(Len(s) - 1) : p[i] = s[i]
<1> DEFINE S == {s[i] : i \in DOMAIN s}
           n == Len(s) - 1
<1>1. s \in Seq(S)
  BY DEF IsList
<1>2. n \in Nat /\ \A i \in 1..n : s[i] \in S
  BY <1>1, EmptySeq, LenProperties, ElementOfSeq
<1> HIDE DEF S
<1>3. p = SubSeq(s, 1, n)
  OBVIOUS
<1> HIDE DEF n
<1>4. /\ p \in Seq(S)
      /\ Len(p) = IF 1 <= n THEN n - 1 + 1 ELSE 0
      /\ \A i \in 1..(n - 1 + 1) : p[i] = s[1 + i - 1]
  BY <1>2, <1>3, SubSeqProperties
<1>5. n - 1 + 1 = n /\ \A i \in 1..n : 1 + i - 1 = i
  BY <1>2
<1>6. Len(p) = n
  BY <1>2, <1>4
<1>7. QED
  BY <1>4, <1>5, <1>6, ListIntro DEF n

(* What a call has collected changes; its type does not.                   *)
Collected(s, parts, name, t) ==
  t = [s EXCEPT ![Len(s)].parts = parts, ![Len(s)].name = name]

LEMMA ListCollect ==
  ASSUME NEW s, IsList(s), s # << >>,
         \A i \in 1..Len(s) : "type" \in DOMAIN s[i],
         NEW parts, NEW name, NEW t, Collected(s, parts, name, t)
  PROVE  /\ IsList(t)
         /\ Len(t) = Len(s)
         /\ \A i \in 1..Len(s) : "type" \in DOMAIN t[i] /\ t[i].type = s[i].type
<1> DEFINE n == Len(s)
           T == {t[i] : i \in DOMAIN t}
<1>1. n \in Nat /\ DOMAIN s = 1..n /\ n \in 1..n
  BY ListProperties, EmptySeq DEF IsList
<1>2. DOMAIN t = 1..n
  BY <1>1 DEF Collected
<1>3. t \in [1..n -> T]
  BY <1>1, <1>2 DEF Collected
<1>4. t \in Seq(T) /\ Len(t) = n
  <2> HIDE DEF T, n
  <2> QED
    BY <1>1, <1>3, FunctionIsSeq
<1>5. \A i \in 1..n : "type" \in DOMAIN t[i] /\ t[i].type = s[i].type
  <2>1. t = [s EXCEPT ![Len(s)].parts = parts, ![Len(s)].name = name]
    BY DEF Collected
  <2>2. QED
    BY <1>1, <2>1
<1>6. QED
  BY <1>4, <1>5 DEF IsList

-----------------------------------------------------------------------------
FrameOf(call) == IF call.type.kind = "map" THEN "Object" ELSE "Array"

(* fs holds the caller's frames, one for each call of cs, and extra more.  *)
FramesAre(fs, cs, extra) ==
  /\ Len(fs) = Len(entry) + Len(cs) + extra
  /\ \A i \in 1..Len(entry) : fs[i] = entry[i]
  /\ \A j \in 1..Len(cs) : fs[Len(entry) + j] = FrameOf(cs[j])

CallsOK ==
  /\ IsList(calls)
  /\ \A i \in 1..Len(calls) : "type" \in DOMAIN calls[i]

FrameInv ==
  /\ Above
  /\ pc \in Between => FramesAre(frames, calls, 0)
  /\ pc \in InStruct =>
       FramesAre(frames, calls, 1) /\ FS!TopOf(frames) = "Object"
  /\ pc \in {"firstMember", "nextMember"} =>
       calls # << >> /\ Top.type.kind = "map"

Inv ==
  /\ LexType
  /\ entry \in Seq(FS!Frame)
  /\ CallsOK
  /\ FrameInv

Lengths ==
  /\ Len(frames) \in Nat /\ Len(entry) \in Nat /\ Len(calls) \in Nat

LEMMA InvLengths == ASSUME Inv PROVE Lengths
BY LenProperties, ListProperties DEF Inv, LexType, CallsOK, Lengths

LEMMA InvInit == TypedStart => Inv
<1> SUFFICES ASSUME NEW type, NEW p, StructInit("value", p), TypedInit(type)
             PROVE  Inv
  BY DEF TypedStart
<1>1. /\ input \in Seq(Token) /\ entry \in Seq(FS!Frame) /\ Len(entry) <= MaxDepth
      /\ frames = entry /\ offset = 0 /\ pc = "value" /\ calls = << >>
  BY LexerAssumption, EnteredAssumption DEF StructInit, TypedInit
<1>2. LexType
  BY <1>1, LenProperties DEF LexType
<1>3. IsList(calls) /\ Len(calls) = 0
  BY <1>1, EmptySeq, ListIntro
<1>4. Len(entry) \in Nat
  BY <1>1, LenProperties
<1>5. QED
  BY <1>1, <1>2, <1>3, <1>4
     DEF Inv, CallsOK, FrameInv, Above, FramesAre, Between, InStruct

(* A frame more, a frame less.                                             *)
LEMMA OpenedIs ==
  ASSUME Inv, NEW f \in FS!Frame, NEW r, Opened(f, r), UNCHANGED entry,
         FramesAre(frames, calls, 0)
  PROVE  /\ Above'
         /\ FramesAre(frames', calls, 1)
         /\ frames'[Len(entry) + Len(calls) + 1] = f
         /\ FS!TopOf(frames') = f
<1>1. Lengths /\ frames \in Seq(FS!Frame)
  BY InvLengths DEF Inv, LexType
<1>2. /\ Len(frames') = Len(frames) + 1
      /\ frames'[Len(frames) + 1] = f
      /\ \A i \in 1..Len(frames) : frames'[i] = frames[i]
      /\ frames' # << >>
  BY <1>1, AppendProperties, EmptySeq DEF Opened
<1>3. QED
  BY <1>1, <1>2 DEF Lengths, Above, FramesAre, FS!TopOf

LEMMA PoppedIs ==
  ASSUME Inv, frames # << >>, frames' = FS!Popped(frames), UNCHANGED entry,
         NEW cs, Len(cs) \in Nat, NEW extra \in Nat, Len(cs) + extra > 0,
         FramesAre(frames, cs, extra)
  PROVE  /\ Above'
         /\ extra > 0 => FramesAre(frames', cs, extra - 1)
         /\ \A ds : (Len(ds) = Len(cs) - 1 /\ extra = 0
                        /\ \A j \in 1..Len(ds) : ds[j] = cs[j])
                     => FramesAre(frames', ds, 0)
<1>1. Lengths /\ frames \in Seq(FS!Frame)
  BY InvLengths DEF Inv, LexType
<1>2. /\ Len(frames') = Len(frames) - 1
      /\ \A i \in 1..(Len(frames) - 1) : frames'[i] = frames[i]
  BY <1>1, PoppedProperties
<1>3. Above'
  BY <1>1, <1>2 DEF Lengths, Above, FramesAre
<1>4. ASSUME extra > 0
      PROVE  FramesAre(frames', cs, extra - 1)
  <2>1. Len(frames') = Len(entry) + Len(cs) + (extra - 1)
    BY <1>1, <1>2 DEF Lengths, FramesAre
  <2>2. \A i \in 1..Len(entry) : frames'[i] = entry[i]
    BY <1>1, <1>2, <1>4 DEF Lengths, FramesAre
  <2>3. ASSUME NEW j \in 1..Len(cs)
        PROVE  frames'[Len(entry) + j] = FrameOf(cs[j])
    <3>1. frames[Len(entry) + j] = FrameOf(cs[j])
      BY DEF FramesAre
    <3>2. Len(entry) + j \in 1..(Len(frames) - 1)
      BY <1>1, <1>4 DEF Lengths, FramesAre
    <3>3. QED
      BY <1>2, <3>1, <3>2
  <2>4. QED
    BY <2>1, <2>2, <2>3 DEF FramesAre
<1>5. ASSUME NEW ds, Len(ds) = Len(cs) - 1, extra = 0,
             \A j \in 1..Len(ds) : ds[j] = cs[j]
      PROVE  FramesAre(frames', ds, 0)
  BY <1>1, <1>2, <1>5 DEF Lengths, FramesAre
<1>6. QED
  BY <1>3, <1>4, <1>5

(* Above the caller's frames there is one of a call's at least.            *)
LEMMA InCall ==
  ASSUME Inv, pc \in Between, calls # << >>
  PROVE  /\ Len(calls) > 0
         /\ frames # << >>
         /\ FS!TopOf(frames) = FrameOf(Top)
         /\ "type" \in DOMAIN Top
<1>1. Lengths /\ FramesAre(frames, calls, 0)
  BY InvLengths DEF Inv, FrameInv
<1>2. Len(calls) > 0
  BY <1>1, EmptySeq DEF Lengths, Inv, CallsOK, IsList
<1>3. Len(frames) = Len(entry) + Len(calls) /\ frames # << >>
  BY <1>1, <1>2, EmptySeq DEF Lengths, FramesAre, Inv, LexType
<1>4. frames[Len(entry) + Len(calls)] = FrameOf(calls[Len(calls)])
  BY <1>1, <1>2 DEF Lengths, FramesAre
<1>5. QED
  BY <1>1, <1>2, <1>3, <1>4 DEF FS!TopOf, Top, Inv, CallsOK, Lengths

-----------------------------------------------------------------------------
(* The ways a step ends.                                                   *)

LEMMA EndsFailed ==
  ASSUME Inv, LexType', Above', UNCHANGED <<entry, calls>>,
         pc' \notin Between \cup InStruct
  PROVE  Inv'
BY DEF Inv, CallsOK, FrameInv, Between

LEMMA StaysAbove ==
  ASSUME Inv, frames' = frames, UNCHANGED entry
  PROVE  Above'
BY DEF Inv, FrameInv, Above

LEMMA EndsFailedHere ==
  ASSUME Inv, FramesStay, UNCHANGED <<entry, calls>>, pc' \notin Between \cup InStruct
  PROVE  Inv'
BY StaysAbove, EndsFailed DEF FramesStay

LEMMA EndsBetween ==
  ASSUME Inv, FramesStay, UNCHANGED <<entry, calls>>, pc \in Between,
         pc' \in Between \ {"firstMember", "nextMember"}
  PROVE  Inv'
<1>1. FramesAre(frames', calls', 0)
  BY DEF Inv, FrameInv, FramesStay, FramesAre
<1>2. FramesAre(frames, calls, 0)'
  BY <1>1 DEF FramesAre
<1>3. QED
  BY <1>2, StaysAbove DEF Inv, CallsOK, FrameInv, FramesStay, Between, InStruct

(* A container of type want has been opened: its call is under way.        *)
LEMMA EndsInside ==
  ASSUME Inv, LexType', pc \in Between, NEW f \in FS!Frame, NEW r, Opened(f, r),
         Enter, UNCHANGED entry,
         f = IF want.kind = "map" THEN "Object" ELSE "Array",
         pc' \in {"value", "item", "firstMember"},
         pc' = "firstMember" => want.kind = "map"
  PROVE  Inv'
<1> DEFINE call == [type |-> want, parts |-> << >>, name |-> NoTag]
           n == Len(calls)
<1>1. Lengths /\ FramesAre(frames, calls, 0) /\ IsList(calls)
  BY InvLengths DEF Inv, FrameInv, CallsOK
<1>2. /\ Above' /\ FramesAre(frames', calls, 1)
      /\ frames'[Len(entry) + n + 1] = f
  BY <1>1, OpenedIs
<1>3. /\ IsList(calls') /\ Len(calls') = n + 1 /\ calls'[n + 1] = call
      /\ \A i \in 1..n : calls'[i] = calls[i]
  BY <1>1, ListAppend DEF Enter
<1>4. "type" \in DOMAIN call /\ call.type = want /\ FrameOf(call) = f
  BY DEF FrameOf
<1> HIDE DEF call
<1>5. CallsOK'
  BY <1>1, <1>3, <1>4 DEF CallsOK, Inv, Lengths
<1>6. FramesAre(frames', calls', 0)
  <2>1. ASSUME NEW j \in 1..(n + 1)
        PROVE  frames'[Len(entry) + j] = FrameOf(calls'[j])
    <3>1. CASE j = n + 1
      BY <1>1, <1>2, <1>3, <1>4, <3>1 DEF Lengths
    <3>2. CASE j \in 1..n
      <4>1. frames'[Len(entry) + j] = FrameOf(calls[j])
        BY <1>2, <3>2 DEF FramesAre
      <4>2. QED
        BY <1>3, <3>2, <4>1
    <3>3. QED
      BY <1>1, <3>1, <3>2 DEF Lengths
  <2>2. QED
    BY <1>1, <1>2, <1>3, <2>1 DEF FramesAre, Lengths
<1>7. calls' # << >> /\ Top' = call
  BY <1>1, <1>3, EmptySeq DEF IsList, Top, Lengths
<1>8. FramesAre(frames, calls, 0)'
  BY <1>6 DEF FramesAre
<1>9. FrameInv'
  BY <1>2, <1>4, <1>7, <1>8 DEF FrameInv, Between, InStruct
<1>10. QED
  BY <1>5, <1>9 DEF Inv

(* The container's own frame has been closed: its call returns.            *)
LEMMA EndsGiven ==
  ASSUME Inv, LexType', pc \in Between, calls # << >>,
         frames' = FS!Popped(frames), UNCHANGED entry, NEW parts, Give(parts)
  PROVE  Inv'
<1> DEFINE n == Len(calls)
<1>1. Lengths /\ FramesAre(frames, calls, 0) /\ IsList(calls)
  BY InvLengths DEF Inv, FrameInv, CallsOK
<1>2. n > 0 /\ frames # << >>
  BY InCall
<1>3. /\ IsList(calls') /\ Len(calls') = n - 1
      /\ \A i \in 1..(n - 1) : calls'[i] = calls[i]
  BY <1>1, ListPop DEF Give
<1>4. Above' /\ FramesAre(frames', calls', 0)
  BY <1>1, <1>2, <1>3, PoppedIs DEF Lengths
<1>5. CallsOK'
  BY <1>1, <1>3 DEF CallsOK, Inv, Lengths
<1>6. FramesAre(frames, calls, 0)'
  BY <1>4 DEF FramesAre
<1>7. QED
  BY <1>4, <1>5, <1>6 DEF Inv, FrameInv, Give, InStruct

LEMMA EndsClosedWrong ==
  ASSUME Inv, LexType', pc \in Between, calls # << >>,
         frames' = FS!Popped(frames), UNCHANGED <<entry, calls>>,
         pc' \notin Between \cup InStruct
  PROVE  Inv'
<1>1. Lengths /\ FramesAre(frames, calls, 0)
  BY InvLengths DEF Inv, FrameInv
<1>2. Len(calls) > 0 /\ frames # << >>
  BY InCall
<1>3. Above'
  BY <1>1, <1>2, PoppedIs DEF Lengths
<1>4. QED
  BY <1>3, EndsFailed

(* The call under way has taken an item or a key.                          *)
LEMMA EndsCollected ==
  ASSUME Inv, FramesStay, pc \in Between, calls # << >>, UNCHANGED entry,
         NEW parts, NEW name, Collect(parts, name),
         pc' \in {"value", "item", "nextMember"},
         pc' = "nextMember" => Top.type.kind = "map"
  PROVE  Inv'
<1> DEFINE n == Len(calls)
<1>1. Lengths /\ FramesAre(frames, calls, 0) /\ IsList(calls)
  BY InvLengths DEF Inv, FrameInv, CallsOK
<1>2. n > 0
  BY InCall
<1>3. /\ IsList(calls') /\ Len(calls') = n
      /\ \A i \in 1..n : "type" \in DOMAIN calls'[i] /\ calls'[i].type = calls[i].type
  <2>1. \A i \in 1..n : "type" \in DOMAIN calls[i]
    BY DEF Inv, CallsOK
  <2>2. Collected(calls, parts, name, calls')
    BY DEF Collect, Collected
  <2>3. QED
    BY <1>1, <2>1, <2>2, ListCollect
<1>4. FramesAre(frames, calls, 0)'
  BY <1>1, <1>3 DEF FramesStay, FramesAre, FrameOf, Lengths
<1>5. calls' # << >> /\ Top'.type = Top.type
  BY <1>1, <1>2, <1>3, EmptySeq DEF IsList, Top, Lengths
<1>6. FrameInv'
  BY <1>4, <1>5, StaysAbove DEF FrameInv, FramesStay, InStruct
<1>7. QED
  BY <1>3, <1>6 DEF Inv, CallsOK, FramesStay

-----------------------------------------------------------------------------
(* One lemma for each action.                                              *)

LEMMA StructKeeps ==
  ASSUME Inv, ReadFields, UNCHANGED typedVars
  PROVE  Inv'
<1>1. LexType' /\ UNCHANGED entry /\ StructStep /\ UNCHANGED calls
  BY ReadFieldsEffect DEF Inv, typedVars
<1>2. Lengths
  BY InvLengths
<1>3. CASE pc = "object" /\ pc' = "firstKey" /\ Opened("Object", "StartObject")
  <2>1. FramesAre(frames, calls, 0)
    BY <1>3 DEF Inv, FrameInv, Between
  <2>2. Above' /\ FramesAre(frames', calls, 1) /\ FS!TopOf(frames') = "Object"
    BY <1>1, <1>3, <2>1, OpenedIs DEF FS!Frame
  <2>3. FramesAre(frames, calls, 1)' /\ FS!TopOf(frames)' = "Object"
    BY <1>1, <2>2 DEF FramesAre, FS!TopOf
  <2>4. QED
    BY <1>1, <1>3, <2>2, <2>3 DEF Inv, CallsOK, FrameInv, Between, InStruct
<1>4. CASE pc \in InStruct /\ pc' \in InStruct /\ frames' = frames
  <2>1. FramesAre(frames, calls, 1)' /\ FS!TopOf(frames)' = "Object"
    BY <1>1, <1>4 DEF Inv, FrameInv, FramesAre, FS!TopOf
  <2>2. QED
    BY <1>1, <1>4, <2>1, StaysAbove DEF Inv, CallsOK, FrameInv, Between, InStruct
<1>5. CASE /\ pc \in InStruct /\ Closes("Object", "Closed")
           /\ pc' = IF FS!TopOf(frames) = "Object" THEN "finish" ELSE "failed"
  <2>1. /\ frames # << >> /\ frames' = FS!Popped(frames)
        /\ FramesAre(frames, calls, 1) /\ pc' = "finish"
    BY <1>5 DEF Inv, FrameInv, Closes
  <2>2. Above' /\ FramesAre(frames', calls, 0)
    BY <1>1, <1>2, <2>1, PoppedIs DEF Lengths
  <2>3. FramesAre(frames, calls, 0)'
    BY <1>1, <2>2 DEF FramesAre
  <2>4. QED
    BY <1>1, <2>1, <2>2, <2>3 DEF Inv, CallsOK, FrameInv, Between, InStruct
<1>6. CASE pc = "finish" /\ pc' = "read" /\ frames' = frames
  BY <1>1, <1>6, EndsBetween DEF FramesStay, Between
<1>7. CASE pc \in InStruct \cup {"object", "finish"} /\ pc' = "failed" /\ frames' = frames
  BY <1>1, <1>7, EndsFailedHere DEF FramesStay, Between, InStruct
<1>8. QED
  BY <1>1, <1>3, <1>4, <1>5, <1>6, <1>7 DEF StructStep

LEMMA OtherKindStays ==
  ASSUME LexType, NEW o \in 0..Len(input), NEW kinds, NEW error, OtherKind(o, kinds, error)
  PROVE  FramesStay
BY ReturnStays, UnexpectedStays DEF OtherKind

LEMMA StringsStay ==
  ASSUME LexType, StrFromLex \/ StringFromLex
  PROVE  FramesStay
<1> DEFINE o == SkipWhitespace(offset)
<1>1. o \in 0..Len(input)
  BY SkipWhitespaceInRange DEF LexType
<1>2. BorrowedString(o) => o + 1 \in 0..Len(input)
  BY <1>1, InsideInput, StringsAreTokens DEF BorrowedString, Strings
<1>3. \/ BorrowedString(o) /\ Return(o + 1, "String")
      \/ Return(o, "InvalidEscape")
      \/ ReadString(o, "String")
      \/ OtherKind(o, Strings \cup {"lone"}, "ExpectedString")
  BY DEF StrFromLex, StringFromLex
<1> HIDE DEF o
<1>4. CASE ReadString(o, "String")
  BY <1>1, <1>4, ReadStringEffect DEF FramesStay, Refused
<1>5. CASE OtherKind(o, Strings \cup {"lone"}, "ExpectedString")
  BY <1>1, <1>5, OtherKindStays
<1>6. QED
  BY <1>1, <1>2, <1>3, <1>4, <1>5, ReturnStays

(* The only scalar reader that opens a frame is (), which fails then.      *)
LEMMA ScalarKeeps == ASSUME Inv, ReadScalar PROVE Inv'
<1>1. /\ pc = "value" /\ UNCHANGED entry /\ UNCHANGED calls
      /\ pc' \in {"read", "failed"}
      /\ want.kind = "()" /\ ret' # "Literal" => pc' = "failed"
  BY DEF ReadScalar, Failed, structRest, typedVars
<1>2. LexType /\ offset \in 0..Len(input)
  BY DEF Inv, LexType
<1>3. CASE FramesStay
  BY <1>1, <1>3, EndsBetween, EndsFailedHere DEF Between, InStruct
<1>4. CASE want.kind = "()" /\ UnitFromLex
  <2>1. /\ LexType'
        /\ \/ Opened("Object", "StartObject") \/ Opened("Array", "StartArray")
           \/ frames' = frames
    BY <1>2, <1>4, ReadValueEffect DEF UnitFromLex, Refused
  <2>2. ASSUME NEW f \in FS!Frame, NEW r, Opened(f, r), r # "Literal"
        PROVE  Inv'
    <3>1. FramesAre(frames, calls, 0)
      BY <1>1 DEF Inv, FrameInv, Between
    <3>2. Above' /\ pc' = "failed"
      BY <1>1, <1>4, <2>2, <3>1, OpenedIs DEF Opened
    <3>3. QED
      BY <1>1, <2>1, <3>2, EndsFailed DEF Between, InStruct
  <2>3. QED
    BY <1>3, <2>1, <2>2 DEF FramesStay, FS!Frame
<1>5. QED
  BY <1>2, <1>3, <1>4, I64FromLexStays, StringsStay DEF ReadScalar

LEMMA OptionKeeps == ASSUME Inv, ReadOption PROVE Inv'
<1> DEFINE o == SkipWhitespace(offset)
<1>1. LexType /\ o \in 0..Len(input)
  BY SkipWhitespaceInRange DEF Inv, LexType
<1>2. Peek(o) = "kw" => o + 1 \in 0..Len(input)
  BY <1>1, InsideInput
<1>3. /\ pc = "value" /\ UNCHANGED entry /\ UNCHANGED calls
      /\ pc' \in {"read", "value", "failed"}
      /\ \/ Peek(o) = "kw" /\ Return(o + 1, "Literal")
         \/ Return(o, "None")
         \/ Unexpected(o)
  BY DEF ReadOption, Failed, structRest, typedVars
<1> HIDE DEF o
<1>4. FramesStay
  BY <1>1, <1>2, <1>3, ReturnStays, UnexpectedStays
<1>5. QED
  BY <1>3, <1>4, EndsBetween, EndsFailedHere DEF Between, InStruct

LEMMA StructEntryKeeps == ASSUME Inv, ReadStruct PROVE Inv'
<1>1. /\ pc = "value" /\ pc' = "object"
      /\ UNCHANGED <<entry, calls>> /\ UNCHANGED lexVars
  BY DEF ReadStruct, structRest, typedVars
<1>2. FramesStay
  BY <1>1 DEF Inv, FramesStay, LexType, lexVars
<1>3. QED
  BY <1>1, <1>2, EndsBetween DEF Between

LEMMA SequenceKeeps == ASSUME Inv, EnterSequence PROVE Inv'
<1>1. /\ LexType' /\ pc = "value" /\ UNCHANGED entry
      /\ want.kind \in ArrayTypes
      /\ \/ Opened("Array", "Open")
         \/ ret' = "Empty" /\ frames' = frames
         \/ Refused
  BY ArrayStartEffect DEF EnterSequence, structRest, Inv
<1>2. \/ ret' = "Empty" /\ pc' = "read" /\ UNCHANGED calls
      \/ ret' = "Open" /\ Enter /\ NextItem(want, 1)
      \/ pc' = "failed" /\ UNCHANGED calls
  BY DEF EnterSequence, Failed, typedVars
<1>3. CASE Opened("Array", "Open")
  <2>1. CASE Enter /\ NextItem(want, 1)
    <3>1. pc' \in {"value", "item"} /\ want.kind # "map"
      BY <1>1, <2>1 DEF NextItem, ItemStep, ArrayTypes
    <3>2. QED
      BY <1>1, <1>3, <2>1, <3>1, EndsInside DEF Between, FS!Frame
  <2>2. CASE pc' = "failed" /\ UNCHANGED calls
    <3>1. FramesAre(frames, calls, 0)
      BY <1>1 DEF Inv, FrameInv, Between
    <3>2. Above'
      BY <1>1, <1>3, <3>1, OpenedIs DEF FS!Frame
    <3>3. QED
      BY <1>1, <2>2, <3>2, EndsFailed DEF Between, InStruct
  <2>3. QED
    BY <1>2, <1>3, <2>1, <2>2 DEF Opened
<1>4. CASE frames' = frames /\ ret' # "Open"
  BY <1>1, <1>2, <1>4, EndsBetween, EndsFailedHere DEF FramesStay, Between, InStruct
<1>5. QED
  BY <1>1, <1>3, <1>4 DEF Refused, ErrorKind

LEMMA FusedItemKeeps == ASSUME Inv, ReadFusedItem PROVE Inv'
<1>1. /\ pc = "item" /\ UNCHANGED <<entry, calls>> /\ pc' \in {"read", "failed"}
      /\ ParseI64Value \/ ParseStrValue
  BY DEF ReadFusedItem, Failed, structRest, typedVars
<1>2. FramesStay
  BY <1>1, ParseI64ValueStays, ParseStrValueStays DEF Inv
<1>3. QED
  BY <1>1, <1>2, EndsBetween, EndsFailedHere DEF Between, InStruct

LEMMA ItemKeeps == ASSUME Inv, TakeItem PROVE Inv'
<1> DEFINE parts == Pushed(Top, ValueRead)
<1>1. /\ pc = "read" /\ calls # << >> /\ Top.type.kind \in ArrayTypes
      /\ UNCHANGED entry /\ ArrayContinue("]")
      /\ \/ ret' = "Closed" /\ Give(parts)
         \/ /\ ret' = "More" /\ Collect(parts, NoTag)
            /\ NextItem(Top.type, Len(parts) + 1)
         \/ pc' = "failed" /\ UNCHANGED calls
  BY DEF TakeItem, structRest, Failed, typedVars
<1> HIDE DEF parts
<1>2. /\ LexType'
      /\ \/ Closes("Array", "Closed")
         \/ ret' = "More" /\ frames' = frames
         \/ Refused
  BY <1>1, ArrayContinueEffect DEF Inv
<1>3. CASE Closes("Array", "Closed")
  <2>1. frames' = FS!Popped(frames) /\ ret' \in {"Closed", "TypeMismatch"}
    BY <1>3 DEF Closes
  <2>2. QED
    BY <1>1, <1>2, <2>1, EndsGiven, EndsClosedWrong DEF Between, InStruct
<1>4. CASE ret' = "More" /\ frames' = frames
  <2>1. CASE Collect(parts, NoTag) /\ NextItem(Top.type, Len(parts) + 1)
    <3>1. pc' \in {"value", "item"}
      BY <2>1 DEF NextItem, ItemStep
    <3>2. QED
      BY <1>1, <1>2, <1>4, <2>1, <3>1, EndsCollected DEF Between, FramesStay
  <2>2. CASE pc' = "failed" /\ UNCHANGED calls
    BY <1>1, <1>2, <1>4, <2>2, EndsFailedHere DEF Between, InStruct, FramesStay
  <2>3. QED
    BY <1>1, <1>4, <2>1, <2>2
<1>5. CASE Refused
  BY <1>1, <1>2, <1>5, EndsFailedHere DEF Refused, ErrorKind, Between, InStruct, FramesStay
<1>6. QED
  BY <1>2, <1>3, <1>4, <1>5

LEMMA MapKeeps == ASSUME Inv, EnterMap PROVE Inv'
<1> DEFINE o == SkipWhitespace(offset)
<1>1. LexType /\ o \in 0..Len(input)
  BY SkipWhitespaceInRange DEF Inv, LexType
<1>2. /\ pc = "value" /\ want.kind = "map" /\ UNCHANGED entry
      /\ \/ ObjectStart
         \/ OtherKind(o, {"{"}, "TypeMismatch")
      /\ \/ ret' = "StartObject" /\ Enter /\ pc' = "firstMember"
         \/ ret' # "StartObject" /\ pc' = "failed" /\ UNCHANGED calls
  BY DEF EnterMap, Failed, structRest, typedVars
<1>3. \/ LexType' /\ Opened("Object", "StartObject")
      \/ FramesStay /\ ret' # "StartObject"
  <2>1. CASE ObjectStart
    BY <1>1, <2>1, ObjectStartEffect DEF Refused, ErrorKind, FramesStay
  <2>2. CASE OtherKind(o, {"{"}, "TypeMismatch")
    <3>1. ret' # "StartObject"
      BY <2>2 DEF OtherKind, Return, Unexpected
    <3>2. QED
      BY <1>1, <2>2, <3>1, OtherKindStays
  <2>3. QED
    BY <1>2, <2>1, <2>2
<1>4. CASE LexType' /\ Opened("Object", "StartObject")
  BY <1>2, <1>4, EndsInside DEF Opened, Between, FS!Frame
<1>5. CASE FramesStay /\ ret' # "StartObject"
  BY <1>2, <1>5, EndsFailedHere DEF Between, InStruct
<1>6. QED
  BY <1>3, <1>4, <1>5

LEMMA MemberKeyKeeps == ASSUME Inv, WalkMember PROVE Inv'
<1> DEFINE name == Decoded[Peek(KeyAt(pc = "firstMember"))]
<1>1. /\ pc \in {"firstMember", "nextMember"} /\ UNCHANGED entry
      /\ ObjectFirstKey(TRUE) \/ ObjectNextKey(TRUE)
      /\ \/ ret' = "Key" /\ Collect(Top.parts, name) /\ pc' = "value"
         \/ ret' = "Closed" /\ Give(Top.parts)
         \/ ret' # "Closed" /\ pc' = "failed" /\ UNCHANGED calls
  BY DEF WalkMember, structRest, Failed, typedVars
<1> HIDE DEF name
<1>2. LexType' /\ KeyWalked
  BY <1>1, ObjectFirstKeyEffect, ObjectNextKeyEffect DEF Inv
<1>3. calls # << >> /\ pc \in Between
  BY <1>1 DEF Inv, FrameInv, Between
<1>4. CASE Closes("Object", "Closed")
  <2>1. frames' = FS!Popped(frames) /\ ret' \in {"Closed", "TypeMismatch"}
    BY <1>4 DEF Closes
  <2>2. QED
    BY <1>1, <1>2, <1>3, <2>1, EndsGiven, EndsClosedWrong DEF Between, InStruct
<1>5. CASE ret' = "Key" /\ frames' = frames
  BY <1>1, <1>2, <1>3, <1>5, EndsCollected, EndsFailedHere
     DEF FramesStay, Between, InStruct
<1>6. CASE Refused
  BY <1>1, <1>2, <1>6, EndsFailedHere DEF Refused, ErrorKind, Between, InStruct, FramesStay
<1>7. QED
  BY <1>2, <1>4, <1>5, <1>6 DEF KeyWalked

LEMMA MemberKeeps == ASSUME Inv, TakeMember PROVE Inv'
<1> DEFINE parts == Append(Top.parts, [is |-> Top.name, parts |-> <<ValueRead>>])
<1>1. /\ pc = "read" /\ calls # << >> /\ Top.type.kind = "map" /\ UNCHANGED entry
      /\ \/ Return(offset, "DuplicateKey") /\ pc' = "failed" /\ UNCHANGED calls
         \/ Collect(parts, NoTag) /\ pc' = "nextMember" /\ UNCHANGED lexVars
  BY DEF TakeMember, structRest, Failed, typedVars
<1> HIDE DEF parts
<1>2. LexType /\ offset \in 0..Len(input)
  BY DEF Inv, LexType
<1>3. CASE Return(offset, "DuplicateKey") /\ pc' = "failed" /\ UNCHANGED calls
  BY <1>1, <1>2, <1>3, ReturnStays, EndsFailedHere DEF Between, InStruct
<1>4. CASE Collect(parts, NoTag) /\ pc' = "nextMember" /\ UNCHANGED lexVars
  <2>1. FramesStay
    BY <1>2, <1>4 DEF FramesStay, LexType, lexVars
  <2>2. QED
    BY <1>1, <1>4, <2>1, EndsCollected DEF Between
<1>5. QED
  BY <1>1, <1>3, <1>4

LEMMA DocumentKeeps == ASSUME Inv, FinishDocument PROVE Inv'
<1> DEFINE o == SkipWhitespace(offset)
<1>1. LexType /\ o \in 0..Len(input)
  BY SkipWhitespaceInRange DEF Inv, LexType
<1>2. /\ pc' \in {"parsed", "refused"} /\ UNCHANGED <<entry, calls>>
      /\ Return(o, "None") \/ Return(o, "TrailingData")
  BY DEF FinishDocument, structRest, typedVars
<1> HIDE DEF o
<1>3. QED
  BY <1>1, <1>2, ReturnStays, EndsFailedHere DEF Between, InStruct

LEMMA InvNext == Inv /\ [TypedNext]_typedReaderVars => Inv'
<1> SUFFICES ASSUME Inv, [TypedNext]_typedReaderVars PROVE Inv'
  OBVIOUS
<1>1. CASE UNCHANGED typedReaderVars
  <2>1. /\ FramesStay /\ UNCHANGED <<entry, calls>> /\ UNCHANGED pc
    BY <1>1 DEF Inv, LexType, FramesStay, typedReaderVars, lexVars, structVars, typedVars
  <2>2. FramesAre(frames, calls, 0)' = FramesAre(frames, calls, 0)
    BY <2>1 DEF FramesStay, FramesAre
  <2>3. FramesAre(frames, calls, 1)' = FramesAre(frames, calls, 1)
    BY <2>1 DEF FramesStay, FramesAre
  <2>4. QED
    BY <2>1, <2>2, <2>3 DEF Inv, CallsOK, FrameInv, FramesStay, Above, Top, FS!TopOf
<1>2. QED
  BY <1>1, StructKeeps, ScalarKeeps, OptionKeeps, StructEntryKeeps, SequenceKeeps,
     FusedItemKeeps, ItemKeeps, MapKeeps, MemberKeyKeeps, MemberKeeps, DocumentKeeps
     DEF TypedNext

-----------------------------------------------------------------------------
LEMMA InvKeepsCaller == Inv => CallerFramesKept
<1> SUFFICES ASSUME Inv PROVE CallerFramesKept
  OBVIOUS
<1> DEFINE n == Len(entry)
           own == [i \in DOMAIN calls |->
                    IF calls[i].type.kind = "map" THEN "Object" ELSE "Array"]
<1>1. /\ Lengths /\ entry \in Seq(FS!Frame) /\ frames \in Seq(FS!Frame)
      /\ Above /\ IsList(calls)
  BY InvLengths DEF Inv, LexType, FrameInv, CallsOK
<1>2. SubSeq(frames, 1, n) = entry
  BY <1>1, PrefixKept DEF Inv
<1>3. ASSUME pc \in {"value", "item", "read", "firstMember", "nextMember"}
      PROVE  frames = entry \o own
  <2>1. FramesAre(frames, calls, 0)
    BY <1>3 DEF Inv, FrameInv, Between
  <2>2. DOMAIN calls = 1..Len(calls)
    BY <1>1, ListProperties
  <2>3. own \in [1..Len(calls) -> FS!Frame]
    BY <2>2 DEF FS!Frame
  <2>4. \A j \in 1..Len(calls) : own[j] = FrameOf(calls[j])
    BY <2>2 DEF FrameOf
  <2> HIDE DEF own
  <2>5. own \in Seq(FS!Frame) /\ Len(own) = Len(calls)
    BY <1>1, <2>3, FunctionIsSeq DEF Lengths
  <2> DEFINE whole == entry \o own
  <2>6. /\ whole \in Seq(FS!Frame)
        /\ Len(whole) = n + Len(calls)
        /\ \A i \in 1..(n + Len(calls)) :
              whole[i] = IF i <= n THEN entry[i] ELSE own[i - n]
    <3>1. /\ whole \in Seq(FS!Frame)
          /\ Len(whole) = n + Len(own)
          /\ \A i \in 1..(n + Len(own)) :
                whole[i] = IF i <= n THEN entry[i] ELSE own[i - n]
      BY <1>1, <2>5, ConcatProperties
    <3> HIDE DEF whole, n
    <3>2. QED
      BY <2>5, <3>1
  <2> HIDE DEF whole
  <2>7. n \in Nat /\ Len(calls) \in Nat /\ Len(frames) = n + Len(calls)
    BY <1>1, <2>1 DEF FramesAre, Lengths
  <2>8. /\ \A i \in 1..n : frames[i] = entry[i]
        /\ \A j \in 1..Len(calls) : frames[n + j] = own[j]
    BY <2>1, <2>4 DEF FramesAre
  <2> HIDE DEF n
  <2>9. ASSUME NEW i \in 1..Len(frames)
        PROVE  frames[i] = whole[i]
    <3>1. CASE i <= n
      BY <2>6, <2>7, <2>8, <3>1
    <3>2. CASE i > n
      <4>1. i - n \in 1..Len(calls) /\ i = n + (i - n)
        BY <2>7, <3>2
      <4>2. frames[i] = own[i - n]
        BY <2>8, <4>1
      <4>3. QED
        BY <2>6, <2>7, <3>2, <4>2
    <3>3. QED
      BY <2>7, <3>1, <3>2
  <2>10. Len(frames) = Len(whole)
    BY <2>6, <2>7
  <2>11. frames = whole
    BY <1>1, <2>6, <2>9, <2>10, SeqEqual
  <2>12. QED
    BY <2>11 DEF whole
<1>4. QED
  BY <1>1, <1>2, <1>3 DEF CallerFramesKept, Above

(* A reader of any type leaves its caller's frames as it found them when   *)
(* it has read the type, works above them until then, and closes none of   *)
(* them when it fails (from_lex of de.rs and of the derive macro).         *)
THEOREM TypedReaderKeepsFrames == TypedSpec => []CallerFramesKept
<1>1. TypedStart => Inv
  BY InvInit
<1>2. Inv /\ [TypedNext]_typedReaderVars => Inv'
  BY InvNext
<1>3. Inv => CallerFramesKept
  BY InvKeepsCaller
<1>4. QED
  BY <1>1, <1>2, <1>3, PTL DEF TypedSpec

-----------------------------------------------------------------------------
(* Enums.  Every mode reads a variant's body with the frames it has then:  *)
(* the caller's alone, or with the enum's own object above them.           *)

(* The caller's frames and k more.                                         *)
Nested(k) ==
  /\ Len(frames) = Len(entry) + k
  /\ \A i \in 1..Len(entry) : frames[i] = entry[i]

EnumBase ==
  /\ LexType
  /\ entry \in Seq(FS!Frame)
  /\ Above

LEMMA NestedStays ==
  ASSUME EnumBase, FramesStay, UNCHANGED entry
  PROVE  EnumBase' /\ (\A k \in Nat : Nested(k) => Nested(k)')
BY DEF EnumBase, FramesStay, Above, Nested

LEMMA NestedOpened ==
  ASSUME EnumBase, LexType', UNCHANGED entry,
         NEW f \in FS!Frame, NEW r, Opened(f, r), NEW k \in Nat, Nested(k)
  PROVE  EnumBase' /\ Nested(k + 1)'
<1>1. frames \in Seq(FS!Frame) /\ Len(entry) \in Nat
  BY LenProperties DEF EnumBase, LexType
<1>2. Len(frames') = Len(frames) + 1 /\ \A i \in 1..Len(frames) : frames'[i] = frames[i]
  BY <1>1, AppendProperties DEF Opened
<1>3. QED
  BY <1>1, <1>2 DEF EnumBase, Above, Nested

LEMMA NestedClosed ==
  ASSUME EnumBase, LexType', UNCHANGED entry,
         NEW f, NEW r, Closes(f, r), NEW k \in Nat, Nested(k + 1)
  PROVE  EnumBase' /\ Nested(k)'
<1>1. frames \in Seq(FS!Frame) /\ frames # << >> /\ Len(entry) \in Nat
  BY LenProperties DEF EnumBase, LexType, Closes
<1>2. /\ Len(frames') = Len(frames) - 1
      /\ \A i \in 1..(Len(frames) - 1) : frames'[i] = frames[i]
  BY <1>1, PoppedProperties DEF Closes
<1>3. QED
  BY <1>1, <1>2 DEF EnumBase, Above, Nested

(* Going back to a checkpoint that was taken k frames above the caller's.  *)
CheckpointAt(cp, k) ==
  /\ cp.offset \in 0..Len(input)
  /\ cp.depth = Len(entry) + k

LEMMA NestedRestored ==
  ASSUME EnumBase, UNCHANGED entry, NEW k \in Nat, NEW cp,
         cp.offset \in 0..Len(input), cp.depth = Len(entry) + k, Restore(cp)
  PROVE  /\ EnumBase'
         /\ Len(frames) >= Len(entry) + k => Nested(k)'
         /\ Nested(0) => Nested(0)'
<1>1. Len(frames) \in Nat /\ Len(entry) \in Nat
  BY LenProperties DEF EnumBase, LexType
<1>2. /\ LexType'
      /\ Len(frames') = IF cp.depth <= Len(frames) THEN cp.depth ELSE Len(frames)
      /\ \A i \in 1..Len(frames') : frames'[i] = frames[i]
  BY <1>1, RestoreEffect DEF EnumBase
<1>3. QED
  BY <1>1, <1>2 DEF EnumBase, Above, Nested

LEMMA NestedIsEntry ==
  ASSUME EnumBase, Nested(0)
  PROVE  frames = entry
<1>1. Len(frames) = Len(entry) /\ \A i \in 1..Len(frames) : frames[i] = entry[i]
  BY LenProperties DEF EnumBase, Nested
<1>2. QED
  BY <1>1, SeqEqual DEF EnumBase, LexType

-----------------------------------------------------------------------------
(* The body of a variant, k frames above the caller's.                     *)

BodyBetween == {"object", "newtype", "tuple", "null", "finish", "read"}
BodyInside  == InStruct \cup {"first", "comma", "second", "close"}

BodyAt(k) ==
  /\ pc \in BodyBetween => Nested(k)
  /\ pc \in BodyInside  => Nested(k + 1)

LEMMA BodyEntered ==
  ASSUME NEW v, v \in Variants, NEW tag, NEW reject, EnterBody(v, tag, reject),
         NEW k \in Nat, Nested(k)'
  PROVE  BodyAt(k)' /\ step' = "body" /\ UNCHANGED entry
<1>1. Shape[v] \in {"unit", "newtype", "tuple", "struct"}
  BY EnumAssumption DEF Variants
<1>2. pc' \in BodyBetween
  BY <1>1 DEF EnterBody, BodyBetween
<1>3. QED
  BY <1>2 DEF EnterBody, BodyAt, BodyBetween, BodyInside, InStruct

(* How a step of a body ends.                                              *)
LEMMA BodyStays ==
  ASSUME EnumBase, FramesStay, UNCHANGED entry, NEW k \in Nat, BodyAt(k),
         \/ pc \in BodyBetween /\ pc' \in BodyBetween
         \/ pc \in BodyInside /\ pc' \in BodyInside
         \/ pc' = "failed"
  PROVE  EnumBase' /\ BodyAt(k)'
<1>1. k + 1 \in Nat
  OBVIOUS
<1>2. QED
  BY <1>1, NestedStays DEF BodyAt, BodyBetween, BodyInside, InStruct

LEMMA BodyOpens ==
  ASSUME EnumBase, LexType', UNCHANGED entry, NEW k \in Nat, BodyAt(k),
         NEW f \in FS!Frame, NEW r, Opened(f, r), pc \in BodyBetween,
         pc' \in BodyInside \cup {"failed"}
  PROVE  EnumBase' /\ BodyAt(k)'
<1>1. EnumBase' /\ Nested(k + 1)'
  BY NestedOpened DEF BodyAt
<1>2. QED
  BY <1>1 DEF BodyAt, BodyBetween, BodyInside, InStruct

LEMMA BodyCloses ==
  ASSUME EnumBase, LexType', UNCHANGED entry, NEW k \in Nat, BodyAt(k),
         NEW f, NEW r, Closes(f, r), pc \in BodyInside,
         pc' \in BodyBetween \cup {"failed"}
  PROVE  EnumBase' /\ BodyAt(k)'
<1>1. EnumBase' /\ Nested(k)'
  BY NestedClosed DEF BodyAt
<1>2. QED
  BY <1>1 DEF BodyAt, BodyBetween, BodyInside, InStruct

LEMMA BodyKeeps ==
  ASSUME EnumBase, NEW k \in Nat, BodyAt(k), ReadBody
  PROVE  EnumBase' /\ BodyAt(k)' /\ UNCHANGED entry /\ UNCHANGED enumVars
<1> SUFFICES EnumBase' /\ BodyAt(k)' /\ UNCHANGED entry
  BY DEF ReadBody
<1>1. LexType /\ offset \in 0..Len(input)
  BY DEF EnumBase, LexType
<1>2. CASE ReadFields
  <2>1. LexType' /\ UNCHANGED entry /\ StructStep
    BY <1>1, <1>2, ReadFieldsEffect
  <2>2. CASE pc = "object" /\ pc' = "firstKey" /\ Opened("Object", "StartObject")
    BY <2>1, <2>2, BodyOpens DEF BodyBetween, BodyInside, InStruct, FS!Frame
  <2>3. CASE pc \in InStruct /\ pc' \in InStruct /\ frames' = frames
    BY <2>1, <2>3, BodyStays DEF FramesStay, BodyInside
  <2>4. CASE /\ pc \in InStruct /\ Closes("Object", "Closed")
             /\ pc' = IF FS!TopOf(frames) = "Object" THEN "finish" ELSE "failed"
    BY <2>1, <2>4, BodyCloses DEF BodyBetween, BodyInside
  <2>5. CASE pc = "finish" /\ pc' = "read" /\ frames' = frames
    BY <2>1, <2>5, BodyStays DEF FramesStay, BodyBetween
  <2>6. CASE /\ pc \in InStruct \cup {"object", "finish"} /\ pc' = "failed"
             /\ frames' = frames
    BY <2>1, <2>6, BodyStays DEF FramesStay
  <2>7. QED
    BY <2>1, <2>2, <2>3, <2>4, <2>5, <2>6 DEF StructStep
<1>3. CASE Newtype /\ UNCHANGED entry
  <2>1. FramesStay /\ pc = "newtype" /\ pc' \in {"read", "failed"}
    BY <1>1, <1>3, I64FromLexStays DEF Newtype, Then
  <2>2. QED
    BY <1>3, <2>1, BodyStays DEF BodyBetween
<1>4. CASE Null /\ UNCHANGED entry
  <2>1. /\ LexType'
        /\ \/ Opened("Object", "StartObject")
           \/ Opened("Array", "StartArray")
           \/ ret' \in Scalar /\ frames' = frames
           \/ Refused
    BY <1>1, <1>4, ReadValueEffect DEF Null
  <2>2. /\ pc = "null" /\ pc' \in {"read", "failed"}
        /\ ret' # "Literal" => pc' = "failed"
    BY <1>4 DEF Null
  <2>3. CASE Opened("Object", "StartObject")
    BY <1>4, <2>1, <2>2, <2>3, BodyOpens DEF Opened, BodyBetween, FS!Frame
  <2>4. CASE Opened("Array", "StartArray")
    BY <1>4, <2>1, <2>2, <2>4, BodyOpens DEF Opened, BodyBetween, FS!Frame
  <2>5. CASE frames' = frames
    BY <1>4, <2>1, <2>2, <2>5, BodyStays DEF FramesStay, BodyBetween
  <2>6. QED
    BY <2>1, <2>3, <2>4, <2>5 DEF Refused
<1>5. CASE Tuple /\ UNCHANGED entry
  <2>1. CASE pc = "tuple" /\ ArrayStart /\ pc' = IF ret' = "Open" THEN "first" ELSE "failed"
    <3>1. LexType' /\ (Opened("Array", "Open") \/ (frames' = frames /\ ret' # "Open"))
      BY <1>1, <2>1, ArrayStartEffect DEF Refused, ErrorKind
    <3>2. CASE Opened("Array", "Open")
      BY <1>5, <2>1, <3>1, <3>2, BodyOpens DEF BodyBetween, BodyInside, FS!Frame
    <3>3. CASE frames' = frames /\ ret' # "Open"
      BY <1>5, <2>1, <3>1, <3>3, BodyStays DEF FramesStay
    <3>4. QED
      BY <3>1, <3>2, <3>3
  <2>2. CASE pc \in {"first", "second"} /\ I64FromLex(offset) /\ pc' \in {"comma", "close", "failed"}
    BY <1>1, <1>5, <2>2, I64FromLexStays, BodyStays DEF BodyInside
  <2>3. CASE /\ pc \in {"comma", "close"} /\ ArrayContinue("]")
             /\ pc' \in {"second", "read", "failed"}
             /\ pc' = "second" => ret' = "More"
             /\ pc' = "read" => ret' = "Closed"
    <3>1. /\ LexType'
          /\ \/ Closes("Array", "Closed")
             \/ frames' = frames /\ ret' # "Closed"
      BY <1>1, <2>3, ArrayContinueEffect DEF Refused, ErrorKind
    <3>2. CASE Closes("Array", "Closed")
      <4>1. pc' \in {"read", "failed"}
        BY <2>3, <3>2 DEF Closes
      <4>2. QED
        BY <1>5, <2>3, <3>1, <3>2, <4>1, BodyCloses DEF BodyBetween, BodyInside
    <3>3. CASE frames' = frames /\ ret' # "Closed"
      BY <1>5, <2>3, <3>1, <3>3, BodyStays DEF FramesStay, BodyInside
    <3>4. QED
      BY <3>1, <3>2, <3>3
  <2>4. QED
    BY <1>5, <2>1, <2>2, <2>3 DEF Tuple, Then
<1>6. QED
  BY <1>2, <1>3, <1>4, <1>5 DEF ReadBody

-----------------------------------------------------------------------------
(* The steps the modes share.                                              *)

LEMMA EnumBegins ==
  ASSUME EnumInit
  PROVE  EnumBase /\ Nested(0) /\ Checkpoint.offset \in 0..Len(input)
           /\ CheckpointAt(Checkpoint, 0) /\ step = "enum"
<1>1. /\ input \in Seq(Token) /\ entry \in Seq(FS!Frame) /\ Len(entry) <= MaxDepth
      /\ frames = entry /\ offset = 0
  BY LexerAssumption, EnteredAssumption DEF EnumInit, StructInit
<1>2. Len(input) \in Nat /\ Len(entry) \in Nat
  BY <1>1, LenProperties
<1>3. QED
  BY <1>1, <1>2 DEF EnumInit, EnumBase, LexType, Above, Nested, Checkpoint, CheckpointAt

LEMMA CheckpointIsAt ==
  ASSUME EnumBase, NEW k \in Nat, Nested(k)
  PROVE  CheckpointAt(Checkpoint, k)
BY DEF EnumBase, LexType, Nested, Checkpoint, CheckpointAt

LEMMA NameIsText ==
  ASSUME NEW t, t \in Variants
  PROVE  t # NoTag
<1>1. \A i \in DOMAIN Order : Order[i] \in {Decoded[s] : s \in DOMAIN Decoded}
  BY EnumAssumption, ElementOfSeq, LenProperties
<1>2. QED
  BY <1>1, StructAssumption DEF Variants

LEMMA ReadStringNoValidateStays ==
  ASSUME LexType, NEW o \in 0..Len(input), ReadStringNoValidate(o)
  PROVE  FramesStay
<1>1. Peek(o) \in Strings \cup {"lone", "unopened"} => o + 1 \in 0..Len(input)
  BY InsideInput, StringsAreTokens
<1>2. QED
  BY <1>1, ReturnStays, UnexpectedStays DEF ReadStringNoValidate

(* A key is walked one frame above the caller's.                           *)
LEMMA WalkedAt ==
  ASSUME EnumBase, Nested(1), UNCHANGED entry,
         ObjectFirstKey(TRUE) \/ ObjectNextKey(TRUE)
  PROVE  /\ EnumBase'
         /\ ret' = "Closed" => Nested(0)'
         /\ ret' = "Key" => Nested(1)' /\ FramesStay
<1>1. LexType /\ Nested(0 + 1)
  BY DEF EnumBase
<1>2. LexType' /\ KeyWalked
  BY <1>1, ObjectFirstKeyEffect, ObjectNextKeyEffect
<1>3. CASE Closes("Object", "Closed")
  <2>1. EnumBase' /\ Nested(0)' /\ ret' # "Key"
    BY <1>1, <1>2, <1>3, NestedClosed DEF Closes
  <2>2. QED
    BY <2>1
<1>4. CASE frames' = frames /\ ret' # "Closed"
  BY <1>2, <1>4, NestedStays DEF FramesStay
<1>5. QED
  BY <1>2, <1>3, <1>4 DEF KeyWalked, Refused, ErrorKind

LEMMA OpenedAt ==
  ASSUME EnumBase, Nested(0), UNCHANGED entry, ObjectStart
  PROVE  /\ EnumBase'
         /\ ret' \notin ReaderError => Nested(1)'
<1>1. LexType' /\ (Opened("Object", "StartObject") \/ Refused)
  BY ObjectStartEffect DEF EnumBase
<1>2. CASE Opened("Object", "StartObject")
  BY <1>1, <1>2, NestedOpened DEF FS!Frame
<1>3. CASE Refused
  BY <1>1, <1>3, NestedStays DEF Refused, FramesStay, ReaderError
<1>4. QED
  BY <1>1, <1>2, <1>3

LEMMA MethodKeepsInput ==
  ASSUME \/ ObjectStart
         \/ ObjectFirstKey(TRUE)
         \/ ObjectNextKey(TRUE)
         \/ SkipOneValue
         \/ \E o : ReadStringNoValidate(o)
         \/ \E cp : Restore(cp)
  PROVE  UNCHANGED input
BY DEF ObjectStart, ObjectFirstKey, ObjectNextKey, KeyThenColon, ExpectColon, SkipOneValue,
       ReadStringNoValidate, Restore, PushFrame, PopFrame, Return, Unexpected

LEMMA BodyKeepsInput == ReadBody => UNCHANGED input
BY DEF ReadBody, ReadFields, ReadObject, WalkKey, DecodeKey, FieldArm, TagArm, UnknownArm,
       Finish, Fail, Acquire, ParseI64Value, ParseStrValue, I64FromLex, SkipOneValue,
       Newtype, Tuple, Null, ReadValue, ReadString, ArrayStart, ArrayContinue,
       ObjectStart, ObjectFirstKey, ObjectNextKey, KeyThenColon, ExpectColon,
       PushFrame, PopFrame, Return, Unexpected, lexVars

-----------------------------------------------------------------------------
(* The default tagging: the body is read inside the enum's own object.     *)

ExternalInv ==
  /\ EnumBase
  /\ step \in {"enum", "built"} => Nested(0)
  /\ step = "key" => Nested(1)
  /\ step = "body" => BodyAt(1)

LEMMA ExternalKeeps == ExternalInv /\ [ExternalNext]_externalVars => ExternalInv'
<1> SUFFICES ASSUME ExternalInv, [ExternalNext]_externalVars PROVE ExternalInv'
  OBVIOUS
<1>1. /\ EnumBase /\ LexType /\ offset \in 0..Len(input)
      /\ SkipWhitespace(offset) \in 0..Len(input)
  BY SkipWhitespaceInRange DEF ExternalInv, EnumBase, LexType
<1>2. CASE DispatchString
  <2>1. FramesStay /\ step = "enum" /\ step' \in {"built", "failed"} /\ UNCHANGED entry
    BY <1>1, <1>2, ReadStringNoValidateStays DEF DispatchString, Go, structVars
  <2>2. QED
    BY <1>1, <2>1, NestedStays DEF ExternalInv
<1>3. CASE DispatchObject
  <2>1. /\ ObjectStart /\ step = "enum" /\ UNCHANGED entry
        /\ step' = IF ret' \in ReaderError THEN "failed" ELSE "key"
    BY <1>3 DEF DispatchObject, Go, structVars
  <2>2. QED
    BY <1>1, <2>1, OpenedAt DEF ExternalInv
<1>4. CASE DispatchNothing
  <2>1. FramesStay /\ step' = "failed" /\ UNCHANGED entry
    BY <1>1, <1>4, ReturnStays, UnexpectedStays DEF DispatchNothing, structVars
  <2>2. QED
    BY <1>1, <2>1, NestedStays DEF ExternalInv
<1>5. CASE VariantKey
  <2>1. /\ step = "key" /\ ObjectFirstKey(TRUE)
        /\ ret' # "Key" => key' = NoTag
        /\ \/ key' \in Data /\ EnterBody(key', NoTag, DenyUnknown)
           \/ step' = "failed" /\ UNCHANGED entry
    BY <1>5 DEF VariantKey
  <2>2. CASE key' \in Data /\ EnterBody(key', NoTag, DenyUnknown)
    <3>1. key' \in Variants /\ ret' = "Key" /\ UNCHANGED entry
      BY <2>1, <2>2, NameIsText DEF Data, EnterBody
    <3>2. EnumBase' /\ Nested(1)'
      BY <1>1, <2>1, <3>1, WalkedAt DEF ExternalInv
    <3>3. BodyAt(1)' /\ step' = "body"
      BY <2>2, <3>1, <3>2, BodyEntered
    <3>4. QED
      BY <3>2, <3>3 DEF ExternalInv
  <2>3. CASE step' = "failed" /\ UNCHANGED entry
    BY <1>1, <2>1, <2>3, WalkedAt DEF ExternalInv
  <2>4. QED
    BY <2>1, <2>2, <2>3
<1>6. CASE ReadBody
  <2>1. step = "body" /\ UNCHANGED step
    BY <1>6 DEF ReadBody, enumVars
  <2>2. QED
    BY <1>6, <2>1, BodyKeeps DEF ExternalInv
<1>7. CASE CheckOnlyMember
  <2>1. /\ Nested(1) /\ ObjectNextKey(TRUE) /\ UNCHANGED entry
        /\ step' = IF ret' = "Closed" THEN "built" ELSE "failed"
    BY <1>7 DEF CheckOnlyMember, BodyRead, ExternalInv, BodyAt, BodyBetween, structVars
  <2>2. QED
    BY <1>1, <2>1, WalkedAt DEF ExternalInv
<1>8. CASE UNCHANGED externalVars
  <2>1. FramesStay /\ UNCHANGED entry /\ UNCHANGED <<step, pc>>
    BY <1>1, <1>8 DEF externalVars, readerVars, lexVars, structVars, enumVars, LexType,
                      FramesStay
  <2>2. QED
    BY <1>1, <2>1, NestedStays DEF ExternalInv, BodyAt
<1>9. QED
  BY <1>2, <1>3, <1>4, <1>5, <1>6, <1>7, <1>8 DEF ExternalNext

-----------------------------------------------------------------------------
(* Internal tagging: the scan opens the object, going back to the start    *)
(* leaves it, and the body opens it again.                                 *)

InternalInv ==
  /\ EnumBase
  /\ CheckpointAt(start, 0)
  /\ step \in {"enum", "unitObject", "built"} => Nested(0)
  /\ step \in {"scanFirst", "scanNext", "scanSkip", "tagValue", "dispatch",
               "unitFirst", "unitNext", "unitTag"} => Nested(1)
  /\ step = "body" => BodyAt(0)

LEMMA InternalKeeps == InternalInv /\ [InternalNext]_internalVars => InternalInv'
<1> SUFFICES ASSUME InternalInv, [InternalNext]_internalVars PROVE InternalInv'
  OBVIOUS
<1>1. /\ EnumBase /\ LexType /\ offset \in 0..Len(input) /\ CheckpointAt(start, 0)
      /\ Len(entry) \in Nat
  BY LenProperties DEF InternalInv, EnumBase, LexType
<1>2. ASSUME UNCHANGED <<input, start, entry>>
      PROVE  CheckpointAt(start, 0)'
  BY <1>1, <1>2 DEF CheckpointAt
<1>3. CASE Scan
  <2>1. /\ ObjectStart /\ step = "enum" /\ UNCHANGED <<input, entry>>
        /\ step' = IF ret' \in ReaderError THEN "failed" ELSE "scanFirst"
        /\ start' = Checkpoint
    BY <1>3, MethodKeepsInput DEF Scan, Go, structVars
  <2>2. CheckpointAt(start, 0)'
    BY <1>1, <2>1, CheckpointIsAt DEF InternalInv, CheckpointAt
  <2>3. QED
    BY <1>1, <2>1, <2>2, OpenedAt DEF InternalInv
<1>4. CASE ScanKey
  <2>1. /\ ObjectFirstKey(TRUE) \/ ObjectNextKey(TRUE)
        /\ step \in {"scanFirst", "scanNext"} /\ UNCHANGED <<input, start, entry>>
        /\ step' \in {"tagValue", "scanSkip", "failed"}
        /\ step' \in {"tagValue", "scanSkip"} => ret' = "Key"
    BY <1>4, MethodKeepsInput DEF ScanKey, WalkKeyLex
  <2>2. QED
    BY <1>1, <1>2, <2>1, WalkedAt DEF InternalInv
<1>5. CASE ScanSkip \/ UnitTag
  <2>1. /\ SkipOneValue /\ step \in {"scanSkip", "unitTag"}
        /\ UNCHANGED <<input, start, entry>> /\ step' \in {"scanNext", "unitNext", "failed"}
    BY <1>5, MethodKeepsInput DEF ScanSkip, UnitTag, Go, structVars
  <2>2. FramesStay
    BY <1>1, <2>1, SkipOneValueStays
  <2>3. QED
    BY <1>1, <1>2, <2>1, <2>2, NestedStays DEF InternalInv
<1>6. CASE ScanTag
  <2>1. /\ ReadStringNoValidate(offset) /\ step = "tagValue"
        /\ UNCHANGED <<input, start, entry>> /\ step' \in {"dispatch", "failed"}
    BY <1>6, MethodKeepsInput DEF ScanTag, Go, structVars
  <2>2. FramesStay
    BY <1>1, <2>1, ReadStringNoValidateStays
  <2>3. QED
    BY <1>1, <1>2, <2>1, <2>2, NestedStays DEF InternalInv
<1>7. CASE Dispatch
  <2>1. /\ Restore(start) /\ step = "dispatch" /\ UNCHANGED <<input, start>>
        /\ \/ variant \in Data /\ EnterBody(variant, Tag, DenyUnknown)
           \/ step' \in {"unitObject", "failed"} /\ UNCHANGED entry
    BY <1>7, MethodKeepsInput DEF Dispatch
  <2>2. UNCHANGED entry
    BY <2>1 DEF EnterBody
  <2>3. EnumBase' /\ Nested(0)'
    <3>1. Len(frames) >= Len(entry) + 0
      BY <1>1, <2>1 DEF InternalInv, Nested
    <3>2. start.offset \in 0..Len(input) /\ start.depth = Len(entry) + 0
      BY <1>1 DEF CheckpointAt
    <3>3. QED
      BY <1>1, <2>1, <2>2, <3>1, <3>2, NestedRestored
  <2>4. CASE variant \in Data /\ EnterBody(variant, Tag, DenyUnknown)
    <3>1. variant \in Variants
      BY <2>4 DEF Data
    <3>2. BodyAt(0)' /\ step' = "body"
      BY <2>3, <2>4, <3>1, BodyEntered
    <3>3. QED
      BY <1>2, <2>1, <2>2, <2>3, <3>2 DEF InternalInv
  <2>5. CASE step' \in {"unitObject", "failed"}
    BY <1>2, <2>1, <2>2, <2>3, <2>5 DEF InternalInv
  <2>6. QED
    BY <2>1, <2>4, <2>5
<1>8. CASE UnitObject
  <2>1. /\ ObjectStart /\ step = "unitObject" /\ UNCHANGED <<input, start, entry>>
        /\ step' = IF ret' \in ReaderError THEN "failed" ELSE "unitFirst"
    BY <1>8, MethodKeepsInput DEF UnitObject, Go, structVars
  <2>2. QED
    BY <1>1, <1>2, <2>1, OpenedAt DEF InternalInv
<1>9. CASE UnitKey
  <2>1. /\ ObjectFirstKey(TRUE) \/ ObjectNextKey(TRUE)
        /\ step \in {"unitFirst", "unitNext"} /\ UNCHANGED <<input, start, entry>>
        /\ step' \in {"built", "unitTag", "failed"}
        /\ step' = "built" => ret' = "Closed"
        /\ step' = "unitTag" => ret' = "Key"
    BY <1>9, MethodKeepsInput DEF UnitKey, WalkKeyLex
  <2>2. QED
    BY <1>1, <1>2, <2>1, WalkedAt DEF InternalInv
<1>10. CASE InternalBuilt
  <2>1. /\ FramesStay /\ Nested(0) /\ UNCHANGED <<input, start, entry>> /\ step' = "built"
    BY <1>1, <1>10 DEF InternalBuilt, BodyRead, InternalInv, BodyAt, BodyBetween, lexVars,
                       structVars, FramesStay, LexType
  <2>2. QED
    BY <1>1, <1>2, <2>1, NestedStays DEF InternalInv
<1>11. CASE ReadBody /\ UNCHANGED start
  <2>1. step = "body" /\ UNCHANGED step /\ UNCHANGED input
    BY <1>11, BodyKeepsInput DEF ReadBody, enumVars
  <2>2. EnumBase' /\ BodyAt(0)' /\ UNCHANGED entry
    BY <1>1, <1>11, <2>1, BodyKeeps DEF InternalInv
  <2>3. QED
    BY <1>2, <1>11, <2>1, <2>2 DEF InternalInv
<1>12. CASE UNCHANGED internalVars
  <2>1. FramesStay /\ UNCHANGED <<input, start, entry>> /\ UNCHANGED <<step, pc>>
    BY <1>1, <1>12 DEF internalVars, readerVars, lexVars, structVars, enumVars, LexType,
                       FramesStay
  <2>2. QED
    BY <1>1, <1>2, <2>1, NestedStays DEF InternalInv, BodyAt
<1>13. QED
  BY <1>3, <1>4, <1>5, <1>6, <1>7, <1>8, <1>9, <1>10, <1>11, <1>12 DEF InternalNext

-----------------------------------------------------------------------------
(* Adjacent tagging: a content read where it stands is inside the object;  *)
(* one read from its checkpoint comes after the object has been closed,    *)
(* and going back does not open it again.                                  *)

AdjacentInv ==
  /\ EnumBase
  /\ content = NoCheckpoint \/ CheckpointAt(content, 1)
  /\ step \in {"enum", "built"} => Nested(0)
  /\ step \in {"firstKey", "nextKey", "tagValue", "skip"} => Nested(1)
  /\ step = "match" =>
       IF early THEN Nested(1) /\ content # NoCheckpoint ELSE Nested(0)
  /\ step = "body" =>
       IF early THEN BodyAt(1) ELSE BodyAt(0) /\ CheckpointAt(post, 0)
  /\ step = "rest" =>
       IF early THEN Nested(1) ELSE Nested(0) /\ CheckpointAt(post, 0)

LEMMA AdjacentKeeps == AdjacentInv /\ [AdjacentNext]_adjacentVars => AdjacentInv'
<1> SUFFICES ASSUME AdjacentInv, [AdjacentNext]_adjacentVars PROVE AdjacentInv'
  OBVIOUS
<1>1. /\ EnumBase /\ LexType /\ offset \in 0..Len(input)
      /\ Len(entry) \in Nat
      /\ content = NoCheckpoint \/ CheckpointAt(content, 1)
  BY LenProperties DEF AdjacentInv, EnumBase, LexType
<1>2. ASSUME UNCHANGED <<input, content, entry>>
      PROVE  (content = NoCheckpoint \/ CheckpointAt(content, 1))'
  BY <1>1, <1>2 DEF CheckpointAt, NoCheckpoint
<1>3. CASE Start
  <2>1. /\ ObjectStart /\ step = "enum" /\ UNCHANGED <<input, content, entry>>
        /\ step' = IF ret' \in ReaderError THEN "failed" ELSE "firstKey"
    BY <1>3, MethodKeepsInput DEF Start, Go, structVars, cps
  <2>2. QED
    BY <1>1, <1>2, <2>1, OpenedAt DEF AdjacentInv
<1>4. CASE WalkTagOrContent
  <2>1. /\ ObjectFirstKey(TRUE) \/ ObjectNextKey(TRUE)
        /\ step \in {"firstKey", "nextKey"} /\ UNCHANGED <<input, entry>>
        /\ ret' # "Key" => key' = NoTag
        /\ content' = IF key' = Content /\ content = NoCheckpoint THEN Checkpoint'
                      ELSE content
        /\ early' = (key' = Content /\ variant # NoTag)
    BY <1>4, MethodKeepsInput DEF WalkTagOrContent, WalkKeyLex
  <2>2. /\ step' \in {"match", "tagValue", "skip", "failed"}
        /\ step' = "match" => \/ ret' = "Closed"
                              \/ key' = Content /\ content = NoCheckpoint /\ early'
        /\ step' \in {"tagValue", "skip"} => key' \in {Tag, Content}
    BY <1>4 DEF WalkTagOrContent
  <2>3. /\ EnumBase'
        /\ ret' = "Closed" => Nested(0)'
        /\ ret' = "Key" => Nested(1)'
    BY <1>1, <2>1, WalkedAt DEF AdjacentInv
  <2>4. NoTag \notin {Tag, Content}
    BY EnumAssumption
  <2>5. key' = Content => CheckpointAt(Checkpoint, 1)'
    BY <2>1, <2>3, <2>4 DEF EnumBase, LexType, Nested, Checkpoint, CheckpointAt
  <2>6. (content = NoCheckpoint \/ CheckpointAt(content, 1))'
    BY <1>1, <2>1, <2>5 DEF CheckpointAt, NoCheckpoint
  <2>7. step' = "match" => IF early' THEN Nested(1)' /\ content' # NoCheckpoint
                           ELSE Nested(0)'
    <3>1. CASE ret' = "Closed"
      BY <2>1, <2>3, <2>4, <3>1
    <3>2. CASE key' = Content /\ content = NoCheckpoint /\ early'
      <4>1. Nested(1)' /\ content' = Checkpoint'
        BY <2>1, <2>3, <2>4, <3>2
      <4>2. Checkpoint'.depth = Len(entry)' + 1 /\ NoCheckpoint.depth = 0
        BY <4>1 DEF Checkpoint, Nested, NoCheckpoint
      <4>3. QED
        BY <1>1, <2>1, <3>2, <4>1, <4>2
    <3>3. QED
      BY <2>2, <3>1, <3>2
  <2>8. step' \in {"tagValue", "skip"} => Nested(1)'
    BY <2>1, <2>2, <2>3, <2>4
  <2>9. QED
    BY <2>2, <2>3, <2>6, <2>7, <2>8 DEF AdjacentInv, NoCheckpoint
<1>5. CASE ReadTag
  <2>1. /\ ReadStringNoValidate(offset) /\ step = "tagValue"
        /\ UNCHANGED <<input, content, entry>> /\ step' \in {"nextKey", "failed"}
    BY <1>5, MethodKeepsInput DEF ReadTag, Go, structVars, cps
  <2>2. FramesStay
    BY <1>1, <2>1, ReadStringNoValidateStays
  <2>3. QED
    BY <1>1, <1>2, <2>1, <2>2, NestedStays DEF AdjacentInv
<1>6. CASE SkipContent
  <2>1. /\ SkipOneValue /\ step = "skip"
        /\ UNCHANGED <<input, content, entry>> /\ step' \in {"nextKey", "failed"}
    BY <1>6, MethodKeepsInput DEF SkipContent, Go, structVars, cps
  <2>2. FramesStay
    BY <1>1, <2>1, SkipOneValueStays
  <2>3. QED
    BY <1>1, <1>2, <2>1, <2>2, NestedStays DEF AdjacentInv
<1>7. CASE MatchUnit
  <2>1. /\ step = "match" /\ UNCHANGED <<input, content, entry, early>>
        /\ step' = IF content = NoCheckpoint THEN "rest" ELSE "failed"
        /\ post' = Checkpoint /\ FramesStay
    BY <1>1, <1>7 DEF MatchUnit, lexVars, structVars, LexType, FramesStay
  <2>2. content = NoCheckpoint => ~ early /\ Nested(0) /\ CheckpointAt(Checkpoint, 0)
    BY <1>1, <2>1, CheckpointIsAt DEF AdjacentInv
  <2>3. content = NoCheckpoint => CheckpointAt(post, 0)'
    BY <2>1, <2>2 DEF CheckpointAt
  <2>4. EnumBase' /\ (content = NoCheckpoint => Nested(0)')
    BY <1>1, <2>1, <2>2, NestedStays
  <2>5. QED
    BY <1>2, <2>1, <2>2, <2>3, <2>4 DEF AdjacentInv
<1>8. CASE MatchData
  <2>1. /\ step = "match" /\ UNCHANGED <<input, content, early>>
        /\ variant \in Variants /\ content # NoCheckpoint
        /\ post' = Checkpoint /\ Restore(content)
        /\ EnterBody(variant, NoTag, DenyUnknown)
    BY <1>8, MethodKeepsInput DEF MatchData, Data
  <2>2. UNCHANGED entry /\ step' = "body"
    BY <2>1 DEF EnterBody
  <2>3. content.offset \in 0..Len(input) /\ content.depth = Len(entry) + 1
    BY <1>1, <2>1 DEF CheckpointAt
  <2>4. /\ EnumBase'
        /\ Len(frames) >= Len(entry) + 1 => Nested(1)'
        /\ Nested(0) => Nested(0)'
    BY <1>1, <2>1, <2>2, <2>3, NestedRestored
  <2>5. CASE early
    <3>1. Nested(1)
      BY <2>1, <2>5 DEF AdjacentInv
    <3>2. Nested(1)'
      BY <1>1, <2>4, <3>1 DEF Nested
    <3>3. BodyAt(1)'
      BY <2>1, <3>2, BodyEntered
    <3>4. QED
      BY <1>2, <2>1, <2>2, <2>4, <2>5, <3>3 DEF AdjacentInv
  <2>6. CASE ~ early
    <3>1. Nested(0) /\ CheckpointAt(Checkpoint, 0)
      BY <1>1, <2>1, <2>6, CheckpointIsAt DEF AdjacentInv
    <3>2. BodyAt(0)'
      BY <2>1, <2>4, <3>1, BodyEntered
    <3>3. CheckpointAt(post, 0)'
      BY <2>1, <2>2, <3>1 DEF CheckpointAt
    <3>4. QED
      BY <1>2, <2>1, <2>2, <2>4, <2>6, <3>2, <3>3 DEF AdjacentInv
  <2>7. QED
    BY <2>5, <2>6
<1>9. CASE MatchNothing
  <2>1. FramesStay /\ UNCHANGED <<input, content, entry>> /\ step' = "failed"
    BY <1>1, <1>9 DEF MatchNothing, lexVars, structVars, cps, LexType, FramesStay
  <2>2. QED
    BY <1>1, <1>2, <2>1, NestedStays DEF AdjacentInv
<1>10. CASE BodyDone
  <2>1. /\ FramesStay /\ UNCHANGED <<input, content, entry, early, post>>
        /\ step = "body" /\ pc = "read" /\ step' = "rest"
    BY <1>1, <1>10 DEF BodyDone, BodyRead, lexVars, structVars, cps, LexType, FramesStay
  <2>2. IF early THEN Nested(1) ELSE Nested(0) /\ CheckpointAt(post, 0)
    BY <2>1 DEF AdjacentInv, BodyAt, BodyBetween
  <2>3. CheckpointAt(post, 0) => CheckpointAt(post, 0)'
    BY <2>1 DEF CheckpointAt
  <2>4. QED
    BY <1>1, <1>2, <2>1, <2>2, <2>3, NestedStays DEF AdjacentInv
<1>11. CASE CheckRest
  <2>1. /\ step = "rest" /\ UNCHANGED <<content, entry>>
        /\ \/ /\ early /\ ObjectNextKey(TRUE)
              /\ step' = IF ret' = "Closed" THEN "built" ELSE "failed"
           \/ ~ early /\ Restore(post) /\ step' = "built"
    BY <1>11 DEF CheckRest, structVars, cps
  <2>2. CASE /\ early /\ ObjectNextKey(TRUE)
             /\ step' = IF ret' = "Closed" THEN "built" ELSE "failed"
    <3>1. Nested(1) /\ UNCHANGED input
      BY <2>1, <2>2, MethodKeepsInput DEF AdjacentInv
    <3>2. QED
      BY <1>1, <1>2, <2>1, <2>2, <3>1, WalkedAt DEF AdjacentInv
  <2>3. CASE ~ early /\ Restore(post) /\ step' = "built"
    <3>1. Nested(0) /\ CheckpointAt(post, 0) /\ UNCHANGED input
      BY <2>1, <2>3, MethodKeepsInput DEF AdjacentInv
    <3>2. post.offset \in 0..Len(input) /\ post.depth = Len(entry) + 0
      BY <1>1, <3>1 DEF CheckpointAt
    <3>3. EnumBase' /\ Nested(0)'
      BY <1>1, <2>1, <2>3, <3>1, <3>2, NestedRestored
    <3>4. QED
      BY <1>2, <2>1, <2>3, <3>1, <3>3 DEF AdjacentInv
  <2>4. QED
    BY <2>1, <2>2, <2>3
<1>12. CASE ReadBody /\ UNCHANGED cps
  <2>1. step = "body" /\ UNCHANGED step /\ UNCHANGED input /\ UNCHANGED <<content, early, post>>
    BY <1>12, BodyKeepsInput DEF ReadBody, enumVars, cps
  <2>2. CASE early
    <3>1. EnumBase' /\ BodyAt(1)' /\ UNCHANGED entry
      BY <1>1, <1>12, <2>1, <2>2, BodyKeeps DEF AdjacentInv
    <3>2. QED
      BY <1>2, <2>1, <2>2, <3>1 DEF AdjacentInv
  <2>3. CASE ~ early
    <3>1. EnumBase' /\ BodyAt(0)' /\ UNCHANGED entry
      BY <1>1, <1>12, <2>1, <2>3, BodyKeeps DEF AdjacentInv
    <3>2. CheckpointAt(post, 0)'
      BY <2>1, <2>3, <3>1 DEF AdjacentInv, CheckpointAt
    <3>3. QED
      BY <1>2, <2>1, <2>3, <3>1, <3>2 DEF AdjacentInv
  <2>4. QED
    BY <2>2, <2>3
<1>13. CASE UNCHANGED adjacentVars
  <2>1. FramesStay /\ UNCHANGED <<input, content, entry, early, post>> /\ UNCHANGED <<step, pc>>
    BY <1>1, <1>13 DEF adjacentVars, readerVars, lexVars, structVars, enumVars, cps, LexType,
                       FramesStay
  <2>2. CheckpointAt(post, 0)' = CheckpointAt(post, 0)
    BY <2>1 DEF CheckpointAt
  <2>3. BodyAt(0) => BodyAt(0)'
    BY <1>1, <2>1, NestedStays DEF BodyAt
  <2>4. BodyAt(1) => BodyAt(1)'
    BY <1>1, <2>1, NestedStays DEF BodyAt
  <2>5. QED
    BY <1>1, <1>2, <2>1, <2>2, <2>3, <2>4, NestedStays DEF AdjacentInv
<1>14. QED
  BY <1>3, <1>4, <1>5, <1>6, <1>7, <1>8, <1>9, <1>10, <1>11, <1>12, <1>13 DEF AdjacentNext

-----------------------------------------------------------------------------
(* No tagging: every attempt begins where the enum does, whatever the last *)
(* one has left open.                                                      *)

UntaggedInv ==
  /\ EnumBase
  /\ attempt \in 0..Len(Order)
  /\ step \in {"try", "body"} => CheckpointAt(origin, 0)
  /\ step \in {"enum", "try", "built"} => Nested(0)
  /\ step = "body" => BodyAt(0)

LEMMA UntaggedKeeps == UntaggedInv /\ [UntaggedNext]_untaggedVars => UntaggedInv'
<1> SUFFICES ASSUME UntaggedInv, [UntaggedNext]_untaggedVars PROVE UntaggedInv'
  OBVIOUS
<1>1. /\ EnumBase /\ LexType /\ offset \in 0..Len(input)
      /\ Len(entry) \in Nat /\ Len(frames) \in Nat /\ Len(Order) \in Nat
  BY LenProperties, EnumAssumption DEF UntaggedInv, EnumBase, LexType
<1>2. CASE Begin
  <2>1. /\ FramesStay /\ Nested(0) /\ UNCHANGED <<input, entry, attempt>>
        /\ origin' = Checkpoint /\ step' = "try"
    BY <1>1, <1>2 DEF Begin, lexVars, structVars, LexType, FramesStay, UntaggedInv
  <2>2. CheckpointAt(origin, 0)'
    BY <1>1, <2>1, CheckpointIsAt DEF CheckpointAt
  <2>3. QED
    BY <1>1, <2>1, <2>2, NestedStays DEF UntaggedInv
<1>3. CASE Try
  <2>1. /\ Trying /\ attempt < Len(Order) /\ Restore(origin) /\ attempt' = attempt + 1
        /\ EnterBody(Order[attempt + 1], NoTag, TRUE) /\ UNCHANGED <<input, origin>>
    BY <1>3, MethodKeepsInput DEF Try
  <2>2. UNCHANGED entry /\ CheckpointAt(origin, 0)
    BY <2>1 DEF EnterBody, Trying, BodyFailed, UntaggedInv
  <2>3. EnumBase' /\ Nested(0)'
    <3>1. Len(frames) >= Len(entry) + 0
      BY <1>1 DEF EnumBase, Above
    <3>2. origin.offset \in 0..Len(input) /\ origin.depth = Len(entry) + 0
      BY <2>2 DEF CheckpointAt
    <3>3. QED
      BY <1>1, <2>1, <2>2, <3>1, <3>2, NestedRestored
  <2>4. attempt + 1 \in 1..Len(Order) /\ Order[attempt + 1] \in Variants
    BY <1>1, <2>1, EnumAssumption, LenProperties DEF UntaggedInv, Variants
  <2>5. BodyAt(0)' /\ step' = "body"
    BY <2>1, <2>3, <2>4, BodyEntered
  <2>6. CheckpointAt(origin, 0)'
    BY <2>1, <2>2 DEF CheckpointAt
  <2>7. QED
    BY <2>1, <2>3, <2>4, <2>5, <2>6 DEF UntaggedInv
<1>4. CASE ReadBody /\ UNCHANGED <<origin, attempt>>
  <2>1. step = "body" /\ UNCHANGED step /\ UNCHANGED input
    BY <1>4, BodyKeepsInput DEF ReadBody, enumVars
  <2>2. EnumBase' /\ BodyAt(0)' /\ UNCHANGED entry
    BY <1>1, <1>4, <2>1, BodyKeeps DEF UntaggedInv
  <2>3. CheckpointAt(origin, 0)'
    BY <1>4, <2>1, <2>2 DEF UntaggedInv, CheckpointAt
  <2>4. QED
    BY <1>4, <2>1, <2>2, <2>3 DEF UntaggedInv
<1>5. CASE UntaggedBuilt
  <2>1. FramesStay /\ Nested(0) /\ UNCHANGED <<entry, attempt>> /\ step' = "built"
    BY <1>1, <1>5 DEF UntaggedBuilt, BodyRead, UntaggedInv, BodyAt, BodyBetween, lexVars,
                      structVars, LexType, FramesStay
  <2>2. QED
    BY <1>1, <2>1, NestedStays DEF UntaggedInv
<1>6. CASE GiveUp
  <2>1. FramesStay /\ UNCHANGED <<entry, attempt>> /\ step' = "failed"
    BY <1>1, <1>6 DEF GiveUp, structVars, LexType, FramesStay
  <2>2. QED
    BY <1>1, <2>1, NestedStays DEF UntaggedInv
<1>7. CASE UNCHANGED untaggedVars
  <2>1. FramesStay /\ UNCHANGED <<input, entry, attempt, origin>> /\ UNCHANGED <<step, pc>>
    BY <1>1, <1>7 DEF untaggedVars, readerVars, lexVars, structVars, enumVars, LexType,
                      FramesStay
  <2>2. CheckpointAt(origin, 0)' = CheckpointAt(origin, 0)
    BY <2>1 DEF CheckpointAt
  <2>3. QED
    BY <1>1, <2>1, <2>2, NestedStays DEF UntaggedInv, BodyAt
<1>8. QED
  BY <1>2, <1>3, <1>4, <1>5, <1>6, <1>7 DEF UntaggedNext

-----------------------------------------------------------------------------
LEMMA EnumKept ==
  ASSUME EnumBase, step = "built" => Nested(0)
  PROVE  EnumFramesKept
BY PrefixKept, NestedIsEntry DEF EnumBase, Above, EnumFramesKept

(* Each mode leaves its caller's frames as it found them when it has built *)
(* a value and never pops one of them: neither reading a member's value in *)
(* place (enums.rs:45-122), ...                                            *)
THEOREM ExternalEnumKeepsFrames == ExternalSpec => []EnumFramesKept
<1>1. ExternalInit => ExternalInv
  BY EnumBegins DEF ExternalInit, ExternalInv
<1>2. ExternalInv => EnumFramesKept
  BY EnumKept DEF ExternalInv
<1>3. QED
  BY <1>1, <1>2, ExternalKeeps, PTL DEF ExternalSpec

(* ... nor reading an object again after it has been scanned for its tag   *)
(* (enums.rs:124-225), ...                                                 *)
THEOREM InternalEnumKeepsFrames == InternalSpec => []EnumFramesKept
<1>1. InternalInit => InternalInv
  <2> SUFFICES ASSUME InternalInit PROVE InternalInv
    OBVIOUS
  <2>1. /\ EnumBase /\ Nested(0) /\ CheckpointAt(Checkpoint, 0)
        /\ step = "enum" /\ start = Checkpoint
    BY EnumBegins DEF InternalInit
  <2>2. QED
    BY <2>1 DEF InternalInv
<1>2. InternalInv => EnumFramesKept
  BY EnumKept DEF InternalInv
<1>3. QED
  BY <1>1, <1>2, InternalKeeps, PTL DEF InternalSpec

(* ... nor going back to a content inside an object that has been closed   *)
(* (enums.rs:227-370), ...                                                 *)
THEOREM AdjacentEnumKeepsFrames == AdjacentSpec => []EnumFramesKept
<1>1. AdjacentInit => AdjacentInv
  BY EnumBegins DEF AdjacentInit, AdjacentInv
<1>2. AdjacentInv => EnumFramesKept
  BY EnumKept DEF AdjacentInv
<1>3. QED
  BY <1>1, <1>2, AdjacentKeeps, PTL DEF AdjacentSpec

(* ... nor trying one variant after another with what the failed attempts  *)
(* have left open (enums.rs:372-419).                                      *)
THEOREM UntaggedEnumKeepsFrames == UntaggedSpec => []EnumFramesKept
<1>1. UntaggedInit => UntaggedInv
  <2> SUFFICES ASSUME UntaggedInit PROVE UntaggedInv
    OBVIOUS
  <2>1. EnumBase /\ Nested(0) /\ step = "enum" /\ attempt = 0
    BY EnumBegins DEF UntaggedInit
  <2>2. Len(Order) \in Nat
    BY EnumAssumption, LenProperties
  <2>3. QED
    BY <2>1, <2>2 DEF UntaggedInv
<1>2. UntaggedInv => EnumFramesKept
  BY EnumKept DEF UntaggedInv
<1>3. QED
  BY <1>1, <1>2, UntaggedKeeps, PTL DEF UntaggedSpec
=============================================================================
