------------------------------ MODULE LexerProofs ------------------------------
(***************************************************************************)
(* What the methods of the lexer do to the cursor and the frame stack, for *)
(* every input, every token set and every depth limit.  The modules about  *)
(* the lexer's callers cite these lemmas instead of the definitions.       *)
(*                                                                         *)
(* The same methods as readers of the grammar: each one takes exactly the  *)
(* lexemes it is after, and what was read can be completed to a document   *)
(* just when what is now expected can.                                     *)
(*                                                                         *)
(* At the end skip_value, a caller itself: its frames are the containers   *)
(* it is inside of, above those of its caller, and it ends where a value   *)
(* of the grammar ends or not at all.                                      *)
(***************************************************************************)
EXTENDS SkipValue, GrammarProofs, SequenceTheorems, WellFoundedInduction, TLAPS

LexType ==
  /\ input \in Seq(Token)
  /\ offset \in 0..Len(input)
  /\ frames \in Seq(FS!Frame)
  /\ Len(frames) <= MaxDepth

(* A token under the cursor is inside the input: the cursor may step over  *)
(* it.                                                                     *)
LEMMA InsideInput ==
  ASSUME LexType, NEW o \in 0..Len(input), Peek(o) # "eof"
  PROVE  o + 1 \in 0..Len(input)
BY LenProperties DEF Peek, LexType

LEMMA StringsAreTokens ==
  ASSUME NEW t \in Strings
  PROVE  t \notin Punctuation \cup {"lone", "kw", "1", "ws", "junk", "unopened", "eof"}
BY LexerAssumption

(* A run of one token ends inside the input: the CHOOSE of RunEnd has a    *)
(* witness, the first position that is not the token.                      *)
LEMMA RunEndInRange ==
  ASSUME LexType, NEW o \in 0..Len(input), NEW t, t # "eof"
  PROVE  /\ RunEnd(o, t) \in o..Len(input)
         /\ \A i \in o..(RunEnd(o, t) - 1) : Peek(i) = t
         /\ Peek(RunEnd(o, t)) # t
<1> DEFINE T == {e \in o..Len(input) : Peek(e) # t}
           R == OpToRel(<, Nat)
<1>1. Len(input) \in Nat /\ o \in Nat
  BY LenProperties DEF LexType
<1>2. Len(input) \in T
  BY <1>1 DEF Peek
<1>3. T \subseteq Nat
  BY <1>1
<1>4. PICK x \in T : \A y \in T : ~ (<<y, x>> \in R)
  <2>1. T # {}
    BY <1>2
  <2> HIDE DEF T
  <2> QED
    BY <1>3, <2>1, NatLessThanWellFounded, WFMin
<1>5. \A i \in o..(x - 1) : Peek(i) = t
  <2> SUFFICES ASSUME NEW i \in o..(x - 1), Peek(i) # t
               PROVE  FALSE
    OBVIOUS
  <2>1. i \in T /\ i \in Nat /\ x \in Nat /\ i < x
    BY <1>1
  <2>2. <<i, x>> \in R
    BY <2>1 DEF OpToRel
  <2>3. QED
    BY <1>4, <2>1, <2>2
<1>6. x \in o..Len(input) /\ Peek(x) # t
  BY <1>4
<1>7. QED
  BY <1>5, <1>6 DEF RunEnd

LEMMA SkipWhitespaceInRange ==
  ASSUME LexType, NEW o \in 0..Len(input)
  PROVE  /\ SkipWhitespace(o) \in 0..Len(input)
         /\ SkipWhitespace(o) >= o
         /\ Peek(SkipWhitespace(o)) # "ws"
BY RunEndInRange, LenProperties DEF SkipWhitespace, LexType

(* What an opening, closing or failing method has done.                    *)
Opened(f, r) ==
  /\ ret' = r
  /\ Len(frames) < MaxDepth
  /\ frames' = Append(frames, f)

Refused ==
  /\ ret' \in ErrorKind
  /\ frames' = frames

LEMMA ReturnEffect ==
  ASSUME LexType, NEW o \in 0..Len(input), NEW r, Return(o, r)
  PROVE  LexType' /\ ret' = r /\ frames' = frames
BY DEF LexType, Return

LEMMA UnexpectedEffect ==
  ASSUME LexType, NEW o \in 0..Len(input), Unexpected(o)
  PROVE  LexType' /\ Refused
BY ReturnEffect DEF Unexpected, Refused, ErrorKind

LEMMA PushFrameEffect ==
  ASSUME LexType, NEW o \in 0..Len(input), NEW r,
         NEW f \in FS!Frame, PushFrame(f, o, r)
  PROVE  LexType' /\ (Opened(f, r) \/ Refused)
<1>1. CASE Len(frames) < MaxDepth /\ frames' = Append(frames, f)
             /\ offset' = o /\ ret' = r /\ UNCHANGED input
  BY <1>1, LexerAssumption, AppendProperties DEF LexType, Opened
<1>2. CASE Return(o, "DepthLimitExceeded")
  BY <1>2, ReturnEffect DEF Refused, ErrorKind
<1>3. QED
  BY <1>1, <1>2 DEF PushFrame

LEMMA PrefixProperties ==
  ASSUME NEW s \in Seq(FS!Frame), NEW n \in 0..Len(s)
  PROVE  /\ SubSeq(s, 1, n) \in Seq(FS!Frame)
         /\ Len(SubSeq(s, 1, n)) = n
         /\ \A i \in 1..n : SubSeq(s, 1, n)[i] = s[i]
<1> DEFINE p == SubSeq(s, 1, n)
<1>1. n \in Nat /\ \A i \in 1..n : s[i] \in FS!Frame
  BY LenProperties, ElementOfSeq
<1>2. /\ p \in Seq(FS!Frame)
      /\ Len(p) = IF 1 <= n THEN n - 1 + 1 ELSE 0
      /\ \A i \in 1..(n - 1 + 1) : p[i] = s[1 + i - 1]
  BY <1>1, SubSeqProperties
<1> HIDE DEF p
<1>3. n - 1 + 1 = n /\ \A i \in 1..n : 1 + i - 1 = i
  BY <1>1
<1>4. Len(p) = n
  BY <1>1, <1>2
<1>5. \A i \in 1..n : p[i] = s[i]
  BY <1>2, <1>3
<1>6. QED
  BY <1>2, <1>4, <1>5 DEF p

LEMMA PoppedProperties ==
  ASSUME NEW s \in Seq(FS!Frame), s # << >>
  PROVE  /\ FS!Popped(s) \in Seq(FS!Frame)
         /\ Len(FS!Popped(s)) = Len(s) - 1
         /\ \A i \in 1..(Len(s) - 1) : FS!Popped(s)[i] = s[i]
<1>1. Len(s) - 1 \in 0..Len(s)
  BY EmptySeq
<1>2. QED
  BY <1>1, PrefixProperties DEF FS!Popped

(* A checkpoint cannot bring frames back.                                  *)
LEMMA RestoreEffect ==
  ASSUME LexType, NEW cp, cp.offset \in 0..Len(input), cp.depth \in Nat, Restore(cp)
  PROVE  /\ LexType'
         /\ Len(frames') = IF cp.depth <= Len(frames) THEN cp.depth ELSE Len(frames)
         /\ \A i \in 1..Len(frames') : frames'[i] = frames[i]
<1> DEFINE n == IF cp.depth <= Len(frames) THEN cp.depth ELSE Len(frames)
<1>1. n \in 0..Len(frames) /\ Len(frames) \in Nat /\ frames \in Seq(FS!Frame)
  BY LenProperties DEF LexType
<1>2. frames' = SubSeq(frames, 1, n) /\ offset' = cp.offset /\ UNCHANGED input
  BY DEF Restore, FS!Truncated
<1> HIDE DEF n
<1>3. /\ frames' \in Seq(FS!Frame) /\ Len(frames') = n
      /\ \A i \in 1..n : frames'[i] = frames[i]
  BY <1>1, <1>2, PrefixProperties
<1>4. LexType'
  BY <1>1, <1>2, <1>3, LexerAssumption DEF LexType
<1>5. QED
  BY <1>3, <1>4 DEF n

LEMMA TopOfType ==
  ASSUME NEW s \in Seq(FS!Frame)
  PROVE  /\ s = << >> <=> FS!TopOf(s) = "None"
         /\ s # << >> => FS!TopOf(s) \in FS!Frame /\ FS!TopOf(s) = s[Len(s)]
BY EmptySeq, ElementOfSeq DEF FS!TopOf, FS!Frame

LEMMA PopFrameEffect ==
  ASSUME LexType, NEW o \in 0..Len(input), NEW r, NEW f \in FS!Frame,
         PopFrame(f, o, r)
  PROVE  /\ LexType'
         /\ \/ Refused
            \/ /\ frames # << >>
               /\ frames' = FS!Popped(frames)
               /\ ret' = IF FS!TopOf(frames) = f THEN r ELSE "TypeMismatch"
<1>1. CASE frames = << >> /\ Return(o, "UnexpectedByte")
  BY <1>1, ReturnEffect DEF Refused, ErrorKind
<1>2. CASE frames # << >> /\ frames' = FS!Popped(frames) /\ offset' = o
             /\ ret' = (IF FS!TopOf(frames) = f THEN r ELSE "TypeMismatch")
             /\ UNCHANGED input
  BY <1>2, LexerAssumption, PoppedProperties, EmptySeq DEF LexType
<1>3. QED
  BY <1>1, <1>2 DEF PopFrame

LEMMA ReadStringEffect ==
  ASSUME LexType, NEW o \in 0..Len(input), NEW r, ReadString(o, r)
  PROVE  LexType' /\ (Refused \/ (ret' = r /\ frames' = frames))
<1>1. Peek(o) # "eof"
  BY StringsAreTokens DEF ReadString
<1>2. o + 1 \in 0..Len(input)
  BY <1>1, InsideInput
<1>3. QED
  BY <1>2, ReturnEffect DEF ReadString, Refused, ErrorKind

(* read_value either opens a container, or takes one scalar, or fails.     *)
LEMMA ReadValueEffect ==
  ASSUME LexType, NEW from \in 0..Len(input), ReadValue(from)
  PROVE  /\ LexType'
         /\ \/ Opened("Object", "StartObject")
            \/ Opened("Array", "StartArray")
            \/ ret' \in Scalar /\ frames' = frames
            \/ Refused
<1> DEFINE o == SkipWhitespace(from)
<1>1. o \in 0..Len(input)
  BY SkipWhitespaceInRange
<1>2. CASE Peek(o) = "{" /\ PushFrame("Object", o + 1, "StartObject")
  BY <1>1, <1>2, InsideInput, PushFrameEffect DEF FS!Frame
<1>3. CASE Peek(o) = "[" /\ PushFrame("Array", o + 1, "StartArray")
  BY <1>1, <1>3, InsideInput, PushFrameEffect DEF FS!Frame
<1>4. CASE ReadString(o, "String")
  BY <1>1, <1>4, ReadStringEffect DEF Scalar
<1>5. CASE Peek(o) = "kw" /\ Return(o + 1, "Literal")
  BY <1>1, <1>5, InsideInput, ReturnEffect DEF Scalar
<1>6. CASE Peek(o) = "1" /\ Return(RunEnd(o, "1"), "Number")
  <2>1. RunEnd(o, "1") \in 0..Len(input)
    BY <1>1, RunEndInRange, LenProperties DEF LexType
  <2>2. QED
    BY <1>6, <2>1, ReturnEffect DEF Scalar
<1>7. CASE Unexpected(o)
  BY <1>1, <1>7, UnexpectedEffect
<1>8. QED
  BY <1>2, <1>3, <1>4, <1>5, <1>6, <1>7 DEF ReadValue

(* array_start opens the array, or is behind an empty one, or fails.       *)
LEMMA ArrayStartEffect ==
  ASSUME LexType, ArrayStart
  PROVE  /\ LexType'
         /\ \/ Opened("Array", "Open")
            \/ ret' = "Empty" /\ frames' = frames
            \/ Refused
<1> DEFINE o == SkipWhitespace(offset)
           first == SkipWhitespace(o + 1)
<1>1. o \in 0..Len(input)
  BY SkipWhitespaceInRange DEF LexType
<1>2. Peek(o) = "[" => o + 1 \in 0..Len(input) /\ first \in 0..Len(input)
  BY <1>1, InsideInput, SkipWhitespaceInRange
<1>3. Peek(o) = "[" /\ Peek(first) = "]" => first + 1 \in 0..Len(input)
  BY <1>2, InsideInput
<1>4. \/ Unexpected(o)
      \/ Peek(o) = "[" /\ PushFrame("Array", first, "Open")
      \/ Peek(o) = "[" /\ Peek(first) = "]" /\ Return(first + 1, "Empty")
      \/ Peek(o) = "[" /\ Return(o + 1, "DepthLimitExceeded")
  BY DEF ArrayStart
<1> HIDE DEF o, first
<1>5. QED
  BY <1>1, <1>2, <1>3, <1>4, UnexpectedEffect, PushFrameEffect, ReturnEffect
     DEF FS!Frame, Refused, ErrorKind

(* A closing method pops the frame on top, whichever kind it is.           *)
Closes(f, r) ==
  /\ frames # << >>
  /\ frames' = FS!Popped(frames)
  /\ ret' = IF FS!TopOf(frames) = f THEN r ELSE "TypeMismatch"

LEMMA ArrayContinueEffect ==
  ASSUME LexType, NEW end_byte \in {"]", "}"}, ArrayContinue(end_byte)
  PROVE  /\ LexType'
         /\ \/ Closes(IF end_byte = "]" THEN "Array" ELSE "Object", "Closed")
            \/ ret' = "More" /\ frames' = frames
            \/ Refused
<1> DEFINE o == SkipWhitespace(offset)
           frame == IF end_byte = "]" THEN "Array" ELSE "Object"
<1>1. o \in 0..Len(input)
  BY SkipWhitespaceInRange DEF LexType
<1>2. CASE Peek(o) = end_byte /\ PopFrame(frame, o + 1, "Closed")
  <2>1. o + 1 \in 0..Len(input)
    BY <1>1, <1>2, InsideInput
  <2>2. frame \in FS!Frame
    BY DEF FS!Frame
  <2> HIDE DEF frame
  <2>3. LexType' /\ (Refused \/ Closes(frame, "Closed"))
    BY <1>2, <2>1, <2>2, PopFrameEffect DEF Closes
  <2>4. QED
    BY <2>3 DEF frame
<1>3. CASE Peek(o) = "," /\ Return(SkipWhitespace(o + 1), "More")
  <2>1. SkipWhitespace(o + 1) \in 0..Len(input)
    BY <1>1, <1>3, InsideInput, SkipWhitespaceInRange
  <2>2. QED
    BY <1>3, <2>1, ReturnEffect
<1>4. CASE Unexpected(o)
  BY <1>1, <1>4, UnexpectedEffect
<1>5. QED
  BY <1>2, <1>3, <1>4 DEF ArrayContinue

(* object_start opens the object or fails.                                 *)
LEMMA ObjectStartEffect ==
  ASSUME LexType, ObjectStart
  PROVE  LexType' /\ (Opened("Object", "StartObject") \/ Refused)
<1> DEFINE o == SkipWhitespace(offset)
<1>1. o \in 0..Len(input)
  BY SkipWhitespaceInRange DEF LexType
<1>2. Peek(o) = "{" => o + 1 \in 0..Len(input)
  BY <1>1, InsideInput
<1>3. Peek(o) = "{" => SkipWhitespace(o + 1) \in 0..Len(input)
  BY <1>2, SkipWhitespaceInRange
<1>4. \/ Unexpected(o)
      \/ Peek(o) = "{" /\ PushFrame("Object", SkipWhitespace(o + 1), "StartObject")
      \/ Peek(o) = "{" /\ Return(o + 1, "DepthLimitExceeded")
  BY DEF ObjectStart
<1> HIDE DEF o
<1>5. QED
  BY <1>1, <1>2, <1>3, <1>4, UnexpectedEffect, PushFrameEffect, ReturnEffect
     DEF FS!Frame, Refused, ErrorKind

LEMMA ExpectColonEffect ==
  ASSUME LexType, NEW from \in 0..Len(input), ExpectColon(from)
  PROVE  LexType' /\ (Refused \/ (ret' = "Key" /\ frames' = frames))
<1> DEFINE o == SkipWhitespace(from)
<1>1. o \in 0..Len(input)
  BY SkipWhitespaceInRange
<1>2. CASE Peek(o) = ":" /\ Return(SkipWhitespace(o + 1), "Key")
  <2>1. SkipWhitespace(o + 1) \in 0..Len(input)
    BY <1>1, <1>2, InsideInput, SkipWhitespaceInRange
  <2>2. QED
    BY <1>2, <2>1, ReturnEffect
<1>3. CASE Unexpected(o)
  BY <1>1, <1>3, UnexpectedEffect
<1>4. QED
  BY <1>2, <1>3 DEF ExpectColon

LEMMA KeyThenColonEffect ==
  ASSUME LexType, NEW o \in 0..Len(input), NEW lex \in BOOLEAN, KeyThenColon(o, lex)
  PROVE  LexType' /\ (Refused \/ (ret' = "Key" /\ frames' = frames))
<1>1. CASE IsQuote(o) /\ ExpectColon(o + 1)
  <2>1. Peek(o) # "eof"
    BY <1>1, StringsAreTokens DEF IsQuote, BorrowedString, EscapedString, Strings
  <2>2. QED
    BY <1>1, <2>1, InsideInput, ExpectColonEffect
<1>2. CASE Return(o, "InvalidEscape")
  BY <1>2, ReturnEffect DEF Refused, ErrorKind
<1>3. QED
  BY <1>1, <1>2 DEF KeyThenColon, IsQuote

(* The key walkers close the object, or hand out a key with the stack as   *)
(* it was, or fail.                                                        *)
KeyWalked ==
  \/ Closes("Object", "Closed")
  \/ ret' = "Key" /\ frames' = frames
  \/ Refused

LEMMA ObjectFirstKeyEffect ==
  ASSUME LexType, NEW lex \in BOOLEAN, ObjectFirstKey(lex)
  PROVE  LexType' /\ KeyWalked
<1> DEFINE o == SkipWhitespace(offset)
<1>1. o \in 0..Len(input)
  BY SkipWhitespaceInRange DEF LexType
<1>2. CASE Peek(o) = "}" /\ PopFrame("Object", o + 1, "Closed")
  BY <1>1, <1>2, InsideInput, PopFrameEffect DEF FS!Frame, Closes, KeyWalked
<1>3. CASE KeyThenColon(o, lex)
  BY <1>1, <1>3, KeyThenColonEffect DEF KeyWalked
<1>4. CASE Unexpected(o)
  BY <1>1, <1>4, UnexpectedEffect DEF KeyWalked
<1>5. QED
  BY <1>2, <1>3, <1>4 DEF ObjectFirstKey

LEMMA ObjectNextKeyEffect ==
  ASSUME LexType, NEW lex \in BOOLEAN, ObjectNextKey(lex)
  PROVE  LexType' /\ KeyWalked
<1> DEFINE o == SkipWhitespace(offset)
           q == SkipWhitespace(o + 1)
<1>1. o \in 0..Len(input)
  BY SkipWhitespaceInRange DEF LexType
<1>2. CASE Peek(o) = "}" /\ PopFrame("Object", o + 1, "Closed")
  BY <1>1, <1>2, InsideInput, PopFrameEffect DEF FS!Frame, Closes, KeyWalked
<1>3. CASE Peek(o) = "," /\ (KeyThenColon(q, lex) \/ Unexpected(q))
  <2>1. q \in 0..Len(input)
    BY <1>1, <1>3, InsideInput, SkipWhitespaceInRange
  <2>2. QED
    BY <1>3, <2>1, KeyThenColonEffect, UnexpectedEffect DEF KeyWalked
<1>4. CASE Unexpected(o)
  BY <1>1, <1>4, UnexpectedEffect DEF KeyWalked
<1>5. QED
  BY <1>2, <1>3, <1>4 DEF ObjectNextKey
-----------------------------------------------------------------------------
(* Reading: what the methods of the lexer mean to the grammar.  The cursor *)
(* stands between two lexemes, At(o) of them behind it: it is never inside *)
(* a run of digits, which is what a digit alone would be taken for.        *)
Fresh(o) == o = 0 \/ input[o] # "1" \/ Peek(o) # "1"

At(o) == Begun(input, o)

LEMMA TokenIsNoEnd == "eof" \notin Token
BY LexerAssumption DEF Token, Punctuation

LEMMA PeekInside ==
  ASSUME LexType, NEW o \in 0..Len(input)
  PROVE  /\ Peek(o) = "eof" <=> o = Len(input)
         /\ o # Len(input) => o + 1 \in 1..Len(input) /\ Peek(o) = input[o + 1]
<1>1. Len(input) \in Nat
  BY LenProperties DEF LexType
<1>2. CASE o = Len(input)
  BY <1>1, <1>2 DEF Peek
<1>3. CASE o # Len(input)
  <2>1. o < Len(input) /\ o + 1 \in 1..Len(input)
    BY <1>1, <1>3
  <2>2. Peek(o) = input[o + 1]
    BY <2>1 DEF Peek
  <2>3. input[o + 1] \in Token
    BY <2>1, ElementOfSeq DEF LexType
  <2>4. QED
    BY <1>3, <2>1, <2>2, <2>3, TokenIsNoEnd
<1>4. QED
  BY <1>2, <1>3

(* The token under the cursor is the next lexeme.                          *)
LEMMA AtToken ==
  ASSUME LexType, NEW o \in 0..Len(input), Fresh(o), Peek(o) \notin {"ws", "eof"}
  PROVE  /\ o + 1 \in 0..Len(input)
         /\ At(o) \in Nat /\ At(o) + 1 \in 1..Len(Lexemes(input))
         /\ Lexemes(input)[At(o) + 1] = Peek(o)
         /\ At(o + 1) = At(o) + 1
         /\ Peek(o) # "1" => Fresh(o + 1)
<1>0. Len(input) \in Nat /\ input \in Seq(Token)
  BY LenProperties DEF LexType
<1>1. o + 1 \in 1..Len(input) /\ Peek(o) = input[o + 1]
  BY PeekInside
<1>2. o + 1 - 1 = o
  BY <1>0
<1>3. LexemeBegins(input, o + 1)
  <2>1. o + 1 > 1 => o # 0
    BY <1>0
  <2>2. QED
    BY <1>1, <1>2, <2>1 DEF LexemeBegins, Fresh
<1>4. /\ At(o) \in Nat /\ At(o + 1) = At(o) + 1
      /\ At(o + 1) <= Len(Lexemes(input))
      /\ Lexemes(input)[At(o + 1)] = input[o + 1]
  BY <1>0, <1>1, <1>2, <1>3, LexemeIsThere DEF At
<1>5. Len(Lexemes(input)) \in Nat
  BY <1>0, BegunBounds
<1>6. At(o) + 1 \in 1..Len(Lexemes(input))
  BY <1>4, <1>5
<1>7. Peek(o) # "1" => Fresh(o + 1)
  BY <1>1 DEF Fresh
<1>8. QED
  BY <1>0, <1>1, <1>4, <1>6, <1>7

LEMMA AtEnd ==
  ASSUME LexType, NEW o \in 0..Len(input), Peek(o) = "eof"
  PROVE  At(o) = Len(Lexemes(input)) /\ At(o) + 1 \notin 1..Len(Lexemes(input))
<1>1. o = Len(input) /\ input \in Seq(Token)
  BY PeekInside DEF LexType
<1>2. At(o) = Len(Lexemes(input)) /\ Len(Lexemes(input)) \in Nat
  BY <1>1, BegunBounds DEF At
<1>3. QED
  BY <1>2

LEMMA AtBounds ==
  ASSUME LexType, NEW o \in 0..Len(input)
  PROVE  At(o) \in 0..Len(Lexemes(input)) /\ Len(Lexemes(input)) \in Nat
BY BegunBounds DEF LexType, At

(* Whitespace is no lexeme.                                                *)
LEMMA AtWhitespace ==
  ASSUME LexType, NEW o \in 0..Len(input), Fresh(o)
  PROVE  /\ SkipWhitespace(o) \in 0..Len(input) /\ Peek(SkipWhitespace(o)) # "ws"
         /\ At(SkipWhitespace(o)) = At(o) /\ Fresh(SkipWhitespace(o))
<1> DEFINE p == SkipWhitespace(o)
<1>0. Len(input) \in Nat /\ input \in Seq(Token)
  BY LenProperties DEF LexType
<1>1. /\ p \in o..Len(input) /\ Peek(p) # "ws"
      /\ \A i \in o..(p - 1) : Peek(i) = "ws"
  BY RunEndInRange DEF SkipWhitespace
<1> HIDE DEF p
<1>2. \A k \in (o + 1)..p : input[k] = "ws"
  <2>1. ASSUME NEW k \in (o + 1)..p PROVE input[k] = "ws"
    <3>1. k - 1 \in o..(p - 1) /\ k - 1 \in 0..Len(input) /\ k - 1 # Len(input) /\ k - 1 + 1 = k
      BY <1>0, <1>1
    <3>2. QED
      BY <1>1, <3>1, PeekInside
  <2>2. QED
    BY <2>1
<1>3. At(p) = At(o)
  <2>1. \A k \in (o + 1)..p : ~ LexemeBegins(input, k)
    BY <1>2 DEF LexemeBegins
  <2>2. p \in 0..Len(input)
    BY <1>0, <1>1
  <2>3. QED
    BY <1>0, <1>1, <2>1, NoneBegun DEF At
<1>4. Fresh(p)
  <2>1. CASE p = o
    BY <2>1
  <2>2. CASE p # o
    <3>1. p \in (o + 1)..p
      BY <1>0, <1>1, <2>2
    <3>2. QED
      BY <1>2, <3>1 DEF Fresh
  <2>3. QED
    BY <2>1, <2>2
<1>5. p \in 0..Len(input)
  BY <1>0, <1>1
<1>6. p \in 0..Len(input) /\ Peek(p) # "ws" /\ At(p) = At(o) /\ Fresh(p)
  BY <1>1, <1>3, <1>4, <1>5
<1>7. QED
  BY <1>6 DEF p

(* A run of digits is one lexeme.                                          *)
LEMMA AtNumber ==
  ASSUME LexType, NEW o \in 0..Len(input), Fresh(o), Peek(o) = "1"
  PROVE  /\ RunEnd(o, "1") \in 0..Len(input)
         /\ At(RunEnd(o, "1")) = At(o) + 1 /\ Fresh(RunEnd(o, "1"))
<1> DEFINE p == RunEnd(o, "1")
<1>0. Len(input) \in Nat /\ input \in Seq(Token)
  BY LenProperties DEF LexType
<1>1. /\ p \in o..Len(input) /\ Peek(p) # "1"
      /\ \A i \in o..(p - 1) : Peek(i) = "1"
  BY RunEndInRange
<1> HIDE DEF p
<1>2. p \in (o + 1)..Len(input) /\ o + 1 \in 0..Len(input)
  <2>1. p # o
    BY <1>1
  <2>2. QED
    BY <1>0, <1>1, <2>1
<1>3. \A k \in (o + 1)..p : input[k] = "1"
  <2>1. ASSUME NEW k \in (o + 1)..p PROVE input[k] = "1"
    <3>1. k - 1 \in o..(p - 1) /\ k - 1 \in 0..Len(input) /\ k - 1 # Len(input) /\ k - 1 + 1 = k
      BY <1>0, <1>1
    <3>2. QED
      BY <1>1, <3>1, PeekInside
  <2>2. QED
    BY <2>1
<1>4. At(o + 1) = At(o) + 1
  BY <1>1, AtToken
<1>5. \A k \in (o + 1 + 1)..p : ~ LexemeBegins(input, k)
  <2>1. ASSUME NEW k \in (o + 1 + 1)..p PROVE ~ LexemeBegins(input, k)
    <3>1. k \in (o + 1)..p /\ k - 1 \in (o + 1)..p /\ k > 1
      BY <1>0, <1>2
    <3>2. QED
      BY <1>3, <3>1 DEF LexemeBegins
  <2>2. QED
    BY <2>1
<1>6. At(p) = At(o + 1)
  BY <1>0, <1>2, <1>5, NoneBegun DEF At
<1>7. Fresh(p) /\ p \in 0..Len(input)
  BY <1>0, <1>1 DEF Fresh
<1>8. QED
  BY <1>4, <1>6, <1>7 DEF p

(* r is the grammar's view of this input: its tokens, its lexemes.         *)
Reading(r) ==
  /\ Readable(r)
  /\ r.text = Lexemes(input)
  /\ r.scalars = ScalarTokens /\ r.keys \subseteq Strings \cup {"lone"}

(* The reader is at o, inside fs, and the construct due is read next: the  *)
(* whole is a value exactly if what is read so far can be completed.       *)
Expects(r, due, fs, o) ==
  /\ fs \in Seq(Kinds) /\ r.depth - Len(fs) \in Nat
  /\ Fresh(o)
  /\ due = "next" => At(o) # 0
  /\ ReadsWhole(r) <=> Completable(r, due, fs, At(o))

LEMMA FramesAreKinds == FS!Frame = Kinds
BY DEF FS!Frame, Kinds

LEMMA MarksAreNoWords ==
  ASSUME NEW r, Reading(r), NEW t \in Structural \cup {"ws", "eof", "junk", "unopened"}
  PROVE  t \notin r.scalars /\ t \notin r.keys
<1>1. CASE t \in Structural
  BY <1>1 DEF Reading, Readable
<1>2. CASE t \in {"ws", "eof", "junk", "unopened"}
  BY <1>2, StringsAreTokens DEF Reading, ScalarTokens
<1>3. QED
  BY <1>1, <1>2

LEMMA ExpectsBehindWhitespace ==
  ASSUME LexType, NEW r, NEW due, NEW fs, NEW o \in 0..Len(input), Expects(r, due, fs, o)
  PROVE  Expects(r, due, fs, SkipWhitespace(o))
BY AtWhitespace DEF Expects

(* What the token under the cursor is to the reading, whatever is due.     *)
LEMMA AtSomething ==
  ASSUME LexType, NEW r, Reading(r), NEW o \in 0..Len(input), Fresh(o), Peek(o) # "ws"
  PROVE  /\ At(o) \in Nat /\ Len(r.text) \in Nat
         /\ Peek(o) = "eof" => At(o) + 1 \notin 1..Len(r.text)
         /\ Peek(o) # "eof" => At(o) + 1 \in 1..Len(r.text) /\ r.text[At(o) + 1] = Peek(o)
<1>1. Len(Lexemes(input)) \in Nat /\ At(o) \in Nat
  BY AtBounds
<1>2. r.text = Lexemes(input)
  BY DEF Reading
<1>3. QED
  BY <1>1, <1>2, AtToken, AtEnd

LEMMA FirstIsAnother ==
  ASSUME LexType, NEW r, Reading(r), NEW fs, fs # << >>, NEW o \in 0..Len(input),
         Peek(o) # "ws", Peek(o) # Innermost(fs).close
  PROVE  /\ Expects(r, "firstValue", fs, o) <=> Expects(r, "value", fs, o)
         /\ Expects(r, "firstKey", fs, o) <=> Expects(r, "key", fs, o)
<1>1. Fresh(o) => ~ CloseThen(r, fs, At(o))
  BY AtSomething DEF CloseThen
<1>2. QED
  BY <1>1 DEF Expects, Completable

LEMMA ExpectsScalar ==
  ASSUME LexType, NEW r, Reading(r), NEW fs, NEW o \in 0..Len(input),
         Expects(r, "value", fs, o), Peek(o) \in ScalarTokens
  PROVE  /\ Peek(o) # "1" => Expects(r, "next", fs, o + 1)
         /\ Peek(o) = "1" => Expects(r, "next", fs, RunEnd(o, "1"))
<1>0. fs \in Seq(Kinds) /\ r.depth - Len(fs) \in Nat /\ Fresh(o)
  BY DEF Expects
<1>1. Peek(o) # "ws" /\ Peek(o) # "eof" /\ Peek(o) \in r.scalars
  BY MarksAreNoWords DEF Reading
<1>2. At(o) \in Nat /\ At(o) + 1 \in 1..Len(r.text) /\ r.text[At(o) + 1] = Peek(o)
  BY <1>0, <1>1, AtSomething
<1>3. ItemThen(r, "value", fs, At(o)) <=> Completes(r, fs, At(o) + 1)
  BY <1>0, <1>1, <1>2, ScalarThen DEF Reading
<1>4. ASSUME NEW p, At(p) = At(o) + 1, Fresh(p)
      PROVE  Expects(r, "next", fs, p)
  <2>1. At(p) # 0
    BY <1>2, <1>4
  <2>2. QED
    BY <1>0, <1>3, <1>4, <2>1 DEF Expects, Completable
<1>5. Peek(o) # "1" => At(o + 1) = At(o) + 1 /\ Fresh(o + 1)
  BY <1>0, <1>1, AtToken
<1>6. Peek(o) = "1" => At(RunEnd(o, "1")) = At(o) + 1 /\ Fresh(RunEnd(o, "1"))
  BY <1>0, AtNumber
<1>7. QED
  BY <1>4, <1>5, <1>6

LEMMA ExpectsOpened ==
  ASSUME LexType, NEW r, Reading(r), NEW fs, NEW o \in 0..Len(input),
         Expects(r, "value", fs, o), NEW f \in Kinds, Peek(o) = MarksOf(f).open,
         Len(fs) < r.depth
  PROVE  /\ f = "Array" => Expects(r, "firstValue", Append(fs, f), o + 1)
         /\ f = "Object" => Expects(r, "firstKey", Append(fs, f), o + 1)
<1>0. fs \in Seq(Kinds) /\ r.depth - Len(fs) \in Nat /\ Fresh(o)
  BY DEF Expects
<1>1. Peek(o) \notin {"ws", "eof", "1"}
  BY DEF MarksOf, ArrayMarks, ObjectMarks, Brace
<1>2. At(o) \in Nat /\ At(o) + 1 \in 1..Len(r.text) /\ r.text[At(o) + 1] = Peek(o)
  BY <1>0, <1>1, AtSomething
<1>3. ItemThen(r, "value", fs, At(o)) <=>
        \/ CloseThen(r, Append(fs, f), At(o) + 1)
        \/ ItemThen(r, MarksOf(f).item, Append(fs, f), At(o) + 1)
  <2>1. r.depth > Len(fs)
    BY <1>0 DEF Reading, Readable
  <2>2. QED
    BY <1>0, <1>1, <1>2, <2>1, ContainerThen DEF Reading
<1>4. At(o + 1) = At(o) + 1 /\ Fresh(o + 1)
  BY <1>0, <1>1, AtToken
<1>5. /\ Append(fs, f) \in Seq(Kinds) /\ r.depth - Len(Append(fs, f)) \in Nat
  <2>1. Append(fs, f) \in Seq(Kinds) /\ Len(Append(fs, f)) = Len(fs) + 1 /\ Len(fs) \in Nat
    BY <1>0, AppendProperties
  <2>2. r.depth \in Nat
    BY DEF Reading, Readable
  <2>3. QED
    BY <2>1, <2>2
<1>6. /\ f = "Array" => MarksOf(f).item = "value"
      /\ f = "Object" => MarksOf(f).item = "member"
  BY DEF MarksOf, ArrayMarks, ObjectMarks
<1>7. QED
  BY <1>3, <1>4, <1>5, <1>6 DEF Expects, Completable

LEMMA ExpectsClosed ==
  ASSUME LexType, NEW r, Reading(r), NEW due \in {"next", "firstValue", "firstKey"},
         NEW fs, fs # << >>, NEW o \in 0..Len(input), Expects(r, due, fs, o),
         Peek(o) = Innermost(fs).close
  PROVE  Expects(r, "next", Shorter(fs), o + 1)
<1> DEFINE e == At(o)
<1>0. fs \in Seq(Kinds) /\ r.depth - Len(fs) \in Nat /\ Fresh(o) /\ r.depth \in Nat
  BY DEF Expects, Reading, Readable
<1>1. /\ Shorter(fs) \in Seq(Kinds) /\ Len(Shorter(fs)) = Len(fs) - 1 /\ Len(fs) \in Nat \ {0}
      /\ Innermost(fs) \in Containers /\ Innermost(fs).close # Comma
  BY <1>0, ShorterProperties
<1>2. Peek(o) \in {"]", EndBrace} /\ Peek(o) \in Structural
  BY <1>1 DEF Containers, ArrayMarks, ObjectMarks, Structural
<1>3. Peek(o) \notin {"ws", "eof", "1", "[", Brace}
  BY <1>2 DEF EndBrace, Brace
<1>4. e \in Nat /\ e + 1 \in 1..Len(r.text) /\ r.text[e + 1] = Peek(o)
  BY <1>0, <1>3, AtSomething
<1>5. At(o + 1) = e + 1 /\ Fresh(o + 1)
  BY <1>0, <1>3, AtToken
<1>6. CloseThen(r, fs, e) <=> Completes(r, Shorter(fs), e + 1)
  BY <1>4 DEF CloseThen
<1>7. Peek(o) \notin r.scalars /\ Peek(o) \notin r.keys
  BY <1>2, MarksAreNoWords
<1>8. ~ ItemThen(r, "value", fs, e)
  BY <1>0, <1>3, <1>4, <1>7, NoItemThen DEF Reading
<1>9. ~ ItemThen(r, "member", fs, e)
  BY <1>0, <1>4, <1>7, MemberThen DEF Reading
<1>10. due = "next" => (Completes(r, fs, e) <=> CloseThen(r, fs, e))
  <2>1. due = "next" => e \in 1..Len(r.text)
    <3>1. e \in 0..Len(r.text) /\ Len(r.text) \in Nat
      BY AtBounds DEF Reading
    <3>2. due = "next" => e # 0
      BY DEF Expects
    <3>3. QED
      BY <3>1, <3>2
  <2>2. r.text[e + 1] # Comma
    BY <1>1, <1>4
  <2>3. QED
    BY <1>0, <2>1, <2>2, AfterItem DEF Reading
<1>11. ReadsWhole(r) <=> Completes(r, Shorter(fs), e + 1)
  <2>1. ReadsWhole(r) <=> Completable(r, due, fs, e)
    BY DEF Expects
  <2>2. QED
    BY <1>6, <1>8, <1>9, <1>10, <2>1 DEF Completable
<1>12. r.depth - Len(Shorter(fs)) \in Nat /\ e + 1 # 0
  BY <1>0, <1>1, <1>4
<1> HIDE DEF e
<1>13. QED
  BY <1>1, <1>5, <1>11, <1>12 DEF Expects, Completable

LEMMA ExpectsComma ==
  ASSUME LexType, NEW r, Reading(r), NEW fs, fs # << >>, NEW o \in 0..Len(input),
         Expects(r, "next", fs, o), Peek(o) = Comma
  PROVE  /\ Innermost(fs) = ArrayMarks => Expects(r, "value", fs, o + 1)
         /\ Innermost(fs) = ObjectMarks => Expects(r, "key", fs, o + 1)
<1> DEFINE e == At(o)
<1>0. fs \in Seq(Kinds) /\ r.depth - Len(fs) \in Nat /\ Fresh(o)
  BY DEF Expects
<1>1. Peek(o) \notin {"ws", "eof", "1"}
  BY DEF Comma
<1>2. e \in Nat /\ e + 1 \in 1..Len(r.text) /\ r.text[e + 1] = Comma
  BY <1>0, <1>1, AtSomething
<1>3. At(o + 1) = e + 1 /\ Fresh(o + 1)
  BY <1>0, <1>1, AtToken
<1>4. ~ CloseThen(r, fs, e)
  BY <1>0, <1>2, ShorterProperties DEF CloseThen
<1>5. e \in 1..Len(r.text)
  <2>1. e \in 0..Len(r.text) /\ Len(r.text) \in Nat
    BY AtBounds DEF Reading
  <2>2. e # 0
    BY DEF Expects
  <2>3. QED
    BY <2>1, <2>2
<1>6. Completes(r, fs, e) <=> ItemThen(r, Innermost(fs).item, fs, e + 1)
  BY <1>0, <1>2, <1>4, <1>5, AfterItem DEF Reading
<1>7. ReadsWhole(r) <=> Completes(r, fs, e)
  BY DEF Expects, Completable
<1> HIDE DEF e
<1>8. ArrayMarks.item = "value" /\ ObjectMarks.item = "member"
  BY DEF ArrayMarks, ObjectMarks
<1>9. QED
  BY <1>0, <1>3, <1>6, <1>7, <1>8 DEF Expects, Completable

LEMMA ExpectsKey ==
  ASSUME LexType, NEW r, Reading(r), NEW fs, NEW o \in 0..Len(input),
         Expects(r, "key", fs, o), Peek(o) \in r.keys
  PROVE  Expects(r, "colon", fs, o + 1)
<1> DEFINE e == At(o)
<1>0. fs \in Seq(Kinds) /\ r.depth - Len(fs) \in Nat /\ Fresh(o)
  BY DEF Expects
<1>1. Peek(o) \notin {"ws", "eof", "1"}
  BY StringsAreTokens DEF Reading
<1>2. e \in Nat /\ e + 1 \in 1..Len(r.text) /\ r.text[e + 1] = Peek(o)
  BY <1>0, <1>1, AtSomething
<1>3. At(o + 1) = e + 1 /\ Fresh(o + 1)
  BY <1>0, <1>1, AtToken
<1>4. ItemThen(r, "member", fs, e) <=> ColonThen(r, fs, e + 1)
  BY <1>0, <1>2, MemberThen DEF Reading
<1>5. ReadsWhole(r) <=> ItemThen(r, "member", fs, e)
  BY DEF Expects, Completable
<1> HIDE DEF e
<1>6. QED
  BY <1>0, <1>3, <1>4, <1>5 DEF Expects, Completable

LEMMA ExpectsColon ==
  ASSUME LexType, NEW r, Reading(r), NEW fs, NEW o \in 0..Len(input),
         Expects(r, "colon", fs, o), Peek(o) = Colon
  PROVE  Expects(r, "value", fs, o + 1)
<1> DEFINE e == At(o)
<1>0. fs \in Seq(Kinds) /\ r.depth - Len(fs) \in Nat /\ Fresh(o)
  BY DEF Expects
<1>1. Peek(o) \notin {"ws", "eof", "1"}
  BY DEF Colon
<1>2. e \in Nat /\ e + 1 \in 1..Len(r.text) /\ r.text[e + 1] = Colon
  BY <1>0, <1>1, AtSomething
<1>3. At(o + 1) = e + 1 /\ Fresh(o + 1)
  BY <1>0, <1>1, AtToken
<1>4. ReadsWhole(r) <=> ColonThen(r, fs, e)
  BY DEF Expects, Completable
<1>5. ColonThen(r, fs, e) <=> ItemThen(r, "value", fs, e + 1)
  BY <1>2 DEF ColonThen
<1> HIDE DEF e
<1>6. QED
  BY <1>0, <1>3, <1>4, <1>5 DEF Expects, Completable

(* A token nothing due begins with: no completion is left.                 *)
LEMMA ExpectsNothing ==
  ASSUME LexType, NEW r, Reading(r), NEW due, NEW fs, NEW o \in 0..Len(input),
         Expects(r, due, fs, o), Peek(o) # "ws",
         \/ /\ due = "value" /\ Peek(o) \notin ScalarTokens
            /\ Peek(o) \notin {"[", Brace} \/ Len(fs) >= r.depth
         \/ due = "key" /\ Peek(o) \notin r.keys
         \/ due = "colon" /\ Peek(o) # Colon
         \/ /\ due = "next" /\ fs # << >>
            /\ Peek(o) \notin {Innermost(fs).close, Comma}
  PROVE  ~ ReadsWhole(r)
<1> DEFINE e == At(o)
<1>0. fs \in Seq(Kinds) /\ Fresh(o) /\ r.depth \in Nat /\ Len(fs) \in Nat
  BY LenProperties DEF Expects, Reading, Readable
<1>1. /\ e \in Nat
      /\ e + 1 \in 1..Len(r.text) => r.text[e + 1] = Peek(o)
  BY <1>0, AtSomething
<1>2. ReadsWhole(r) <=> Completable(r, due, fs, e)
  BY DEF Expects
<1>3. CASE /\ due = "value" /\ Peek(o) \notin ScalarTokens
           /\ Peek(o) \notin {"[", Brace} \/ Len(fs) >= r.depth
  <2>1. \/ e + 1 \notin 1..Len(r.text)
        \/ /\ r.text[e + 1] \notin r.scalars
           /\ r.text[e + 1] \notin {"[", Brace} \/ r.depth <= Len(fs)
    BY <1>0, <1>1, <1>3 DEF Reading
  <2>2. ~ ItemThen(r, "value", fs, e)
    BY <1>0, <1>1, <2>1, NoItemThen DEF Reading
  <2>3. QED
    BY <1>2, <1>3, <2>2 DEF Completable
<1>4. CASE due = "key" /\ Peek(o) \notin r.keys
  <2>1. ~ ItemThen(r, "member", fs, e)
    BY <1>0, <1>1, <1>4, MemberThen DEF Reading
  <2>2. QED
    BY <1>2, <1>4, <2>1 DEF Completable
<1>5. CASE due = "colon" /\ Peek(o) # Colon
  <2>1. ~ ColonThen(r, fs, e)
    BY <1>1, <1>5 DEF ColonThen
  <2>2. QED
    BY <1>2, <1>5, <2>1 DEF Completable
<1>6. CASE due = "next" /\ fs # << >> /\ Peek(o) \notin {Innermost(fs).close, Comma}
  <2>1. e \in 1..Len(r.text)
    <3>1. e \in 0..Len(r.text) /\ Len(r.text) \in Nat
      BY AtBounds DEF Reading
    <3>2. e # 0
      BY <1>6 DEF Expects
    <3>3. QED
      BY <3>1, <3>2
  <2>2. ~ CloseThen(r, fs, e)
    BY <1>1, <1>6 DEF CloseThen
  <2>3. e + 1 \in 1..Len(r.text) => r.text[e + 1] # Comma
    BY <1>1, <1>6
  <2>4. ~ Completes(r, fs, e)
    BY <1>0, <1>6, <2>1, <2>2, <2>3, AfterItem DEF Reading
  <2>5. QED
    BY <1>2, <1>6, <2>4 DEF Completable
<1>7. QED
  BY <1>3, <1>4, <1>5, <1>6

(* At the top, where the whole should end.                                 *)
LEMMA ExpectsEnd ==
  ASSUME NEW r, Reading(r), NEW o, Expects(r, "next", << >>, o)
  PROVE  ReadsWhole(r) <=> At(o) = r.end /\ At(o) \in 1..Len(r.text)
BY CompletesAtTop DEF Reading, Expects, Completable

-----------------------------------------------------------------------------
(* The methods.  What a method returns says what is due next; inside fs    *)
(* there is room for another container when there is on the frame stack.   *)
Room(r, fs) == Len(fs) < r.depth <=> Len(frames) < MaxDepth

LEMMA ReturnReads ==
  ASSUME NEW o, NEW ev, Return(o, ev)
  PROVE  ret' = ev /\ offset' = o
BY DEF Return

LEMMA UnexpectedReads ==
  ASSUME NEW o, Unexpected(o)
  PROVE  ret' \in ErrorKind
BY DEF Unexpected, Return, ErrorKind

LEMMA PushReads ==
  ASSUME LexType, NEW r, Reading(r), NEW fs, NEW o \in 0..Len(input),
         Expects(r, "value", fs, o), Room(r, fs), Peek(o) # "ws",
         NEW f \in Kinds, Peek(o) = MarksOf(f).open,
         NEW p, NEW ev, ev \notin ErrorKind, PushFrame(f, p, ev)
  PROVE  /\ ret' = ev \/ ret' \in ErrorKind
         /\ ret' = ev => /\ offset' = p
                         /\ f = "Array" => Expects(r, "firstValue", Append(fs, f), o + 1)
                         /\ f = "Object" => Expects(r, "firstKey", Append(fs, f), o + 1)
         /\ ret' \in ErrorKind => ~ ReadsWhole(r)
<1>1. CASE Len(frames) < MaxDepth /\ offset' = p /\ ret' = ev
  <2>1. Len(fs) < r.depth
    BY <1>1 DEF Room
  <2>2. /\ f = "Array" => Expects(r, "firstValue", Append(fs, f), o + 1)
        /\ f = "Object" => Expects(r, "firstKey", Append(fs, f), o + 1)
    BY <2>1, ExpectsOpened
  <2>3. QED
    BY <1>1, <2>2
<1>2. CASE Len(frames) >= MaxDepth /\ Return(p, "DepthLimitExceeded")
  <2>1. ret' \in ErrorKind
    BY <1>2 DEF Return, ErrorKind
  <2>2. Len(fs) >= r.depth
    <3>1. Len(frames) \in Nat /\ MaxDepth \in Nat /\ Len(fs) \in Nat /\ r.depth \in Nat
      BY LexerAssumption, LenProperties DEF LexType, Expects, Reading, Readable
    <3>2. QED
      BY <1>2, <3>1 DEF Room
  <2>3. Peek(o) \notin ScalarTokens
    <3>1. Peek(o) \in Structural
      BY DEF MarksOf, ArrayMarks, ObjectMarks, Structural
    <3>2. QED
      BY <3>1, MarksAreNoWords DEF Reading
  <2>4. ~ ReadsWhole(r)
    BY <2>2, <2>3, ExpectsNothing
  <2>5. QED
    BY <2>1, <2>4
<1>3. QED
  BY <1>1, <1>2 DEF PushFrame

LEMMA ReadValueReads ==
  ASSUME LexType, NEW r, Reading(r), NEW fs, NEW from \in 0..Len(input),
         Expects(r, "value", fs, from), Room(r, fs), ReadValue(from)
  PROVE  /\ ret' = "StartObject" => Expects(r, "firstKey", Append(fs, "Object"), offset')
         /\ ret' = "StartArray" => Expects(r, "firstValue", Append(fs, "Array"), offset')
         /\ ret' \in Scalar => Expects(r, "next", fs, offset')
         /\ ret' \in ErrorKind => ~ ReadsWhole(r)
<1> DEFINE o == SkipWhitespace(from)
<1>1. /\ o \in 0..Len(input) /\ Peek(o) # "ws" /\ Expects(r, "value", fs, o)
  BY AtWhitespace, ExpectsBehindWhitespace DEF Expects
<1>2. \/ Peek(o) = Brace /\ PushFrame("Object", o + 1, "StartObject")
      \/ Peek(o) = "[" /\ PushFrame("Array", o + 1, "StartArray")
      \/ ReadString(o, "String")
      \/ Peek(o) = "kw" /\ Return(o + 1, "Literal")
      \/ Peek(o) = "1" /\ Return(RunEnd(o, "1"), "Number")
      \/ Peek(o) \notin Strings \cup {Brace, "[", "lone", "kw", "1"} /\ Unexpected(o)
  BY Zenon DEF ReadValue, Brace
<1> HIDE DEF o
<1>3. /\ "StartObject" \notin ErrorKind /\ "StartArray" \notin ErrorKind
      /\ Scalar \cap ErrorKind = {} /\ "StartObject" \notin Scalar /\ "StartArray" \notin Scalar
      /\ {"Literal", "Number", "String"} \subseteq Scalar
  BY DEF ErrorKind, Scalar
<1>4. CASE Peek(o) = Brace /\ PushFrame("Object", o + 1, "StartObject")
  <2>1. "Object" \in Kinds /\ Peek(o) = MarksOf("Object").open
    BY <1>4 DEF Kinds, MarksOf, ObjectMarks
  <2>2. QED
    BY <1>1, <1>3, <1>4, <2>1, PushReads
<1>5. CASE Peek(o) = "[" /\ PushFrame("Array", o + 1, "StartArray")
  <2>1. "Array" \in Kinds /\ Peek(o) = MarksOf("Array").open
    BY <1>5 DEF Kinds, MarksOf, ArrayMarks
  <2>2. QED
    BY <1>1, <1>3, <1>5, <2>1, PushReads
<1>6. ASSUME NEW p, NEW ev \in Scalar, Return(p, ev), Expects(r, "next", fs, p)
      PROVE  /\ ret' \in Scalar /\ ret' \notin ErrorKind
             /\ ret' # "StartObject" /\ ret' # "StartArray" /\ Expects(r, "next", fs, offset')
  BY <1>3, <1>6, ReturnReads
<1>7. CASE ReadString(o, "String")
  <2>1. CASE Peek(o) \in Strings /\ Return(o + 1, "String")
    <3>1. Peek(o) \in ScalarTokens /\ Peek(o) # "1"
      BY <2>1, StringsAreTokens DEF ScalarTokens
    <3>2. Expects(r, "next", fs, o + 1)
      BY <1>1, <3>1, ExpectsScalar
    <3>3. QED
      BY <1>3, <1>6, <2>1, <3>2
  <2>2. CASE Peek(o) = "lone" /\ Return(o + 1, "UnpairedSurrogate")
    <3>1. ret' \in ErrorKind
      BY <2>2 DEF Return, ErrorKind
    <3>2. Peek(o) \notin ScalarTokens /\ Peek(o) \notin {"[", Brace}
      BY <2>2, StringsAreTokens DEF ScalarTokens, Brace
    <3>3. ~ ReadsWhole(r)
      BY <1>1, <3>2, ExpectsNothing
    <3>4. QED
      BY <1>3, <3>1, <3>3
  <2>3. QED
    BY <1>7, <2>1, <2>2 DEF ReadString
<1>8. CASE Peek(o) = "kw" /\ Return(o + 1, "Literal")
  <2>1. Peek(o) \in ScalarTokens /\ Peek(o) # "1"
    BY <1>8 DEF ScalarTokens
  <2>2. Expects(r, "next", fs, o + 1)
    BY <1>1, <2>1, ExpectsScalar
  <2>3. QED
    BY <1>3, <1>6, <1>8, <2>2
<1>9. CASE Peek(o) = "1" /\ Return(RunEnd(o, "1"), "Number")
  <2>1. Peek(o) \in ScalarTokens
    BY <1>9 DEF ScalarTokens
  <2>2. Expects(r, "next", fs, RunEnd(o, "1"))
    BY <1>1, <1>9, <2>1, ExpectsScalar
  <2>3. QED
    BY <1>3, <1>6, <1>9, <2>2
<1>10. CASE Peek(o) \notin Strings \cup {Brace, "[", "lone", "kw", "1"} /\ Unexpected(o)
  <2>1. Peek(o) \notin ScalarTokens /\ Peek(o) \notin {"[", Brace}
    BY <1>10 DEF ScalarTokens
  <2>2. ~ ReadsWhole(r)
    BY <1>1, <2>1, ExpectsNothing
  <2>3. QED
    BY <1>3, <1>10, <2>2, UnexpectedReads
<1>11. QED
  BY <1>2, <1>4, <1>5, <1>7, <1>8, <1>9, <1>10

LEMMA PopReads ==
  ASSUME LexType, NEW r, Reading(r), NEW due \in {"next", "firstValue", "firstKey"},
         NEW fs, fs # << >>, NEW o \in 0..Len(input), Expects(r, due, fs, o),
         NEW f \in Kinds, Innermost(fs) = MarksOf(f), Peek(o) = MarksOf(f).close,
         FS!TopOf(frames) = f, NEW ev, PopFrame(f, o + 1, ev)
  PROVE  ret' = ev /\ offset' = o + 1 /\ Expects(r, "next", Shorter(fs), offset')
<1>1. Expects(r, "next", Shorter(fs), o + 1)
  BY ExpectsClosed
<1>2. frames # << >>
  BY DEF FS!TopOf, Kinds
<1>3. ret' = ev /\ offset' = o + 1
  BY <1>2 DEF PopFrame
<1>4. QED
  BY <1>1, <1>3

LEMMA ArrayContinueReads ==
  ASSUME LexType, NEW r, Reading(r), NEW fs, fs # << >>, Expects(r, "next", fs, offset),
         Innermost(fs) = ArrayMarks, FS!TopOf(frames) = "Array", ArrayContinue("]")
  PROVE  /\ ret' = "Closed" => Expects(r, "next", Shorter(fs), offset')
         /\ ret' = "More" => Expects(r, "value", fs, offset')
         /\ ret' \in ErrorKind => ~ ReadsWhole(r)
<1> DEFINE o == SkipWhitespace(offset)
           q == SkipWhitespace(o + 1)
<1>1. /\ offset \in 0..Len(input) /\ o \in 0..Len(input) /\ Peek(o) # "ws"
      /\ Expects(r, "next", fs, o)
  BY AtWhitespace, ExpectsBehindWhitespace DEF Expects, LexType
<1>2. \/ Peek(o) = "]" /\ PopFrame("Array", o + 1, "Closed")
      \/ Peek(o) = Comma /\ Return(q, "More")
      \/ Peek(o) \notin {"]", Comma} /\ Unexpected(o)
  BY Zenon DEF ArrayContinue, Comma
<1>3. "Closed" \notin ErrorKind /\ "More" \notin ErrorKind
  BY DEF ErrorKind
<1>4. /\ "Array" \in Kinds /\ MarksOf("Array") = ArrayMarks /\ ArrayMarks.close = "]"
  BY DEF Kinds, MarksOf, ArrayMarks
<1>5. Peek(o) = Comma => Expects(r, "value", fs, q)
  <2>1. SUFFICES ASSUME Peek(o) = Comma PROVE Expects(r, "value", fs, q)
    OBVIOUS
  <2>2. Expects(r, "value", fs, o + 1)
    BY <1>1, <2>1, ExpectsComma
  <2>3. o + 1 \in 0..Len(input)
    BY <1>1, <2>1, InsideInput DEF Comma
  <2>4. QED
    BY <2>2, <2>3, ExpectsBehindWhitespace
<1> HIDE DEF o, q
<1>6. CASE Peek(o) = "]" /\ PopFrame("Array", o + 1, "Closed")
  BY <1>1, <1>3, <1>4, <1>6, PopReads
<1>7. CASE Peek(o) = Comma /\ Return(q, "More")
  BY <1>3, <1>5, <1>7, ReturnReads
<1>8. CASE Peek(o) \notin {"]", Comma} /\ Unexpected(o)
  <2>1. ~ ReadsWhole(r)
    BY <1>1, <1>4, <1>8, ExpectsNothing
  <2>2. QED
    BY <1>3, <1>8, <2>1, UnexpectedReads
<1>9. QED
  BY <1>2, <1>6, <1>7, <1>8

LEMMA ExpectColonReads ==
  ASSUME LexType, NEW r, Reading(r), NEW fs, NEW from \in 0..Len(input),
         Expects(r, "colon", fs, from), ExpectColon(from)
  PROVE  /\ ret' \in {"Key"} \cup ErrorKind
         /\ ret' = "Key" => Expects(r, "value", fs, offset')
         /\ ret' \in ErrorKind => ~ ReadsWhole(r)
<1> DEFINE o == SkipWhitespace(from)
           q == SkipWhitespace(o + 1)
<1>1. o \in 0..Len(input) /\ Peek(o) # "ws" /\ Expects(r, "colon", fs, o)
  BY AtWhitespace, ExpectsBehindWhitespace DEF Expects
<1>2. \/ Peek(o) = Colon /\ Return(q, "Key")
      \/ Peek(o) # Colon /\ Unexpected(o)
  BY Zenon DEF ExpectColon, Colon
<1>3. "Key" \notin ErrorKind
  BY DEF ErrorKind
<1>4. Peek(o) = Colon => Expects(r, "value", fs, q)
  <2>1. SUFFICES ASSUME Peek(o) = Colon PROVE Expects(r, "value", fs, q)
    OBVIOUS
  <2>2. Expects(r, "value", fs, o + 1)
    BY <1>1, <2>1, ExpectsColon
  <2>3. o + 1 \in 0..Len(input)
    BY <1>1, <2>1, InsideInput DEF Colon
  <2>4. QED
    BY <2>2, <2>3, ExpectsBehindWhitespace
<1> HIDE DEF o, q
<1>5. CASE Peek(o) = Colon /\ Return(q, "Key")
  BY <1>3, <1>4, <1>5, ReturnReads
<1>6. CASE Peek(o) # Colon /\ Unexpected(o)
  <2>1. ~ ReadsWhole(r)
    BY <1>1, <1>6, ExpectsNothing
  <2>2. QED
    BY <1>3, <1>6, <2>1, UnexpectedReads
<1>7. QED
  BY <1>2, <1>5, <1>6

(* The key walkers take every string for a key, and so must the grammar.   *)
AnyKey(r) == r.keys = Strings \cup {"lone"}

LEMMA QuoteIsKey ==
  ASSUME NEW r, AnyKey(r), NEW o
  PROVE  IsQuote(o) <=> Peek(o) \in r.keys
BY DEF AnyKey, IsQuote, BorrowedString, EscapedString, Strings

LEMMA KeyThenColonReads ==
  ASSUME LexType, NEW r, Reading(r), AnyKey(r), NEW fs, NEW o \in 0..Len(input),
         Expects(r, "key", fs, o), IsQuote(o), NEW lex \in BOOLEAN, KeyThenColon(o, lex)
  PROVE  /\ ret' \in {"Key"} \cup ErrorKind
         /\ ret' = "Key" => Expects(r, "value", fs, offset')
         /\ lex /\ ret' \in ErrorKind => ~ ReadsWhole(r)
<1>1. Expects(r, "colon", fs, o + 1)
  BY QuoteIsKey, ExpectsKey
<1>2. o + 1 \in 0..Len(input)
  <2>1. Peek(o) # "eof"
    BY QuoteIsKey, MarksAreNoWords
  <2>2. QED
    BY <2>1, InsideInput
<1>3. CASE ExpectColon(o + 1)
  BY <1>1, <1>2, <1>3, ExpectColonReads
<1>4. CASE ~ lex /\ Return(o, "InvalidEscape")
  BY <1>4, ReturnReads DEF ErrorKind
<1>5. QED
  BY <1>3, <1>4 DEF KeyThenColon

LEMMA ObjectFirstKeyReads ==
  ASSUME LexType, NEW r, Reading(r), AnyKey(r), NEW fs, fs # << >>,
         Expects(r, "firstKey", fs, offset), Innermost(fs) = ObjectMarks,
         FS!TopOf(frames) = "Object", NEW lex \in BOOLEAN, ObjectFirstKey(lex)
  PROVE  /\ ret' = "Closed" => Expects(r, "next", Shorter(fs), offset')
         /\ ret' = "Key" => Expects(r, "value", fs, offset')
         /\ lex /\ ret' \in ErrorKind => ~ ReadsWhole(r)
<1> DEFINE o == SkipWhitespace(offset)
<1>1. /\ offset \in 0..Len(input) /\ o \in 0..Len(input) /\ Peek(o) # "ws"
      /\ Expects(r, "firstKey", fs, o)
  BY AtWhitespace, ExpectsBehindWhitespace DEF Expects, LexType
<1>2. \/ Peek(o) = EndBrace /\ PopFrame("Object", o + 1, "Closed")
      \/ IsQuote(o) /\ KeyThenColon(o, lex)
      \/ Peek(o) # EndBrace /\ ~ IsQuote(o) /\ Unexpected(o)
  BY Zenon DEF ObjectFirstKey, EndBrace
<1>3. "Closed" \notin ErrorKind /\ "Key" \notin ErrorKind
  BY DEF ErrorKind
<1>4. /\ "Object" \in Kinds /\ MarksOf("Object") = ObjectMarks /\ ObjectMarks.close = EndBrace
  BY DEF Kinds, MarksOf, ObjectMarks
<1> HIDE DEF o
<1>5. CASE Peek(o) = EndBrace /\ PopFrame("Object", o + 1, "Closed")
  BY <1>1, <1>3, <1>4, <1>5, PopReads
<1>6. Peek(o) # EndBrace => Expects(r, "key", fs, o)
  BY <1>1, <1>4, FirstIsAnother
<1>7. CASE IsQuote(o) /\ KeyThenColon(o, lex)
  <2>1. Peek(o) # EndBrace
    <3>1. EndBrace \notin r.keys
      BY MarksAreNoWords DEF Structural
    <3>2. QED
      BY <1>7, <3>1, QuoteIsKey
  <2>2. Expects(r, "key", fs, o)
    BY <1>6, <2>1
  <2>3. /\ ret' \in {"Key"} \cup ErrorKind
        /\ ret' = "Key" => Expects(r, "value", fs, offset')
        /\ lex /\ ret' \in ErrorKind => ~ ReadsWhole(r)
    BY <1>1, <1>7, <2>2, KeyThenColonReads
  <2>4. ret' # "Closed"
    BY <1>3, <2>3
  <2>5. QED
    BY <2>3, <2>4
<1>8. CASE Peek(o) # EndBrace /\ ~ IsQuote(o) /\ Unexpected(o)
  <2>1. ~ ReadsWhole(r)
    BY <1>1, <1>6, <1>8, QuoteIsKey, ExpectsNothing
  <2>2. QED
    BY <1>3, <1>8, <2>1, UnexpectedReads
<1>9. QED
  BY <1>2, <1>5, <1>7, <1>8

LEMMA ObjectNextKeyReads ==
  ASSUME LexType, NEW r, Reading(r), AnyKey(r), NEW fs, fs # << >>,
         Expects(r, "next", fs, offset), Innermost(fs) = ObjectMarks,
         FS!TopOf(frames) = "Object", NEW lex \in BOOLEAN, ObjectNextKey(lex)
  PROVE  /\ ret' = "Closed" => Expects(r, "next", Shorter(fs), offset')
         /\ ret' = "Key" => Expects(r, "value", fs, offset')
         /\ lex /\ ret' \in ErrorKind => ~ ReadsWhole(r)
<1> DEFINE o == SkipWhitespace(offset)
           q == SkipWhitespace(o + 1)
<1>1. /\ offset \in 0..Len(input) /\ o \in 0..Len(input) /\ Peek(o) # "ws"
      /\ Expects(r, "next", fs, o)
  BY AtWhitespace, ExpectsBehindWhitespace DEF Expects, LexType
<1>2. \/ Peek(o) = EndBrace /\ PopFrame("Object", o + 1, "Closed")
      \/ Peek(o) = Comma /\ IsQuote(q) /\ KeyThenColon(q, lex)
      \/ Peek(o) = Comma /\ ~ IsQuote(q) /\ Unexpected(q)
      \/ Peek(o) \notin {EndBrace, Comma} /\ Unexpected(o)
  BY Zenon DEF ObjectNextKey, EndBrace, Comma
<1>3. "Closed" \notin ErrorKind /\ "Key" \notin ErrorKind
  BY DEF ErrorKind
<1>4. /\ "Object" \in Kinds /\ MarksOf("Object") = ObjectMarks /\ ObjectMarks.close = EndBrace
  BY DEF Kinds, MarksOf, ObjectMarks
<1>5. Peek(o) = Comma => Expects(r, "key", fs, q) /\ q \in 0..Len(input) /\ Peek(q) # "ws"
  <2>1. SUFFICES ASSUME Peek(o) = Comma
                 PROVE  Expects(r, "key", fs, q) /\ q \in 0..Len(input) /\ Peek(q) # "ws"
    OBVIOUS
  <2>2. Expects(r, "key", fs, o + 1)
    BY <1>1, <2>1, ExpectsComma
  <2>3. o + 1 \in 0..Len(input)
    BY <1>1, <2>1, InsideInput DEF Comma
  <2>4. Fresh(o + 1)
    BY <2>2 DEF Expects
  <2>5. QED
    BY <2>2, <2>3, <2>4, AtWhitespace, ExpectsBehindWhitespace
<1> HIDE DEF o, q
<1>6. CASE Peek(o) = EndBrace /\ PopFrame("Object", o + 1, "Closed")
  BY <1>1, <1>3, <1>4, <1>6, PopReads
<1>7. CASE Peek(o) = Comma /\ IsQuote(q) /\ KeyThenColon(q, lex)
  <2>1. /\ ret' \in {"Key"} \cup ErrorKind
        /\ ret' = "Key" => Expects(r, "value", fs, offset')
        /\ lex /\ ret' \in ErrorKind => ~ ReadsWhole(r)
    BY <1>5, <1>7, KeyThenColonReads
  <2>2. ret' # "Closed"
    BY <1>3, <2>1
  <2>3. QED
    BY <2>1, <2>2
<1>8. CASE Peek(o) = Comma /\ ~ IsQuote(q) /\ Unexpected(q)
  <2>1. ~ ReadsWhole(r)
    BY <1>5, <1>8, QuoteIsKey, ExpectsNothing
  <2>2. QED
    BY <1>3, <1>8, <2>1, UnexpectedReads
<1>9. CASE Peek(o) \notin {EndBrace, Comma} /\ Unexpected(o)
  <2>1. ~ ReadsWhole(r)
    BY <1>1, <1>4, <1>9, ExpectsNothing
  <2>2. QED
    BY <1>3, <1>9, <2>1, UnexpectedReads
<1>10. QED
  BY <1>2, <1>6, <1>7, <1>8, <1>9

-----------------------------------------------------------------------------
(* skip_value touches no frame of its caller's and, when it succeeds,      *)
(* leaves the stack exactly as it found it: for every input, every depth   *)
(* limit and every stack it is entered with.                               *)
(*                                                                         *)
(* The code recurses and the model keeps no call stack, so the invariant   *)
(* has to say that a body that is being walked is above the entry depth:   *)
(* that is why a close in it never reaches the caller's frames.            *)

InSkippedBody == {"arrayBody", "arrayNext", "firstKey", "nextKey"}

(* s is the entry stack with n or more frames above it.                    *)
AboveSkipEntry(s, n) ==
  /\ Len(s) >= Len(skipEntry) + n
  /\ \A i \in 1..Len(skipEntry) : s[i] = skipEntry[i]

SkipInv ==
  /\ LexType
  /\ skipEntry \in Seq(FS!Frame)
  /\ AboveSkipEntry(frames, 0)
  /\ skipStep \in InSkippedBody => AboveSkipEntry(frames, 1)
  /\ skipStep = "ok" => Len(frames) = Len(skipEntry)

SkipWalked ==
  \/ \E f \in FS!Frame : Closes(f, "Closed")
  \/ ret' \in {"More", "Key"} /\ frames' = frames
  \/ Refused

LEMMA SkipInitInv == SkipInit => SkipInv
<1> SUFFICES ASSUME SkipInit PROVE SkipInv
  OBVIOUS
<1>1. input \in Seq(Token) /\ skipEntry \in Seq(FS!Frame) /\ Len(skipEntry) <= MaxDepth
  BY LexerAssumption, SkipAssumption DEF SkipInit
<1>2. Len(input) \in Nat /\ Len(skipEntry) \in Nat
  BY <1>1, LenProperties
<1>3. LexType
  BY <1>1, <1>2 DEF SkipInit, LexType
<1>4. QED
  BY <1>1, <1>2, <1>3 DEF SkipInit, SkipInv, AboveSkipEntry, InSkippedBody

(* Where a finished value leads to: out, or into a body above the entry.   *)
LEMMA AfterSkippedIsAbove ==
  ASSUME skipEntry \in Seq(FS!Frame), NEW s \in Seq(FS!Frame), AboveSkipEntry(s, 0)
  PROVE  /\ AfterSkipped(s) = "ok" => Len(s) = Len(skipEntry)
         /\ AfterSkipped(s) \in InSkippedBody => AboveSkipEntry(s, 1)
         /\ AfterSkipped(s) \in InSkippedBody \cup {"ok"}
<1>1. Len(s) \in Nat /\ Len(skipEntry) \in Nat
  BY LenProperties
<1>2. QED
  BY <1>1 DEF AfterSkipped, AboveSkipEntry, InSkippedBody

(* Opening a container adds a frame, closing one in a body removes one.    *)
LEMMA OpenedIsAboveSkip ==
  ASSUME SkipInv, NEW f \in FS!Frame, NEW r, Opened(f, r), UNCHANGED skipEntry
  PROVE  AboveSkipEntry(frames, 1)'
<1>1. frames \in Seq(FS!Frame) /\ Len(frames) \in Nat /\ Len(skipEntry) \in Nat
  BY LenProperties DEF SkipInv, LexType
<1>2. /\ Len(frames') = Len(frames) + 1
      /\ \A i \in 1..Len(frames) : frames'[i] = frames[i]
  BY <1>1, AppendProperties DEF Opened
<1>3. QED
  BY <1>1, <1>2 DEF SkipInv, AboveSkipEntry

LEMMA ClosedIsAboveSkip ==
  ASSUME SkipInv, AboveSkipEntry(frames, 1), NEW f \in FS!Frame, NEW r, Closes(f, r), UNCHANGED skipEntry
  PROVE  AboveSkipEntry(frames, 0)'
<1>1. frames \in Seq(FS!Frame) /\ Len(frames) \in Nat /\ Len(skipEntry) \in Nat
  BY LenProperties DEF SkipInv, LexType
<1>2. /\ Len(frames') = Len(frames) - 1
      /\ \A i \in 1..(Len(frames) - 1) : frames'[i] = frames[i]
  BY <1>1, PoppedProperties DEF Closes
<1>3. QED
  BY <1>1, <1>2 DEF AboveSkipEntry

-----------------------------------------------------------------------------
LEMMA SkipOneKeeps ==
  ASSUME SkipInv, SkipOne
  PROVE  SkipInv'
<1>1. LexType /\ offset \in 0..Len(input) /\ UNCHANGED skipEntry
  BY DEF SkipInv, LexType, SkipOne, SkipThen
<1>2. LexType' /\ frames' \in Seq(FS!Frame) /\ skipEntry' \in Seq(FS!Frame)
  BY <1>1, ReadValueEffect DEF SkipOne, LexType, SkipInv
<1>3. CASE \/ Opened("Object", "StartObject")
           \/ Opened("Array", "StartArray")
  <2>1. AboveSkipEntry(frames, 1)'
    BY <1>1, <1>3, OpenedIsAboveSkip DEF FS!Frame
  <2>2. skipStep' \in InSkippedBody
    BY <1>3 DEF SkipOne, SkipThen, Opened, InSkippedBody, ErrorKind
  <2>3. QED
    BY <1>2, <2>1, <2>2, LenProperties DEF SkipInv, AboveSkipEntry, InSkippedBody, LexType
<1>4. CASE ret' \in Scalar /\ frames' = frames
  <2>1. skipStep' = AfterSkipped(frames)
    BY <1>4 DEF SkipOne, SkipThen, Scalar, ErrorKind
  <2>2. QED
    BY <1>1, <1>2, <1>4, <2>1, AfterSkippedIsAbove DEF SkipInv, AboveSkipEntry, LexType
<1>5. CASE Refused
  <2>1. skipStep' = "error"
    BY <1>5 DEF SkipOne, SkipThen, Refused
  <2>2. QED
    BY <1>1, <1>2, <1>5, <2>1 DEF SkipInv, AboveSkipEntry, InSkippedBody, Refused
<1>6. QED
  BY <1>1, <1>3, <1>4, <1>5, ReadValueEffect DEF SkipOne

(* Every step in a body closes it, goes on to a value, or fails.           *)
LEMMA SkipBodyKeeps ==
  ASSUME SkipInv, skipStep \in InSkippedBody, LexType', SkipWalked,
         SkipThen(IF ret' = "Closed" THEN AfterSkipped(frames') ELSE "value")
  PROVE  SkipInv'
<1>1. UNCHANGED skipEntry /\ skipEntry' \in Seq(FS!Frame) /\ frames' \in Seq(FS!Frame)
  BY DEF SkipThen, SkipInv, LexType
<1>2. AboveSkipEntry(frames, 1)
  BY DEF SkipInv
<1>3. ASSUME NEW f \in FS!Frame, Closes(f, "Closed")
      PROVE  SkipInv'
  <2>1. AboveSkipEntry(frames, 0)'
    BY <1>1, <1>2, <1>3, ClosedIsAboveSkip
  <2>2. CASE ret' = "Closed"
    <3>1. skipStep' = AfterSkipped(frames') /\ AfterSkipped(frames') = AfterSkipped(frames)'
      BY <1>1, <2>2 DEF SkipThen, ErrorKind, AfterSkipped
    <3>2. AboveSkipEntry(frames', 0)
      BY <1>1, <2>1 DEF AboveSkipEntry
    <3>3. /\ skipStep' = "ok" => Len(frames') = Len(skipEntry)
          /\ skipStep' \in InSkippedBody => AboveSkipEntry(frames', 1)
      BY <1>1, <3>1, <3>2, AfterSkippedIsAbove DEF SkipInv
    <3>4. QED
      BY <1>1, <2>1, <3>3 DEF SkipInv, AboveSkipEntry
  <2>3. CASE ret' = "TypeMismatch"
    <3>1. skipStep' = "error"
      BY <2>3 DEF SkipThen, ErrorKind
    <3>2. QED
      BY <1>1, <2>1, <3>1 DEF SkipInv, InSkippedBody
  <2>4. QED
    BY <1>3, <2>2, <2>3 DEF Closes
<1>4. CASE ret' \in {"More", "Key"} /\ frames' = frames
  <2>1. skipStep' = "value"
    BY <1>4 DEF SkipThen, ErrorKind
  <2>2. QED
    BY <1>1, <1>4, <2>1 DEF SkipInv, AboveSkipEntry, InSkippedBody
<1>5. CASE Refused
  <2>1. skipStep' = "error"
    BY <1>5 DEF SkipThen, Refused
  <2>2. QED
    BY <1>1, <1>5, <2>1 DEF SkipInv, AboveSkipEntry, InSkippedBody, Refused
<1>6. QED
  BY <1>3, <1>4, <1>5 DEF SkipWalked

LEMMA SkipArrayBodyKeeps ==
  ASSUME SkipInv, SkipArrayBody
  PROVE  SkipInv'
<1> DEFINE o == SkipWhitespace(offset)
<1>1. LexType /\ o \in 0..Len(input) /\ skipStep \in InSkippedBody
  BY SkipWhitespaceInRange DEF SkipInv, LexType, SkipArrayBody, InSkippedBody
<1>2. CASE Peek(o) = "]" /\ PopFrame("Array", o + 1, "Closed") /\ SkipThen(AfterSkipped(frames'))
  <2>1. o + 1 \in 0..Len(input)
    BY <1>1, <1>2, InsideInput
  <2>2. LexType' /\ (Refused \/ Closes("Array", "Closed"))
    BY <1>1, <1>2, <2>1, PopFrameEffect DEF Closes, FS!Frame
  <2>3. SkipWalked
    BY <2>2 DEF SkipWalked, FS!Frame
  <2>4. SkipThen(IF ret' = "Closed" THEN AfterSkipped(frames') ELSE "value")
    BY <1>2, <2>2 DEF SkipThen, Closes, Refused, ErrorKind
  <2>5. QED
    BY <1>1, <2>2, <2>3, <2>4, SkipBodyKeeps
<1>3. CASE Return(o, "More") /\ SkipThen("value")
  <2>1. LexType' /\ SkipWalked
    BY <1>1, <1>3, ReturnEffect DEF SkipWalked
  <2>2. SkipThen(IF ret' = "Closed" THEN AfterSkipped(frames') ELSE "value")
    BY <1>3 DEF SkipThen, Return
  <2>3. QED
    BY <1>1, <2>1, <2>2, SkipBodyKeeps
<1>4. QED
  BY <1>2, <1>3 DEF SkipArrayBody

LEMMA SkipLoopKeeps ==
  ASSUME SkipInv, SkipArrayNext \/ SkipFirstKey \/ SkipNextKey
  PROVE  SkipInv'
<1>1. LexType /\ skipStep \in InSkippedBody
  BY DEF SkipInv, InSkippedBody, SkipArrayNext, SkipFirstKey, SkipNextKey
<1>2. LexType' /\ SkipWalked
  <2>1. CASE SkipArrayNext
    BY <1>1, <2>1, ArrayContinueEffect DEF SkipArrayNext, SkipWalked, FS!Frame
  <2>2. CASE SkipFirstKey
    BY <1>1, <2>2, ObjectFirstKeyEffect DEF SkipFirstKey, SkipWalked, KeyWalked, FS!Frame
  <2>3. CASE SkipNextKey
    BY <1>1, <2>3, ObjectNextKeyEffect DEF SkipNextKey, SkipWalked, KeyWalked, FS!Frame
  <2>4. QED
    BY <2>1, <2>2, <2>3
<1>3. SkipThen(IF ret' = "Closed" THEN AfterSkipped(frames') ELSE "value")
  BY DEF SkipArrayNext, SkipFirstKey, SkipNextKey
<1>4. QED
  BY <1>1, <1>2, <1>3, SkipBodyKeeps

LEMMA SkipStepInv == SkipInv /\ [SkipNext]_skipVars => SkipInv'
<1> SUFFICES ASSUME SkipInv, [SkipNext]_skipVars PROVE SkipInv'
  OBVIOUS
<1>1. CASE SkipOne
  BY <1>1, SkipOneKeeps
<1>2. CASE SkipArrayBody
  BY <1>2, SkipArrayBodyKeeps
<1>3. CASE SkipArrayNext \/ SkipFirstKey \/ SkipNextKey
  BY <1>3, SkipLoopKeeps
<1>4. CASE UNCHANGED skipVars
  BY <1>4 DEF skipVars, SkipInv, LexType, AboveSkipEntry
<1>5. QED
  BY <1>1, <1>2, <1>3, <1>4 DEF SkipNext

-----------------------------------------------------------------------------
(* A stack above the entry starts with it, and at its depth is it.         *)
LEMMA AboveSkipIsPrefix ==
  ASSUME SkipInv
  PROVE  /\ SubSeq(frames, 1, Len(skipEntry)) = skipEntry
         /\ Len(frames) = Len(skipEntry) => frames = skipEntry
<1> DEFINE n == Len(skipEntry)
           p == SubSeq(frames, 1, n)
<1>1. /\ frames \in Seq(FS!Frame) /\ skipEntry \in Seq(FS!Frame)
      /\ Len(frames) \in Nat /\ n \in Nat /\ n <= Len(frames)
      /\ \A i \in 1..n : frames[i] = skipEntry[i]
  BY LenProperties DEF SkipInv, LexType, AboveSkipEntry
<1>2. \A i \in 1..n : frames[i] \in FS!Frame
  BY <1>1, ElementOfSeq
<1> HIDE DEF n
<1>3. /\ p \in Seq(FS!Frame)
      /\ Len(p) = IF 1 <= n THEN n - 1 + 1 ELSE 0
      /\ \A i \in 1..(n - 1 + 1) : p[i] = frames[1 + i - 1]
  BY <1>1, <1>2, SubSeqProperties
<1> HIDE DEF p
<1>4. Len(p) = n /\ \A i \in 1..n : p[i] = skipEntry[i]
  <2>1. n - 1 + 1 = n /\ \A i \in 1..n : 1 + i - 1 = i
    BY <1>1
  <2>2. Len(p) = n
    BY <1>1, <1>3
  <2>3. QED
    BY <1>1, <1>3, <2>1, <2>2
<1>5. p = skipEntry
  BY <1>1, <1>3, <1>4, SeqEqual DEF n
<1>6. Len(frames) = n => frames = skipEntry
  BY <1>1, SeqEqual DEF n
<1>7. QED
  BY <1>5, <1>6 DEF p, n

(* skip_value never pops a frame of its caller's and gives the stack back  *)
(* as it got it (lexer.rs:1305-1386: "the structural frame stack stays     *)
(* balanced").                                                             *)
THEOREM SkipKeepsCallerFrames == SkipSpec => []SkipFramesKept
<1>1. SkipInv => SkipFramesKept
  BY AboveSkipIsPrefix, LenProperties DEF SkipInv, LexType, AboveSkipEntry, SkipFramesKept
<1>2. QED
  BY SkipInitInv, SkipStepInv, <1>1, PTL DEF SkipSpec

-----------------------------------------------------------------------------
(* skip_value stops behind exactly one value, and fails only where none    *)
(* stands.  The invariant: for every number end of lexemes, the first end  *)
(* of them are a value exactly if what is skipped so far, inside the       *)
(* bodies being walked, can be completed to end there.                     *)

SkipReading(end) ==
  [scalars |-> ScalarTokens, keys |-> Strings \cup {"lone"}, text |-> Lexemes(input),
   depth |-> MaxDepth - Len(skipEntry), end |-> end]

(* The bodies being walked: the frames above the entry.                    *)
SkipInside(s) == SubSeq(s, Len(skipEntry) + 1, Len(s))

SkipDue ==
  [value |-> "value", arrayBody |-> "firstValue", arrayNext |-> "next",
   firstKey |-> "firstKey", nextKey |-> "next", ok |-> "next"]

SkipIn(step, due, fs, o) ==
  /\ step \in {"arrayBody", "arrayNext"} => FS!TopOf(fs) = "Array"
  /\ step \in {"firstKey", "nextKey"} => FS!TopOf(fs) = "Object"
  /\ \A end \in 0..Len(Lexemes(input)) : Expects(SkipReading(end), due, SkipInside(fs), o)

SkipFinds ==
  /\ skipStep \in InSkippedBody \cup {"value", "ok", "error"}
  /\ skipStep # "error" => SkipIn(skipStep, SkipDue[skipStep], frames, offset)
  /\ skipStep = "error" =>
       \A end \in 0..Len(Lexemes(input)) : ~ ReadsWhole(SkipReading(end))

LEMMA SkipReadingIs ==
  ASSUME SkipInv, NEW end \in 0..Len(Lexemes(input))
  PROVE  /\ Reading(SkipReading(end)) /\ AnyKey(SkipReading(end))
         /\ SkipReading(end).depth = MaxDepth - Len(skipEntry)
         /\ SkipReading(end).end = end /\ SkipReading(end).text = Lexemes(input)
<1>1. /\ Len(skipEntry) \in Nat /\ Len(frames) \in Nat /\ MaxDepth \in Nat
      /\ Len(skipEntry) <= Len(frames) /\ Len(frames) <= MaxDepth
  BY LexerAssumption, LenProperties DEF SkipInv, LexType, AboveSkipEntry
<1>2. MaxDepth - Len(skipEntry) \in Nat
  BY <1>1
<1>3. Len(Lexemes(input)) \in Nat
  BY BegunBounds DEF SkipInv, LexType
<1>4. /\ ScalarTokens \cap Structural = {}
      /\ (Strings \cup {"lone"}) \cap Structural = {}
  <2>1. Structural = Punctuation
    BY Zenon DEF Structural, Punctuation, Brace, EndBrace, Comma, Colon
  <2>2. Strings \cap Punctuation = {}
    BY StringsAreTokens
  <2>3. "lone" \notin Punctuation /\ "kw" \notin Punctuation /\ "1" \notin Punctuation
    BY DEF Punctuation
  <2>4. QED
    BY <2>1, <2>2, <2>3 DEF ScalarTokens
<1>5. QED
  BY <1>2, <1>3, <1>4 DEF SkipReading, Reading, Readable, AnyKey

(* The frames above the entry, under the stack operations.                 *)
LEMMA InsideProperties ==
  ASSUME SkipInv, NEW s \in Seq(FS!Frame), AboveSkipEntry(s, 0)
  PROVE  /\ SkipInside(s) \in Seq(Kinds)
         /\ Len(SkipInside(s)) = Len(s) - Len(skipEntry)
         /\ \A i \in 1..(Len(s) - Len(skipEntry)) : SkipInside(s)[i] = s[Len(skipEntry) + i]
<1> DEFINE n == Len(skipEntry)
           p == SkipInside(s)
<1>1. n \in Nat /\ Len(s) \in Nat /\ n <= Len(s)
  BY LenProperties DEF SkipInv, AboveSkipEntry
<1>2. \A i \in (n + 1)..Len(s) : s[i] \in Kinds
  <2>1. \A i \in 1..Len(s) : s[i] \in Kinds
    BY ElementOfSeq, FramesAreKinds
  <2>2. QED
    BY <1>1, <2>1
<1>3. n + 1 \in 1..(Len(s) + 1) /\ Len(s) \in n..Len(s)
  BY <1>1
<1> HIDE DEF n
<1>4. /\ SubSeq(s, n + 1, Len(s)) \in Seq(Kinds)
      /\ Len(SubSeq(s, n + 1, Len(s))) = IF n + 1 <= Len(s) THEN Len(s) - (n + 1) + 1 ELSE 0
      /\ \A i \in 1..(Len(s) - (n + 1) + 1) : SubSeq(s, n + 1, Len(s))[i] = s[n + 1 + i - 1]
  BY <1>1, <1>2, SubSeqProperties
<1>5. p = SubSeq(s, n + 1, Len(s))
  BY DEF SkipInside, n
<1> HIDE DEF p
<1>6. /\ Len(s) - (n + 1) + 1 = Len(s) - n
      /\ \A i \in 1..(Len(s) - n) : n + 1 + i - 1 = n + i
      /\ ~ (n + 1 <= Len(s)) => Len(s) - n = 0
  BY <1>1
<1>7. p \in Seq(Kinds) /\ Len(p) = Len(s) - n
  BY <1>4, <1>5, <1>6
<1>8. \A i \in 1..(Len(s) - n) : p[i] = s[n + i]
  BY <1>4, <1>5, <1>6
<1>9. QED
  BY <1>7, <1>8 DEF p, n

LEMMA InsideAppend ==
  ASSUME SkipInv, NEW s \in Seq(FS!Frame), AboveSkipEntry(s, 0), NEW f \in FS!Frame
  PROVE  SkipInside(Append(s, f)) = Append(SkipInside(s), f)
<1> DEFINE n == Len(skipEntry)
           g == Append(s, f)
           u == SkipInside(g)
           v == Append(SkipInside(s), f)
<1>1. n \in Nat /\ Len(s) \in Nat /\ n <= Len(s)
  BY LenProperties DEF SkipInv, AboveSkipEntry
<1>2. /\ g \in Seq(FS!Frame) /\ Len(g) = Len(s) + 1 /\ g[Len(s) + 1] = f
      /\ \A i \in 1..Len(s) : g[i] = s[i]
  BY AppendProperties
<1>3. AboveSkipEntry(g, 0)
  <2> HIDE DEF g
  <2>1. QED
    BY <1>1, <1>2 DEF AboveSkipEntry
<1>4. /\ SkipInside(s) \in Seq(Kinds) /\ Len(SkipInside(s)) = Len(s) - n
      /\ \A i \in 1..(Len(s) - n) : SkipInside(s)[i] = s[n + i]
  BY InsideProperties
<1>5. /\ u \in Seq(Kinds) /\ Len(u) = Len(g) - n
      /\ \A i \in 1..(Len(g) - n) : u[i] = g[n + i]
  <2> HIDE DEF g
  <2>1. QED
    BY <1>2, <1>3, InsideProperties
<1>6. /\ v \in Seq(Kinds) /\ Len(v) = Len(s) - n + 1 /\ v[Len(s) - n + 1] = f
      /\ \A i \in 1..(Len(s) - n) : v[i] = s[n + i]
  <2> DEFINE w == SkipInside(s)
  <2>1. w \in Seq(Kinds) /\ Len(w) = Len(s) - n /\ \A i \in 1..(Len(s) - n) : w[i] = s[n + i]
    BY <1>4
  <2>2. f \in Kinds
    BY FramesAreKinds
  <2>3. v = Append(w, f)
    OBVIOUS
  <2> HIDE DEF w, v, n
  <2>4. /\ v \in Seq(Kinds) /\ Len(v) = Len(w) + 1 /\ v[Len(w) + 1] = f
        /\ \A i \in 1..Len(w) : v[i] = w[i]
    BY <2>1, <2>2, <2>3, AppendProperties
  <2>5. QED
    BY <2>1, <2>4
<1> HIDE DEF g, u, v, n
<1>7. Len(g) - n = Len(s) - n + 1 /\ Len(u) = Len(v)
  BY <1>1, <1>2, <1>5, <1>6
<1>8. ASSUME NEW i \in 1..Len(v) PROVE u[i] = v[i]
  <2>0. Len(v) = Len(s) - n + 1 /\ Len(s) - n \in Nat
    BY <1>1, <1>6
  <2>1. i \in 1..(Len(s) - n) \/ i = Len(s) - n + 1
    BY <2>0
  <2>2. i \in 1..(Len(s) - n) => n + i \in 1..Len(s)
    BY <1>1
  <2>3. i = Len(s) - n + 1 => n + i = Len(s) + 1
    BY <1>1
  <2>4. i \in 1..(Len(g) - n)
    BY <1>6, <1>7
  <2>5. u[i] = g[n + i]
    BY <1>5, <2>4
  <2>6. QED
    BY <1>2, <1>6, <2>1, <2>2, <2>3, <2>5
<1>9. u = v
  BY <1>5, <1>6, <1>7, <1>8, SeqEqual
<1>10. QED
  BY <1>9 DEF g, u, v

LEMMA InsidePopped ==
  ASSUME SkipInv, NEW s \in Seq(FS!Frame), AboveSkipEntry(s, 1)
  PROVE  /\ SkipInside(s) # << >> /\ Innermost(SkipInside(s)) = MarksOf(FS!TopOf(s))
         /\ SkipInside(FS!Popped(s)) = Shorter(SkipInside(s))
         /\ AboveSkipEntry(FS!Popped(s), 0)
<1> DEFINE n == Len(skipEntry)
           g == FS!Popped(s)
           w == SkipInside(s)
           u == SkipInside(g)
           v == Shorter(w)
<1>1. n \in Nat /\ Len(s) \in Nat /\ n + 1 <= Len(s) /\ s # << >>
  BY LenProperties DEF SkipInv, AboveSkipEntry
<1>2. /\ g \in Seq(FS!Frame) /\ Len(g) = Len(s) - 1
      /\ \A i \in 1..(Len(s) - 1) : g[i] = s[i]
  BY <1>1, PoppedProperties
<1>3. AboveSkipEntry(s, 0) /\ AboveSkipEntry(g, 0)
  <2> HIDE DEF g
  <2>1. QED
    BY <1>1, <1>2 DEF AboveSkipEntry
<1>4. /\ w \in Seq(Kinds) /\ Len(w) = Len(s) - n
      /\ \A i \in 1..(Len(s) - n) : w[i] = s[n + i]
  BY <1>3, InsideProperties
<1>5. /\ u \in Seq(Kinds) /\ Len(u) = Len(g) - n
      /\ \A i \in 1..(Len(g) - n) : u[i] = g[n + i]
  <2> HIDE DEF g
  <2>1. QED
    BY <1>2, <1>3, InsideProperties
<1> HIDE DEF g, u, w, n
<1>6. w # << >>
  <2>1. Len(w) # 0
    BY <1>1, <1>4
  <2>2. QED
    BY <2>1
<1>7. /\ v \in Seq(Kinds) /\ Len(v) = Len(w) - 1
      /\ \A i \in 1..(Len(w) - 1) : v[i] = w[i]
  BY <1>4, <1>6, ShorterProperties
<1>8. w[Len(w)] = FS!TopOf(s)
  <2>1. Len(w) \in 1..(Len(s) - n) /\ n + Len(w) = Len(s)
    BY <1>1, <1>4
  <2>2. w[Len(w)] = s[Len(s)]
    BY <1>4, <2>1
  <2>3. QED
    BY <1>1, <2>2 DEF FS!TopOf
<1> HIDE DEF v
<1>9. Len(u) = Len(v) /\ Len(v) = Len(s) - n - 1
  BY <1>1, <1>2, <1>4, <1>5, <1>7
<1>10. ASSUME NEW i \in 1..Len(v) PROVE u[i] = v[i]
  <2>1. /\ i \in 1..(Len(g) - n) /\ i \in 1..(Len(w) - 1) /\ i \in 1..(Len(s) - n)
        /\ n + i \in 1..(Len(s) - 1)
    BY <1>1, <1>2, <1>4, <1>9
  <2>2. u[i] = g[n + i] /\ v[i] = w[i] /\ w[i] = s[n + i] /\ g[n + i] = s[n + i]
    BY <1>2, <1>4, <1>5, <1>7, <2>1
  <2>3. QED
    BY <2>2
<1>11. u = v
  BY <1>5, <1>7, <1>9, <1>10, SeqEqual
<1>12. QED
  BY <1>3, <1>6, <1>8, <1>11 DEF u, v, g, w, Innermost

LEMMA SkipRoom ==
  ASSUME SkipInv, NEW end \in 0..Len(Lexemes(input))
  PROVE  /\ Room(SkipReading(end), SkipInside(frames))
         /\ SkipReading(end).depth - Len(SkipInside(frames)) \in Nat
<1>1. /\ Len(skipEntry) \in Nat /\ Len(frames) \in Nat /\ MaxDepth \in Nat
      /\ Len(skipEntry) <= Len(frames) /\ Len(frames) <= MaxDepth
  BY LexerAssumption, LenProperties DEF SkipInv, LexType, AboveSkipEntry
<1>2. Len(SkipInside(frames)) = Len(frames) - Len(skipEntry)
  BY InsideProperties DEF SkipInv, LexType
<1>3. SkipReading(end).depth = MaxDepth - Len(skipEntry)
  BY SkipReadingIs
<1>4. QED
  BY <1>1, <1>2, <1>3 DEF Room

LEMMA SkipInitFinds ==
  ASSUME SkipInit, SkipInv
  PROVE  SkipFinds
<1>1. frames = skipEntry /\ offset = 0 /\ skipStep = "value"
  BY DEF SkipInit
<1>2. /\ LexType /\ frames \in Seq(FS!Frame) /\ AboveSkipEntry(frames, 0)
      /\ Len(frames) \in Nat
  BY LenProperties DEF SkipInv, LexType
<1>3. SkipInside(frames) = << >>
  <2>1. Len(SkipInside(frames)) = Len(frames) - Len(skipEntry) /\ SkipInside(frames) \in Seq(Kinds)
    BY <1>2, InsideProperties
  <2>2. Len(SkipInside(frames)) = 0
    BY <1>1, <1>2, <2>1
  <2>3. QED
    BY <2>1, <2>2, EmptySeq
<1>4. At(0) = 0 /\ Fresh(0)
  BY <1>2, BegunBounds DEF At, Fresh, LexType
<1>5. ASSUME NEW end \in 0..Len(Lexemes(input))
      PROVE  Expects(SkipReading(end), "value", << >>, 0)
  <2>1. Readable(SkipReading(end))
    BY <1>5, SkipReadingIs DEF Reading
  <2>2. Completable(SkipReading(end), "value", << >>, 0) <=> ReadsWhole(SkipReading(end))
    BY <2>1, WholeIsDue
  <2>3. SkipReading(end).depth - Len(<< >>) \in Nat /\ << >> \in Seq(Kinds)
    BY <1>3, SkipRoom
  <2>4. QED
    BY <1>4, <2>2, <2>3 DEF Expects
<1>6. QED
  BY <1>1, <1>3, <1>5 DEF SkipFinds, SkipIn, SkipDue

(* After a step: the same grammar, read from the new cursor.               *)
LEMMA SkipMoves ==
  ASSUME UNCHANGED <<input, skipEntry>>, skipStep' \in InSkippedBody \cup {"value", "ok"},
         SkipIn(skipStep', SkipDue[skipStep'], frames', offset')
  PROVE  SkipFinds'
<1>1. skipStep' # "error" /\ skipStep' \in InSkippedBody \cup {"value", "ok", "error"}
  BY DEF InSkippedBody
<1>2. SkipIn(skipStep', SkipDue[skipStep'], frames', offset')
        <=> SkipIn(skipStep, SkipDue[skipStep], frames, offset)'
  BY DEF SkipIn, SkipInside, SkipReading, Expects, Fresh, At, Peek, SkipDue
<1>3. QED
  BY <1>1, <1>2 DEF SkipFinds

LEMMA SkipFails ==
  ASSUME UNCHANGED <<input, skipEntry>>, skipStep' = "error",
         \A end \in 0..Len(Lexemes(input)) : ~ ReadsWhole(SkipReading(end))
  PROVE  SkipFinds'
BY DEF SkipFinds, SkipReading

LEMMA AfterSkippedDue ==
  ASSUME SkipInv, NEW s \in Seq(FS!Frame), AboveSkipEntry(s, 0)
  PROVE  /\ AfterSkipped(s) \in InSkippedBody \cup {"value", "ok"}
         /\ SkipDue[AfterSkipped(s)] = "next"
         /\ AfterSkipped(s) \in {"arrayBody", "arrayNext"} => FS!TopOf(s) = "Array"
         /\ AfterSkipped(s) \in {"firstKey", "nextKey"} => FS!TopOf(s) = "Object"
<1>1. AfterSkipped(s) \in {"ok", "arrayNext", "nextKey"}
  BY DEF AfterSkipped
<1>2. AfterSkipped(s) = "arrayNext" => FS!TopOf(s) = "Array"
  BY DEF AfterSkipped
<1>3. AfterSkipped(s) = "nextKey" => FS!TopOf(s) = "Object"
  <2>1. SUFFICES ASSUME AfterSkipped(s) = "nextKey" PROVE FS!TopOf(s) = "Object"
    OBVIOUS
  <2>2. Len(s) # Len(skipEntry) /\ FS!TopOf(s) # "Array"
    BY <2>1 DEF AfterSkipped
  <2>3. s # << >>
    <3>1. Len(s) >= Len(skipEntry) /\ Len(s) \in Nat /\ Len(skipEntry) \in Nat
      BY LenProperties DEF AboveSkipEntry, SkipInv
    <3>2. Len(s) # 0
      BY <2>2, <3>1
    <3>3. QED
      BY <3>2
  <2>4. QED
    BY <2>2, <2>3, TopOfType DEF FS!Frame
<1>4. QED
  BY <1>1, <1>2, <1>3 DEF SkipDue, InSkippedBody

LEMMA SkipOneFinds ==
  ASSUME SkipInv, SkipFinds, SkipOne
  PROVE  SkipFinds'
<1>1. /\ LexType /\ offset \in 0..Len(input) /\ frames \in Seq(FS!Frame)
      /\ AboveSkipEntry(frames, 0) /\ ReadValue(offset) /\ skipStep = "value"
      /\ UNCHANGED skipEntry
  BY DEF SkipInv, LexType, SkipOne, SkipThen
<1>2. UNCHANGED input
  BY <1>1 DEF ReadValue, PushFrame, ReadString, Return, Unexpected
<1>3. ASSUME NEW end \in 0..Len(Lexemes(input))
      PROVE  LET r == SkipReading(end)
                 fs == SkipInside(frames)
             IN  /\ ret' = "StartObject" => Expects(r, "firstKey", Append(fs, "Object"), offset')
                 /\ ret' = "StartArray" => Expects(r, "firstValue", Append(fs, "Array"), offset')
                 /\ ret' \in Scalar => Expects(r, "next", fs, offset')
                 /\ ret' \in ErrorKind => ~ ReadsWhole(r)
  <2>1. Expects(SkipReading(end), "value", SkipInside(frames), offset)
    BY <1>1 DEF SkipFinds, SkipIn, SkipDue
  <2>2. Room(SkipReading(end), SkipInside(frames)) /\ Reading(SkipReading(end))
    BY SkipRoom, SkipReadingIs
  <2>3. QED
    BY <1>1, <2>1, <2>2, ReadValueReads
<1>4. /\ LexType'
      /\ \/ Opened("Object", "StartObject")
         \/ Opened("Array", "StartArray")
         \/ ret' \in Scalar /\ frames' = frames
         \/ Refused
  BY <1>1, ReadValueEffect
<1>5. ASSUME NEW f \in FS!Frame
      PROVE  /\ SkipInside(Append(frames, f)) = Append(SkipInside(frames), f)
             /\ FS!TopOf(Append(frames, f)) = f
  <2>1. Append(frames, f) # << >> /\ Append(frames, f)[Len(Append(frames, f))] = f
    BY <1>1, AppendProperties
  <2>2. QED
    BY <1>1, <2>1, InsideAppend DEF FS!TopOf
<1>6. CASE Opened("Object", "StartObject")
  <2>1. frames' = Append(frames, "Object") /\ skipStep' = "firstKey" /\ ret' = "StartObject"
    BY <1>6 DEF Opened, SkipOne, SkipThen, ErrorKind
  <2>2. "Object" \in FS!Frame /\ SkipDue["firstKey"] = "firstKey"
    BY DEF FS!Frame, SkipDue
  <2>3. SkipIn("firstKey", "firstKey", frames', offset')
    BY <1>3, <1>5, <2>1, <2>2 DEF SkipIn
  <2>4. QED
    BY <1>1, <1>2, <2>1, <2>2, <2>3, SkipMoves DEF InSkippedBody
<1>7. CASE Opened("Array", "StartArray")
  <2>1. frames' = Append(frames, "Array") /\ skipStep' = "arrayBody" /\ ret' = "StartArray"
    BY <1>7 DEF Opened, SkipOne, SkipThen, ErrorKind
  <2>2. "Array" \in FS!Frame /\ SkipDue["arrayBody"] = "firstValue"
    BY DEF FS!Frame, SkipDue
  <2>3. SkipIn("arrayBody", "firstValue", frames', offset')
    BY <1>3, <1>5, <2>1, <2>2 DEF SkipIn
  <2>4. QED
    BY <1>1, <1>2, <2>1, <2>2, <2>3, SkipMoves DEF InSkippedBody
<1>8. CASE ret' \in Scalar /\ frames' = frames
  <2>1. skipStep' = AfterSkipped(frames)
    BY <1>8 DEF SkipOne, SkipThen, Scalar, ErrorKind
  <2>2. SkipIn(skipStep', "next", frames', offset')
    BY <1>1, <1>3, <1>8, <2>1, AfterSkippedDue DEF SkipIn
  <2>3. QED
    BY <1>1, <1>2, <2>1, <2>2, AfterSkippedDue, SkipMoves
<1>9. CASE Refused
  <2>1. skipStep' = "error" /\ ret' \in ErrorKind
    BY <1>9 DEF Refused, SkipOne, SkipThen
  <2>2. QED
    BY <1>1, <1>2, <1>3, <2>1, SkipFails
<1>10. QED
  BY <1>4, <1>6, <1>7, <1>8, <1>9

(* A body: what it returned says where it stands.                          *)
LEMMA SkipBodyFinds ==
  ASSUME SkipInv, SkipInv', skipStep \in InSkippedBody, UNCHANGED input, SkipWalked,
         SkipThen(IF ret' = "Closed" THEN AfterSkipped(frames') ELSE "value"),
         \A end \in 0..Len(Lexemes(input)) :
           LET r == SkipReading(end)
               fs == SkipInside(frames)
           IN  /\ ret' = "Closed" => Expects(r, "next", Shorter(fs), offset')
               /\ ret' \in {"More", "Key"} => Expects(r, "value", fs, offset')
               /\ ret' \in ErrorKind => ~ ReadsWhole(r)
  PROVE  SkipFinds'
<1>1. /\ UNCHANGED skipEntry /\ frames \in Seq(FS!Frame) /\ AboveSkipEntry(frames, 1)
      /\ frames' \in Seq(FS!Frame)
  BY DEF SkipThen, SkipInv, LexType
<1>2. CASE ret' = "Closed"
  <2>1. frames' = FS!Popped(frames)
    BY <1>2 DEF SkipWalked, Closes, Refused, ErrorKind
  <2>2. SkipInside(frames') = Shorter(SkipInside(frames)) /\ AboveSkipEntry(frames', 0)
    BY <1>1, <2>1, InsidePopped
  <2>3. skipStep' = AfterSkipped(frames')
    BY <1>1, <1>2 DEF SkipThen, ErrorKind
  <2>4. SkipIn(skipStep', "next", frames', offset')
    BY <1>1, <1>2, <2>2, <2>3, AfterSkippedDue DEF SkipIn
  <2>5. QED
    BY <1>1, <2>2, <2>3, <2>4, AfterSkippedDue, SkipMoves
<1>3. CASE ret' \in {"More", "Key"}
  <2>1. frames' = frames /\ skipStep' = "value"
    BY <1>3 DEF SkipWalked, Closes, Refused, ErrorKind, SkipThen
  <2>2. SkipIn("value", "value", frames', offset') /\ SkipDue["value"] = "value"
    BY <1>3, <2>1 DEF SkipIn, SkipDue
  <2>3. QED
    BY <1>1, <2>1, <2>2, SkipMoves
<1>4. CASE ret' \in ErrorKind
  <2>1. skipStep' = "error"
    BY <1>4 DEF SkipThen
  <2>2. QED
    BY <1>1, <1>4, <2>1, SkipFails
<1>5. QED
  BY <1>2, <1>3, <1>4 DEF SkipWalked, Closes, Refused, ErrorKind

LEMMA SkipStandsIn ==
  ASSUME SkipInv, SkipFinds, skipStep \in InSkippedBody, NEW end \in 0..Len(Lexemes(input))
  PROVE  LET r == SkipReading(end)
             fs == SkipInside(frames)
         IN  /\ Reading(r) /\ AnyKey(r) /\ fs # << >>
             /\ Expects(r, SkipDue[skipStep], fs, offset)
             /\ Innermost(fs) = MarksOf(FS!TopOf(frames))
             /\ skipStep \in {"arrayBody", "arrayNext"} => FS!TopOf(frames) = "Array"
             /\ skipStep \in {"firstKey", "nextKey"} => FS!TopOf(frames) = "Object"
<1>1. frames \in Seq(FS!Frame) /\ AboveSkipEntry(frames, 1)
  BY DEF SkipInv, LexType
<1>2. SkipIn(skipStep, SkipDue[skipStep], frames, offset)
  BY DEF SkipFinds, InSkippedBody
<1>3. QED
  BY <1>1, <1>2, SkipReadingIs, InsidePopped DEF SkipIn

LEMMA SkipArrayBodyFinds ==
  ASSUME SkipInv, SkipFinds, SkipArrayBody
  PROVE  SkipFinds'
<1> DEFINE o == SkipWhitespace(offset)
<1>1. LexType /\ offset \in 0..Len(input) /\ skipStep = "arrayBody" /\ skipStep \in InSkippedBody
  BY DEF SkipInv, LexType, SkipArrayBody, InSkippedBody
<1>2. SkipInv'
  BY SkipArrayBodyKeeps
<1>3. o \in 0..Len(input) /\ Peek(o) # "ws"
  BY <1>1, SkipWhitespaceInRange
<1>4. ASSUME NEW end \in 0..Len(Lexemes(input))
      PROVE  LET r == SkipReading(end)
                 fs == SkipInside(frames)
             IN  /\ Reading(r) /\ fs # << >> /\ Expects(r, "firstValue", fs, o)
                 /\ Innermost(fs) = MarksOf("Array") /\ FS!TopOf(frames) = "Array"
  <2>1. SkipDue["arrayBody"] = "firstValue"
    BY DEF SkipDue
  <2>2. QED
    BY <1>1, <2>1, SkipStandsIn, ExpectsBehindWhitespace
<1>5. "Array" \in Kinds /\ MarksOf("Array").close = "]" /\ "Closed" \notin ErrorKind
      /\ "More" \notin ErrorKind
  BY DEF Kinds, MarksOf, ArrayMarks, ErrorKind
<1> HIDE DEF o
<1>6. CASE Peek(o) = "]" /\ PopFrame("Array", o + 1, "Closed") /\ SkipThen(AfterSkipped(frames'))
  <2>1. \A end \in 0..Len(Lexemes(input)) :
          ret' = "Closed" /\ Expects(SkipReading(end), "next", Shorter(SkipInside(frames)), offset')
    BY <1>1, <1>3, <1>4, <1>5, <1>6, PopReads
  <2>2. ret' = "Closed"
    <3>1. 0 \in 0..Len(Lexemes(input))
      BY <1>1, AtBounds
    <3>2. QED
      BY <2>1, <3>1
  <2>3. o + 1 \in 0..Len(input)
    BY <1>3, <1>6, InsideInput, <1>1
  <2>4. LexType' /\ (Refused \/ Closes("Array", "Closed"))
    BY <1>1, <1>6, <2>3, PopFrameEffect DEF Closes, FS!Frame
  <2>5. SkipWalked /\ UNCHANGED input
    BY <1>6, <2>4 DEF SkipWalked, FS!Frame, PopFrame, Return
  <2>6. SkipThen(IF ret' = "Closed" THEN AfterSkipped(frames') ELSE "value")
    BY <1>6, <2>2
  <2>7. QED
    BY <1>1, <1>2, <1>5, <2>1, <2>2, <2>5, <2>6, SkipBodyFinds
<1>7. CASE Peek(o) # "]" /\ Return(o, "More") /\ SkipThen("value")
  <2>1. \A end \in 0..Len(Lexemes(input)) :
          Expects(SkipReading(end), "value", SkipInside(frames), o)
    BY <1>1, <1>3, <1>4, <1>5, <1>7, FirstIsAnother
  <2>2. ret' = "More" /\ offset' = o /\ UNCHANGED input /\ frames' = frames
    BY <1>7 DEF Return
  <2>3. SkipWalked
    BY <2>2 DEF SkipWalked
  <2>4. SkipThen(IF ret' = "Closed" THEN AfterSkipped(frames') ELSE "value")
    BY <1>7, <2>2
  <2>5. QED
    BY <1>1, <1>2, <1>5, <2>1, <2>2, <2>3, <2>4, SkipBodyFinds
<1>8. QED
  BY <1>6, <1>7 DEF SkipArrayBody, o

LEMMA SkipLoopFinds ==
  ASSUME SkipInv, SkipFinds, SkipArrayNext \/ SkipFirstKey \/ SkipNextKey
  PROVE  SkipFinds'
<1>1. /\ LexType /\ skipStep \in InSkippedBody /\ SkipInv'
  BY SkipLoopKeeps DEF SkipInv, InSkippedBody, SkipArrayNext, SkipFirstKey, SkipNextKey
<1>2. SkipThen(IF ret' = "Closed" THEN AfterSkipped(frames') ELSE "value")
  BY DEF SkipArrayNext, SkipFirstKey, SkipNextKey
<1>3. MarksOf("Array") = ArrayMarks /\ MarksOf("Object") = ObjectMarks
  BY DEF MarksOf
<1>4. CASE SkipArrayNext
  <2>1. skipStep = "arrayNext" /\ ArrayContinue("]") /\ SkipDue["arrayNext"] = "next"
    BY <1>4 DEF SkipArrayNext, SkipDue
  <2>2. SkipWalked /\ ret' # "Key"
    BY <1>1, <2>1, ArrayContinueEffect DEF SkipWalked, FS!Frame, Closes, Refused, ErrorKind
  <2>3. UNCHANGED input
    BY <2>1 DEF ArrayContinue, PopFrame, Return, Unexpected
  <2>4. \A end \in 0..Len(Lexemes(input)) :
           LET r == SkipReading(end)
               fs == SkipInside(frames)
           IN  /\ ret' = "Closed" => Expects(r, "next", Shorter(fs), offset')
               /\ ret' = "More" => Expects(r, "value", fs, offset')
               /\ ret' \in ErrorKind => ~ ReadsWhole(r)
    BY <1>1, <1>3, <2>1, SkipStandsIn, ArrayContinueReads
  <2>5. QED
    BY <1>1, <1>2, <2>2, <2>3, <2>4, SkipBodyFinds
<1>5. CASE SkipFirstKey
  <2>1. skipStep = "firstKey" /\ ObjectFirstKey(TRUE) /\ SkipDue["firstKey"] = "firstKey"
    BY <1>5 DEF SkipFirstKey, SkipDue
  <2>2. SkipWalked /\ ret' # "More"
    BY <1>1, <2>1, ObjectFirstKeyEffect
       DEF SkipWalked, KeyWalked, FS!Frame, Closes, Refused, ErrorKind
  <2>3. UNCHANGED input
    BY <2>1 DEF ObjectFirstKey, KeyThenColon, ExpectColon, PopFrame, Return, Unexpected
  <2>4. \A end \in 0..Len(Lexemes(input)) :
           LET r == SkipReading(end)
               fs == SkipInside(frames)
           IN  /\ ret' = "Closed" => Expects(r, "next", Shorter(fs), offset')
               /\ ret' = "Key" => Expects(r, "value", fs, offset')
               /\ ret' \in ErrorKind => ~ ReadsWhole(r)
    BY <1>1, <1>3, <2>1, SkipStandsIn, ObjectFirstKeyReads
  <2>5. QED
    BY <1>1, <1>2, <2>2, <2>3, <2>4, SkipBodyFinds
<1>6. CASE SkipNextKey
  <2>1. skipStep = "nextKey" /\ ObjectNextKey(TRUE) /\ SkipDue["nextKey"] = "next"
    BY <1>6 DEF SkipNextKey, SkipDue
  <2>2. SkipWalked /\ ret' # "More"
    BY <1>1, <2>1, ObjectNextKeyEffect
       DEF SkipWalked, KeyWalked, FS!Frame, Closes, Refused, ErrorKind
  <2>3. UNCHANGED input
    BY <2>1 DEF ObjectNextKey, KeyThenColon, ExpectColon, PopFrame, Return, Unexpected
  <2>4. \A end \in 0..Len(Lexemes(input)) :
           LET r == SkipReading(end)
               fs == SkipInside(frames)
           IN  /\ ret' = "Closed" => Expects(r, "next", Shorter(fs), offset')
               /\ ret' = "Key" => Expects(r, "value", fs, offset')
               /\ ret' \in ErrorKind => ~ ReadsWhole(r)
    BY <1>1, <1>3, <2>1, SkipStandsIn, ObjectNextKeyReads
  <2>5. QED
    BY <1>1, <1>2, <2>2, <2>3, <2>4, SkipBodyFinds
<1>7. QED
  BY <1>4, <1>5, <1>6

LEMMA SkipStepFinds ==
  ASSUME SkipInv, SkipFinds, [SkipNext]_skipVars
  PROVE  SkipFinds'
<1>1. CASE SkipNext
  BY <1>1, SkipOneFinds, SkipArrayBodyFinds, SkipLoopFinds DEF SkipNext
<1>2. CASE UNCHANGED skipVars
  <2>1. /\ UNCHANGED <<input, skipEntry>> /\ skipStep' = skipStep /\ frames' = frames
        /\ offset' = offset
    BY <1>2 DEF skipVars
  <2>2. CASE skipStep = "error"
    BY <2>1, <2>2, SkipFails DEF SkipFinds
  <2>3. CASE skipStep # "error"
    <3>1. SkipIn(skipStep', SkipDue[skipStep'], frames', offset')
      BY <2>1, <2>3 DEF SkipFinds
    <3>2. skipStep' \in InSkippedBody \cup {"value", "ok"}
      BY <2>1, <2>3 DEF SkipFinds
    <3>3. QED
      BY <2>1, <3>1, <3>2, SkipMoves
  <2>4. QED
    BY <2>2, <2>3
<1>3. QED
  BY <1>1, <1>2

(* The grammar's word for it: the lexemes that begin in the first e tokens *)
(* are those of the first e tokens alone.                                  *)
LEMMA ValueEndsByReading ==
  ASSUME SkipInv, NEW e \in 0..Len(input)
  PROVE  ValueEndsAt(e) <=> ReadsWhole(SkipReading(At(e)))
<1> DEFINE r == SkipReading(At(e))
           t == Lexemes(SubSeq(input, 1, e))
           depth == MaxDepth - Len(skipEntry)
<1>1. LexType /\ input \in Seq(Token) /\ Len(input) \in Nat
  BY LenProperties DEF SkipInv, LexType
<1>2. At(e) \in 0..Len(Lexemes(input))
  BY <1>1, AtBounds
<1>3. /\ Reading(r) /\ r.depth = depth /\ r.end = At(e) /\ r.text = Lexemes(input)
      /\ depth \in Nat
  BY <1>2, SkipReadingIs DEF Reading, Readable
<1>4. t = LexemesUpTo(input)[e] /\ Len(t) = At(e)
  BY <1>1, LexemesOfBeginning DEF At, Begun
<1>5. Extends(Lexemes(input), t)
  <2>1. Len(input) \in e..Len(input)
    BY <1>1
  <2>2. QED
    BY <1>1, <1>4, <2>1, MoreTokens DEF Lexemes
<1>6. /\ r.scalars = ScalarTokens /\ r.keys = Strings \cup {"lone"}
  BY DEF SkipReading
<1>7. ValueEndsAt(e) <=> t # << >> /\ Derives(t, r.scalars, r.keys, depth)
  BY <1>6 DEF ValueEndsAt, IsDocument
<1>8. Len(t) \in Nat /\ (t = << >> <=> Len(t) = 0)
  <2>1. t \in Seq(Token)
    BY <1>1, <1>4, LexemesAreTokens
  <2>2. QED
    BY <2>1, EmptySeq, LenProperties
<1>9. ReadsWhole(r) <=> Derived(r, Lexemes(input), <<"value", 1, At(e), depth>>)
  BY <1>3 DEF ReadsWhole, IsA
<1>10. ReadsWhole(r) => At(e) # 0
  <2>1. ReadsWhole(r) => At(e) \in 1..Len(r.text)
    BY <1>3, IsBounds DEF ReadsWhole, Reading
  <2>2. QED
    BY <2>1
<1>11. Derived(r, Lexemes(input), <<"value", 1, At(e), depth>>)
         <=> Derived(r, t, <<"value", 1, At(e), depth>>)
  <2>1. At(e) <= Len(t)
    BY <1>4, <1>8
  <2> HIDE DEF r, t, depth
  <2>2. QED
    BY <1>5, <2>1, DerivedStays, DerivedInPrefix
<1> HIDE DEF r, t, depth
<1>12. Len(t) # 0 => (Derives(t, r.scalars, r.keys, depth)
                        <=> Derived(r, t, <<"value", 1, Len(t), depth>>))
  BY <1>3, <1>8, DerivesExactly
<1>13. ValueEndsAt(e) <=> ReadsWhole(r)
  BY <1>4, <1>7, <1>8, <1>9, <1>10, <1>11, <1>12
<1>14. QED
  BY <1>13 DEF r

LEMMA SkipFindsOne ==
  ASSUME SkipInv, SkipFinds
  PROVE  SkipsExactlyOneValue
<1>1. LexType /\ offset \in 0..Len(input)
  BY DEF SkipInv, LexType
<1>2. ASSUME skipStep = "ok"
      PROVE  ValueEndsAt(offset) /\ (Peek(offset) = "1" => input[offset] # "1")
  <2> DEFINE r == SkipReading(At(offset))
  <2>1. At(offset) \in 0..Len(Lexemes(input)) /\ Len(Lexemes(input)) \in Nat
    BY <1>1, AtBounds
  <2>2. SkipInside(frames) = << >>
    <3>1. /\ frames \in Seq(FS!Frame) /\ AboveSkipEntry(frames, 0)
          /\ Len(frames) = Len(skipEntry) /\ Len(frames) \in Nat
      BY <1>2, LenProperties DEF SkipInv, LexType
    <3>2. Len(SkipInside(frames)) = 0 /\ SkipInside(frames) \in Seq(Kinds)
      BY <3>1, InsideProperties
    <3>3. QED
      BY <3>2, EmptySeq
  <2>3. Expects(r, "next", << >>, offset)
    BY <1>2, <2>1, <2>2 DEF SkipFinds, SkipIn, SkipDue
  <2>4. Reading(r) /\ r.end = At(offset) /\ r.text = Lexemes(input)
    BY <2>1, SkipReadingIs
  <2>5. At(offset) # 0 /\ Fresh(offset)
    BY <2>3 DEF Expects
  <2> HIDE DEF r
  <2>6. ReadsWhole(r) <=> At(offset) = r.end /\ At(offset) \in 1..Len(r.text)
    BY <2>3, <2>4, ExpectsEnd
  <2>7. At(offset) \in 1..Len(Lexemes(input))
    BY <2>1, <2>5
  <2>8. ReadsWhole(r)
    BY <2>4, <2>6, <2>7
  <2>9. offset # 0
    <3>1. At(0) = 0
      BY <1>1, BegunBounds DEF At, LexType
    <3>2. QED
      BY <2>5, <3>1
  <2>10. QED
    BY <1>1, <2>5, <2>8, <2>9, ValueEndsByReading DEF Fresh, r
<1>3. ASSUME skipStep = "error", NEW e \in 0..Len(input)
      PROVE  ~ ValueEndsAt(e)
  <2>1. At(e) \in 0..Len(Lexemes(input))
    BY <1>1, AtBounds
  <2>2. QED
    BY <1>3, <2>1, ValueEndsByReading DEF SkipFinds
<1>4. QED
  BY <1>2, <1>3 DEF SkipsExactlyOneValue

(* skip_value ends behind exactly one value of the grammar, whatever       *)
(* follows it, and fails only where no value stands: for every input,      *)
(* every depth limit and every stack it is entered with                    *)
(* (lexer.rs:1305-1341).                                                   *)
THEOREM SkipsOneValue == SkipSpec => []SkipsExactlyOneValue
<1>1. SkipInit => SkipInv /\ SkipFinds
  BY SkipInitInv, SkipInitFinds
<1>2. SkipInv /\ SkipFinds /\ [SkipNext]_skipVars => SkipInv' /\ SkipFinds'
  BY SkipStepInv, SkipStepFinds
<1>3. SkipInv /\ SkipFinds => SkipsExactlyOneValue
  BY SkipFindsOne
<1>4. QED
  BY <1>1, <1>2, <1>3, PTL DEF SkipSpec
=============================================================================
