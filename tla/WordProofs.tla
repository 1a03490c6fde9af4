------------------------------- MODULE WordProofs ------------------------------
(***************************************************************************)
(* What the crate packs into one machine word, for every width of the      *)
(* word.                                                                   *)
(*                                                                         *)
(* The nesting stack, a bit per frame, is a stack, for every MAX_DEPTH     *)
(* that fits the field.                                                    *)
(*                                                                         *)
(* The fused integer readers are exact for every base, every word size and *)
(* every choice of fast digits that fits the word: the unchecked part of   *)
(* the fold never wraps, and what is handed out is in the range of its     *)
(* type.  The invariant that carries it bounds the number read so far by   *)
(* the power of the base that the digit counter stands for.                *)
(*                                                                         *)
(* What they accept is judged by the text alone: an integer literal whose  *)
(* value the type holds.  The invariant adds that the digits behind the    *)
(* cursor are those of the literal (Standing); a number refused half way   *)
(* is too large because more digits never make a number smaller.  The two  *)
(* decoders of a walked literal, and the fast path of floats, rest on the  *)
(* same lemmas about digits.  Each recursive function is the one its       *)
(* unfolding describes, which is proved from the shortest counterexample.  *)
(***************************************************************************)
EXTENDS NestStack, NumberReader, SequenceTheorems, WellFoundedInduction, TLAPS

-----------------------------------------------------------------------------
(* The nesting stack.                                                      *)

(* The packed length and kinds stay in range (lexer.rs, impl Stack).       *)
THEOREM StackTypeCorrect == StackSpec => []StackTypeOK
<1>1. StackInit => StackTypeOK
  BY WidthAssumption DEF StackInit, StackTypeOK, Bit
<1>2. StackTypeOK /\ [StackNext]_stackVars => StackTypeOK'
  <2> SUFFICES ASSUME StackTypeOK, [StackNext]_stackVars
               PROVE  StackTypeOK'
    OBVIOUS
  <2> USE WidthAssumption DEF StackTypeOK, Bit
  <2>1. CASE PushFull
    BY <2>1 DEF PushFull
  <2>2. CASE PushObject
    BY <2>2 DEF PushObject
  <2>3. CASE PushArray
    BY <2>3 DEF PushArray
  <2>4. CASE Pop
    BY <2>4 DEF Pop, TopFrame, FrameAt
  <2>5. CASE Top
    BY <2>5 DEF Top, TopFrame, FrameAt
  <2>6. ASSUME NEW n \in 0..MaxDepth, Truncate(n)
        PROVE  StackTypeOK'
    BY <2>6 DEF Truncate
  <2>7. CASE UNCHANGED stackVars
    BY <2>7 DEF stackVars
  <2>8. QED
    BY <2>1, <2>2, <2>3, <2>4, <2>5, <2>6, <2>7 DEF StackNext
<1>3. QED
  BY <1>1, <1>2, PTL DEF StackSpec

(* The n lowest bits of b stand for a stack of n frames.                   *)
LEMMA FramesOfType ==
  ASSUME NEW b, NEW n \in Nat
  PROVE  /\ FramesOf(b, n) \in Seq(FS!Frame)
         /\ Len(FramesOf(b, n)) = n
         /\ \A i \in 1..n : FramesOf(b, n)[i] =
                            IF i - 1 \in b THEN "Object" ELSE "Array"
<1>1. FramesOf(b, n) \in [1..n -> FS!Frame]
  BY DEF FramesOf, FS!Frame
<1>2. FramesOf(b, n) \in Seq(FS!Frame) /\ Len(FramesOf(b, n)) = n
  BY <1>1
<1>3. QED
  BY <1>2 DEF FramesOf

(* Fewer bits of the same field are a prefix: what a pop or a truncation   *)
(* leaves.                                                                 *)
LEMMA FewerBits ==
  ASSUME NEW b, NEW n \in Nat, NEW m \in 0..n
  PROVE  FramesOf(b, m) = SubSeq(FramesOf(b, n), 1, m)
<1> DEFINE s == SubSeq(FramesOf(b, n), 1, m)
<1>1. \A i \in 1..m : FramesOf(b, n)[i] \in FS!Frame
  BY FramesOfType, ElementOfSeq
<1>2. /\ s \in Seq(FS!Frame)
      /\ Len(s) = m
      /\ \A i \in 1..m : s[i] = FramesOf(b, n)[i]
  BY <1>1, SubSeqProperties
<1>3. \A i \in 1..m : s[i] = FramesOf(b, m)[i]
  BY <1>2, FramesOfType
<1>4. QED
  BY <1>2, <1>3, FramesOfType, SeqEqual

(* Writing bit n and counting it is a push of the kind written.            *)
LEMMA OneMoreBit ==
  ASSUME NEW b, NEW c, NEW n \in Nat, NEW f \in FS!Frame,
         \A i \in 0..(n - 1) : i \in c <=> i \in b,
         f = IF n \in c THEN "Object" ELSE "Array"
  PROVE  FramesOf(c, n + 1) = Append(FramesOf(b, n), f)
<1> DEFINE s == Append(FramesOf(b, n), f)
<1>1. /\ s \in Seq(FS!Frame)
      /\ Len(s) = n + 1
      /\ \A i \in 1..n : s[i] = FramesOf(b, n)[i]
      /\ s[n + 1] = f
  BY FramesOfType, AppendProperties
<1>2. \A i \in 1..(n + 1) : s[i] = FramesOf(c, n + 1)[i]
  <2> SUFFICES ASSUME NEW i \in 1..(n + 1)
               PROVE  s[i] = FramesOf(c, n + 1)[i]
    OBVIOUS
  <2>1. FramesOf(c, n + 1)[i] = IF i - 1 \in c THEN "Object" ELSE "Array"
    BY FramesOfType
  <2>2. CASE i = n + 1
    BY <1>1, <2>1, <2>2
  <2>3. CASE i \in 1..n
    BY <1>1, <2>1, <2>3, FramesOfType
  <2>4. i = n + 1 \/ i \in 1..n
    <3> HIDE DEF s
    <3> QED
      OBVIOUS
  <2>5. QED
    BY <2>2, <2>3, <2>4
<1>3. QED
  BY <1>1, <1>2, FramesOfType, SeqEqual

(* The top bit is the frame on top of the stack.                           *)
LEMMA TopAgrees ==
  ASSUME StackTypeOK
  PROVE  TopFrame = FS!TopOf(Frames)
<1>1. len \in Nat
  BY WidthAssumption DEF StackTypeOK
<1>2. Len(Frames) = len
  BY <1>1, FramesOfType DEF Frames
<1>3. CASE len = 0
  BY <1>2, <1>3, FramesOfType, EmptySeq DEF TopFrame, FS!TopOf, Frames
<1>4. CASE len # 0
  <2>1. Frames # << >>
    BY <1>2, <1>4, EmptySeq
  <2>2. Frames[len] = FrameAt(len - 1)
    BY <1>1, <1>4, FramesOfType DEF Frames, FrameAt
  <2>3. QED
    BY <1>2, <1>4, <2>1, <2>2 DEF TopFrame, FS!TopOf
<1>5. QED
  BY <1>3, <1>4

(* One step of the packed stack is one step, or a stutter, of the stack it *)
(* stands for.                                                             *)
LEMMA StepSimulates ==
  ASSUME StackTypeOK, [StackNext]_stackVars
  PROVE  [FS!Next]_(FS!stackVars)
<1> USE WidthAssumption
<1>1. len \in Nat /\ Len(Frames) = len
  BY FramesOfType DEF StackTypeOK, Frames
<1>2. CASE PushFull
  <2>1. \E f \in FS!Frame : FS!Push(f)
    BY <1>1, <1>2 DEF PushFull, FS!Push, FS!Frame, Frames
  <2>2. QED
    BY <2>1 DEF FS!Next, FS!Frame
<1>3. CASE PushObject
  <2>1. Frames' = Append(Frames, "Object")
    BY <1>1, <1>3, OneMoreBit DEF PushObject, Frames, FS!Frame
  <2>2. FS!Push("Object")
    BY <1>1, <1>3, <2>1 DEF PushObject, FS!Push
  <2>3. QED
    BY <2>2 DEF FS!Next, FS!Frame
<1>4. CASE PushArray
  <2>1. Frames' = Append(Frames, "Array")
    BY <1>1, <1>4, OneMoreBit DEF PushArray, Frames, FS!Frame
  <2>2. FS!Push("Array")
    BY <1>1, <1>4, <2>1 DEF PushArray, FS!Push
  <2>3. QED
    BY <2>2 DEF FS!Next, FS!Frame
<1>5. CASE Pop
  <2>1. answer' = FS!TopOf(Frames) /\ call' = "pop"
    BY <1>5, TopAgrees DEF Pop
  <2>2. CASE len = 0
    <3>1. Frames = << >>
      BY <1>1, <2>2, FramesOfType, EmptySeq DEF Frames
    <3>2. Frames' = Frames
      BY <1>5, <2>2 DEF Pop, Frames
    <3>3. QED
      BY <2>1, <3>1, <3>2 DEF FS!Pop, FS!Next
  <2>3. CASE len # 0
    <3>1. Frames # << >>
      BY <1>1, <2>3, EmptySeq
    <3>2. Frames' = FS!Popped(Frames)
      BY <1>1, <1>5, <2>3, FewerBits DEF Pop, Frames, FS!Popped
    <3>3. QED
      BY <2>1, <3>1, <3>2 DEF FS!Pop, FS!Next
  <2>4. QED
    BY <2>2, <2>3
<1>6. CASE Top
  BY <1>6, TopAgrees DEF Top, Frames, FS!Top, FS!Next
<1>7. ASSUME NEW n \in 0..MaxDepth, Truncate(n)
      PROVE  FS!Truncate(n)
  <2> DEFINE m == IF n <= len THEN n ELSE len
  <2>1. m \in 0..len
    BY <1>1
  <2>2. FramesOf(bits, m) = SubSeq(FramesOf(bits, len), 1, m)
    BY <1>1, <2>1, FewerBits
  <2>3. QED
    BY <1>1, <1>7, <2>2 DEF Truncate, Frames, FS!Truncate, FS!Truncated
<1>8. CASE UNCHANGED stackVars
  BY <1>8 DEF stackVars, Frames, FS!stackVars
<1>9. QED
  BY <1>2, <1>3, <1>4, <1>5, <1>6, <1>7, <1>8 DEF StackNext, FS!Next

(* Whatever calls ran before and whatever bits they left behind, the       *)
(* packed stack answers as a bounded stack of frames (lexer.rs:81-150).    *)
THEOREM PackedStackIsAStack == StackSpec => ImplementsFrameStack
<1>1. StackInit => FS!Init
  <2>1. SUFFICES ASSUME StackInit PROVE Frames = << >>
    BY DEF StackInit, FS!Init
  <2>2. Frames \in Seq(FS!Frame) /\ Len(Frames) = 0
    BY <2>1, FramesOfType DEF StackInit, Frames
  <2>3. QED
    BY <2>2, EmptySeq
<1>2. StackTypeOK /\ [StackNext]_stackVars => [FS!Next]_(FS!stackVars)
  BY StepSimulates
<1>3. QED
  BY <1>1, <1>2, StackTypeCorrect, PTL DEF StackSpec, ImplementsFrameStack, FS!Spec

-----------------------------------------------------------------------------
(* The fused integer readers.                                              *)

FastOf(m) == IF m \in {"i64", "u64"} THEN Fast64 ELSE Fast128

(* While digits may still be folded unchecked, count bounds the number.    *)
FewDigits == count <= FastOf(method) => exact <= Power[count] - 1

(* Until a reader returns there is no result; before the first digit there *)
(* is no number; only the signed readers take a sign.                      *)
Reading ==
  /\ pc # "done" => ret = "none"
  /\ pc = "start" => exact = 0
  /\ negative => method \in {"i64", "i128"}

(* What is returned is the number the digits stand for, with its sign, and *)
(* in the range of the type (lexer.rs:30-46, 740-752).                     *)
ValueIsTheNumber ==
  ret = "ok" =>
    /\ value = IF negative THEN -exact ELSE exact
    /\ value \in Lowest(method)..Highest(method)

Inv == TypeOK /\ AccumulatorIsExact /\ FewDigits /\ Reading /\ ValueIsTheNumber


LEMMA ModSmall ==
  ASSUME NEW a \in Nat, NEW n \in Nat, a < n
  PROVE  a % n = a
OBVIOUS

LEMMA TimesMonotone ==
  ASSUME NEW x \in Nat, NEW y \in Nat, NEW b \in Nat, x <= y
  PROVE  x * b <= y * b
OBVIOUS

(* One more digit stays below the next power.                              *)
LEMMA NextPower ==
  ASSUME NEW b \in Nat, NEW p \in Nat, NEW x \in Nat, NEW d \in 0..(b - 1),
         x <= p - 1
  PROVE  x * b + d <= p * b - 1
<1>1. p - 1 \in Nat
  OBVIOUS
<1>2. x * b <= (p - 1) * b
  BY <1>1, TimesMonotone
<1>3. (p - 1) * b = p * b - b
  OBVIOUS
<1>4. x * b \in Int /\ p * b \in Int
  OBVIOUS
<1>5. QED
  BY <1>2, <1>3, <1>4

LEMMA HereIsAnInt ==
  ASSUME TypeOK, Here \in Digit
  PROVE  /\ Here \in 0..(Base - 1)
         /\ pos + 1 \in 0..Len(text)
<1>1. pos < Len(text)
  BY NumberAssumption, LenProperties DEF TypeOK, Here, Char, Eof, Digit
<1>2. QED
  BY <1>1, LenProperties DEF Digit, TypeOK

LEMMA Widths ==
  ASSUME TypeOK
  PROVE  /\ FastFits(MaxOf(method), FastOf(method))
         /\ MaxOf(method) \in Nat /\ FastOf(method) \in Nat
BY NumberAssumption DEF FastFits, MaxOf, FastOf

-----------------------------------------------------------------------------
LEMMA InitInv == Init => Inv
<1> SUFFICES ASSUME Init PROVE Inv
  OBVIOUS
<1>1. text \in Seq(Int)
  BY NumberAssumption DEF Init
<1>2. TypeOK
  <2>1. Len(text) \in Nat
    BY <1>1, LenProperties
  <2>2. pos \in 0..Len(text)
    BY <2>1 DEF Init
  <2>3. negative \in BOOLEAN /\ ret \in {"none", "ok"} \cup Errors /\ method \in Methods
    BY DEF Init
  <2>4. acc \in Nat /\ count \in Nat /\ exact \in Nat /\ value \in Int
    BY DEF Init
  <2>5. pc \in {"start", "digits", "done"}
    BY DEF Init
  <2>6. QED
    BY <1>1, <2>2, <2>3, <2>4, <2>5 DEF TypeOK
<1>3. Power[0] = 1 /\ MaxOf(method) \in Nat
  BY <1>2, Widths DEF FastFits
<1>4. AccumulatorIsExact /\ FewDigits /\ Reading
  BY <1>3 DEF Init, AccumulatorIsExact, FewDigits, Reading
<1>5. ValueIsTheNumber
  BY DEF Init, ValueIsTheNumber
<1>6. QED
  BY <1>2, <1>4, <1>5 DEF Inv

(* Steps that leave the fold alone and hand out no value.                  *)
LEMMA Quiet ==
  ASSUME Inv, TypeOK', Reading', UNCHANGED <<method, acc, count, exact>>, ret' # "ok"
  PROVE  Inv'
<1>1. MaxOf(method)' = MaxOf(method) /\ FastOf(method)' = FastOf(method)
  BY DEF MaxOf, FastOf
<1>2. QED
  BY <1>1 DEF Inv, AccumulatorIsExact, FewDigits, ValueIsTheNumber

LEMMA FoldDigitKeeps ==
  ASSUME Inv, FoldDigit(MaxOf(method), FastOf(method))
  PROVE  Inv'
<1> DEFINE max == MaxOf(method)
           fast == FastOf(method)
           next == acc * Base + Here
<1>1. TypeOK /\ Base \in Nat /\ max \in Nat /\ fast \in Nat
  BY Widths, NumberAssumption DEF Inv
<1>2. Here \in 0..(Base - 1) /\ Here \in Nat /\ pos + 1 \in 0..Len(text)
  BY <1>1, HereIsAnInt DEF FoldDigit, Inv
<1>3. acc = exact /\ next \in Nat
  <2>1. acc * Base \in Nat
    BY <1>1 DEF TypeOK
  <2>2. QED
    BY <1>2, <2>1 DEF Inv, AccumulatorIsExact
<1>4. CASE count < fast /\ acc' = next % (max + 1) /\ pos' = pos + 1 /\ count' = count + 1
           /\ exact' = exact * Base + Here /\ UNCHANGED <<pc, ret, value>>
  <2>1. count \in 0..(fast - 1) /\ count + 1 \in 0..fast
    BY <1>1, <1>4 DEF TypeOK
  <2>2. /\ Power[count] \in Nat
        /\ Power[count + 1] = Power[count] * Base
        /\ Power[count + 1] \in Nat
        /\ Power[count + 1] <= max + 1
    <3>1. FastFits(max, fast)
      BY Widths DEF Inv
    <3>2. count \in 0..fast
      BY <2>1, <1>1
    <3> HIDE DEF max, fast
    <3>3. QED
      BY <2>1, <3>1, <3>2 DEF FastFits
  <2>3. exact <= Power[count] - 1
    BY <1>1, <1>4 DEF Inv, FewDigits, TypeOK
  <2>4. next <= Power[count + 1] - 1
    BY <1>1, <1>2, <1>3, <2>2, <2>3, NextPower DEF TypeOK
  <2>5. acc' = next
    <3>1. next < max + 1 /\ max + 1 \in Nat
      BY <1>1, <1>3, <2>2, <2>4
    <3> HIDE DEF next, max
    <3>2. QED
      BY <1>3, <1>4, <3>1, ModSmall
  <2>6. exact' = next /\ method' = method /\ UNCHANGED <<text, negative>>
    BY <1>3, <1>4 DEF FoldDigit
  <2>7. next <= max
    BY <1>1, <1>3, <2>2, <2>4
  <2> HIDE DEF next
  <2>8. TypeOK'
    BY <1>1, <1>2, <1>3, <1>4, <2>1, <2>5, <2>6 DEF TypeOK
  <2>9. AccumulatorIsExact'
    BY <2>5, <2>6, <2>7 DEF AccumulatorIsExact
  <2>10. FewDigits'
    BY <1>4, <2>4, <2>6 DEF FewDigits
  <2>11. ret' = "none"
    BY <1>4 DEF FoldDigit, Inv, Reading
  <2>12. Reading'
    BY <1>4, <2>6, <2>11 DEF FoldDigit, Inv, Reading
  <2>13. QED
    BY <2>8, <2>9, <2>10, <2>11, <2>12 DEF Inv, ValueIsTheNumber
<1>5. CASE count >= fast /\ next <= max /\ acc' = next /\ pos' = pos + 1
           /\ count' = count + 1 /\ exact' = exact * Base + Here /\ UNCHANGED <<pc, ret, value>>
  <2>1. exact' = next /\ method' = method /\ UNCHANGED <<text, negative>>
    BY <1>3, <1>5 DEF FoldDigit
  <2>2. max' = max /\ fast' = fast
    BY <2>1 DEF MaxOf, FastOf
  <2> HIDE DEF next
  <2>3. TypeOK'
    BY <1>1, <1>2, <1>3, <1>5, <2>1 DEF TypeOK
  <2>4. AccumulatorIsExact'
    BY <1>5, <2>1 DEF AccumulatorIsExact
  <2>5. FewDigits'
    BY <1>1, <1>5, <2>1 DEF FewDigits, TypeOK
  <2>6. ret' = "none"
    BY <1>5 DEF FoldDigit, Inv, Reading
  <2>7. Reading'
    BY <1>5, <2>1, <2>6 DEF FoldDigit, Inv, Reading
  <2>8. QED
    BY <2>3, <2>4, <2>5, <2>6, <2>7 DEF Inv, ValueIsTheNumber
<1>6. CASE Fail("NumberOutOfRange") /\ UNCHANGED <<acc, pos, count, exact>>
  <2>1. TypeOK'
    BY <1>1, <1>6 DEF FoldDigit, Fail, Done, TypeOK, Errors
  <2>2. QED
    BY <1>6, <2>1, Quiet DEF FoldDigit, Fail, Done, Reading, Inv
<1>7. QED
  BY <1>4, <1>5, <1>6 DEF FoldDigit

-----------------------------------------------------------------------------
(* The sign and the first byte. *)

LEMMA RefuseSignKeeps ==
  ASSUME Inv, RefuseSign
  PROVE  Inv'
<1>1. TypeOK'
  BY DEF Inv, TypeOK, RefuseSign, Fail, Done, Errors
<1>2. QED
  BY <1>1, Quiet DEF RefuseSign, Fail, Done, Reading, Inv

LEMMA TakeSignKeeps ==
  ASSUME Inv, TakeSign, method \in {"i64", "i128"}
  PROVE  Inv'
<1>1. text # << >> /\ TypeOK
  BY DEF TakeSign, Inv, TypeOK, Here, Char, Minus, Eof
<1>2. 1 \in 0..Len(text)
  BY <1>1, LenProperties DEF TakeSign, Here, Char, Minus, Eof, TypeOK
<1>3. TypeOK'
  BY <1>1, <1>2 DEF TypeOK, TakeSign
<1>4. Reading' /\ ret' # "ok"
  BY DEF TakeSign, Inv, Reading
<1>5. QED
  BY <1>3, <1>4, Quiet DEF TakeSign

LEMMA NoDigitKeeps ==
  ASSUME Inv, NoDigit
  PROVE  Inv'
<1>1. Unexpected(Here) \in Errors /\ Unexpected(Here) # "ok"
  BY DEF Unexpected, Errors
<1>2. TypeOK'
  BY <1>1 DEF Inv, TypeOK, NoDigit, Fail, Done
<1>3. QED
  BY <1>1, <1>2, Quiet DEF NoDigit, Fail, Done, Reading, Inv

LEMMA FirstDigitKeeps ==
  ASSUME Inv, FirstDigit
  PROVE  Inv'
<1>1. TypeOK'
  BY DEF Inv, TypeOK, FirstDigit
<1>2. Reading' /\ ret' # "ok"
  BY DEF FirstDigit, Inv, Reading
<1>3. QED
  BY <1>1, <1>2, Quiet DEF FirstDigit

LEMMA ZeroKeeps ==
  ASSUME Inv, Zero
  PROVE  Inv'
<1>1. TypeOK /\ exact = 0 /\ Here = 0
  BY DEF Inv, Reading, Zero
<1>2. pos + 1 \in 0..Len(text)
  BY <1>1, LenProperties DEF TypeOK, Here, Char, Eof
<1>3. TypeOK'
  BY <1>1, <1>2 DEF TypeOK, Zero, Fail, Done, Errors
<1>4. Reading'
  BY DEF Zero, Fail, Done, Reading, Inv
<1>5. UNCHANGED <<method, acc, count, exact, negative>> /\ value' = 0
  BY DEF Zero, Fail, Done
<1>6. 0 \in Lowest(method)..Highest(method)
  BY <1>1, Widths DEF Lowest, Highest
<1>7. Lowest(method)' = Lowest(method) /\ Highest(method)' = Highest(method)
  BY <1>5 DEF Lowest, Highest, MaxOf
<1>8. ValueIsTheNumber'
  <2>1. value' = IF negative' THEN -exact' ELSE exact'
    <3>1. exact' = 0
      BY <1>1, <1>5
    <3>2. -exact' = 0
      <4>1. \A x \in Int : -x = 0 - x
        OBVIOUS
      <4>2. exact' \in Int /\ 0 - exact' = 0
        BY <3>1
      <4>3. QED
        BY <4>1, <4>2
    <3>3. QED
      BY <1>5, <3>1, <3>2
  <2>2. value' \in Lowest(method)..Highest(method)
    BY <1>5, <1>6
  <2>3. QED
    BY <1>7, <2>1, <2>2 DEF ValueIsTheNumber
<1>9. FewDigits' /\ AccumulatorIsExact'
  BY <1>5 DEF Inv, FewDigits, AccumulatorIsExact, FastOf, MaxOf
<1>10. QED
  BY <1>3, <1>4, <1>8, <1>9 DEF Inv

-----------------------------------------------------------------------------
(* The end of the digits. *)

LEMMA FinishUnsignedKeeps ==
  ASSUME Inv, FinishUnsigned, method \in {"u64", "u128"}
  PROVE  Inv'
<1>1. TypeOK /\ ~ negative
  BY DEF Inv, Reading, TypeOK
<1>2. TypeOK'
  BY <1>1 DEF TypeOK, FinishUnsigned, Fail, Done, Errors
<1>3. Reading'
  BY <1>1 DEF FinishUnsigned, Fail, Done, Reading, Inv
<1>4. UNCHANGED <<method, acc, count, exact, negative>>
  BY DEF FinishUnsigned
<1>5. acc \in Lowest(method)..Highest(method)
  BY <1>1, Widths DEF Inv, AccumulatorIsExact, Lowest, Highest, TypeOK
<1>6. ret' = "ok" => value' = acc
  BY DEF FinishUnsigned, Fail, Done
<1>7. Lowest(method)' = Lowest(method) /\ Highest(method)' = Highest(method)
  BY <1>4 DEF Lowest, Highest, MaxOf
<1>8. ValueIsTheNumber'
  <2>1. acc = exact /\ negative' = negative /\ exact' = exact
    BY <1>4 DEF Inv, AccumulatorIsExact
  <2>2. ret' = "ok" => value' = IF negative' THEN -exact' ELSE exact'
    BY <1>1, <1>6, <2>1
  <2>3. ret' = "ok" => value' \in Lowest(method)..Highest(method)
    BY <1>5, <1>6
  <2>4. QED
    BY <1>7, <2>2, <2>3 DEF ValueIsTheNumber
<1>9. FewDigits' /\ AccumulatorIsExact'
  BY <1>4 DEF Inv, FewDigits, AccumulatorIsExact, FastOf, MaxOf
<1>10. QED
  BY <1>2, <1>3, <1>8, <1>9 DEF Inv

LEMMA FinishSignedKeeps ==
  ASSUME Inv, FinishSigned(MaxOf(method)), method \in {"i64", "i128"}
  PROVE  Inv'
<1> DEFINE max == MaxOf(method)
           v == IF negative THEN -acc ELSE acc
<1>1. TypeOK /\ max \in Nat /\ max \div 2 \in Nat
  BY Widths DEF Inv
<1>2. v \in Int
  BY <1>1 DEF TypeOK
<1>3. TypeOK'
  BY <1>1, <1>2 DEF TypeOK, FinishSigned, FromMagnitude, Fail, Done, Errors
<1>4. UNCHANGED <<method, acc, count, exact, negative>>
  BY DEF FinishSigned
<1>5. Reading'
  BY DEF FinishSigned, FromMagnitude, Fail, Done, Reading, Inv
<1>6. ret' = "ok" =>
        /\ value' = v
        /\ acc <= (IF negative THEN max \div 2 + 1 ELSE max \div 2)
  BY DEF FinishSigned, FromMagnitude, Fail, Done
<1>7. Lowest(method) = -(max \div 2) - 1 /\ Highest(method) = max \div 2
  BY DEF Lowest, Highest
<1>8. ret' = "ok" => value' \in Lowest(method)..Highest(method)
  <2> SUFFICES ASSUME ret' = "ok" PROVE value' \in Lowest(method)..Highest(method)
    OBVIOUS
  <2> HIDE DEF max
  <2>1. CASE negative
    BY <1>1, <1>6, <1>7, <2>1 DEF TypeOK
  <2>2. CASE ~ negative
    BY <1>1, <1>6, <1>7, <2>2 DEF TypeOK
  <2>3. QED
    BY <2>1, <2>2
<1>9. Lowest(method)' = Lowest(method) /\ Highest(method)' = Highest(method)
  BY <1>4 DEF Lowest, Highest, MaxOf
<1>10. ValueIsTheNumber'
  <2>1. acc = exact /\ negative' = negative /\ exact' = exact
    BY <1>4 DEF Inv, AccumulatorIsExact
  <2>2. ret' = "ok" => value' = IF negative' THEN -exact' ELSE exact'
    BY <1>6, <2>1
  <2>3. QED
    BY <1>8, <1>9, <2>2 DEF ValueIsTheNumber
<1>11. FewDigits' /\ AccumulatorIsExact'
  BY <1>4 DEF Inv, FewDigits, AccumulatorIsExact, FastOf, MaxOf
<1>12. QED
  BY <1>3, <1>5, <1>10, <1>11 DEF Inv

-----------------------------------------------------------------------------
LEMMA NextInv == Inv /\ [Next]_vars => Inv'
<1> SUFFICES ASSUME Inv, [Next]_vars PROVE Inv'
  OBVIOUS
<1>1. CASE ParseI64Value
  <2>1. method = "i64" /\ MaxOf(method) = Max64 /\ FastOf(method) = Fast64
    BY <1>1 DEF ParseI64Value, MaxOf, FastOf
  <2>2. QED
    BY <1>1, <2>1, TakeSignKeeps, ZeroKeeps, FirstDigitKeeps, NoDigitKeeps,
       FoldDigitKeeps, FinishSignedKeeps DEF ParseI64Value, Start
<1>2. CASE ParseU64Value
  <2>1. method = "u64" /\ MaxOf(method) = Max64 /\ FastOf(method) = Fast64
    BY <1>2 DEF ParseU64Value, MaxOf, FastOf
  <2>2. QED
    BY <1>2, <2>1, RefuseSignKeeps, ZeroKeeps, FirstDigitKeeps, NoDigitKeeps,
       FoldDigitKeeps, FinishUnsignedKeeps DEF ParseU64Value, Start
<1>3. CASE ParseI128Value
  <2>1. method = "i128" /\ MaxOf(method) = Max128 /\ FastOf(method) = Fast128
    BY <1>3 DEF ParseI128Value, MaxOf, FastOf
  <2>2. QED
    BY <1>3, <2>1, TakeSignKeeps, ZeroKeeps, FirstDigitKeeps, NoDigitKeeps,
       FoldDigitKeeps, FinishSignedKeeps DEF ParseI128Value, Start
<1>4. CASE ParseU128Value
  <2>1. method = "u128" /\ MaxOf(method) = Max128 /\ FastOf(method) = Fast128
    BY <1>4 DEF ParseU128Value, MaxOf, FastOf
  <2>2. QED
    BY <1>4, <2>1, RefuseSignKeeps, ZeroKeeps, FirstDigitKeeps, NoDigitKeeps,
       FoldDigitKeeps, FinishUnsignedKeeps DEF ParseU128Value, Start
<1>5. CASE UNCHANGED vars
  <2>1. TypeOK'
    BY <1>5 DEF vars, Inv, TypeOK
  <2>2. QED
    BY <1>5, <2>1 DEF vars, Inv, AccumulatorIsExact, FewDigits, Reading, ValueIsTheNumber,
       MaxOf, FastOf, Lowest, Highest
<1>6. QED
  BY <1>1, <1>2, <1>3, <1>4, <1>5 DEF Next

(* The readers stay inside their literal and return only what they may:    *)
(* the cursor never passes the end of the text (lexer.rs:527-836).         *)
THEOREM TypeCorrect == Spec => []TypeOK
<1>1. Inv => TypeOK
  BY DEF Inv
<1>2. QED
  BY InitInv, NextInv, <1>1, PTL DEF Spec

(* The fold that a fused integer reader does unchecked never wraps: its    *)
(* word holds the number the digits stand for, for every base, word size   *)
(* and number of fast digits that fits (lexer.rs:605-609, 655-658).        *)
THEOREM FoldNeverWraps == Spec => []AccumulatorIsExact
<1>1. Inv => AccumulatorIsExact
  BY DEF Inv
<1>2. QED
  BY InitInv, NextInv, <1>1, PTL DEF Spec

-----------------------------------------------------------------------------
(* Digits and the number they stand for.                                   *)

LEMMA LeastOf ==
  ASSUME NEW S, S \subseteq Nat, S # {}
  PROVE  \E n \in S : \A m \in S : n <= m
<1>1. PICK n \in S : \A m \in S : ~ (<<m, n>> \in OpToRel(<, Nat))
  BY NatLessThanWellFounded, WFMin
<1>2. ASSUME NEW m \in S PROVE n <= m
  <2>1. m \in Nat /\ n \in Nat
    OBVIOUS
  <2>2. m < n => <<m, n>> \in OpToRel(<, Nat)
    BY <2>1 DEF OpToRel
  <2>3. ~ (m < n)
    BY <1>1, <2>2
  <2>4. QED
    BY <2>1, <2>3
<1>3. QED
  BY <1>2

(* A run of digits ends where its first other symbol is.                   *)
LEMMA DigitsEndHere ==
  ASSUME NEW s, Len(s) \in Nat, NEW k \in Nat, NEW e \in k..Len(s),
         Char(s, e) \notin Digit,
         \A j \in k..(e - 1) : Char(s, j) \in Digit
  PROVE  DigitsEnd(s, k) = e
<1> DEFINE Ends(x) == /\ Char(s, x) \notin Digit
                      /\ \A j \in k..(x - 1) : Char(s, j) \in Digit
           d == CHOOSE x \in k..Len(s) : Ends(x)
<1>1. d \in k..Len(s) /\ Ends(d)
  <2>1. Ends(e)
    OBVIOUS
  <2> HIDE DEF Ends
  <2>2. QED
    BY <2>1
<1>2. ~ (d < e) /\ ~ (e < d)
  <2> HIDE DEF d
  <2>1. d < e => d \in k..(e - 1)
    BY <1>1
  <2>2. e < d => e \in k..(d - 1)
    BY <1>1
  <2>3. QED
    BY <1>1, <2>1, <2>2
<1>3. d = e
  <2> HIDE DEF d
  <2>1. QED
    BY <1>1, <1>2
<1>4. QED
  BY <1>3, Zenon DEF DigitsEnd

LEMMA DigitsEndIs ==
  ASSUME NEW s \in Seq(Int), NEW k \in 0..Len(s)
  PROVE  /\ DigitsEnd(s, k) \in k..Len(s)
         /\ Char(s, DigitsEnd(s, k)) \notin Digit
         /\ \A j \in k..(DigitsEnd(s, k) - 1) : Char(s, j) \in Digit
<1> DEFINE S == {x \in k..Len(s) : Char(s, x) \notin Digit}
<1>1. Len(s) \in Nat /\ k \in Nat
  BY LenProperties
<1>2. Char(s, Len(s)) \notin Digit
  BY <1>1, NumberAssumption DEF Char, Eof, Digit
<1>3. Len(s) \in S
  BY <1>1, <1>2
<1>4. S \subseteq Nat
  BY <1>1
<1>5. PICK e \in S : \A x \in S : e <= x
  <2> HIDE DEF S
  <2>1. QED
    BY <1>3, <1>4, LeastOf
<1>6. e \in k..Len(s) /\ e \in Nat
  BY <1>1
<1>7. ASSUME NEW j \in k..(e - 1) PROVE Char(s, j) \in Digit
  <2>1. j \in k..Len(s) /\ ~ (e <= j)
    BY <1>1, <1>6
  <2>2. QED
    BY <1>5, <2>1
<1>8. DigitsEnd(s, k) = e
  BY <1>1, <1>6, <1>7, DigitsEndHere
<1>9. QED
  BY <1>6, <1>7, <1>8

(* The recursive function of Partial is what its unfolding says: there is  *)
(* one such function for every length.                                     *)
FoldStep(s, sign, f, n) == IF n = 0 THEN 0 ELSE f[n - 1] * Base + sign * s[n]

LEMMA PartialStepwise ==
  ASSUME NEW s, Len(s) \in Nat, NEW sign
  PROVE  /\ DOMAIN Partial(s, sign) = 0..Len(s)
         /\ Partial(s, sign)[0] = 0
         /\ \A n \in 1..Len(s) :
              Partial(s, sign)[n] = Partial(s, sign)[n - 1] * Base + sign * s[n]
<1> DEFINE D == 0..Len(s)
           Made(f, m) == [n \in 0..m |-> FoldStep(s, sign, f, n)]
           Missing == {m \in D : ~ \E f : f = Made(f, m)}
           g == CHOOSE f : f = [n \in D |-> FoldStep(s, sign, f, n)]
<1>1. \E f : f = Made(f, 0)
  <2>1. Made(0, 0) = Made(Made(0, 0), 0)
    <3>1. \A f : Made(f, 0) = [n \in 0..0 |-> 0]
      BY DEF FoldStep
    <3> HIDE DEF Made
    <3>2. QED
      BY <3>1
  <2> HIDE DEF Made
  <2>2. QED
    BY <2>1
<1>2. ASSUME NEW m \in Nat, NEW f, f = Made(f, m)
      PROVE  \E h : h = Made(h, m + 1)
  <2> DEFINE h == [n \in 0..(m + 1) |-> IF n \in 0..m THEN f[n] ELSE FoldStep(s, sign, f, n)]
  <2>1. \A n \in 0..m : h[n] = f[n]
    OBVIOUS
  <2>2. \A n \in 0..(m + 1) : FoldStep(s, sign, h, n) = FoldStep(s, sign, f, n)
    <3>1. ASSUME NEW n \in 0..(m + 1), n # 0 PROVE h[n - 1] = f[n - 1]
      BY <2>1, <3>1
    <3> HIDE DEF h
    <3>2. QED
      BY <3>1 DEF FoldStep
  <2>3. \A n \in 0..m : f[n] = FoldStep(s, sign, f, n)
    <3> DEFINE F == [n \in 0..m |-> FoldStep(s, sign, f, n)]
    <3>1. f = F
      BY <1>2
    <3>2. \A n \in 0..m : F[n] = FoldStep(s, sign, f, n)
      OBVIOUS
    <3> HIDE DEF F
    <3>3. QED
      BY <3>1, <3>2
  <2>4. \A n \in 0..(m + 1) : h[n] = FoldStep(s, sign, h, n)
    <3>1. \A n \in 0..(m + 1) : h[n] = FoldStep(s, sign, f, n)
      BY <2>3
    <3>2. QED
      BY <2>2, <3>1
  <2>5. h = Made(h, m + 1)
    <3>1. h = [n \in 0..(m + 1) |-> h[n]]
      OBVIOUS
    <3> HIDE DEF h
    <3>2. QED
      BY <2>4, <3>1
  <2> HIDE DEF h, Made
  <2>6. QED
    BY <2>5
<1> HIDE DEF Made
<1>3. Missing = {}
  <2>1. SUFFICES ASSUME Missing # {} PROVE FALSE
    OBVIOUS
  <2>2. Missing \subseteq Nat
    OBVIOUS
  <2>3. PICK m \in Missing : \A k \in Missing : m <= k
    <3> HIDE DEF Missing
    <3>1. QED
      BY <2>1, <2>2, LeastOf
  <2>4. m # 0
    BY <1>1
  <2>5. m - 1 \in D /\ m - 1 \in Nat /\ m - 1 \notin Missing
    BY <2>3, <2>4
  <2>6. PICK f : f = Made(f, m - 1)
    BY <2>5
  <2>7. \E h : h = Made(h, m - 1 + 1)
    BY <1>2, <2>5, <2>6
  <2>8. m - 1 + 1 = m
    OBVIOUS
  <2>9. QED
    BY <2>7, <2>8
<1>4. \E f : f = Made(f, Len(s))
  BY <1>3
<1>5. g = [n \in D |-> FoldStep(s, sign, g, n)]
  <2>1. \E f : f = [n \in D |-> FoldStep(s, sign, f, n)]
    BY <1>4 DEF Made
  <2>2. QED
    BY <2>1, Zenon
<1>6. Partial(s, sign) = g
  BY DEF Partial, FoldStep
<1> HIDE DEF g
<1>7. \A n \in D : g[n] = FoldStep(s, sign, g, n)
  <2> DEFINE G == [n \in D |-> FoldStep(s, sign, g, n)]
  <2>1. \A n \in D : G[n] = FoldStep(s, sign, g, n)
    OBVIOUS
  <2>2. g = G
    BY <1>5
  <2> HIDE DEF G
  <2>3. QED
    BY <2>1, <2>2
<1>8. g[0] = 0
  <2>1. 0 \in D
    OBVIOUS
  <2>2. QED
    BY <1>7, <2>1 DEF FoldStep
<1>9. \A n \in 1..Len(s) : g[n] = g[n - 1] * Base + sign * s[n]
  <2>1. \A n \in 1..Len(s) : n \in D /\ n # 0
    OBVIOUS
  <2>2. QED
    BY <1>7, <2>1 DEF FoldStep
<1>10. DOMAIN g = D
  BY <1>5, Zenon
<1>11. QED
  BY <1>6, <1>8, <1>9, <1>10

(* The digits of a beginning of s come to the same there as in s.          *)
LEMMA PartialOfBeginning ==
  ASSUME NEW s, NEW u, Len(s) \in Nat, Len(u) \in Nat, Len(u) <= Len(s), NEW sign,
         \A k \in 1..Len(u) : u[k] = s[k]
  PROVE  \A n \in 0..Len(u) : Partial(u, sign)[n] = Partial(s, sign)[n]
<1> DEFINE f == Partial(u, sign)
           g == Partial(s, sign)
           Apart == {n \in 0..Len(u) : f[n] # g[n]}
<1>1. /\ f[0] = 0 /\ g[0] = 0
      /\ \A n \in 1..Len(u) : f[n] = f[n - 1] * Base + sign * u[n]
      /\ \A n \in 1..Len(s) : g[n] = g[n - 1] * Base + sign * s[n]
  BY PartialStepwise
<1> HIDE DEF f, g
<1>2. Apart = {}
  <2>1. SUFFICES ASSUME Apart # {} PROVE FALSE
    OBVIOUS
  <2>2. Apart \subseteq Nat
    OBVIOUS
  <2>3. PICK n \in Apart : \A k \in Apart : n <= k
    <3> HIDE DEF Apart
    <3>1. QED
      BY <2>1, <2>2, LeastOf
  <2>4. n \in 1..Len(u) /\ n \in 1..Len(s)
    BY <1>1, <2>3
  <2>5. n - 1 \in 0..Len(u) /\ ~ (n <= n - 1)
    BY <2>4
  <2>6. f[n - 1] = g[n - 1]
    BY <2>3, <2>5
  <2>7. f[n] = g[n]
    <3>1. f[n] = f[n - 1] * Base + sign * u[n]
      BY <1>1, <2>4
    <3>2. g[n] = g[n - 1] * Base + sign * s[n]
      BY <1>1, <2>4
    <3>3. u[n] = s[n]
      BY <2>4
    <3>4. QED
      BY <2>6, <3>1, <3>2, <3>3, Zenon
  <2>8. QED
    BY <2>7
<1>3. QED
  BY <1>2 DEF f, g

(* The number that the digits from a up to b stand for.                    *)
NumberAt(s, a, b) == Value(SubSeq(s, a + 1, b))

LEMMA NumberGrows ==
  ASSUME NEW s \in Seq(Int), NEW a \in Nat, NEW b \in a..Len(s)
  PROVE  /\ NumberAt(s, a, a) = 0
         /\ b < Len(s) /\ Char(s, b) \in Int =>
              NumberAt(s, a, b + 1) = NumberAt(s, a, b) * Base + 1 * Char(s, b)
<1>1. Len(s) \in Nat /\ a \in 0..Len(s) /\ b \in Nat
  BY LenProperties
<1>2. NumberAt(s, a, a) = 0
  <2> DEFINE u == SubSeq(s, a + 1, a)
  <2>1. Len(u) = 0 /\ Len(u) \in Nat
    BY <1>1, SubSeqProperties
  <2> HIDE DEF u
  <2>2. Partial(u, 1)[0] = 0
    BY <2>1, PartialStepwise, Zenon
  <2>3. NumberAt(s, a, a) = Partial(u, 1)[Len(u)]
    BY DEF NumberAt, Value, u
  <2>4. QED
    BY <2>1, <2>2, <2>3
<1>3. ASSUME b < Len(s)
      PROVE  NumberAt(s, a, b + 1) = NumberAt(s, a, b) * Base + 1 * Char(s, b)
  <2> DEFINE u == SubSeq(s, a + 1, b)
             t == SubSeq(s, a + 1, b + 1)
             n == b - a
  <2>1. n \in Nat /\ b + 1 \in 0..Len(s)
    BY <1>1, <1>3
  <2>2. Len(u) = n /\ \A k \in 1..n : u[k] = s[a + k]
    <3>1. a + 1 \in 1..(b + 1) /\ b \in 0..Len(s)
      BY <1>1
    <3>2. Len(u) = (IF a + 1 <= b THEN b - (a + 1) + 1 ELSE 0)
          /\ \A k \in 1..Len(u) : u[k] = s[a + 1 + k - 1]
      BY <1>1, <3>1, SubSeqProperties
    <3> HIDE DEF u
    <3>3. Len(u) = n
      BY <1>1, <3>2
    <3>4. \A k \in 1..n : a + 1 + k - 1 = a + k
      BY <1>1, <2>1
    <3>5. QED
      BY <3>2, <3>3, <3>4
  <2>3. Len(t) = n + 1 /\ \A k \in 1..(n + 1) : t[k] = s[a + k]
    <3>1. a + 1 \in 1..(b + 1) /\ b + 1 \in 0..Len(s)
      BY <1>1, <2>1
    <3>2. Len(t) = (IF a + 1 <= b + 1 THEN b + 1 - (a + 1) + 1 ELSE 0)
          /\ \A k \in 1..Len(t) : t[k] = s[a + 1 + k - 1]
      BY <1>1, <3>1, SubSeqProperties
    <3> HIDE DEF t
    <3>3. Len(t) = n + 1
      BY <1>1, <3>2
    <3>4. \A k \in 1..(n + 1) : a + 1 + k - 1 = a + k
      BY <1>1, <2>1
    <3>5. QED
      BY <3>2, <3>3, <3>4
  <2> HIDE DEF u, t
  <2>4. n \in 0..Len(u) /\ n + 1 \in 1..Len(t) /\ \A k \in 1..n : k \in 1..(n + 1)
    BY <2>1, <2>2, <2>3
  <2>5. Partial(u, 1)[n] = Partial(t, 1)[n]
    <3>1. Len(u) \in Nat /\ Len(t) \in Nat /\ Len(u) <= Len(t)
      BY <2>1, <2>2, <2>3
    <3>2. \A k \in 1..Len(u) : u[k] = t[k]
      BY <2>2, <2>3, <2>4
    <3>3. QED
      BY <2>4, <3>1, <3>2, PartialOfBeginning
  <2>6. Partial(t, 1)[n + 1] = Partial(t, 1)[n] * Base + 1 * t[n + 1]
    <3>1. Partial(t, 1)[n + 1] = Partial(t, 1)[n + 1 - 1] * Base + 1 * t[n + 1]
      <4>1. Len(t) \in Nat
        BY <2>1, <2>3
      <4>2. \A k \in 1..Len(t) : Partial(t, 1)[k] = Partial(t, 1)[k - 1] * Base + 1 * t[k]
        BY <4>1, PartialStepwise, Zenon
      <4>3. QED
        BY <2>4, <4>2
    <3>2. n + 1 - 1 = n
      BY <2>1
    <3>3. QED
      BY <3>1, <3>2
  <2>7. t[n + 1] = Char(s, b)
    <3>1. a + (n + 1) = b + 1
      BY <1>1
    <3>2. QED
      BY <1>3, <2>3, <2>4, <3>1 DEF Char
  <2>8. NumberAt(s, a, b) = Partial(u, 1)[n] /\ NumberAt(s, a, b + 1) = Partial(t, 1)[n + 1]
    BY <2>2, <2>3 DEF NumberAt, Value, u, t
  <2>9. QED
    BY <2>5, <2>6, <2>7, <2>8, Zenon
<1>4. QED
  BY <1>2, <1>3

LEMMA LessIsMore ==
  ASSUME NEW x \in Nat, NEW b \in Nat, b >= 1, NEW d \in Nat
  PROVE  x * b + d \in Nat /\ x <= x * b + d
<1>1. 1 * x <= b * x
  BY TimesMonotone
<1>2. 1 * x = x /\ b * x = x * b
  OBVIOUS
<1>3. x * b \in Nat
  OBVIOUS
<1>4. QED
  BY <1>1, <1>2, <1>3

(* More digits never make the number smaller.                              *)
LEMMA NumberGrowsWithDigits ==
  ASSUME NEW s \in Seq(Int), NEW a \in Nat, NEW e \in a..Len(s),
         \A j \in a..(e - 1) : Char(s, j) \in Digit
  PROVE  \A b \in a..e : /\ NumberAt(s, a, b) \in Nat
                         /\ NumberAt(s, a, b) <= NumberAt(s, a, e)
<1>0. Len(s) \in Nat /\ e \in Nat /\ Base \in Nat /\ Base >= 2
  BY LenProperties, NumberAssumption
<1>1. ASSUME NEW b \in a..e, b # e, NumberAt(s, a, b) \in Nat
      PROVE  /\ NumberAt(s, a, b + 1) \in Nat
             /\ NumberAt(s, a, b) <= NumberAt(s, a, b + 1)
  <2>1. b \in a..(e - 1) /\ b < Len(s) /\ b \in a..Len(s)
    BY <1>0, <1>1
  <2>2. Char(s, b) \in Nat /\ Char(s, b) \in Int
    BY <2>1, <1>0 DEF Digit
  <2>3. NumberAt(s, a, b + 1) = NumberAt(s, a, b) * Base + 1 * Char(s, b)
    BY <2>1, <2>2, NumberGrows
  <2>4. 1 * Char(s, b) = Char(s, b)
    BY <2>2
  <2>5. Base >= 1
    BY <1>0
  <2> DEFINE x == NumberAt(s, a, b)
             d == Char(s, b)
  <2>6. x \in Nat /\ d \in Nat /\ NumberAt(s, a, b + 1) = x * Base + d
    BY <1>1, <2>2, <2>3, <2>4
  <2> HIDE DEF x, d
  <2>7. x * Base + d \in Nat /\ x <= x * Base + d
    BY <1>0, <2>5, <2>6, LessIsMore
  <2>8. QED
    BY <2>6, <2>7 DEF x
<1>2. \A b \in a..e : NumberAt(s, a, b) \in Nat
  <2> DEFINE Bad == {b \in a..e : NumberAt(s, a, b) \notin Nat}
  <2>1. SUFFICES ASSUME Bad # {} PROVE FALSE
    OBVIOUS
  <2>2. Bad \subseteq Nat
    BY <1>0
  <2>3. PICK b \in Bad : \A k \in Bad : b <= k
    <3> HIDE DEF Bad
    <3>1. QED
      BY <2>1, <2>2, LeastOf
  <2>4. a \in a..Len(s) /\ NumberAt(s, a, a) = 0
    BY <1>0, NumberGrows
  <2>5. b # a /\ b \in a..e
    BY <2>3, <2>4
  <2>6. b - 1 \in a..e /\ b - 1 # e /\ b - 1 + 1 = b /\ ~ (b <= b - 1)
    BY <1>0, <2>5
  <2>7. NumberAt(s, a, b - 1) \in Nat
    BY <2>3, <2>6
  <2>8. NumberAt(s, a, b) \in Nat
    BY <1>1, <2>6, <2>7
  <2>9. QED
    BY <2>8
<1>3. \A b \in a..e : NumberAt(s, a, b) <= NumberAt(s, a, e)
  <2> DEFINE Bad == {n \in 0..(e - a) : ~ (NumberAt(s, a, e - n) <= NumberAt(s, a, e))}
  <2>1. Bad = {}
    <3>1. SUFFICES ASSUME Bad # {} PROVE FALSE
      OBVIOUS
    <3>2. Bad \subseteq Nat
      BY <1>0
    <3>3. PICK n \in Bad : \A k \in Bad : n <= k
      <4> HIDE DEF Bad
      <4>1. QED
        BY <3>1, <3>2, LeastOf
    <3>4. n \in 0..(e - a) /\ n \in Int
      BY <1>0
    <3>5. NumberAt(s, a, e) \in Nat /\ NumberAt(s, a, e - n) \in Nat
      <4>1. e \in a..e /\ e - n \in a..e
        BY <1>0, <3>4
      <4>2. QED
        BY <1>2, <4>1
    <3>6. n # 0
      <4>1. n = 0 => e - n = e
        BY <1>0
      <4>2. QED
        BY <3>3, <3>5, <4>1
    <3>7. n - 1 \in 0..(e - a) /\ ~ (n <= n - 1)
      BY <1>0, <3>4, <3>6
    <3>8. NumberAt(s, a, e - (n - 1)) <= NumberAt(s, a, e)
      BY <3>3, <3>7
    <3>9. e - n \in a..e /\ e - n # e /\ e - n + 1 = e - (n - 1)
      BY <1>0, <3>4, <3>6
    <3>10. /\ NumberAt(s, a, e - (n - 1)) \in Nat
           /\ NumberAt(s, a, e - n) <= NumberAt(s, a, e - (n - 1))
      BY <1>1, <3>5, <3>9
    <3>11. NumberAt(s, a, e - n) <= NumberAt(s, a, e)
      BY <3>5, <3>8, <3>10
    <3>12. QED
      BY <3>3, <3>11
  <2>2. TAKE b \in a..e
  <2>3. e - b \in 0..(e - a) /\ e - (e - b) = b
    BY <1>0
  <2>4. QED
    BY <2>1, <2>3
<1>4. QED
  BY <1>2, <1>3

-----------------------------------------------------------------------------
(* The fused readers against the grammar of integers: what has been read   *)
(* is the sign and the digits up to the cursor, and exact their number.    *)
Standing ==
  LET s == SignOf(text)
  IN  /\ pc = "start" => pos = (IF negative THEN 1 ELSE 0) /\ (negative => s = 1)
      /\ pc = "digits" =>
           /\ s <= pos
           /\ s = 1 => negative
           /\ negative => s = 1
           /\ Char(text, s) \in Digit \ {0}
           /\ \A j \in s..(pos - 1) : Char(text, j) \in Digit
           /\ exact = NumberAt(text, s, pos)

(* A result r of the reader m on the text t, with value v and cursor p.    *)
Fits(m, t) ==
  /\ IsInteger(t)
  /\ m \in {"i64", "i128"} \/ SignOf(t) = 0
  /\ IntegerOf(t) \in Lowest(m)..Highest(m)

Judged(m, t, r, v, p) ==
  /\ r = "ok" => Fits(m, t) /\ v = IntegerOf(t) /\ p = IntegerEnd(t)
  /\ r # "ok" => ~ Fits(m, t)

Exact == Inv /\ Standing /\ (pc = "done" => Judged(method, text, ret, value, pos))

LEMMA SignIs ==
  ASSUME NEW s
  PROVE  SignOf(s) \in Nat /\ (SignOf(s) = 0 \/ SignOf(s) = 1)
BY DEF SignOf

LEMMA Minuses ==
  ASSUME NEW x \in Int
  PROVE  -x = 0 - x /\ -x \in Int
OBVIOUS

(* Where the digits begin.                                                 *)
LEMMA BehindTheSign ==
  ASSUME Inv, Standing, pc = "start", pos = 0 => Here # Minus
  PROVE  /\ pos = SignOf(text) /\ Here = Char(text, SignOf(text))
         /\ SignOf(text) = 1 <=> negative
<1>1. negative \in BOOLEAN
  BY DEF Inv, TypeOK
<1>2. CASE negative
  BY <1>2 DEF Standing, Here
<1>3. CASE ~ negative
  BY <1>3 DEF Standing, Here, SignOf
<1>4. QED
  BY <1>1, <1>2, <1>3

LEMMA ZeroIsRead ==
  ASSUME Inv, Standing, Zero
  PROVE  Judged(method, text, ret', value', pos')
<1> DEFINE s == SignOf(text)
           e == IntegerEnd(text)
<1>1. Here = 0 /\ pos = s /\ Here = Char(text, s) /\ (s = 1 <=> negative)
  BY BehindTheSign DEF Zero, Minus
<1>2. e = s + 1
  BY <1>1 DEF IntegerEnd
<1>3. text \in Seq(Int) /\ s \in Nat /\ Base \in Nat /\ 0 \in Digit
  BY SignIs, NumberAssumption DEF Inv, TypeOK, Digit
<1>4. s < Len(text) /\ s \in s..Len(text)
  <2>1. s < Len(text)
    BY <1>1, <1>3, LenProperties DEF Char, Eof
  <2>2. QED
    BY <1>3, <2>1, LenProperties
<1> HIDE DEF s, e
<1>5. NumberAt(text, s, s + 1) = 0
  <2>1. Char(text, s) \in Int
    BY <1>1
  <2>2. NumberAt(text, s, s + 1) = NumberAt(text, s, s) * Base + 1 * Char(text, s)
        /\ NumberAt(text, s, s) = 0
    BY <1>3, <1>4, <2>1, NumberGrows
  <2>3. QED
    BY <1>1, <1>3, <2>2
<1>6. IntegerOf(text) = 0
  <2>1. Magnitude(text) = 0
    BY <1>2, <1>5 DEF Magnitude, NumberAt, s, e
  <2>2. Magnitude(text) \in Int /\ 0 - Magnitude(text) = 0
    BY <2>1
  <2>3. - Magnitude(text) = 0
    BY <2>2, Minuses
  <2>4. QED
    BY <2>1, <2>3 DEF IntegerOf
<1>7. 0 \in Lowest(method)..Highest(method)
  BY Widths DEF Inv, Lowest, Highest
<1>8. CASE Float(pos + 1)
  <2>1. ~ IsInteger(text)
    BY <1>1, <1>2, <1>8 DEF Float, IsInteger, e
  <2>2. ret' # "ok"
    BY <1>8 DEF Zero, Fail, Done
  <2>3. QED
    BY <2>1, <2>2 DEF Judged, Fits
<1>9. CASE ~ Float(pos + 1)
  <2>1. IsInteger(text)
    BY <1>1, <1>2, <1>3, <1>9 DEF Float, IsInteger, e, s
  <2>2. s = 0 \/ method \in {"i64", "i128"}
    BY <1>1, SignIs DEF Inv, Reading, s
  <2>3. value' = 0 /\ pos' = e /\ ret' = "ok"
    BY <1>1, <1>2, <1>9 DEF Zero, Done
  <2>4. Fits(method, text)
    BY <1>6, <1>7, <2>1, <2>2 DEF Fits, s
  <2>5. QED
    BY <1>6, <2>3, <2>4 DEF Judged, e
<1>10. QED
  BY <1>8, <1>9

LEMMA NoDigitIsNone ==
  ASSUME Inv, Standing, NoDigit
  PROVE  Judged(method, text, ret', value', pos')
<1>1. Char(text, SignOf(text)) \notin Digit
  BY BehindTheSign DEF NoDigit
<1>2. ret' # "ok"
  BY DEF NoDigit, Fail, Done, Unexpected
<1>3. QED
  BY <1>1, <1>2 DEF Judged, Fits, IsInteger

LEMMA RefusedSignIsNone ==
  ASSUME RefuseSign, method \in {"u64", "u128"}
  PROVE  Judged(method, text, ret', value', pos')
<1>1. SignOf(text) = 1
  BY DEF RefuseSign, Here, SignOf
<1>2. ret' # "ok"
  BY DEF RefuseSign, Fail, Done
<1>3. QED
  BY <1>1, <1>2 DEF Judged, Fits

LEMMA FirstDigitStands ==
  ASSUME Inv, Standing, FirstDigit
  PROVE  Standing'
<1> DEFINE s == SignOf(text)
<1>1. text' = text /\ pos' = pos /\ exact' = exact /\ negative' = negative /\ pc' = "digits"
  BY DEF FirstDigit
<1>2. pos = s /\ Char(text, s) \in Digit \ {0} /\ (s = 1 <=> negative)
  <2>1. Here \in 0..(Base - 1)
    BY DEF FirstDigit, Digit
  <2>2. Here # Minus
    BY <2>1, NumberAssumption DEF Minus
  <2>3. QED
    BY <2>2, BehindTheSign DEF FirstDigit
<1>3. exact = NumberAt(text, s, s)
  <2>1. s \in s..Len(text) /\ s \in Nat /\ text \in Seq(Int)
    BY <1>2, LenProperties, SignIs DEF Inv, TypeOK
  <2>2. NumberAt(text, s, s) = 0
    BY <2>1, NumberGrows
  <2>3. QED
    BY <2>2 DEF FirstDigit, Inv, Reading
<1>4. s..(pos - 1) = {} /\ s <= pos
  BY <1>2, SignIs
<1> HIDE DEF s
<1>5. SignOf(text)' = s
  BY <1>1 DEF s
<1>6. QED
  BY <1>1, <1>2, <1>3, <1>4, <1>5 DEF Standing

(* What the digits behind the cursor are part of.                          *)
LEMMA DigitsSoFar ==
  ASSUME Inv, Standing, pc = "digits"
  PROVE  /\ text \in Seq(Int) /\ SignOf(text) \in Nat /\ Len(text) \in Nat
         /\ pos \in SignOf(text)..Len(text)
         /\ Char(text, SignOf(text)) \in Digit /\ Char(text, SignOf(text)) # 0
         /\ IntegerEnd(text) = DigitsEnd(text, SignOf(text))
         /\ \A j \in SignOf(text)..(pos - 1) : Char(text, j) \in Digit
         /\ exact = NumberAt(text, SignOf(text), pos)
         /\ SignOf(text) = 1 <=> negative
<1>1. text \in Seq(Int) /\ SignOf(text) \in Nat /\ pos \in 0..Len(text) /\ Len(text) \in Nat
  BY SignIs, LenProperties DEF Inv, TypeOK
<1>2. Char(text, SignOf(text)) \in Digit /\ Char(text, SignOf(text)) # 0
  BY DEF Standing
<1>3. SignOf(text) <= pos /\ exact = NumberAt(text, SignOf(text), pos)
      /\ (SignOf(text) = 1 <=> negative)
  BY DEF Standing
<1>4. \A j \in SignOf(text)..(pos - 1) : Char(text, j) \in Digit
  BY DEF Standing
<1>5. pos \in SignOf(text)..Len(text)
  BY <1>1, <1>3
<1>6. QED
  BY <1>1, <1>2, <1>3, <1>4, <1>5 DEF IntegerEnd

LEMMA FoldDigitStands ==
  ASSUME Inv, Standing, FoldDigit(MaxOf(method), FastOf(method)), pc' = "digits"
  PROVE  Standing'
<1> DEFINE s == SignOf(text)
<1>1. /\ text \in Seq(Int) /\ s \in Nat /\ Len(text) \in Nat /\ pos \in s..Len(text)
      /\ \A j \in s..(pos - 1) : Char(text, j) \in Digit
      /\ exact = NumberAt(text, s, pos)
  BY DigitsSoFar DEF FoldDigit
<1>2. Here \in 0..(Base - 1) /\ pos + 1 \in 0..Len(text) /\ Base \in Nat
  BY HereIsAnInt, NumberAssumption DEF FoldDigit, Inv
<1>3. /\ text' = text /\ negative' = negative /\ pos' = pos + 1
      /\ exact' = exact * Base + Here
  BY DEF FoldDigit, Fail, Done
<1>4. NumberAt(text, s, pos + 1) = exact * Base + Here
  <2>1. pos < Len(text) /\ Char(text, pos) \in Int
    BY <1>1, <1>2 DEF Here
  <2>2. NumberAt(text, s, pos + 1) = NumberAt(text, s, pos) * Base + 1 * Char(text, pos)
    BY <1>1, <2>1, NumberGrows
  <2>3. 1 * Char(text, pos) = Char(text, pos)
    BY <2>1
  <2>4. QED
    BY <1>1, <2>2, <2>3 DEF Here
<1>5. \A j \in s..(pos + 1 - 1) : Char(text, j) \in Digit
  <2> TAKE j \in s..(pos + 1 - 1)
  <2>1. j \in s..(pos - 1) \/ j = pos
    BY <1>1
  <2>2. QED
    BY <1>1, <2>1 DEF FoldDigit, Here
<1>6. s <= pos + 1
  BY <1>1
<1> HIDE DEF s
<1>7. SignOf(text)' = s
  BY <1>3 DEF s
<1>8. /\ s = 1 => negative
      /\ negative => s = 1
      /\ Char(text, s) \in Digit \ {0}
  BY DEF Standing, FoldDigit, s
<1>9. exact' = NumberAt(text, s, pos + 1)
  BY <1>3, <1>4
<1>10. /\ s <= pos'
       /\ s = 1 => negative'
       /\ negative' => s = 1
       /\ Char(text', s) \in Digit \ {0}
       /\ exact' = NumberAt(text', s, pos')
  BY <1>3, <1>6, <1>8, <1>9
<1>11. ASSUME NEW j \in s..(pos' - 1) PROVE Char(text', j) \in Digit
  <2>1. pos' = pos + 1 /\ text' = text /\ pos \in Int /\ s \in Int
    BY <1>1, <1>3 DEF s
  <2>2. j \in Int /\ s <= j /\ j <= pos
    BY <2>1
  <2>3. j \in s..(pos + 1 - 1)
    BY <2>1, <2>2
  <2>4. Char(text, j) \in Digit
    BY <1>5, <2>3
  <2>5. QED
    BY <2>1, <2>4
<1>12. QED
  BY <1>7, <1>10, <1>11 DEF Standing

(* A digit that does not fit any more belongs to a number out of range.    *)
LEMMA TooLargeIsNone ==
  ASSUME Inv, Standing, FoldDigit(MaxOf(method), FastOf(method)), pc' # "digits"
  PROVE  Judged(method, text, ret', value', pos')
<1> DEFINE s == SignOf(text)
           e == IntegerEnd(text)
           max == MaxOf(method)
           m == Magnitude(text)
<1>1. /\ text \in Seq(Int) /\ s \in Nat /\ Len(text) \in Nat /\ pos \in s..Len(text)
      /\ \A j \in s..(pos - 1) : Char(text, j) \in Digit
      /\ exact = NumberAt(text, s, pos)
      /\ e = DigitsEnd(text, s)
  BY DigitsSoFar DEF FoldDigit
<1>2. Here \in 0..(Base - 1) /\ pos + 1 \in 0..Len(text) /\ Base \in Nat
  BY HereIsAnInt, NumberAssumption DEF FoldDigit, Inv
<1>3. /\ acc * Base + Here > max
      /\ ret' # "ok"
  BY DEF FoldDigit, Fail, Done
<1>4. acc = exact /\ max \in Nat /\ max >= 1
  <2>1. acc = exact
    BY DEF Inv, AccumulatorIsExact
  <2>2. FastFits(max, FastOf(method))
    BY Widths DEF Inv
  <2>3. QED
    BY <2>1, <2>2 DEF FastFits
<1>5. NumberAt(text, s, pos + 1) > max
  <2>1. pos < Len(text) /\ Char(text, pos) \in Int
    BY <1>1, <1>2 DEF Here
  <2>2. NumberAt(text, s, pos + 1) = NumberAt(text, s, pos) * Base + 1 * Char(text, pos)
    BY <1>1, <2>1, NumberGrows
  <2>3. 1 * Char(text, pos) = Char(text, pos)
    BY <2>1
  <2>4. QED
    BY <1>1, <1>3, <1>4, <2>2, <2>3 DEF Here
<1>6. /\ e \in s..Len(text) /\ Char(text, e) \notin Digit
      /\ \A j \in s..(e - 1) : Char(text, j) \in Digit
  <2>1. s \in 0..Len(text)
    BY <1>1
  <2>2. QED
    BY <1>1, <2>1, DigitsEndIs
<1>7. pos + 1 \in s..e
  <2>1. Char(text, pos) \in Digit
    BY DEF FoldDigit, Here
  <2> HIDE DEF s, e
  <2>2. ~ (e <= pos)
    <3>1. e < pos => e \in s..(pos - 1)
      BY <1>1, <1>6
    <3>2. e # pos /\ ~ (e < pos)
      BY <1>1, <1>6, <2>1, <3>1
    <3>3. QED
      BY <1>1, <1>6, <3>2
  <2>3. QED
    BY <1>1, <1>6, <2>2
<1>8. m = NumberAt(text, s, e)
  BY DEF Magnitude, NumberAt
<1> HIDE DEF s, e, max, m
<1>9. m \in Nat /\ m > max
  <2>1. /\ NumberAt(text, s, pos + 1) <= NumberAt(text, s, e)
        /\ NumberAt(text, s, pos + 1) \in Nat /\ NumberAt(text, s, e) \in Nat
    <3>1. e \in s..e
      BY <1>1, <1>6
    <3>2. QED
      BY <1>1, <1>6, <1>7, <3>1, NumberGrowsWithDigits
  <2>2. QED
    BY <1>4, <1>5, <1>8, <2>1
<1>10. max \div 2 \in Nat /\ max \div 2 < max
  BY <1>4
<1>11. ~ (IntegerOf(text) \in Lowest(method)..Highest(method))
  <2>1. Lowest(method) >= - (max \div 2) - 1 /\ Highest(method) <= max
        /\ Lowest(method) \in Int /\ Highest(method) \in Int
    BY <1>4, <1>10 DEF Lowest, Highest, max
  <2>2. IntegerOf(text) = - m \/ IntegerOf(text) = m
    BY DEF IntegerOf, m
  <2>3. - m < - (max \div 2) - 1
    BY <1>4, <1>9, <1>10
  <2>4. QED
    BY <1>4, <1>9, <1>10, <2>1, <2>2, <2>3
<1>12. QED
  BY <1>3, <1>11 DEF Judged, Fits

(* The digits end at the cursor.                                           *)
LEMMA AllDigitsRead ==
  ASSUME Inv, Standing, pc = "digits", Here \notin Digit
  PROVE  /\ IntegerEnd(text) = pos /\ Magnitude(text) = acc /\ acc \in Nat
         /\ IsInteger(text) <=> ~ Float(pos)
         /\ IntegerOf(text) = IF negative THEN -acc ELSE acc
         /\ SignOf(text) = 0 \/ method \in {"i64", "i128"}
<1> DEFINE s == SignOf(text)
<1>1. /\ text \in Seq(Int) /\ s \in Nat /\ Len(text) \in Nat /\ pos \in s..Len(text)
      /\ Char(text, s) \in Digit
      /\ \A j \in s..(pos - 1) : Char(text, j) \in Digit
      /\ exact = NumberAt(text, s, pos)
      /\ IntegerEnd(text) = DigitsEnd(text, s)
      /\ s = 1 <=> negative
  BY DigitsSoFar
<1>2. IntegerEnd(text) = pos
  BY <1>1, DigitsEndHere DEF Here
<1>3. Magnitude(text) = acc /\ acc \in Nat
  BY <1>1, <1>2 DEF Magnitude, NumberAt, Inv, AccumulatorIsExact, TypeOK
<1>4. IsInteger(text) <=> ~ Float(pos)
  BY <1>1, <1>2 DEF IsInteger, Float
<1>5. s = 0 \/ method \in {"i64", "i128"}
  BY <1>1, SignIs DEF Inv, Reading
<1>6. IntegerOf(text) = IF negative THEN -acc ELSE acc
  BY <1>1, <1>3 DEF IntegerOf
<1>7. QED
  BY <1>2, <1>3, <1>4, <1>5, <1>6

LEMMA FinishUnsignedJudges ==
  ASSUME Inv, Standing, FinishUnsigned, method \in {"u64", "u128"}
  PROVE  Judged(method, text, ret', value', pos')
<1>1. /\ IntegerEnd(text) = pos /\ acc \in Nat
      /\ IsInteger(text) <=> ~ Float(pos)
      /\ IntegerOf(text) = IF negative THEN -acc ELSE acc
      /\ SignOf(text) = 0
  BY AllDigitsRead DEF FinishUnsigned
<1>2. ~ negative
  BY DEF Inv, Reading
<1>3. acc \in Lowest(method)..Highest(method)
  BY <1>1, Widths DEF Inv, AccumulatorIsExact, Lowest, Highest
<1>4. CASE Float(pos)
  BY <1>1, <1>4 DEF FinishUnsigned, Fail, Done, Judged, Fits
<1>5. CASE ~ Float(pos)
  BY <1>1, <1>2, <1>3, <1>5 DEF FinishUnsigned, Done, Judged, Fits
<1>6. QED
  BY <1>4, <1>5

LEMMA FinishSignedJudges ==
  ASSUME Inv, Standing, FinishSigned(MaxOf(method)), method \in {"i64", "i128"}
  PROVE  Judged(method, text, ret', value', pos')
<1> DEFINE half == MaxOf(method) \div 2
           v == IF negative THEN -acc ELSE acc
           small == acc <= (IF negative THEN half + 1 ELSE half)
<1>1. /\ IntegerEnd(text) = pos /\ acc \in Nat
      /\ IsInteger(text) <=> ~ Float(pos)
      /\ IntegerOf(text) = v
  BY AllDigitsRead DEF FinishSigned
<1>2. half \in Nat
  BY Widths DEF Inv
<1>3. pos' = pos
  BY DEF FinishSigned
<1>4. Lowest(method) = -half - 1 /\ Highest(method) = half
  BY DEF Lowest, Highest
<1>5. v \in Lowest(method)..Highest(method) <=> small
  <2> HIDE DEF half
  <2>1. CASE negative
    BY <1>1, <1>2, <1>4, <2>1
  <2>2. CASE ~ negative
    BY <1>1, <1>2, <1>4, <2>2
  <2>3. QED
    BY <2>1, <2>2
<1>6. CASE Float(pos)
  BY <1>1, <1>6 DEF FinishSigned, Fail, Done, Judged, Fits
<1>7. CASE ~ Float(pos)
  <2>1. IF small THEN ret' = "ok" /\ value' = v ELSE ret' # "ok"
    BY <1>7 DEF FinishSigned, FromMagnitude, Fail, Done
  <2> HIDE DEF half, v, small
  <2>2. Fits(method, text) <=> small
    BY <1>1, <1>5, <1>7 DEF Fits
  <2>3. QED
    BY <1>1, <1>3, <2>1, <2>2 DEF Judged
<1>8. QED
  BY <1>6, <1>7

(* The methods' steps by what they do to the reading.                      *)
LEMMA StartStands ==
  ASSUME Inv, Standing, Start
  PROVE  IF pc' = "done" THEN Judged(method, text, ret', value', pos') ELSE Standing'
<1>1. CASE Zero
  BY <1>1, ZeroIsRead DEF Zero, Fail, Done
<1>2. CASE FirstDigit
  BY <1>2, FirstDigitStands DEF FirstDigit
<1>3. CASE NoDigit
  BY <1>3, NoDigitIsNone DEF NoDigit, Fail, Done
<1>4. QED
  BY <1>1, <1>2, <1>3 DEF Start

LEMMA TakeSignStands ==
  ASSUME TakeSign
  PROVE  Standing' /\ pc' = "start"
<1>1. SignOf(text)' = 1 /\ negative' = TRUE /\ pos' = 1 /\ pc' = "start"
  BY DEF TakeSign, SignOf, Here
<1>2. QED
  BY <1>1 DEF Standing

LEMMA FoldStands ==
  ASSUME Inv, Standing, FoldDigit(MaxOf(method), FastOf(method))
  PROVE  IF pc' = "done" THEN Judged(method, text, ret', value', pos') ELSE Standing'
<1>1. pc' = "digits" \/ pc' = "done"
  BY DEF FoldDigit, Fail, Done
<1>2. CASE pc' = "digits"
  BY <1>2, FoldDigitStands
<1>3. CASE pc' = "done"
  BY <1>3, TooLargeIsNone
<1>4. QED
  BY <1>1, <1>2, <1>3

LEMMA InitExact == Init => Exact
<1> SUFFICES ASSUME Init PROVE Exact
  OBVIOUS
<1>1. Standing /\ pc # "done"
  BY DEF Init, Standing
<1>2. QED
  BY InitInv, <1>1 DEF Exact

LEMMA NextExact == Exact /\ [Next]_vars => Exact'
<1> SUFFICES ASSUME Exact, [Next]_vars PROVE Exact'
  OBVIOUS
<1> DEFINE Good == IF pc' = "done" THEN Judged(method, text, ret', value', pos') ELSE Standing'
<1>1. Inv /\ Standing /\ Inv'
  BY NextInv DEF Exact
<1>2. ASSUME text' = text, method' = method, Good PROVE Exact'
  <2>1. pc' = "done" => Standing'
    BY DEF Standing
  <2>2. Standing'
    BY <1>2, <2>1
  <2>3. pc' = "done" => Judged(method', text', ret', value', pos')
    BY <1>2
  <2>4. QED
    BY <1>1, <2>2, <2>3 DEF Exact
<1>3. CASE ParseI64Value
  <2>1. method = "i64" /\ MaxOf(method) = Max64 /\ FastOf(method) = Fast64
    BY <1>3 DEF ParseI64Value, MaxOf, FastOf
  <2>2. CASE TakeSign
    BY <1>2, <2>2, TakeSignStands DEF TakeSign
  <2>3. CASE Start
    BY <1>1, <1>2, <2>3, StartStands DEF Start, Zero, FirstDigit, NoDigit
  <2>4. CASE FoldDigit(Max64, Fast64)
    BY <1>1, <1>2, <2>1, <2>4, FoldStands DEF FoldDigit
  <2>5. CASE FinishSigned(Max64)
    BY <1>1, <1>2, <2>1, <2>5, FinishSignedJudges DEF FinishSigned, FromMagnitude, Fail, Done
  <2>6. QED
    BY <1>3, <2>2, <2>3, <2>4, <2>5 DEF ParseI64Value
<1>4. CASE ParseU64Value
  <2>1. method = "u64" /\ MaxOf(method) = Max64 /\ FastOf(method) = Fast64
    BY <1>4 DEF ParseU64Value, MaxOf, FastOf
  <2>2. CASE RefuseSign
    BY <1>2, <2>1, <2>2, RefusedSignIsNone DEF RefuseSign, Fail, Done
  <2>3. CASE Start
    BY <1>1, <1>2, <2>3, StartStands DEF Start, Zero, FirstDigit, NoDigit
  <2>4. CASE FoldDigit(Max64, Fast64)
    BY <1>1, <1>2, <2>1, <2>4, FoldStands DEF FoldDigit
  <2>5. CASE FinishUnsigned
    BY <1>1, <1>2, <2>1, <2>5, FinishUnsignedJudges DEF FinishUnsigned, Fail, Done
  <2>6. QED
    BY <1>4, <2>2, <2>3, <2>4, <2>5 DEF ParseU64Value
<1>5. CASE ParseI128Value
  <2>1. method = "i128" /\ MaxOf(method) = Max128 /\ FastOf(method) = Fast128
    BY <1>5 DEF ParseI128Value, MaxOf, FastOf
  <2>2. CASE TakeSign
    BY <1>2, <2>2, TakeSignStands DEF TakeSign
  <2>3. CASE Start
    BY <1>1, <1>2, <2>3, StartStands DEF Start, Zero, FirstDigit, NoDigit
  <2>4. CASE FoldDigit(Max128, Fast128)
    BY <1>1, <1>2, <2>1, <2>4, FoldStands DEF FoldDigit
  <2>5. CASE FinishSigned(Max128)
    BY <1>1, <1>2, <2>1, <2>5, FinishSignedJudges DEF FinishSigned, FromMagnitude, Fail, Done
  <2>6. QED
    BY <1>5, <2>2, <2>3, <2>4, <2>5 DEF ParseI128Value
<1>6. CASE ParseU128Value
  <2>1. method = "u128" /\ MaxOf(method) = Max128 /\ FastOf(method) = Fast128
    BY <1>6 DEF ParseU128Value, MaxOf, FastOf
  <2>2. CASE RefuseSign
    BY <1>2, <2>1, <2>2, RefusedSignIsNone DEF RefuseSign, Fail, Done
  <2>3. CASE Start
    BY <1>1, <1>2, <2>3, StartStands DEF Start, Zero, FirstDigit, NoDigit
  <2>4. CASE FoldDigit(Max128, Fast128)
    BY <1>1, <1>2, <2>1, <2>4, FoldStands DEF FoldDigit
  <2>5. CASE FinishUnsigned
    BY <1>1, <1>2, <2>1, <2>5, FinishUnsignedJudges DEF FinishUnsigned, Fail, Done
  <2>6. QED
    BY <1>6, <2>2, <2>3, <2>4, <2>5 DEF ParseU128Value
<1>7. CASE UNCHANGED vars
  <2>1. Standing'
    BY <1>1, <1>7 DEF vars, Standing
  <2>2. pc' = "done" => Judged(method', text', ret', value', pos')
    BY <1>7 DEF vars, Exact
  <2>3. QED
    BY <1>1, <2>1, <2>2 DEF Exact
<1>8. QED
  BY <1>3, <1>4, <1>5, <1>6, <1>7 DEF Next

(* A fused reader accepts exactly the integer literals whose value its     *)
(* type holds, for every text, base, word size and number of fast digits:  *)
(* what it refuses for overflow half way down the digits is out of range   *)
(* whatever digits follow (lexer.rs:527-836).                              *)
THEOREM IntegersAreReadExactly == Spec => []ReadsExactlyTheIntegers
<1>1. Exact => ReadsExactlyTheIntegers
  BY DEF Exact, Judged, Fits, ReadsExactlyTheIntegers
<1>2. QED
  BY InitExact, NextExact, <1>1, PTL DEF Spec

-----------------------------------------------------------------------------
(* Decoding a literal that read_number has walked: as_u64 and as_i64.      *)

LEMMA WrappedInside ==
  ASSUME NEW lo \in Int, NEW hi \in Int, NEW x \in lo..hi
  PROVE  Wrapped(x, lo, hi) = x
<1>1. x - lo \in Nat /\ hi - lo + 1 \in Nat /\ x - lo < hi - lo + 1
  OBVIOUS
<1>2. (x - lo) % (hi - lo + 1) = x - lo
  BY <1>1, ModSmall
<1>3. x - lo + lo = x
  OBVIOUS
<1>4. QED
  BY <1>2, <1>3 DEF Wrapped

LEMMA NegativeFold ==
  ASSUME NEW x \in Int, NEW b \in Int, NEW d \in Int
  PROVE  (- x) * b + (-1) * d = - (x * b + 1 * d)
OBVIOUS

(* The number of digits does not decrease along them, and folding them     *)
(* downwards is the same with the other sign.                              *)
LEMMA PartialOfDigits ==
  ASSUME NEW d \in Seq(Int), IsDigits(d)
  PROVE  \A n \in 0..Len(d) : /\ Partial(d, 1)[n] \in Nat
                              /\ Partial(d, 1)[n] <= Value(d)
                              /\ Partial(d, -1)[n] = - Partial(d, 1)[n]
<1>0. Len(d) \in Nat /\ Base \in Nat
  BY LenProperties, NumberAssumption
<1>1. \A n \in 1..Len(d) : d[n] \in Digit /\ d[n] \in Int
  BY <1>0 DEF IsDigits, Digit
<1>2. \A n \in 0..Len(d) : NumberAt(d, 0, n) = Partial(d, 1)[n]
  <2> TAKE n \in 0..Len(d)
  <2> DEFINE u == SubSeq(d, 1, n)
  <2>1. Len(u) = n /\ \A k \in 1..n : u[k] = d[k]
    <3>1. 1 \in 1..(n + 1) /\ n \in 0..Len(d)
      BY <1>0
    <3>2. Len(u) = (IF 1 <= n THEN n - 1 + 1 ELSE 0)
          /\ \A k \in 1..Len(u) : u[k] = d[1 + k - 1]
      BY <1>0, <3>1, SubSeqProperties
    <3> HIDE DEF u
    <3>3. Len(u) = n
      BY <1>0, <3>2
    <3>4. \A k \in 1..n : 1 + k - 1 = k
      BY <1>0
    <3>5. QED
      BY <3>2, <3>3, <3>4
  <2> HIDE DEF u
  <2>2. Len(u) \in Nat /\ Len(u) <= Len(d) /\ n \in 0..Len(u)
    BY <1>0, <2>1
  <2>3. Partial(u, 1)[n] = Partial(d, 1)[n]
    BY <1>0, <2>1, <2>2, PartialOfBeginning
  <2>4. NumberAt(d, 0, n) = Partial(u, 1)[Len(u)]
    BY DEF NumberAt, Value, u
  <2>5. QED
    BY <2>1, <2>3, <2>4
<1>3. \A n \in 0..Len(d) : /\ NumberAt(d, 0, n) \in Nat
                           /\ NumberAt(d, 0, n) <= NumberAt(d, 0, Len(d))
  <2>1. 0 \in Nat /\ Len(d) \in 0..Len(d)
    BY <1>0
  <2>2. \A j \in 0..(Len(d) - 1) : Char(d, j) \in Digit
    <3> TAKE j \in 0..(Len(d) - 1)
    <3>1. j + 1 \in 1..Len(d) /\ j < Len(d)
      BY <1>0
    <3>2. QED
      BY <1>1, <3>1 DEF Char
  <2>3. QED
    BY <2>1, <2>2, NumberGrowsWithDigits
<1>4. Len(d) \in 0..Len(d) /\ Value(d) = Partial(d, 1)[Len(d)]
  BY <1>0 DEF Value
<1> DEFINE up == Partial(d, 1)
           down == Partial(d, -1)
           Apart == {n \in 0..Len(d) : down[n] # - up[n]}
<1>5. \A n \in 0..Len(d) : up[n] \in Nat /\ up[n] <= Value(d)
  BY <1>2, <1>3, <1>4
<1>6. /\ up[0] = 0 /\ down[0] = 0
      /\ \A n \in 1..Len(d) : up[n] = up[n - 1] * Base + 1 * d[n]
      /\ \A n \in 1..Len(d) : down[n] = down[n - 1] * Base + (-1) * d[n]
  BY <1>0, PartialStepwise
<1> HIDE DEF up, down
<1>7. Apart = {}
  <2>1. SUFFICES ASSUME Apart # {} PROVE FALSE
    OBVIOUS
  <2>2. Apart \subseteq Nat
    OBVIOUS
  <2>3. PICK n \in Apart : \A k \in Apart : n <= k
    <3> HIDE DEF Apart
    <3>1. QED
      BY <2>1, <2>2, LeastOf
  <2>4. n \in 0..Len(d) /\ down[n] # - up[n]
    OBVIOUS
  <2>5. n # 0
    <3>1. - 0 = 0
      <4>1. 0 \in Int /\ 0 - 0 = 0
        OBVIOUS
      <4>2. QED
        BY <4>1, Minuses
    <3>2. QED
      BY <1>6, <2>4, <3>1
  <2>6. n \in 1..Len(d) /\ n - 1 \in 0..Len(d) /\ ~ (n <= n - 1)
    BY <1>0, <2>4, <2>5
  <2>7. down[n - 1] = - up[n - 1]
    BY <2>3, <2>6
  <2>8. up[n - 1] \in Int /\ d[n] \in Int /\ Base \in Int
    BY <1>0, <1>1, <1>5, <2>6
  <2>9. down[n] = (- up[n - 1]) * Base + (-1) * d[n]
    BY <1>6, <2>6, <2>7
  <2>10. up[n] = up[n - 1] * Base + 1 * d[n]
    BY <1>6, <2>6
  <2>11. (- up[n - 1]) * Base + (-1) * d[n] = - (up[n - 1] * Base + 1 * d[n])
    BY <2>8, NegativeFold
  <2>12. down[n] = - up[n]
    BY <2>9, <2>10, <2>11, Zenon
  <2>13. QED
    BY <2>4, <2>12
<1>8. QED
  BY <1>5, <1>7 DEF up, down

(* Few enough digits fit the word.                                         *)
LEMMA FewDigitsFit ==
  ASSUME NEW d \in Seq(Int), IsDigits(d), NEW max, NEW fast, FastFits(max, fast),
         Len(d) <= fast
  PROVE  Value(d) <= max
<1>0. Len(d) \in Nat /\ Base \in Nat /\ fast \in Nat /\ max \in Nat
  BY LenProperties, NumberAssumption DEF FastFits
<1>1. \A n \in 0..Len(d) : Partial(d, 1)[n] \in Nat
  BY PartialOfDigits
<1> DEFINE up == Partial(d, 1)
           Large == {n \in 0..Len(d) : ~ (up[n] <= Power[n] - 1)}
<1>2. /\ up[0] = 0
      /\ \A n \in 1..Len(d) : up[n] = up[n - 1] * Base + 1 * d[n]
  BY <1>0, PartialStepwise
<1>3. \A n \in 0..Len(d) : Power[n] \in Nat /\ Power[n] <= max + 1
  <2> TAKE n \in 0..Len(d)
  <2>1. n \in 0..fast
    BY <1>0
  <2>2. QED
    BY <2>1 DEF FastFits
<1>4. \A n \in 1..Len(d) : Power[n] = Power[n - 1] * Base
  <2> TAKE n \in 1..Len(d)
  <2>1. n - 1 \in 0..(fast - 1) /\ n - 1 + 1 = n
    BY <1>0
  <2>2. Power[n - 1 + 1] = Power[n - 1] * Base
    BY <2>1 DEF FastFits
  <2>3. QED
    BY <2>1, <2>2
<1>5. Power[0] = 1
  BY DEF FastFits
<1> HIDE DEF up
<1>6. Large = {}
  <2>1. SUFFICES ASSUME Large # {} PROVE FALSE
    OBVIOUS
  <2>2. Large \subseteq Nat
    OBVIOUS
  <2>3. PICK n \in Large : \A k \in Large : n <= k
    <3> HIDE DEF Large
    <3>1. QED
      BY <2>1, <2>2, LeastOf
  <2>4. n \in 0..Len(d) /\ ~ (up[n] <= Power[n] - 1)
    OBVIOUS
  <2>5. n # 0
    BY <1>2, <1>5, <2>4
  <2>6. n \in 1..Len(d) /\ n - 1 \in 0..Len(d) /\ ~ (n <= n - 1)
    BY <1>0, <2>4, <2>5
  <2>7. up[n - 1] <= Power[n - 1] - 1
    BY <2>3, <2>6
  <2>8. up[n - 1] \in Nat /\ Power[n - 1] \in Nat
    BY <1>1, <1>3, <2>6 DEF up
  <2>9. d[n] \in 0..(Base - 1) /\ 1 * d[n] = d[n]
    <3>1. d[n] \in 0..(Base - 1)
      BY <1>0, <2>6 DEF IsDigits, Digit
    <3>2. QED
      BY <1>0, <3>1
  <2>10. up[n - 1] * Base + d[n] <= Power[n - 1] * Base - 1
    BY <1>0, <2>7, <2>8, <2>9, NextPower
  <2>11. up[n] = up[n - 1] * Base + d[n] /\ Power[n] = Power[n - 1] * Base
    BY <1>2, <1>4, <2>6, <2>9
  <2>12. up[n] <= Power[n] - 1
    BY <2>10, <2>11, Zenon
  <2>13. QED
    BY <2>4, <2>12
<1>7. Len(d) \in 0..Len(d)
  BY <1>0
<1>8. up[Len(d)] <= Power[Len(d)] - 1
  BY <1>6, <1>7
<1>9. Value(d) = up[Len(d)] /\ Value(d) \in Nat
  BY <1>1, <1>7 DEF Value, up
<1>10. QED
  BY <1>0, <1>3, <1>7, <1>8, <1>9

LEMMA FoldUp ==
  ASSUME NEW d \in Seq(Int), IsDigits(d), NEW fast \in Nat, NEW lo \in Int, NEW hi \in Nat,
         lo <= 0, Len(d) <= fast => Value(d) <= hi
  PROVE  Fold(d, 1, fast, lo, hi) = IF Value(d) <= hi THEN Some(Value(d)) ELSE None
<1> DEFINE v == Partial(d, 1)
           fits == Len(d) <= fast \/ \A k \in DOMAIN v : v[k] \in lo..hi
<1>0. Len(d) \in Nat /\ Len(d) \in 0..Len(d)
  BY LenProperties
<1>1. DOMAIN v = 0..Len(d)
  BY <1>0, PartialStepwise
<1>2. \A n \in 0..Len(d) : v[n] \in Nat /\ v[n] <= Value(d)
  BY PartialOfDigits
<1>3. v[Len(d)] = Value(d)
  BY DEF Value
<1>4. Fold(d, 1, fast, lo, hi) = IF fits THEN Some(Wrapped(Value(d), lo, hi)) ELSE None
  BY <1>3, Zenon DEF Fold
<1> HIDE DEF v
<1>5. Value(d) \in Nat
  BY <1>0, <1>2, <1>3
<1>6. CASE Value(d) <= hi
  <2>1. \A k \in DOMAIN v : v[k] \in lo..hi
    BY <1>1, <1>2, <1>5, <1>6
  <2>2. Value(d) \in lo..hi
    BY <1>5, <1>6
  <2>3. Wrapped(Value(d), lo, hi) = Value(d)
    BY <2>2, WrappedInside
  <2>4. QED
    BY <1>4, <1>6, <2>1, <2>3
<1>7. CASE ~ (Value(d) <= hi)
  <2>1. ~ (v[Len(d)] \in lo..hi)
    BY <1>3, <1>5, <1>7
  <2>2. ~ fits
    BY <1>0, <1>1, <1>7, <2>1
  <2>3. QED
    BY <1>4, <1>7, <2>2
<1>8. QED
  BY <1>6, <1>7

LEMMA FoldDown ==
  ASSUME NEW d \in Seq(Int), IsDigits(d), NEW fast \in Nat, NEW lo \in Int, NEW hi \in Nat,
         lo <= 0, Len(d) > fast
  PROVE  Fold(d, -1, fast, lo, hi) = IF - Value(d) >= lo THEN Some(- Value(d)) ELSE None
<1> DEFINE v == Partial(d, -1)
           fits == Len(d) <= fast \/ \A k \in DOMAIN v : v[k] \in lo..hi
<1>0. Len(d) \in Nat /\ Len(d) \in 0..Len(d)
  BY LenProperties
<1>1. DOMAIN v = 0..Len(d)
  BY <1>0, PartialStepwise
<1>2. \A n \in 0..Len(d) : /\ Partial(d, 1)[n] \in Nat /\ Partial(d, 1)[n] <= Value(d)
                           /\ v[n] = - Partial(d, 1)[n]
  BY PartialOfDigits
<1>3. v[Len(d)] = - Value(d) /\ Value(d) \in Nat
  BY <1>0, <1>2 DEF Value
<1>4. Fold(d, -1, fast, lo, hi) = IF fits THEN Some(Wrapped(- Value(d), lo, hi)) ELSE None
  BY <1>3, Zenon DEF Fold
<1> HIDE DEF v
<1>6. CASE - Value(d) >= lo
  <2>1. \A k \in DOMAIN v : v[k] \in lo..hi
    <3> TAKE k \in DOMAIN v
    <3>1. k \in 0..Len(d)
      BY <1>1
    <3>2. Partial(d, 1)[k] \in Nat /\ Partial(d, 1)[k] <= Value(d) /\ v[k] = - Partial(d, 1)[k]
      BY <1>2, <3>1
    <3>3. QED
      BY <1>3, <1>6, <3>2
  <2>2. - Value(d) \in lo..hi
    BY <1>3, <1>6
  <2>3. Wrapped(- Value(d), lo, hi) = - Value(d)
    BY <2>2, WrappedInside
  <2>4. QED
    BY <1>4, <1>6, <2>1, <2>3
<1>7. CASE ~ (- Value(d) >= lo)
  <2>1. ~ (v[Len(d)] \in lo..hi)
    BY <1>3, <1>7
  <2>2. ~ fits
    BY <1>0, <1>1, <2>1
  <2>3. QED
    BY <1>4, <1>7, <2>2
<1>8. QED
  BY <1>6, <1>7

LEMMA NoFold ==
  ASSUME NEW d, ~ IsDigits(d), NEW sign, NEW fast, NEW lo, NEW hi
  PROVE  Fold(d, sign, fast, lo, hi) = None
BY Zenon DEF Fold

LEMMA SomeIs ==
  ASSUME NEW x
  PROVE  Some(x).some /\ Some(x).value = x /\ ~ None.some
BY DEF Some, None

LEMMA UnsignedDecodes ==
  ASSUME NEW s \in Seq(Int)
  PROVE  ParseU64(s, LiteralU64) =
           IF IsDigits(s) /\ Value(s) \in 0..Max64 THEN Some(Value(s)) ELSE None
<1>1. FastFits(Max64, LiteralU64) /\ Max64 \in Nat /\ LiteralU64 \in Nat
  BY NumberAssumption DEF FastFits
<1>2. CASE IsDigits(s)
  <2>1. Len(s) <= LiteralU64 => Value(s) <= Max64
    BY <1>1, <1>2, FewDigitsFit
  <2>2. Fold(s, 1, LiteralU64, 0, Max64) =
          IF Value(s) <= Max64 THEN Some(Value(s)) ELSE None
    BY <1>1, <1>2, <2>1, FoldUp
  <2>3. Value(s) \in Nat
    <3>1. Len(s) \in 0..Len(s)
      BY LenProperties
    <3>2. QED
      BY <1>2, <3>1, PartialOfDigits DEF Value
  <2>4. Value(s) \in 0..Max64 <=> Value(s) <= Max64
    BY <1>1, <2>3
  <2>5. QED
    BY <1>2, <2>2, <2>4 DEF ParseU64
<1>3. CASE ~ IsDigits(s)
  BY <1>3, NoFold DEF ParseU64
<1>4. QED
  BY <1>2, <1>3

LEMMA SignedDecodes ==
  ASSUME NEW s \in Seq(Int), NEW d \in Seq(Int), NEW minus \in BOOLEAN,
         minus <=> (s # << >> /\ s[1] = Minus),
         d = IF minus THEN Tail(s) ELSE s
  PROVE  LET x == IF minus THEN - Value(d) ELSE Value(d)
             half == Max64 \div 2
         IN  ParseI64(s, LiteralI64) =
               IF IsDigits(d) /\ x \in (- half - 1)..half THEN Some(x) ELSE None
<1> DEFINE half == Max64 \div 2
           fast == LiteralI64
           lo == - half - 1
           up == Fold(d, 1, fast, lo, half)
           down == Fold(d, -1, fast, lo, half)
           x == IF minus THEN - Value(d) ELSE Value(d)
<1>1. ParseI64(s, fast) =
        IF ~ minus THEN up
        ELSE IF Len(d) <= fast /\ up.some THEN Some(- up.value) ELSE down
  BY Zenon DEF ParseI64
<1>2. FastFits(half, fast) /\ half \in Nat /\ fast \in Nat /\ Len(d) \in Nat
  BY NumberAssumption, LenProperties DEF FastFits
<1> SUFFICES ParseI64(s, fast) = IF IsDigits(d) /\ x \in lo..half THEN Some(x) ELSE None
  OBVIOUS
<1> HIDE DEF half, fast, up, down
<1>3. CASE ~ IsDigits(d)
  <2>1. up = None /\ down = None
    BY <1>3, NoFold DEF up, down
  <2>2. QED
    BY <1>1, <1>3, <2>1, SomeIs
<1>4. CASE IsDigits(d)
  <2>1. Len(d) <= fast => Value(d) <= half
    BY <1>2, <1>4, FewDigitsFit
  <2>2. lo \in Int /\ lo <= 0
    BY <1>2
  <2>3. Value(d) \in Nat
    <3>1. Len(d) \in 0..Len(d)
      BY <1>2
    <3>2. QED
      BY <1>4, <3>1, PartialOfDigits DEF Value
  <2>4. up = IF Value(d) <= half THEN Some(Value(d)) ELSE None
    BY <1>2, <1>4, <2>1, <2>2, FoldUp DEF up
  <2>5. Len(d) > fast => down = IF - Value(d) >= lo THEN Some(- Value(d)) ELSE None
    BY <1>2, <1>4, <2>2, FoldDown DEF down
  <2>6. CASE ~ minus
    <3>1. x = Value(d) /\ (x \in lo..half <=> Value(d) <= half)
      BY <1>2, <2>2, <2>3, <2>6
    <3>2. QED
      BY <1>1, <1>4, <2>4, <2>6, <3>1
  <2>7. CASE minus /\ Len(d) <= fast
    <3>1. up = Some(Value(d))
      BY <2>1, <2>4, <2>7
    <3>2. ParseI64(s, fast) = Some(- Value(d))
      BY <1>1, <2>7, <3>1, SomeIs
    <3>3. - Value(d) \in lo..half
      BY <1>2, <2>1, <2>3, <2>7
    <3>4. QED
      BY <1>4, <2>7, <3>2, <3>3
  <2>8. CASE minus /\ ~ (Len(d) <= fast)
    <3>1. Len(d) > fast
      BY <1>2, <2>8
    <3>2. - Value(d) \in lo..half <=> - Value(d) >= lo
      BY <1>2, <2>3
    <3>3. ParseI64(s, fast) = down
      BY <1>1, <2>8
    <3>4. QED
      BY <1>4, <2>5, <2>8, <3>1, <3>2, <3>3
  <2>9. QED
    BY <2>6, <2>7, <2>8
<1>5. QED
  BY <1>3, <1>4

(* Where read_number goes once it has seen a digit.                        *)
LEMMA WalkToEnd ==
  ASSUME NEW t \in Seq(Int), Char(t, SignOf(t)) \in Digit
  PROVE  /\ IntegerEnd(t) \in (SignOf(t) + 1)..Len(t)
         /\ \A j \in SignOf(t)..(IntegerEnd(t) - 1) : Char(t, j) \in Digit
         /\ ReadNumber(t) = FractionFrom(t, IntegerEnd(t))
<1> DEFINE k == SignOf(t)
           e == IntegerEnd(t)
           c == Char(t, k)
<1>1. Len(t) \in Nat /\ k \in Nat
  BY LenProperties, SignIs
<1>2. k < Len(t)
  BY <1>1, NumberAssumption DEF Char, Eof, Digit
<1>3. ReadNumber(t) = CASE c = 0             -> FractionFrom(t, k + 1)
                        [] c \in Digit \ {0} -> FractionFrom(t, DigitsEnd(t, k))
                        [] OTHER             -> Refused(Unexpected(c), k)
  BY Zenon DEF ReadNumber, SignOf
<1>4. e = IF c = 0 THEN k + 1 ELSE DigitsEnd(t, k)
  BY DEF IntegerEnd
<1>5. c \in Digit
  OBVIOUS
<1> HIDE DEF k, e
<1>6. ReadNumber(t) = FractionFrom(t, e)
  <2>1. CASE c = 0
    BY <1>3, <1>4, <2>1
  <2>2. CASE c # 0
    BY <1>3, <1>4, <1>5, <2>2
  <2>3. QED
    BY <2>1, <2>2
<1>7. /\ e \in (k + 1)..Len(t)
      /\ \A j \in k..(e - 1) : Char(t, j) \in Digit
  <2>1. CASE c = 0
    <3>1. e = k + 1
      BY <1>4, <2>1
    <3>2. \A j \in k..(e - 1) : j = k
      BY <1>1, <3>1
    <3>3. QED
      BY <1>1, <1>2, <1>5, <3>1, <3>2
  <2>2. CASE c # 0
    <3>1. e = DigitsEnd(t, k) /\ k \in 0..Len(t)
      BY <1>1, <1>2, <1>4, <2>2
    <3>2. /\ e \in k..Len(t) /\ Char(t, e) \notin Digit
          /\ \A j \in k..(e - 1) : Char(t, j) \in Digit
      BY <3>1, DigitsEndIs
    <3>3. e # k
      BY <1>5, <3>2
    <3>4. e \in (k + 1)..Len(t)
      BY <1>1, <3>2, <3>3
    <3>5. QED
      BY <3>2, <3>4
  <2>3. QED
    BY <2>1, <2>2
<1>8. QED
  BY <1>6, <1>7 DEF k, e

(* A fraction or an exponent makes the literal longer.                     *)
LEMMA ExponentIsLonger ==
  ASSUME NEW t \in Seq(Int), NEW k \in 0..Len(t)
  PROVE  ExponentFrom(t, k).kind = "ok" =>
           /\ ExponentFrom(t, k).end \in k..Len(t)
           /\ Char(t, k) = Exp => ExponentFrom(t, k).end # k
<1>1. Len(t) \in Nat /\ k \in Nat
  BY LenProperties
<1>2. CASE Char(t, k) # Exp
  BY <1>1, <1>2 DEF ExponentFrom, Read
<1>3. CASE Char(t, k) = Exp
  <2> DEFINE from == IF Char(t, k + 1) \in {Plus, Minus} THEN k + 2 ELSE k + 1
             e == DigitsEnd(t, from)
  <2>1. from \in (k + 1)..Len(t)
    <3>1. k < Len(t)
      BY <1>1, <1>3 DEF Char, Exp, Eof
    <3>2. Char(t, k + 1) \in {Plus, Minus} => k + 1 < Len(t)
      BY <1>1 DEF Char, Plus, Minus, Eof
    <3>3. QED
      BY <1>1, <3>1, <3>2
  <2>2. ExponentFrom(t, k) = IF e = from THEN Refused("InvalidNumber", e) ELSE Read(e)
    BY <1>3, Zenon DEF ExponentFrom
  <2> HIDE DEF from
  <2>3. e \in from..Len(t)
    <3>1. from \in 0..Len(t)
      BY <1>1, <2>1
    <3>2. QED
      BY <3>1, DigitsEndIs
  <2> HIDE DEF e
  <2>4. CASE e = from
    BY <2>2, <2>4 DEF Refused
  <2>5. CASE e # from
    BY <1>1, <2>1, <2>2, <2>3, <2>5 DEF Read
  <2>6. QED
    BY <2>4, <2>5
<1>4. QED
  BY <1>2, <1>3

LEMMA FractionIsLonger ==
  ASSUME NEW t \in Seq(Int), NEW k \in 0..Len(t), Char(t, k) \in {Dot, Exp},
         FractionFrom(t, k).kind = "ok"
  PROVE  FractionFrom(t, k).end \in (k + 1)..Len(t)
<1>1. Len(t) \in Nat /\ k \in Nat
  BY LenProperties
<1>2. CASE Char(t, k) # Dot
  <2>1. FractionFrom(t, k) = ExponentFrom(t, k) /\ Char(t, k) = Exp
    BY <1>2 DEF FractionFrom
  <2>2. ExponentFrom(t, k).end \in k..Len(t) /\ ExponentFrom(t, k).end # k
    BY <2>1, ExponentIsLonger
  <2>3. QED
    BY <1>1, <2>1, <2>2
<1>3. CASE Char(t, k) = Dot
  <2> DEFINE e == DigitsEnd(t, k + 1)
  <2>1. k + 1 \in 0..Len(t)
    BY <1>1, <1>3 DEF Char, Dot, Eof
  <2>2. e \in (k + 1)..Len(t)
    BY <2>1, DigitsEndIs
  <2>3. FractionFrom(t, k) = IF e = k + 1 THEN Refused("InvalidNumber", e) ELSE ExponentFrom(t, e)
    BY <1>3, Zenon DEF FractionFrom
  <2> HIDE DEF e
  <2>4. e # k + 1
    BY <2>3 DEF Refused
  <2>5. e \in 0..Len(t) /\ FractionFrom(t, k) = ExponentFrom(t, e)
    BY <1>1, <2>2, <2>3, <2>4
  <2>6. ExponentFrom(t, e).end \in e..Len(t)
    BY <2>5, ExponentIsLonger
  <2>7. QED
    BY <1>1, <2>2, <2>5, <2>6
<1>4. QED
  BY <1>2, <1>3

(* The digits of a walked literal, behind its sign.                        *)
LiteralDigits(s) == IF s # << >> /\ s[1] = Minus THEN Tail(s) ELSE s

LEMMA LiteralIs ==
  ASSUME NEW t \in Seq(Int), NEW n \in (SignOf(t) + 1)..Len(t)
  PROVE  LET s == SubSeq(t, 1, n)
             d == LiteralDigits(s)
         IN  /\ s \in Seq(Int) /\ d \in Seq(Int)
             /\ (s # << >> /\ s[1] = Minus) <=> SignOf(t) = 1
             /\ d = SubSeq(t, SignOf(t) + 1, n)
             /\ IsDigits(d) <=> \A j \in SignOf(t)..(n - 1) : Char(t, j) \in Digit
             /\ SignOf(t) = 1 => ~ IsDigits(s)
<1> DEFINE k == SignOf(t)
           s == SubSeq(t, 1, n)
           d == LiteralDigits(s)
           u == SubSeq(t, k + 1, n)
<1>1. Len(t) \in Nat /\ k \in Nat /\ (k = 0 \/ k = 1) /\ n \in Nat /\ n >= k + 1 /\ n <= Len(t)
  BY LenProperties, SignIs
<1>2. s \in Seq(Int) /\ Len(s) = n /\ \A i \in 1..n : s[i] = t[i]
  <2>1. 1 \in 1..(n + 1) /\ n \in 0..Len(t)
    BY <1>1
  <2>2. /\ s \in Seq(Int)
        /\ Len(s) = (IF 1 <= n THEN n - 1 + 1 ELSE 0)
        /\ \A i \in 1..Len(s) : s[i] = t[1 + i - 1]
    BY <1>1, <2>1, SubSeqProperties
  <2> HIDE DEF s
  <2>3. Len(s) = n
    BY <1>1, <2>2
  <2>4. \A i \in 1..n : 1 + i - 1 = i
    BY <1>1
  <2>5. QED
    BY <2>2, <2>3, <2>4
<1>3. u \in Seq(Int) /\ Len(u) = n - k /\ \A i \in 1..(n - k) : u[i] = t[k + i]
  <2> HIDE DEF k
  <2>1. k + 1 \in Int /\ n \in Int /\ \A i \in (k + 1)..n : t[i] \in Int
    BY <1>1
  <2>2. /\ u \in Seq(Int)
        /\ Len(u) = (IF k + 1 <= n THEN n - (k + 1) + 1 ELSE 0)
        /\ \A i \in 1..(n - (k + 1) + 1) : u[i] = t[k + 1 + i - 1]
    BY <2>1, SubSeqProperties
  <2> HIDE DEF u
  <2>3. Len(u) = n - k /\ n - (k + 1) + 1 = n - k
    BY <1>1, <2>2
  <2>4. \A i \in 1..(n - k) : k + 1 + i - 1 = k + i
    BY <1>1
  <2>5. QED
    BY <2>2, <2>3, <2>4
<1> HIDE DEF s, u
<1>4. s # << >> /\ Char(t, 0) = t[1] /\ 1 \in 1..n
  BY <1>1, <1>2, LenProperties DEF Char
<1>5. (s # << >> /\ s[1] = Minus) <=> k = 1
  BY <1>2, <1>4 DEF SignOf
<1>6. d = u
  <2> HIDE DEF k
  <2>1. CASE k = 1
    <3>1. d = Tail(s)
      BY <1>5, <2>1 DEF LiteralDigits
    <3>2. /\ Tail(s) \in Seq(Int) /\ Len(Tail(s)) = n - 1
          /\ \A i \in 1..(n - 1) : Tail(s)[i] = s[i + 1]
      BY <1>2, <1>4, HeadTailProperties
    <3>3. \A i \in 1..(n - 1) : Tail(s)[i] = u[i]
      <4> TAKE i \in 1..(n - 1)
      <4>1. i + 1 \in 1..n /\ k + i = i + 1 /\ i \in 1..(n - k)
        BY <1>1, <2>1
      <4>2. QED
        BY <1>2, <1>3, <3>2, <4>1
    <3>4. Len(u) = n - 1
      BY <1>3, <2>1
    <3>5. Tail(s) = u
      BY <1>3, <3>2, <3>3, <3>4, SeqEqual
    <3>6. QED
      BY <3>1, <3>5
  <2>2. CASE k # 1
    <3>1. d = s /\ k = 0
      BY <1>1, <1>5, <2>2 DEF LiteralDigits
    <3>2. Len(u) = n
      BY <1>1, <1>3, <3>1
    <3>3. \A i \in 1..n : s[i] = u[i]
      <4> TAKE i \in 1..n
      <4>1. k + i = i /\ i \in 1..(n - k)
        BY <1>1, <3>1
      <4>2. QED
        BY <1>2, <1>3, <4>1
    <3>4. s = u
      BY <1>2, <1>3, <3>2, <3>3, SeqEqual
    <3>5. QED
      BY <3>1, <3>4
  <2>3. QED
    BY <2>1, <2>2
<1>7. IsDigits(u) <=> \A j \in k..(n - 1) : Char(t, j) \in Digit
  <2> HIDE DEF k
  <2>1. u # << >> /\ DOMAIN u = 1..(n - k)
    BY <1>1, <1>3, LenProperties
  <2>2. \A i \in 1..(n - k) : k + i - 1 \in k..(n - 1) /\ Char(t, k + i - 1) = u[i]
    <3> TAKE i \in 1..(n - k)
    <3>1. k + i - 1 \in k..(n - 1) /\ k + i - 1 < Len(t) /\ k + i - 1 + 1 = k + i
      BY <1>1
    <3>2. QED
      BY <1>3, <3>1 DEF Char
  <2>3. \A j \in k..(n - 1) : j - k + 1 \in 1..(n - k) /\ k + (j - k + 1) - 1 = j
    BY <1>1
  <2>4. ASSUME IsDigits(u), NEW j \in k..(n - 1) PROVE Char(t, j) \in Digit
    <3>1. u[j - k + 1] \in Digit
      BY <2>1, <2>3, <2>4 DEF IsDigits
    <3>2. QED
      BY <2>2, <2>3, <3>1
  <2>5. ASSUME \A j \in k..(n - 1) : Char(t, j) \in Digit PROVE IsDigits(u)
    BY <2>1, <2>2, <2>5 DEF IsDigits
  <2>6. QED
    BY <2>4, <2>5
<1>8. k = 1 => ~ IsDigits(s)
  <2>1. k = 1 => s[1] = Minus /\ 1 \in DOMAIN s
    BY <1>2, <1>4, <1>5
  <2>2. Minus \notin Digit
    BY NumberAssumption DEF Minus, Digit
  <2>3. QED
    BY <2>1, <2>2 DEF IsDigits
<1>9. QED
  BY <1>2, <1>3, <1>5, <1>6, <1>7, <1>8 DEF s, u

(* The reading of a number by itself is the same as the fused one's.       *)
LEMMA DecodedIsFitting ==
  ASSUME NEW m \in {"i64", "u64"}, NEW t \in Seq(Int), NEW n \in (SignOf(t) + 1)..Len(t)
  PROVE  LET s == SubSeq(t, 1, n)
             all == \A j \in SignOf(t)..(n - 1) : Char(t, j) \in Digit
             magnitude == Value(SubSeq(t, SignOf(t) + 1, n))
             x == IF SignOf(t) = 1 THEN - magnitude ELSE magnitude
         IN  (IF m = "i64" THEN ParseI64(s, LiteralI64) ELSE ParseU64(s, LiteralU64)) =
               IF /\ all /\ (m = "i64" \/ SignOf(t) = 0)
                  /\ x \in Lowest(m)..Highest(m)
               THEN Some(x) ELSE None
<1> DEFINE k == SignOf(t)
           s == SubSeq(t, 1, n)
           d == LiteralDigits(s)
           minus == s # << >> /\ s[1] = Minus
           all == \A j \in k..(n - 1) : Char(t, j) \in Digit
           u == SubSeq(t, k + 1, n)
           x == IF k = 1 THEN - Value(u) ELSE Value(u)
           decoded == IF m = "i64" THEN ParseI64(s, LiteralI64) ELSE ParseU64(s, LiteralU64)
           fits == all /\ (m = "i64" \/ k = 0) /\ x \in Lowest(m)..Highest(m)
<1>1. /\ s \in Seq(Int) /\ d \in Seq(Int)
      /\ minus <=> k = 1
      /\ d = u
      /\ IsDigits(d) <=> all
      /\ k = 1 => ~ IsDigits(s)
  BY LiteralIs, Zenon
<1>2. d = IF minus THEN Tail(s) ELSE s
  BY DEF LiteralDigits
<1>3. k = 0 \/ k = 1
  BY SignIs
<1> SUFFICES decoded = IF fits THEN Some(x) ELSE None
  OBVIOUS
<1> HIDE DEF k, s, d, u, all, minus
<1>4. CASE m = "i64"
  <2>1. Lowest(m) = - (Max64 \div 2) - 1 /\ Highest(m) = Max64 \div 2
    BY <1>4 DEF Lowest, Highest, MaxOf
  <2>2. minus \in BOOLEAN
    BY DEF minus
  <2>3. minus <=> (s # << >> /\ s[1] = Minus)
    BY DEF minus
  <2> DEFINE y == IF minus THEN - Value(d) ELSE Value(d)
  <2>4. ParseI64(s, LiteralI64) =
          IF IsDigits(d) /\ y \in (- (Max64 \div 2) - 1)..(Max64 \div 2) THEN Some(y) ELSE None
    BY <1>1, <1>2, <2>2, <2>3, SignedDecodes, Zenon
  <2>5. y = x
    BY <1>1, <1>3
  <2> HIDE DEF y, x
  <2>6. QED
    BY <1>1, <1>4, <2>1, <2>4, <2>5
<1>5. CASE m = "u64"
  <2>1. Lowest(m) = 0 /\ Highest(m) = Max64
    BY <1>5 DEF Lowest, Highest, MaxOf
  <2>2. decoded = IF IsDigits(s) /\ Value(s) \in 0..Max64 THEN Some(Value(s)) ELSE None
    BY <1>1, <1>5, UnsignedDecodes
  <2>3. CASE k = 1
    BY <1>1, <1>5, <2>2, <2>3
  <2>4. CASE k = 0
    <3>1. s = d /\ x = Value(u)
      BY <1>1, <1>2, <2>4
    <3> HIDE DEF x
    <3>2. QED
      BY <1>1, <2>1, <2>2, <2>4, <3>1
  <2>5. QED
    BY <1>3, <2>3, <2>4
<1>6. QED
  BY <1>4, <1>5

LEMMA AloneIsFitting ==
  ASSUME text \in Seq(Int), method \in {"i64", "u64"}
  PROVE  /\ FromLex = IF Fits(method, text) THEN Some(IntegerOf(text)) ELSE None
         /\ Fits(method, text) => ReadNumber(text).end = IntegerEnd(text)
<1> DEFINE k == SignOf(text)
           e == IntegerEnd(text)
           walked == ReadNumber(text)
           decoded(n) ==
             IF method = "i64" THEN ParseI64(SubSeq(text, 1, n), LiteralI64)
             ELSE ParseU64(SubSeq(text, 1, n), LiteralU64)
<1>1. FromLex = IF walked.kind # "ok" THEN None ELSE decoded(walked.end)
  BY Zenon DEF FromLex
<1>2. Len(text) \in Nat /\ k \in Nat
  BY LenProperties, SignIs
<1>3. Fits(method, text) <=>
        /\ IsInteger(text) /\ (method = "i64" \/ k = 0)
        /\ IntegerOf(text) \in Lowest(method)..Highest(method)
  BY DEF Fits
<1> HIDE DEF k, e, walked, decoded
<1>4. CASE Char(text, k) \notin Digit
  <2>1. ~ Fits(method, text)
    BY <1>4 DEF Fits, IsInteger, k
  <2>2. walked.kind # "ok"
    <3> DEFINE c == Char(text, k)
    <3>1. walked = CASE c = 0             -> FractionFrom(text, k + 1)
                     [] c \in Digit \ {0} -> FractionFrom(text, DigitsEnd(text, k))
                     [] OTHER             -> Refused(Unexpected(c), k)
      BY Zenon DEF ReadNumber, SignOf, walked, k
    <3>2. c # 0 /\ c \notin Digit
      BY <1>4, NumberAssumption DEF Digit
    <3> HIDE DEF c
    <3>3. walked = Refused(Unexpected(c), k)
      BY <3>1, <3>2
    <3>4. QED
      BY <3>3 DEF Refused, Unexpected
  <2>3. QED
    BY <1>1, <2>1, <2>2
<1>5. CASE Char(text, k) \in Digit
  <2>1. /\ e \in (k + 1)..Len(text)
        /\ \A j \in k..(e - 1) : Char(text, j) \in Digit
        /\ walked = FractionFrom(text, e)
    BY <1>5, WalkToEnd DEF k, e, walked
  <2>2. IsInteger(text) <=> Char(text, e) \notin {Dot, Exp}
    BY <1>5 DEF IsInteger, k, e
  <2>3. CASE Char(text, e) \notin {Dot, Exp}
    <3>1. walked = Read(e)
      BY <2>1, <2>3 DEF FractionFrom, ExponentFrom
    <3>2. walked.kind = "ok" /\ walked.end = e
      BY <3>1 DEF Read
    <3> DEFINE magnitude == Value(SubSeq(text, k + 1, e))
               x == IF k = 1 THEN - magnitude ELSE magnitude
               all == \A j \in k..(e - 1) : Char(text, j) \in Digit
    <3>3. decoded(e) = IF /\ all /\ (method = "i64" \/ k = 0)
                          /\ x \in Lowest(method)..Highest(method)
                       THEN Some(x) ELSE None
      BY <2>1, DecodedIsFitting, Zenon DEF decoded, k
    <3>4. x = IntegerOf(text)
      BY DEF IntegerOf, Magnitude, k, e
    <3> HIDE DEF x
    <3>5. QED
      BY <1>1, <1>3, <2>1, <2>2, <2>3, <3>2, <3>3, <3>4 DEF walked, e
  <2>4. CASE Char(text, e) \in {Dot, Exp}
    <3>1. ~ Fits(method, text)
      BY <1>3, <2>2, <2>4
    <3>2. ASSUME walked.kind = "ok" PROVE decoded(walked.end) = None
      <4> DEFINE n == walked.end
      <4>1. n \in (e + 1)..Len(text)
        <5>1. e \in 0..Len(text)
          BY <1>2, <2>1
        <5>2. QED
          BY <2>1, <2>4, <3>2, <5>1, FractionIsLonger
      <4> HIDE DEF n
      <4>2. n \in (k + 1)..Len(text) /\ e \in k..(n - 1)
        BY <1>2, <2>1, <4>1
      <4>3. Char(text, e) \notin Digit
        BY <2>4, NumberAssumption DEF Dot, Exp, Digit
      <4> DEFINE magnitude == Value(SubSeq(text, k + 1, n))
                 x == IF k = 1 THEN - magnitude ELSE magnitude
                 all == \A j \in k..(n - 1) : Char(text, j) \in Digit
      <4>4. decoded(n) = IF /\ all /\ (method = "i64" \/ k = 0)
                            /\ x \in Lowest(method)..Highest(method)
                         THEN Some(x) ELSE None
        BY <4>2, DecodedIsFitting, Zenon DEF decoded, k
      <4>5. ~ all
        BY <4>2, <4>3
      <4> HIDE DEF all, x
      <4>6. decoded(n) = None
        BY <4>4, <4>5
      <4>7. QED
        BY <4>6 DEF n
    <3>3. QED
      BY <1>1, <3>1, <3>2
  <2>5. QED
    BY <2>3, <2>4
<1>6. QED
  BY <1>4, <1>5 DEF walked, e

(* A number is read as an element of a sequence as it is by itself, for    *)
(* every text, base, word size and number of fast digits on either side:   *)
(* the same texts, the same value and the same place behind it             *)
(* (de.rs:132-164, 176-210).                                               *)
THEOREM ElementsReadAlike == Spec => []ElementsReadAsTheyDoAlone
<1>1. Exact => ElementsReadAsTheyDoAlone
  <2> SUFFICES ASSUME Exact, pc = "done", method \in {"i64", "u64"}
               PROVE  /\ FromLex = IF ret = "ok" THEN Some(value) ELSE None
                      /\ ret = "ok" => ReadNumber(text).end = pos
    BY DEF ElementsReadAsTheyDoAlone
  <2>1. text \in Seq(Int) /\ Judged(method, text, ret, value, pos)
    BY DEF Exact, Inv, TypeOK
  <2>2. /\ FromLex = IF Fits(method, text) THEN Some(IntegerOf(text)) ELSE None
        /\ Fits(method, text) => ReadNumber(text).end = IntegerEnd(text)
    BY <2>1, AloneIsFitting
  <2>3. QED
    BY <2>1, <2>2 DEF Judged
<1>2. QED
  BY InitExact, NextExact, <1>1, PTL DEF Spec

-----------------------------------------------------------------------------
(* The float fast path.                                                    *)

DigitStep(s, f, n) ==
  IF n = 0 THEN << >>
  ELSE IF s[n] \in Digit THEN Append(f[n - 1], s[n])
  ELSE f[n - 1]

LEMMA DigitsStepwise ==
  ASSUME NEW s, Len(s) \in Nat
  PROVE  /\ DOMAIN DigitsUpTo(s) = 0..Len(s)
         /\ DigitsUpTo(s)[0] = << >>
         /\ \A n \in 1..Len(s) :
              DigitsUpTo(s)[n] = IF s[n] \in Digit THEN Append(DigitsUpTo(s)[n - 1], s[n])
                                 ELSE DigitsUpTo(s)[n - 1]
<1> DEFINE D == 0..Len(s)
           Made(f, m) == [n \in 0..m |-> DigitStep(s, f, n)]
           Missing == {m \in D : ~ \E f : f = Made(f, m)}
           g == CHOOSE f : f = [n \in D |-> DigitStep(s, f, n)]
<1>1. \E f : f = Made(f, 0)
  <2>1. Made(0, 0) = Made(Made(0, 0), 0)
    <3>1. \A f : Made(f, 0) = [n \in 0..0 |-> << >>]
      BY DEF DigitStep
    <3> HIDE DEF Made
    <3>2. QED
      BY <3>1
  <2> HIDE DEF Made
  <2>2. QED
    BY <2>1
<1>2. ASSUME NEW m \in Nat, NEW f, f = Made(f, m)
      PROVE  \E h : h = Made(h, m + 1)
  <2> DEFINE h == [n \in 0..(m + 1) |-> IF n \in 0..m THEN f[n] ELSE DigitStep(s, f, n)]
  <2>1. \A n \in 0..m : h[n] = f[n]
    OBVIOUS
  <2>2. \A n \in 0..(m + 1) : DigitStep(s, h, n) = DigitStep(s, f, n)
    <3>1. ASSUME NEW n \in 0..(m + 1), n # 0 PROVE h[n - 1] = f[n - 1]
      BY <2>1, <3>1
    <3> HIDE DEF h
    <3>2. QED
      BY <3>1 DEF DigitStep
  <2>3. \A n \in 0..m : f[n] = DigitStep(s, f, n)
    <3> DEFINE F == [n \in 0..m |-> DigitStep(s, f, n)]
    <3>1. f = F
      BY <1>2
    <3>2. \A n \in 0..m : F[n] = DigitStep(s, f, n)
      OBVIOUS
    <3> HIDE DEF F
    <3>3. QED
      BY <3>1, <3>2
  <2>4. \A n \in 0..(m + 1) : h[n] = DigitStep(s, h, n)
    <3>1. \A n \in 0..(m + 1) : h[n] = DigitStep(s, f, n)
      BY <2>3
    <3>2. QED
      BY <2>2, <3>1
  <2>5. h = Made(h, m + 1)
    <3>1. h = [n \in 0..(m + 1) |-> h[n]]
      OBVIOUS
    <3> HIDE DEF h
    <3>2. QED
      BY <2>4, <3>1
  <2> HIDE DEF h, Made
  <2>6. QED
    BY <2>5
<1> HIDE DEF Made
<1>3. Missing = {}
  <2>1. SUFFICES ASSUME Missing # {} PROVE FALSE
    OBVIOUS
  <2>2. Missing \subseteq Nat
    OBVIOUS
  <2>3. PICK m \in Missing : \A k \in Missing : m <= k
    <3> HIDE DEF Missing
    <3>1. QED
      BY <2>1, <2>2, LeastOf
  <2>4. m # 0
    BY <1>1
  <2>5. m - 1 \in D /\ m - 1 \in Nat /\ m - 1 \notin Missing
    BY <2>3, <2>4
  <2>6. PICK f : f = Made(f, m - 1)
    BY <2>5
  <2>7. \E h : h = Made(h, m - 1 + 1)
    BY <1>2, <2>5, <2>6
  <2>8. m - 1 + 1 = m
    OBVIOUS
  <2>9. QED
    BY <2>7, <2>8
<1>4. \E f : f = Made(f, Len(s))
  BY <1>3
<1>5. g = [n \in D |-> DigitStep(s, g, n)]
  <2>1. \E f : f = [n \in D |-> DigitStep(s, f, n)]
    BY <1>4 DEF Made
  <2>2. QED
    BY <2>1, Zenon
<1>6. DigitsUpTo(s) = g
  BY DEF DigitsUpTo, DigitStep
<1> HIDE DEF g
<1>7. \A n \in D : g[n] = DigitStep(s, g, n)
  <2> DEFINE G == [n \in D |-> DigitStep(s, g, n)]
  <2>1. \A n \in D : G[n] = DigitStep(s, g, n)
    OBVIOUS
  <2>2. g = G
    BY <1>5
  <2> HIDE DEF G
  <2>3. QED
    BY <2>1, <2>2
<1>8. g[0] = << >>
  <2>1. 0 \in D
    OBVIOUS
  <2>2. QED
    BY <1>7, <2>1 DEF DigitStep
<1>9. \A n \in 1..Len(s) : g[n] = IF s[n] \in Digit THEN Append(g[n - 1], s[n])
                                     ELSE g[n - 1]
  <2>1. \A n \in 1..Len(s) : n \in D /\ n # 0
    OBVIOUS
  <2>2. QED
    BY <1>7, <2>1 DEF DigitStep
<1>10. DOMAIN g = D
  BY <1>5, Zenon
<1>11. QED
  BY <1>6, <1>8, <1>9, <1>10

LEMMA DigitsUpToAre ==
  ASSUME NEW s, Len(s) \in Nat
  PROVE  \A n \in 0..Len(s) : DigitsUpTo(s)[n] \in Seq(Digit)
<1> DEFINE f == DigitsUpTo(s)
           Bad == {n \in 0..Len(s) : f[n] \notin Seq(Digit)}
<1>1. /\ f[0] = << >>
      /\ \A n \in 1..Len(s) : f[n] = IF s[n] \in Digit THEN Append(f[n - 1], s[n]) ELSE f[n - 1]
  BY DigitsStepwise, Zenon
<1> HIDE DEF f
<1>2. Bad = {}
  <2>1. SUFFICES ASSUME Bad # {} PROVE FALSE
    OBVIOUS
  <2>2. Bad \subseteq Nat
    OBVIOUS
  <2>3. PICK n \in Bad : \A k \in Bad : n <= k
    <3> HIDE DEF Bad
    <3>1. QED
      BY <2>1, <2>2, LeastOf
  <2>4. n \in 0..Len(s) /\ f[n] \notin Seq(Digit)
    OBVIOUS
  <2>5. n # 0
    <3>1. << >> \in Seq(Digit)
      OBVIOUS
    <3>2. QED
      BY <1>1, <2>4, <3>1, Zenon
  <2>6. n \in 1..Len(s) /\ n - 1 \in 0..Len(s) /\ ~ (n <= n - 1)
    BY <2>4, <2>5
  <2>7. f[n - 1] \in Seq(Digit)
    BY <2>3, <2>6
  <2>8. s[n] \in Digit => Append(f[n - 1], s[n]) \in Seq(Digit)
    BY <2>7, AppendProperties
  <2>9. QED
    BY <1>1, <2>4, <2>6, <2>7, <2>8
<1>3. QED
  BY <1>2 DEF f

(* Of a run, every one is taken.                                           *)
LEMMA RunTaken ==
  ASSUME NEW s, Len(s) \in Nat, NEW a \in 0..Len(s), NEW b \in a..Len(s),
         \A i \in (a + 1)..b : s[i] \in Digit
  PROVE  Len(DigitsUpTo(s)[b]) = Len(DigitsUpTo(s)[a]) + (b - a)
<1> DEFINE f == DigitsUpTo(s)
           Bad == {n \in 0..(b - a) : Len(f[a + n]) # Len(f[a]) + n}
<1>1. /\ \A n \in 1..Len(s) : f[n] = IF s[n] \in Digit THEN Append(f[n - 1], s[n]) ELSE f[n - 1]
      /\ \A n \in 0..Len(s) : f[n] \in Seq(Digit)
  BY DigitsStepwise, DigitsUpToAre, Zenon
<1> HIDE DEF f
<1>2. Bad = {}
  <2>1. SUFFICES ASSUME Bad # {} PROVE FALSE
    OBVIOUS
  <2>2. Bad \subseteq Nat
    OBVIOUS
  <2>3. PICK n \in Bad : \A k \in Bad : n <= k
    <3> HIDE DEF Bad
    <3>1. QED
      BY <2>1, <2>2, LeastOf
  <2>4. n \in 0..(b - a) /\ Len(f[a + n]) # Len(f[a]) + n
    OBVIOUS
  <2>5. n # 0
    <3>1. Len(f[a]) \in Nat
      BY <1>1, LenProperties
    <3>2. n = 0 => a + n = a /\ Len(f[a]) + n = Len(f[a])
      BY <3>1
    <3>3. QED
      BY <2>4, <3>2
  <2>6. n - 1 \in 0..(b - a) /\ ~ (n <= n - 1)
    BY <2>4, <2>5
  <2>7. a + (n - 1) \in 0..Len(s) /\ a + n \in 1..Len(s) /\ a + n - 1 = a + (n - 1)
        /\ a + n \in (a + 1)..b /\ a \in 0..Len(s)
    BY <2>4, <2>5
  <2>8. Len(f[a + (n - 1)]) = Len(f[a]) + (n - 1)
    BY <2>3, <2>6
  <2>9. f[a + n] = Append(f[a + (n - 1)], s[a + n]) /\ s[a + n] \in Digit
    <3>1. f[a + n] = IF s[a + n] \in Digit THEN Append(f[a + n - 1], s[a + n])
                     ELSE f[a + n - 1]
      BY <1>1, <2>7
    <3>2. QED
      BY <2>7, <3>1
  <2>10. Len(f[a + n]) = Len(f[a + (n - 1)]) + 1 /\ Len(f[a]) \in Nat
    BY <1>1, <2>7, <2>9, AppendProperties, LenProperties
  <2>11. QED
    BY <2>4, <2>8, <2>10
<1>3. b - a \in 0..(b - a) /\ a + (b - a) = b
  OBVIOUS
<1>4. Len(f[a + (b - a)]) = Len(f[a]) + (b - a)
  BY <1>2, <1>3
<1>5. QED
  BY <1>3, <1>4 DEF f

(* A byte in front that is no digit takes no part.                         *)
LEMMA DigitsBehindSign ==
  ASSUME NEW s, NEW u, Len(u) \in Nat, Len(s) = Len(u) + 1, s[1] \notin Digit,
         \A i \in 1..Len(u) : u[i] = s[i + 1]
  PROVE  DigitsOf(s) = DigitsOf(u)
<1> DEFINE f == DigitsUpTo(s)
           g == DigitsUpTo(u)
           Apart == {n \in 0..Len(u) : f[n + 1] # g[n]}
<1>1. /\ f[0] = << >>
      /\ g[0] = << >>
      /\ \A n \in 1..Len(s) : f[n] = IF s[n] \in Digit THEN Append(f[n - 1], s[n]) ELSE f[n - 1]
      /\ \A n \in 1..Len(u) : g[n] = IF u[n] \in Digit THEN Append(g[n - 1], u[n]) ELSE g[n - 1]
  <2>1. Len(s) \in Nat
    OBVIOUS
  <2>2. QED
    BY <2>1, DigitsStepwise, Zenon
<1> HIDE DEF f, g
<1>2. Apart = {}
  <2>1. SUFFICES ASSUME Apart # {} PROVE FALSE
    OBVIOUS
  <2>2. Apart \subseteq Nat
    OBVIOUS
  <2>3. PICK n \in Apart : \A k \in Apart : n <= k
    <3> HIDE DEF Apart
    <3>1. QED
      BY <2>1, <2>2, LeastOf
  <2>4. n \in 0..Len(u) /\ f[n + 1] # g[n]
    OBVIOUS
  <2>5. n # 0
    <3>1. 1 \in 1..Len(s) /\ 1 - 1 = 0
      OBVIOUS
    <3>2. f[1] = f[0]
      BY <1>1, <3>1
    <3>3. QED
      BY <1>1, <2>4, <3>2
  <2>6. n \in 1..Len(u) /\ n - 1 \in 0..Len(u) /\ ~ (n <= n - 1)
    BY <2>4, <2>5
  <2>7. n + 1 \in 1..Len(s) /\ n + 1 - 1 = n /\ n - 1 + 1 = n
    BY <2>6
  <2>8. f[n] = g[n - 1]
    <3>1. f[n - 1 + 1] = g[n - 1]
      BY <2>3, <2>6
    <3>2. QED
      BY <2>7, <3>1
  <2>9. f[n + 1] = IF s[n + 1] \in Digit THEN Append(f[n], s[n + 1]) ELSE f[n]
    <3>1. f[n + 1] = IF s[n + 1] \in Digit THEN Append(f[n + 1 - 1], s[n + 1]) ELSE f[n + 1 - 1]
      BY <1>1, <2>7
    <3>2. QED
      BY <2>7, <3>1
  <2>10. g[n] = IF u[n] \in Digit THEN Append(g[n - 1], u[n]) ELSE g[n - 1]
    BY <1>1, <2>6
  <2>11. u[n] = s[n + 1]
    BY <2>6
  <2>12. f[n + 1] = g[n]
    BY <2>8, <2>9, <2>10, <2>11
  <2>13. QED
    BY <2>4, <2>12
<1>3. Len(u) \in 0..Len(u)
  OBVIOUS
<1>4. f[Len(u) + 1] = g[Len(u)]
  BY <1>2, <1>3
<1>5. QED
  BY <1>4 DEF DigitsOf, f, g

LEMMA PartOf ==
  ASSUME NEW t \in Seq(Int), NEW k \in Nat, NEW n \in k..Len(t)
  PROVE  LET u == SubSeq(t, k + 1, n)
         IN  /\ u \in Seq(Int) /\ Len(u) = n - k
             /\ \A i \in 1..(n - k) : u[i] = t[k + i]
<1> DEFINE u == SubSeq(t, k + 1, n)
<1>1. Len(t) \in Nat /\ n \in Nat /\ n <= Len(t) /\ k <= n
  BY LenProperties
<1>2. k + 1 \in Int /\ n \in Int /\ \A i \in (k + 1)..n : t[i] \in Int
  BY <1>1
<1>3. /\ u \in Seq(Int)
      /\ Len(u) = (IF k + 1 <= n THEN n - (k + 1) + 1 ELSE 0)
      /\ \A i \in 1..(n - (k + 1) + 1) : u[i] = t[k + 1 + i - 1]
  BY <1>2, SubSeqProperties
<1> HIDE DEF u
<1>4. Len(u) = n - k /\ n - (k + 1) + 1 = n - k
  BY <1>1, <1>3
<1>5. \A i \in 1..(n - k) : k + 1 + i - 1 = k + i
  BY <1>1
<1>6. \A i \in 1..(n - k) : u[i] = t[k + i]
  BY <1>3, <1>4, <1>5
<1>7. QED
  BY <1>3, <1>4, <1>6 DEF u

(* What the fast path has taken, when it has taken anything.               *)
FastParts(t, int, e) ==
  LET k == SignOf(t)
      dot == Char(t, int) = Dot
  IN  /\ int \in (k + 1)..Len(t)
      /\ \A j \in k..(int - 1) : Char(t, j) \in Digit
      /\ ReadNumber(t) = FractionFrom(t, int)
      /\ IF dot THEN e \in (int + 2)..Len(t) /\ e = DigitsEnd(t, int + 1) ELSE e = int
      /\ dot => \A j \in (int + 1)..(e - 1) : Char(t, j) \in Digit
      /\ Char(t, e) \in {Comma, Eof}

LEMMA FastPathParts ==
  ASSUME NEW t \in Seq(Int), ParseF64Fast(t).kind = "ok"
  PROVE  \E int, e \in Nat :
           /\ FastParts(t, int, e)
           /\ LET digits == DigitsOf(SubSeq(t, SignOf(t) + 1, e))
                  mantissa == Wrapped(Value(digits), 0, Max64)
              IN  /\ Len(digits) <= MantissaDigits
                  /\ mantissa <= MantissaMax
                  /\ ParseF64Fast(t) =
                       [kind |-> "ok", end |-> e, mantissa |-> mantissa,
                        scale |-> IF Char(t, int) = Dot THEN e - int - 1 ELSE 0]
<1> DEFINE k == SignOf(t)
           int == IntegerEnd(t)
           dot == Char(t, int) = Dot
           e == IF dot THEN DigitsEnd(t, int + 1) ELSE int
           digits == DigitsOf(SubSeq(t, k + 1, e))
           mantissa == Wrapped(Value(digits), 0, Max64)
           result == [kind |-> "ok", end |-> e, mantissa |-> mantissa,
                      scale |-> IF dot THEN e - int - 1 ELSE 0]
           taken == /\ Char(t, k) \in Digit
                    /\ dot => e > int + 1
                    /\ Len(digits) <= MantissaDigits
                    /\ Char(t, e) \in {Comma, Eof}
                    /\ mantissa <= MantissaMax
<1>1. ParseF64Fast(t) = IF taken THEN result ELSE NotFast
  BY Zenon DEF ParseF64Fast, SignOf, IntegerEnd
<1>2. NotFast.kind # "ok"
  BY DEF NotFast
<1> HIDE DEF result, taken
<1>3. taken /\ ParseF64Fast(t) = result
  BY <1>1, <1>2
<1>4. Len(t) \in Nat /\ k \in Nat
  BY LenProperties, SignIs
<1>5. /\ int \in (k + 1)..Len(t)
      /\ \A j \in k..(int - 1) : Char(t, j) \in Digit
      /\ ReadNumber(t) = FractionFrom(t, int)
  <2>1. Char(t, k) \in Digit
    BY <1>3 DEF taken
  <2>2. QED
    BY <2>1, WalkToEnd
<1> HIDE DEF k, int
<1>6. dot => /\ e \in (int + 2)..Len(t) /\ e = DigitsEnd(t, int + 1)
             /\ \A j \in (int + 1)..(e - 1) : Char(t, j) \in Digit
  <2> SUFFICES ASSUME dot PROVE /\ e \in (int + 2)..Len(t) /\ e = DigitsEnd(t, int + 1)
                                /\ \A j \in (int + 1)..(e - 1) : Char(t, j) \in Digit
    OBVIOUS
  <2>1. int + 1 \in 0..Len(t)
    BY <1>4, <1>5 DEF Char, Dot, Eof
  <2>2. e = DigitsEnd(t, int + 1)
    OBVIOUS
  <2>3. e > int + 1
    BY <1>3 DEF taken
  <2> HIDE DEF e
  <2>4. e \in (int + 1)..Len(t) /\ \A j \in (int + 1)..(e - 1) : Char(t, j) \in Digit
    BY <2>1, <2>2, DigitsEndIs
  <2>5. e \in (int + 2)..Len(t)
    BY <1>4, <1>5, <2>3, <2>4
  <2>6. QED
    BY <2>2, <2>4, <2>5
<1>7. ~ dot => e = int
  OBVIOUS
<1>8. Char(t, e) \in {Comma, Eof} /\ Len(digits) <= MantissaDigits /\ mantissa <= MantissaMax
  BY <1>3 DEF taken
<1>9. int \in Nat /\ e \in Nat
  <2> HIDE DEF e
  <2>1. int \in Nat
    BY <1>4, <1>5
  <2>2. QED
    BY <1>4, <1>5, <1>6, <1>7, <2>1
<1> HIDE DEF e
<1>10. FastParts(t, int, e)
  BY <1>5, <1>6, <1>7, <1>8 DEF FastParts, k
<1>11. QED
  BY <1>3, <1>8, <1>9, <1>10 DEF result, k

(* The digits of what was taken: as many as there are places for.          *)
LEMMA FastDigits ==
  ASSUME NEW t \in Seq(Int), NEW int \in Nat, NEW e \in Nat, FastParts(t, int, e)
  PROVE  LET k == SignOf(t)
             d == DigitsOf(SubSeq(t, k + 1, e))
         IN  /\ d \in Seq(Int) /\ IsDigits(d)
             /\ Len(d) = IF Char(t, int) = Dot THEN (int - k) + (e - int - 1) ELSE int - k
             /\ DigitsOf(SubSeq(t, 1, e)) = d
<1> DEFINE k == SignOf(t)
           u == SubSeq(t, k + 1, e)
           f == DigitsUpTo(u)
           d == DigitsOf(u)
           dot == Char(t, int) = Dot
<1>1. /\ Len(t) \in Nat /\ k \in Nat /\ (k = 0 \/ k = 1)
      /\ int \in (k + 1)..Len(t)
      /\ \A j \in k..(int - 1) : Char(t, j) \in Digit
      /\ IF dot THEN e \in (int + 2)..Len(t) ELSE e = int
      /\ dot => \A j \in (int + 1)..(e - 1) : Char(t, j) \in Digit
  BY LenProperties, SignIs DEF FastParts
<1> HIDE DEF k, dot
<1>2. e \in k..Len(t) /\ int <= e
  BY <1>1
<1>3. u \in Seq(Int) /\ Len(u) = e - k /\ \A i \in 1..(e - k) : u[i] = Char(t, k + i - 1)
  <2>1. u \in Seq(Int) /\ Len(u) = e - k /\ \A i \in 1..(e - k) : u[i] = t[k + i]
    BY <1>1, <1>2, PartOf
  <2>2. \A i \in 1..(e - k) : Char(t, k + i - 1) = t[k + i]
    <3> TAKE i \in 1..(e - k)
    <3>1. k + i - 1 < Len(t) /\ k + i - 1 + 1 = k + i
      BY <1>1, <1>2
    <3>2. QED
      BY <3>1 DEF Char
  <2> HIDE DEF u
  <2>3. QED
    BY <2>1, <2>2
<1> HIDE DEF u
<1>4. Len(u) \in Nat /\ d = f[Len(u)] /\ int - k \in 0..Len(u)
  BY <1>1, <1>2, <1>3 DEF DigitsOf
<1>5. d \in Seq(Digit)
  BY <1>4, DigitsUpToAre
<1>6. d \in Seq(Int) /\ \A i \in DOMAIN d : d[i] \in Digit
  <2>1. Digit \subseteq Int
    BY NumberAssumption DEF Digit
  <2> HIDE DEF d
  <2>2. DOMAIN d = 1..Len(d) /\ Len(d) \in Nat /\ \A i \in 1..Len(d) : d[i] \in Digit
    BY <1>5, LenProperties, ElementOfSeq
  <2>3. d \in Seq(Int)
    BY <1>5, <2>1, SeqMonotonic
  <2>4. QED
    BY <2>2, <2>3
<1>7. f[0] = << >>
      /\ \A n \in 1..Len(u) : f[n] = IF u[n] \in Digit THEN Append(f[n - 1], u[n]) ELSE f[n - 1]
  BY <1>4, DigitsStepwise
<1>8. Len(f[int - k]) = int - k
  <2>1. \A i \in (0 + 1)..(int - k) : u[i] \in Digit
    <3> TAKE i \in (0 + 1)..(int - k)
    <3>1. k + i - 1 \in k..(int - 1) /\ i \in 1..(e - k)
      BY <1>1, <1>2
    <3>2. QED
      BY <1>1, <1>3, <3>1
  <2>2. 0 \in 0..Len(u) /\ int - k \in 0..Len(u)
    BY <1>4
  <2>3. Len(f[int - k]) = Len(f[0]) + (int - k - 0)
    BY <1>4, <2>1, <2>2, RunTaken
  <2>4. Len(f[0]) = 0
    BY <1>7
  <2>5. QED
    BY <1>1, <2>3, <2>4
<1>9. Len(d) = IF dot THEN (int - k) + (e - int - 1) ELSE int - k
  <2>1. CASE ~ dot
    BY <1>1, <1>3, <1>4, <1>8, <2>1
  <2>2. CASE dot
    <3> DEFINE a == int - k + 1
    <3>1. a \in 1..Len(u) /\ a - 1 = int - k /\ k + a - 1 = int /\ Len(u) \in a..Len(u)
      BY <1>1, <1>3, <2>2
    <3>2. u[a] \notin Digit
      <4>1. u[a] = Dot
        BY <1>3, <2>2, <3>1 DEF dot
      <4>2. QED
        BY <4>1, NumberAssumption DEF Dot, Digit
    <3>3. f[a] = f[int - k]
      <4>1. f[a] = IF u[a] \in Digit THEN Append(f[a - 1], u[a]) ELSE f[a - 1]
        BY <1>7, <3>1
      <4>2. QED
        BY <3>1, <3>2, <4>1
    <3>4. \A i \in (a + 1)..Len(u) : u[i] \in Digit
      <4> TAKE i \in (a + 1)..Len(u)
      <4>1. k + i - 1 \in (int + 1)..(e - 1) /\ i \in 1..(e - k)
        BY <1>1, <1>2, <1>3
      <4>2. QED
        BY <1>1, <1>3, <2>2, <4>1
    <3>5. a \in 0..Len(u) /\ Len(u) - a = e - int - 1
      BY <1>1, <1>2, <1>3, <3>1
    <3> HIDE DEF a
    <3>6. Len(f[Len(u)]) = Len(f[a]) + (Len(u) - a)
      BY <1>4, <3>1, <3>4, <3>5, RunTaken
    <3>7. QED
      BY <1>4, <1>8, <2>2, <3>3, <3>5, <3>6
  <2>3. QED
    BY <2>1, <2>2
<1>10. d # << >>
  <2>1. Len(d) # 0
    BY <1>1, <1>2, <1>9
  <2> HIDE DEF d
  <2>2. QED
    BY <2>1
<1>11. DigitsOf(SubSeq(t, 1, e)) = d
  <2> DEFINE s == SubSeq(t, 1, e)
  <2>1. CASE k = 0
    BY <2>1 DEF u
  <2>2. CASE k = 1
    <3>1. 0 \in Nat /\ e \in 0..Len(t) /\ 0 + 1 = 1
      BY <1>1, <1>2
    <3>2. Len(s) = e - 0 /\ \A i \in 1..(e - 0) : s[i] = t[0 + i]
      BY <3>1, PartOf
    <3>3. e - 0 = e /\ \A i \in 1..e : 0 + i = i
      BY <1>2, <3>1
    <3>4. Len(u) = e - k /\ \A i \in 1..(e - k) : u[i] = t[k + i]
      BY <1>1, <1>2, PartOf DEF u
    <3>5. s[1] \notin Digit
      <4>1. Char(t, 0) = Minus
        BY <2>2 DEF k, SignOf
      <4>2. Char(t, 0) = t[1] /\ 1 \in 1..e
        BY <1>1, <1>2, <2>2 DEF Char
      <4>3. s[1] = t[1]
        BY <3>2, <3>3, <4>2
      <4>4. QED
        BY <4>1, <4>2, <4>3, NumberAssumption DEF Minus, Digit
    <3> HIDE DEF s
    <3>6. Len(s) = Len(u) + 1
      BY <1>2, <2>2, <3>1, <3>2, <3>3, <3>4
    <3>7. \A i \in 1..Len(u) : u[i] = s[i + 1]
      <4> TAKE i \in 1..Len(u)
      <4>1. i \in 1..(e - k) /\ i + 1 \in 1..e /\ k + i = i + 1
        BY <1>2, <2>2, <3>4
      <4>2. QED
        BY <3>2, <3>3, <3>4, <4>1
    <3>8. QED
      BY <1>4, <3>5, <3>6, <3>7, DigitsBehindSign DEF s
  <2>3. QED
    BY <1>1, <2>1, <2>2
<1> HIDE DEF d
<1>12. IsDigits(d)
  BY <1>6, <1>10 DEF IsDigits
<1>13. QED
  BY <1>6, <1>9, <1>11, <1>12 DEF d, u, k, dot

LEMMA FastIsWalked ==
  ASSUME NEW t \in Seq(Int), NEW int \in Nat, NEW e \in Nat, FastParts(t, int, e)
  PROVE  ReadNumber(t) = Read(e)
<1>1. Char(t, e) # Exp /\ Char(t, e) # Dot
  BY DEF FastParts, Comma, Eof, Exp, Dot
<1>2. ReadNumber(t) = FractionFrom(t, int)
  BY DEF FastParts
<1>3. CASE Char(t, int) = Dot
  <2>1. e \in (int + 2)..Len(t) /\ e = DigitsEnd(t, int + 1) /\ Len(t) \in Nat
    BY <1>3, LenProperties DEF FastParts
  <2>2. e # int + 1
    BY <2>1
  <2>3. FractionFrom(t, int) = ExponentFrom(t, e)
    BY <1>3, <2>1, <2>2, Zenon DEF FractionFrom
  <2>4. QED
    BY <1>1, <1>2, <2>3, Zenon DEF ExponentFrom
<1>4. CASE Char(t, int) # Dot
  <2>1. e = int
    BY <1>4 DEF FastParts
  <2>2. QED
    BY <1>1, <1>2, <2>1, Zenon DEF FractionFrom, ExponentFrom
<1>5. QED
  BY <1>3, <1>4

(* The point, if there is one, is where the scale says.                    *)
LEMMA PointIsAtScale ==
  ASSUME NEW t \in Seq(Int), NEW int \in Nat, NEW e \in Nat, FastParts(t, int, e),
         NEW j \in 1..e, t[j] = Dot
  PROVE  Char(t, int) = Dot /\ j = int + 1
<1> DEFINE k == SignOf(t)
           dot == Char(t, int) = Dot
<1>1. /\ Len(t) \in Nat /\ k \in Nat /\ (k = 0 \/ k = 1)
      /\ int \in (k + 1)..Len(t)
      /\ \A i \in k..(int - 1) : Char(t, i) \in Digit
      /\ IF dot THEN e \in (int + 2)..Len(t) ELSE e = int
      /\ dot => \A i \in (int + 1)..(e - 1) : Char(t, i) \in Digit
  BY LenProperties, SignIs DEF FastParts
<1>2. Dot \notin Digit /\ Dot # Minus
  BY NumberAssumption DEF Dot, Digit, Minus
<1>3. k = 1 => Char(t, 0) = Minus
  BY DEF SignOf
<1> HIDE DEF k, dot
<1>4. j - 1 < Len(t) /\ j - 1 + 1 = j /\ j - 1 \in Nat
  BY <1>1
<1>5. Char(t, j - 1) = Dot
  BY <1>4 DEF Char
<1>6. ~ (j - 1 \in k..(int - 1))
  BY <1>1, <1>2, <1>5
<1>7. j - 1 # 0 \/ k = 0
  BY <1>1, <1>2, <1>3, <1>5
<1>8. j - 1 >= int
  BY <1>1, <1>4, <1>6, <1>7
<1>9. dot
  BY <1>1, <1>4, <1>8
<1>10. ~ (j - 1 \in (int + 1)..(e - 1))
  BY <1>1, <1>2, <1>5, <1>9
<1>11. j = int + 1
  BY <1>1, <1>4, <1>8, <1>9, <1>10
<1>12. QED
  BY <1>9, <1>11 DEF dot

LEMMA FastFollows ==
  ASSUME NEW t \in Seq(Int), ParseF64Fast(t).kind = "ok"
  PROVE  LET fast == ParseF64Fast(t)
             digits == DigitsOf(SubSeq(t, 1, fast.end))
         IN  /\ ReadNumber(t) = Read(fast.end)
             /\ fast.mantissa = Value(digits)
             /\ fast.mantissa <= MantissaMax
             /\ fast.scale < MantissaDigits
             /\ \A k \in 1..fast.end : t[k] = Dot => fast.scale = fast.end - k
<1> DEFINE fast == ParseF64Fast(t)
           d(e) == DigitsOf(SubSeq(t, SignOf(t) + 1, e))
           mantissa(e) == Wrapped(Value(d(e)), 0, Max64)
           scale(int, e) == IF Char(t, int) = Dot THEN e - int - 1 ELSE 0
<1>1. PICK int, e \in Nat :
        /\ FastParts(t, int, e)
        /\ Len(d(e)) <= MantissaDigits
        /\ mantissa(e) <= MantissaMax
        /\ fast = [kind |-> "ok", end |-> e, mantissa |-> mantissa(e), scale |-> scale(int, e)]
  BY FastPathParts, Zenon
<1>2. /\ d(e) \in Seq(Int) /\ IsDigits(d(e))
      /\ Len(d(e)) = IF Char(t, int) = Dot THEN (int - SignOf(t)) + (e - int - 1)
                     ELSE int - SignOf(t)
      /\ DigitsOf(SubSeq(t, 1, e)) = d(e)
  BY <1>1, FastDigits, Zenon
<1> HIDE DEF fast, d
<1>3. fast.end = e /\ fast.mantissa = mantissa(e) /\ fast.scale = scale(int, e)
  BY <1>1
<1>4. mantissa(e) = Value(d(e))
  <2>1. FastFits(Max64, MantissaDigits) /\ Max64 \in Nat
    BY NumberAssumption DEF FastFits
  <2>2. Value(d(e)) <= Max64
    BY <1>1, <1>2, <2>1, FewDigitsFit
  <2>3. Value(d(e)) \in Nat
    <3>1. Len(d(e)) \in 0..Len(d(e))
      BY <1>2, LenProperties
    <3>2. QED
      BY <1>2, <3>1, PartialOfDigits DEF Value
  <2>4. Value(d(e)) \in 0..Max64
    BY <2>1, <2>2, <2>3
  <2>5. QED
    BY <2>1, <2>4, WrappedInside
<1>5. scale(int, e) < MantissaDigits
  <2>1. SignOf(t) \in Nat /\ int \in (SignOf(t) + 1)..Len(t) /\ Len(t) \in Nat
    BY <1>1, SignIs, LenProperties DEF FastParts
  <2>2. Len(d(e)) \in Nat /\ MantissaDigits \in Nat
    BY <1>2, LenProperties, NumberAssumption DEF FastFits
  <2>3. QED
    BY <1>1, <1>2, <2>1, <2>2
<1>6. \A k \in 1..e : t[k] = Dot => scale(int, e) = e - k
  <2> TAKE k \in 1..e
  <2>1. ASSUME t[k] = Dot PROVE scale(int, e) = e - k
    <3>1. Char(t, int) = Dot /\ k = int + 1
      BY <1>1, <2>1, PointIsAtScale
    <3>2. QED
      BY <3>1
  <2>2. QED
    BY <2>1
<1>7. ReadNumber(t) = Read(e)
  BY <1>1, FastIsWalked
<1>8. fast.mantissa <= MantissaMax
  BY <1>1, <1>3
<1> HIDE DEF mantissa, scale
<1>9. QED
  BY <1>2, <1>3, <1>4, <1>5, <1>6, <1>7, <1>8 DEF fast

(* The float fast path takes what the grammar walk takes, with an exact    *)
(* mantissa and the scale of its point, for every text, base and number of *)
(* digits that fits the word (lexer.rs:880-974).                           *)
THEOREM FloatsAreWalked == Spec => []FloatsFollowTheGrammar
<1>1. Inv => FloatsFollowTheGrammar
  <2> SUFFICES ASSUME Inv PROVE FloatsFollowTheGrammar
    OBVIOUS
  <2>1. text \in Seq(Int)
    BY DEF Inv, TypeOK
  <2>2. CASE ParseF64Fast(text).kind = "ok"
    <3>1. ParseF64(text) = Read(ParseF64Fast(text).end)
      BY <2>2, Zenon DEF ParseF64
    <3>2. QED
      BY <2>1, <2>2, <3>1, FastFollows, Zenon DEF FloatsFollowTheGrammar
  <2>3. CASE ParseF64Fast(text).kind # "ok"
    <3>1. ParseF64(text) = ReadNumber(text)
      BY <2>3, Zenon DEF ParseF64
    <3>2. QED
      BY <2>3, <3>1, Zenon DEF FloatsFollowTheGrammar
  <2>4. QED
    BY <2>2, <2>3
<1>2. QED
  BY InitInv, NextInv, <1>1, PTL DEF Spec
=============================================================================
