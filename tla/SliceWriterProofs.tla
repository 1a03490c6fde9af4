--------------------------- MODULE SliceWriterProofs ---------------------------
(***************************************************************************)
(* The unchecked writes of slice serialization stay inside, for every      *)
(* slice, every declared length, right or wrong, every window and every    *)
(* sink, and those of format_finite_to_ptr leave no byte of their text     *)
(* unwritten, for every decimal a double has: up to 17 digits, and a point *)
(* not further than 1000 places away.                                      *)
(*                                                                         *)
(* Sound is kept by each method of a sink, because each looks at the spare *)
(* capacity before it writes, whatever was reserved earlier.  What is      *)
(* needed besides is that the windows do not run past the slice.           *)
(*                                                                         *)
(* Where the declared length is right, the reservation is enough: no write *)
(* reallocates the vector (ReservationAlwaysHolds), because each takes no  *)
(* more room than was counted for it (Uses) and the room for the rest of   *)
(* the window is kept (Reserved).                                          *)
(*                                                                         *)
(* Whichever way a value goes, the sink gets the same text of it           *)
(* (EverySinkGetsIt): a layout renders one text wherever it is put,        *)
(* because its writes leave no byte to what was there before (Renders),    *)
(* each method sends the text it was given or fails with a prefix of it    *)
(* (Took), and the text up to the element reached is the invariant (Sent). *)
(***************************************************************************)
EXTENDS SliceWriter, SequenceTheorems, WellFoundedInduction, TLAPS

DigitCount == 1..17
PointRange == -998..1000
ExponentRange == -999..999

WritesOf(layout) == {layout.writes[j] : j \in DOMAIN layout.writes}

(* The layout lies behind the byte at pos, within FormatBufLen, and leaves *)
(* no byte of its length unwritten.                                        *)
Filled(layout, pos) ==
  /\ layout.length \in (pos + 1)..FormatBufLen
  /\ \A j \in DOMAIN layout.writes : WriteFits(layout.writes[j], layout.length)
  /\ \A k \in pos..(layout.length - 1) :
       \E j \in DOMAIN layout.writes : Covers(layout.writes[j], k)

Laid(layout, pos) == Filled(layout, pos) /\ layout.writes \in Seq(WritesOf(layout))

LEMMA ZerosLength ==
  ASSUME NEW n \in Nat
  PROVE  Zeros(n) \in Seq(0..9) /\ Len(Zeros(n)) = n
BY DEF Zeros

LEMMA ThreeWrites ==
  ASSUME NEW l, NEW pos \in Nat, NEW w1, NEW w2, NEW w3,
         l.writes = <<w1, w2, w3>>, l.length \in (pos + 1)..FormatBufLen,
         WriteFits(w1, l.length), WriteFits(w2, l.length), WriteFits(w3, l.length),
         \A k \in pos..(l.length - 1) : Covers(w1, k) \/ Covers(w2, k) \/ Covers(w3, k)
  PROVE  Laid(l, pos)
<1>1. /\ DOMAIN l.writes = {1, 2, 3}
      /\ l.writes[1] = w1 /\ l.writes[2] = w2 /\ l.writes[3] = w3
  OBVIOUS
<1>2. \A j \in DOMAIN l.writes : WriteFits(l.writes[j], l.length)
  BY <1>1
<1>3. ASSUME NEW k \in pos..(l.length - 1)
      PROVE  \E j \in DOMAIN l.writes : Covers(l.writes[j], k)
  BY <1>1
<1>4. l.writes \in Seq(WritesOf(l))
  <2>1. WritesOf(l) = {w1, w2, w3}
    BY <1>1 DEF WritesOf
  <2>2. QED
    BY <2>1
<1>5. QED
  BY <1>2, <1>3, <1>4 DEF Laid, Filled

LEMMA FiveWrites ==
  ASSUME NEW l, NEW pos \in Nat, NEW w1, NEW w2, NEW w3, NEW w4, NEW w5,
         l.writes = <<w1, w2, w3, w4, w5>>, l.length \in (pos + 1)..FormatBufLen,
         WriteFits(w1, l.length), WriteFits(w2, l.length), WriteFits(w3, l.length),
         WriteFits(w4, l.length), WriteFits(w5, l.length),
         \A k \in pos..(l.length - 1) :
           \/ Covers(w1, k) \/ Covers(w2, k) \/ Covers(w3, k)
           \/ Covers(w4, k) \/ Covers(w5, k)
  PROVE  Laid(l, pos)
<1>1. /\ DOMAIN l.writes = {1, 2, 3, 4, 5}
      /\ l.writes[1] = w1 /\ l.writes[2] = w2 /\ l.writes[3] = w3
      /\ l.writes[4] = w4 /\ l.writes[5] = w5
  OBVIOUS
<1>2. \A j \in DOMAIN l.writes : WriteFits(l.writes[j], l.length)
  BY <1>1
<1>3. ASSUME NEW k \in pos..(l.length - 1)
      PROVE  \E j \in DOMAIN l.writes : Covers(l.writes[j], k)
  BY <1>1
<1>4. l.writes \in Seq(WritesOf(l))
  <2>1. WritesOf(l) = {w1, w2, w3, w4, w5}
    BY <1>1 DEF WritesOf
  <2>2. QED
    BY <2>1
<1>5. QED
  BY <1>2, <1>3, <1>4 DEF Laid, Filled

LEMMA FractionFilled ==
  ASSUME NEW pos \in 0..1, NEW count \in DigitCount, NEW text, Len(text) = count,
         NEW zeros \in 0..6
  PROVE  Laid(Fraction(pos, text, count, zeros), pos)
<1> DEFINE l == Fraction(pos, text, count, zeros)
           w1 == Write(pos, <<0, Dot>>)
           w2 == Write(pos + 2, Zeros(zeros))
           w3 == Digits(pos + 2 + zeros, text, count)
<1>1. l.length = pos + 2 + zeros + count /\ l.writes = <<w1, w2, w3>>
  BY DEF Fraction
<1>2. /\ w1.at = pos /\ Len(w1.bytes) = 2
      /\ w2.at = pos + 2 /\ Len(w2.bytes) = zeros
      /\ w3.at = pos + 2 + zeros /\ Len(w3.bytes) = count
  BY ZerosLength DEF Write, Digits, DigitCount
<1> HIDE DEF l, w1, w2, w3
<1>3. l.length \in (pos + 1)..FormatBufLen
  BY <1>1 DEF FormatBufLen, DigitCount
<1>4. WriteFits(w1, l.length) /\ WriteFits(w2, l.length) /\ WriteFits(w3, l.length)
  BY <1>1, <1>2 DEF WriteFits, DigitCount
<1>5. ASSUME NEW k \in pos..(l.length - 1)
      PROVE  Covers(w1, k) \/ Covers(w2, k) \/ Covers(w3, k)
  BY <1>1, <1>2 DEF Covers, DigitCount
<1>6. Laid(l, pos)
  BY <1>1, <1>3, <1>4, <1>5, ThreeWrites
<1>7. QED
  BY <1>6 DEF l

LEMMA WholeFilled ==
  ASSUME NEW pos \in 0..1, NEW count \in DigitCount, NEW text, Len(text) = count,
         NEW zeros \in Nat, count + zeros <= 21
  PROVE  Laid(Whole(pos, text, count, zeros), pos)
<1> DEFINE l == Whole(pos, text, count, zeros)
           w1 == Digits(pos, text, count)
           w2 == Write(pos + count, Zeros(zeros))
           w3 == Write(pos + count + zeros, <<Dot, 0>>)
<1>1. l.length = pos + count + zeros + 2 /\ l.writes = <<w1, w2, w3>>
  BY DEF Whole
<1>2. /\ w1.at = pos /\ Len(w1.bytes) = count
      /\ w2.at = pos + count /\ Len(w2.bytes) = zeros
      /\ w3.at = pos + count + zeros /\ Len(w3.bytes) = 2
  BY ZerosLength DEF Write, Digits, DigitCount
<1> HIDE DEF l, w1, w2, w3
<1>3. l.length \in (pos + 1)..FormatBufLen
  BY <1>1 DEF FormatBufLen, DigitCount
<1>4. WriteFits(w1, l.length) /\ WriteFits(w2, l.length) /\ WriteFits(w3, l.length)
  BY <1>1, <1>2 DEF WriteFits, DigitCount
<1>5. ASSUME NEW k \in pos..(l.length - 1)
      PROVE  Covers(w1, k) \/ Covers(w2, k) \/ Covers(w3, k)
  BY <1>1, <1>2 DEF Covers, DigitCount
<1>6. Laid(l, pos)
  BY <1>1, <1>3, <1>4, <1>5, ThreeWrites
<1>7. QED
  BY <1>6 DEF l

\* The digits `copy_within` moves in front of the point are as many as `point`
\* says (format_decimal_into, the mixed form).
LEMMA PrefixLength ==
  ASSUME NEW count \in DigitCount, NEW text \in Seq(0..9), Len(text) = count,
         NEW p \in 1..(count - 1)
  PROVE  Len(SubSeq(text, 1, p)) = p
<1>1. p \in Nat /\ p <= count
  BY DEF DigitCount
<1>2. \A i \in 1..p : text[i] \in 0..9
  BY <1>1, ElementOfSeq DEF DigitCount
<1>3. QED
  BY <1>1, <1>2, SubSeqProperties

LEMMA MixedFilled ==
  ASSUME NEW pos \in 0..1, NEW count \in DigitCount, NEW text, Len(text) = count,
         NEW p \in 1..(count - 1), Len(SubSeq(text, 1, p)) = p
  PROVE  Laid(Mixed(pos, text, count, p), pos)
<1> DEFINE l == Mixed(pos, text, count, p)
           w1 == Digits(pos + 1, text, count)
           w2 == Write(pos, SubSeq(text, 1, p))
           w3 == Write(pos + p, <<Dot>>)
<1>1. l.length = pos + count + 1 /\ l.writes = <<w1, w2, w3>>
  BY DEF Mixed
<1>2. p \in Nat /\ p <= count
  BY DEF DigitCount
<1>3. /\ w1.at = pos + 1 /\ Len(w1.bytes) = count
      /\ w2.at = pos /\ Len(w2.bytes) = p
      /\ w3.at = pos + p /\ Len(w3.bytes) = 1
  BY DEF Write, Digits, DigitCount
<1> HIDE DEF l, w1, w2, w3
<1>4. l.length \in (pos + 1)..FormatBufLen
  BY <1>1 DEF FormatBufLen, DigitCount
<1>5. WriteFits(w1, l.length) /\ WriteFits(w2, l.length) /\ WriteFits(w3, l.length)
  BY <1>1, <1>2, <1>3 DEF WriteFits, DigitCount
<1>6. ASSUME NEW k \in pos..(l.length - 1)
      PROVE  Covers(w1, k) \/ Covers(w2, k) \/ Covers(w3, k)
  BY <1>1, <1>2, <1>3 DEF Covers, DigitCount
<1>7. Laid(l, pos)
  BY <1>1, <1>4, <1>5, <1>6, ThreeWrites
<1>8. QED
  BY <1>7 DEF l

-----------------------------------------------------------------------------
(* Scientific form.                                                        *)

LEMMA ExponentLength ==
  ASSUME NEW x \in ExponentRange
  PROVE  \E n \in 1..4 : Len(ExponentText(x)) = n
<1> DEFINE mag == IF x < 0 THEN -x ELSE x
           digits == IF mag >= 100 THEN <<mag \div 100, (mag % 100) \div 10, mag % 10>>
                     ELSE IF mag >= 10 THEN <<mag \div 10, mag % 10>>
                     ELSE <<mag>>
<1>1. mag \in Nat /\ x \in Int
  BY DEF ExponentRange
<1>2. ExponentText(x) = IF x < 0 THEN <<Minus>> \o digits ELSE digits
  BY DEF ExponentText
<1> HIDE DEF mag
<1>3. digits \in Seq(Int) /\ \E n \in 1..3 : Len(digits) = n
  <2>1. CASE mag >= 100
    BY <1>1, <2>1
  <2>2. CASE mag < 100 /\ mag >= 10
    BY <1>1, <2>2
  <2>3. CASE mag < 10
    BY <1>1, <2>3
  <2>4. QED
    BY <1>1, <2>1, <2>2, <2>3
<1> HIDE DEF digits
<1>4. PICK n \in 1..3 : Len(digits) = n
  BY <1>3
<1>5. <<Minus>> \in Seq(Int) /\ Len(<<Minus>>) = 1
  BY DEF Minus
<1>6. Len(<<Minus>> \o digits) = 1 + n
  BY <1>3, <1>4, <1>5, ConcatProperties
<1>7. Len(ExponentText(x)) = IF x < 0 THEN 1 + n ELSE n
  BY <1>2, <1>4, <1>6
<1>8. QED
  BY <1>7

LEMMA ScientificFilled ==
  ASSUME NEW pos \in 0..1, NEW count \in DigitCount, NEW text, Len(text) = count,
         NEW x \in ExponentRange
  PROVE  Laid(Scientific(pos, text, count, x), pos)
<1> DEFINE l == Scientific(pos, text, count, x)
           point == IF count > 1 THEN <<Dot>> ELSE << >>
           after == IF count > 1 THEN pos + 1 + count ELSE pos + 1
           w1 == Digits(pos + 1, text, count)
           w2 == Write(pos, <<text[1]>>)
           w3 == Write(pos + 1, point)
           w4 == Write(after, <<Exp>>)
           w5 == Write(after + 1, ExponentText(x))
<1>1. PICK e \in 1..4 : Len(ExponentText(x)) = e
  BY ExponentLength
<1>2. l.length = after + 1 + e /\ l.writes = <<w1, w2, w3, w4, w5>>
  BY <1>1 DEF Scientific
<1>3. /\ w1.at = pos + 1 /\ Len(w1.bytes) = count
      /\ w2.at = pos /\ Len(w2.bytes) = 1
      /\ w3.at = pos + 1 /\ Len(w3.bytes) = (IF count > 1 THEN 1 ELSE 0)
      /\ w4.at = after /\ Len(w4.bytes) = 1
      /\ w5.at = after + 1 /\ Len(w5.bytes) = e
  BY <1>1 DEF Write, Digits, DigitCount
<1>4. after \in Nat /\ after = IF count > 1 THEN pos + 1 + count ELSE pos + 1
  BY DEF DigitCount
<1> HIDE DEF l, w1, w2, w3, w4, w5, after
<1>5. l.length \in (pos + 1)..FormatBufLen
  BY <1>1, <1>2, <1>4 DEF FormatBufLen, DigitCount
<1>6. /\ WriteFits(w1, l.length) /\ WriteFits(w2, l.length) /\ WriteFits(w3, l.length)
      /\ WriteFits(w4, l.length) /\ WriteFits(w5, l.length)
  BY <1>1, <1>2, <1>3, <1>4 DEF WriteFits, DigitCount
<1>7. ASSUME NEW k \in pos..(l.length - 1)
      PROVE  \/ Covers(w1, k) \/ Covers(w2, k) \/ Covers(w3, k)
             \/ Covers(w4, k) \/ Covers(w5, k)
  BY <1>1, <1>2, <1>3, <1>4 DEF Covers, DigitCount
<1>8. Laid(l, pos)
  BY <1>2, <1>5, <1>6, <1>7, FiveWrites
<1>9. QED
  BY <1>8 DEF l

-----------------------------------------------------------------------------

(* Negative or not, in any of the four forms: the text fits the buffer,    *)
(* no write goes past its end, and each of its bytes is written, the digits *)
(* written to the right of their place included.                           *)
THEOREM EveryByteIsWritten ==
  ASSUME NEW negative \in BOOLEAN, NEW count \in DigitCount, NEW text \in Seq(0..9),
         Len(text) = count, NEW exponent \in Int, count + exponent \in PointRange
  PROVE  Filled(Layout(negative, text, count, exponent), 0)
<1> DEFINE pos == IF negative THEN 1 ELSE 0
           point == count + exponent
           placed == Placed(pos, text, count, exponent)
           sign == Write(0, <<Minus>>)
           l == Layout(negative, text, count, exponent)
<1>1. pos \in 0..1 /\ count \in Nat /\ point \in Int
  BY DEF DigitCount, PointRange
<1> HIDE DEF pos
<1>2. Laid(placed, pos)
  <2>1. CASE point \notin FixedPoint
    <3>1. point - 1 \in ExponentRange
      BY DEF PointRange, ExponentRange
    <3>2. placed = Scientific(pos, text, count, point - 1)
      BY <2>1 DEF Placed
    <3>3. QED
      BY <1>1, <3>1, <3>2, ScientificFilled
  <2>2. CASE point \in FixedPoint /\ point <= 0
    <3>1. -point \in 0..6
      BY <1>1, <2>2 DEF FixedPoint
    <3>2. placed = Fraction(pos, text, count, -point)
      BY <2>2 DEF Placed
    <3>3. QED
      BY <1>1, <3>1, <3>2, FractionFilled
  <2>3. CASE point \in FixedPoint /\ point > 0 /\ point >= count
    <3>1. point - count \in Nat /\ count + (point - count) <= 21
      BY <1>1, <2>3 DEF FixedPoint
    <3>2. placed = Whole(pos, text, count, point - count)
      BY <1>1, <2>3 DEF Placed
    <3>3. QED
      BY <1>1, <3>1, <3>2, WholeFilled
  <2>4. CASE point \in FixedPoint /\ point > 0 /\ point < count
    <3>1. point \in 1..(count - 1)
      BY <1>1, <2>4
    <3>2. placed = Mixed(pos, text, count, point)
      BY <1>1, <2>4 DEF Placed
    <3>3. Len(SubSeq(text, 1, point)) = point
      BY <1>1, <3>1, PrefixLength
    <3>4. QED
      BY <1>1, <3>1, <3>2, <3>3, MixedFilled
  <2>5. QED
    BY <1>1, <2>1, <2>2, <2>3, <2>4
<1>3. l.length = placed.length /\ l.writes = <<sign>> \o placed.writes
  BY DEF Layout, pos
<1>4. /\ sign.at = 0 /\ Len(sign.bytes) = 1
  BY DEF Write
<1> HIDE DEF l, placed, sign
<1>5. PICK n \in Nat :
        /\ placed.writes \in Seq(WritesOf(placed))
        /\ Len(placed.writes) = n
        /\ DOMAIN placed.writes = 1..n
  BY <1>2, LenProperties DEF Laid
<1>6. /\ l.writes \in Seq(WritesOf(placed) \cup {sign})
      /\ DOMAIN l.writes = 1..(n + 1)
      /\ l.writes[1] = sign
      /\ \A j \in 1..n : l.writes[j + 1] = placed.writes[j]
  <2> DEFINE S == WritesOf(placed) \cup {sign}
  <2>1. <<sign>> \in Seq(S) /\ Len(<<sign>>) = 1 /\ <<sign>>[1] = sign
    OBVIOUS
  <2>2. placed.writes \in Seq(S)
    BY <1>5
  <2> HIDE DEF S
  <2>3. /\ l.writes \in Seq(S)
        /\ Len(l.writes) = 1 + n
        /\ \A i \in 1..(1 + n) :
             l.writes[i] = IF i <= 1 THEN <<sign>>[i] ELSE placed.writes[i - 1]
    <3>1. /\ <<sign>> \o placed.writes \in Seq(S)
          /\ Len(<<sign>> \o placed.writes) = Len(<<sign>>) + Len(placed.writes)
          /\ \A i \in 1..(Len(<<sign>>) + Len(placed.writes)) :
               (<<sign>> \o placed.writes)[i] =
                 IF i <= Len(<<sign>>) THEN <<sign>>[i]
                 ELSE placed.writes[i - Len(<<sign>>)]
      BY <2>1, <2>2, ConcatProperties
    <3>2. QED
      BY <1>3, <1>5, <2>1, <3>1
  <2>4. QED
    BY <1>5, <2>1, <2>3, LenProperties DEF S
<1>7. l.length \in 1..FormatBufLen
  BY <1>1, <1>2, <1>3 DEF Laid, Filled
<1>8. ASSUME NEW j \in DOMAIN l.writes
      PROVE  WriteFits(l.writes[j], l.length)
  <2>1. CASE j = 1
    <3>1. WriteFits(sign, l.length)
      BY <1>4, <1>7 DEF WriteFits
    <3>2. QED
      BY <1>6, <2>1, <3>1
  <2>2. CASE j # 1
    <3>1. j \in 1..(n + 1)
      BY <1>6
    <3>2. j - 1 \in 1..n /\ j = (j - 1) + 1
      BY <2>2, <3>1
    <3>3. l.writes[j] = placed.writes[j - 1]
      BY <1>6, <3>2
    <3>4. QED
      BY <1>2, <1>3, <1>5, <3>2, <3>3 DEF Laid, Filled
  <2>3. QED
    BY <2>1, <2>2
<1>9. ASSUME NEW k \in 0..(l.length - 1)
      PROVE  \E j \in DOMAIN l.writes : Covers(l.writes[j], k)
  <2>1. CASE k < pos
    <3>1. k = 0
      BY <1>1, <2>1
    <3>2. Covers(sign, 0)
      BY <1>4 DEF Covers
    <3>3. 1 \in DOMAIN l.writes /\ l.writes[1] = sign
      BY <1>6
    <3>4. QED
      BY <3>1, <3>2, <3>3
  <2>2. CASE k >= pos
    <3>1. k \in pos..(placed.length - 1)
      BY <1>1, <1>3, <1>7, <2>2
    <3>2. PICK j \in DOMAIN placed.writes : Covers(placed.writes[j], k)
      BY <1>2, <3>1 DEF Laid, Filled
    <3>3. j + 1 \in DOMAIN l.writes /\ l.writes[j + 1] = placed.writes[j]
      BY <1>5, <1>6, <3>2
    <3>4. QED
      BY <3>2, <3>3
  <2>3. QED
    BY <1>1, <1>7, <2>1, <2>2
<1>10. Filled(l, 0)
  BY <1>7, <1>8, <1>9 DEF Filled
<1>11. QED
  BY <1>10 DEF l

-----------------------------------------------------------------------------
Good(o) == IsSink(o) /\ Sound(o)

-----------------------------------------------------------------------------
(* The vector.                                                             *)

LEMMA FailGood ==
  ASSUME NEW o, Good(o), NEW e
  PROVE  Good(Fail(o, e)) /\ Fail(o, e).kind = o.kind
BY DEF Good, IsSink, SinkFields, Sound, Fail

LEMMA ReserveGood ==
  ASSUME NEW v, Good(v), v.kind = "bytes", NEW n \in Int
  PROVE  /\ Good(Reserve(v, n)) /\ Reserve(v, n).kind = "bytes"
         /\ Reserve(v, n).len = v.len
         /\ Failed(Reserve(v, n)) \/ Spare(Reserve(v, n)) >= n
<1>1. v.len \in Nat /\ v.cap \in Nat /\ v.len <= v.cap
  BY DEF Good, Sound
<1>2. CASE Spare(v) >= n
  BY <1>2 DEF Reserve
<1>3. CASE ~ (Spare(v) >= n) /\ v.len + n > VecMax
  <2>1. Reserve(v, n) = Fail(v, "CapacityOverflow")
    BY <1>3 DEF Reserve
  <2>2. Failed(Fail(v, "CapacityOverflow")) /\ Fail(v, "CapacityOverflow").len = v.len
    BY DEF Fail, Failed, Good, IsSink, SinkFields
  <2>3. QED
    BY <2>1, <2>2, FailGood
<1>4. CASE ~ (Spare(v) >= n) /\ ~ (v.len + n > VecMax)
  <2> DEFINE g == Grown(v, v.len + n)
  <2>1. Reserve(v, n) = g
    BY <1>4 DEF Reserve
  <2>2. /\ IsSink(g)
        /\ g.kind = v.kind /\ g.len = v.len /\ g.wild = v.wild
    BY DEF Grown, Good, IsSink, SinkFields
  <2>3. g.cap \in Nat /\ g.cap >= v.len + n /\ g.cap >= 2 * v.cap
    BY <1>1 DEF Grown, Good, IsSink, SinkFields
  <2>4. g.cap >= v.len
    BY <1>1, <2>3
  <2>5. Spare(g) >= n
    BY <1>1, <2>2, <2>3 DEF Spare
  <2>6. Good(g)
    BY <1>1, <2>2, <2>3, <2>4 DEF Good, Sound
  <2>7. QED
    BY <2>1, <2>2, <2>5, <2>6
<1>5. QED
  BY <1>2, <1>3, <1>4

LEMMA WriteAtEndGood ==
  ASSUME NEW v, Good(v), v.kind = "bytes", NEW layout, Fits(layout, Spare(v))
  PROVE  Good(WriteAtEnd(v, layout))
<1> DEFINE w == WriteAtEnd(v, layout)
<1>1. v.len \in Nat /\ v.cap \in Nat /\ v.len <= v.cap /\ v.wild = FALSE
  BY DEF Good, Sound
<1>2. layout.length \in Nat /\ layout.length <= v.cap - v.len
  BY <1>1 DEF Fits, Spare
<1>3. /\ IsSink(w) /\ w.kind = v.kind /\ w.cap = v.cap
      /\ w.len = v.len + layout.length
  BY DEF WriteAtEnd, Good, IsSink, SinkFields
<1>4. w.wild = (v.wild \/ ~ Fits(layout, Spare(v)))
  BY DEF WriteAtEnd, Good, IsSink, SinkFields
<1>5. w.wild = FALSE
  BY <1>1, <1>4
<1>6. QED
  BY <1>1, <1>2, <1>3, <1>5 DEF Good, Sound

LEMMA ExtendGood ==
  ASSUME NEW v, Good(v), v.kind = "bytes", NEW bytes, Len(bytes) \in Nat
  PROVE  Good(Extend(v, bytes)) /\ Extend(v, bytes).kind = "bytes"
<1> DEFINE n == Len(bytes)
           r == Reserve(v, n)
<1>1. /\ Good(r) /\ r.kind = "bytes"
      /\ Failed(r) \/ Spare(r) >= n
  BY ReserveGood
<1>2. CASE Failed(r)
  BY <1>1, <1>2 DEF Extend
<1>3. CASE ~ Failed(r)
  <2> DEFINE e == [r EXCEPT !.mem = Poked(@, r.len, <<Write(0, bytes)>>), !.len = @ + n]
  <2>1. Extend(v, bytes) = e
    BY <1>3 DEF Extend
  <2> HIDE DEF n, r
  <2>2. r.len \in Nat /\ r.cap \in Nat /\ r.cap - r.len >= n /\ r.wild = FALSE
    BY <1>1, <1>3 DEF Good, Sound, Spare
  <2>3. /\ IsSink(e) /\ e.kind = r.kind /\ e.cap = r.cap /\ e.wild = r.wild
        /\ e.len = r.len + n
    BY <1>1 DEF Good, IsSink, SinkFields
  <2>4. n \in Nat
    BY DEF n
  <2> HIDE DEF e
  <2>5. Good(e) /\ e.kind = "bytes"
    BY <1>1, <2>2, <2>3, <2>4 DEF Good, Sound
  <2>6. QED
    BY <2>1, <2>5
<1>4. QED
  BY <1>2, <1>3

-----------------------------------------------------------------------------
(* The methods of JsonWrite.                                               *)

LEMMA SendGood ==
  ASSUME NEW o, Good(o), o.kind # "bytes", NEW bytes
  PROVE  Good(Send(o, bytes))
<1>1. IsSink(Send(o, bytes)) /\ Send(o, bytes).kind = o.kind
  BY DEF Send, Good, IsSink, SinkFields
<1>2. Send(o, bytes).wild = o.wild
  BY DEF Send, Good, IsSink, SinkFields
<1>3. QED
  BY <1>1, <1>2 DEF Good, Sound

LEMMA WriteRawGood ==
  ASSUME NEW o, Good(o), NEW bytes, Len(bytes) \in Nat
  PROVE  Good(WriteRaw(o, bytes))
BY ExtendGood, SendGood DEF WriteRaw

LEMMA ReserveHintGood ==
  ASSUME NEW o, Good(o), NEW n \in Int
  PROVE  Good(ReserveHint(o, n))
<1>1. CASE o.kind = "bytes"
  <2> DEFINE r == Reserve(o, n)
  <2>1. Good(r) /\ r.kind = "bytes"
    BY <1>1, ReserveGood
  <2>2. ReserveHint(o, n) = [r EXCEPT !.grew = FALSE]
    BY <1>1 DEF ReserveHint
  <2> HIDE DEF r
  <2>3. QED
    BY <2>1, <2>2 DEF Good, Sound, IsSink, SinkFields
<1>2. CASE o.kind # "bytes"
  BY <1>2 DEF ReserveHint
<1>3. QED
  BY <1>1, <1>2

LEMMA WriteByteGood ==
  ASSUME NEW o, Good(o), NEW b
  PROVE  Good(WriteByte(o, b))
<1>1. Len(<<b>>) \in Nat
  OBVIOUS
<1>2. QED
  BY <1>1, WriteRawGood DEF WriteByte

LEMMA WriteByteHintedGood ==
  ASSUME NEW o, Good(o), NEW b
  PROVE  Good(WriteByteHinted(o, b))
<1>1. CASE o.kind = "bytes" /\ Spare(o) > 0
  <2> DEFINE w == Write(0, <<b>>)
             l == [length |-> 1, writes |-> <<w>>]
  <2>1. Spare(o) \in Nat /\ Spare(o) >= 1
    BY <1>1 DEF Good, Sound, Spare
  <2>2. w.at = 0 /\ Len(w.bytes) = 1
    BY DEF Write
  <2> HIDE DEF w
  <2>3. WriteFits(w, Spare(o))
    BY <2>1, <2>2 DEF WriteFits
  <2>4. DOMAIN l.writes = {1} /\ l.writes[1] = w /\ l.length = 1
    OBVIOUS
  <2>5. Fits(l, Spare(o))
    BY <2>1, <2>3, <2>4 DEF Fits
  <2>6. WriteByteHinted(o, b) = WriteAtEnd(o, l)
    BY <1>1 DEF WriteByteHinted, w
  <2>7. QED
    BY <1>1, <2>5, <2>6, WriteAtEndGood
<1>2. CASE ~ (o.kind = "bytes" /\ Spare(o) > 0)
  BY <1>2, WriteByteGood DEF WriteByteHinted
<1>3. QED
  BY <1>1, <1>2

(* A text rendered in a buffer it fits has the length of its layout.       *)
LEMMA BufferedText ==
  ASSUME NEW size \in Nat, NEW layout, Fits(layout, size)
  PROVE  /\ Buffered(layout, size).wild = FALSE
         /\ Len(Buffered(layout, size).text) = layout.length
<1> DEFINE buffer == Poked(Fill(size, Nul), 0, layout.writes)
           S == {buffer[i] : i \in 1..size}
<1>1. DOMAIN Fill(size, Nul) = 1..size /\ Len(Fill(size, Nul)) = size
  BY DEF Fill
<1>2. layout.length \in Nat /\ layout.length <= size
  BY DEF Fits
<1>3. \A i \in 1..layout.length : buffer[i] \in S
  BY <1>2
<1> HIDE DEF S, buffer
<1>4. Len(SubSeq(buffer, 1, layout.length)) = layout.length
  BY <1>2, <1>3, SubSeqProperties
<1>5. QED
  BY <1>4 DEF Buffered, buffer

-----------------------------------------------------------------------------
(* Numbers.                                                                *)

SignLength(negative) == IF negative THEN 1 ELSE 0

LEMMA DigitsBound ==
  ASSUME NEW x, Writable(x), x.how = "int"
  PROVE  \E count \in 1..IntBufLen :
           /\ count = FastDigitCount(x.mantissa)
           /\ Len(DigitsBackward(x.mantissa)) = count
           /\ count + SignLength(x.negative) <= IntBufLen
<1> DEFINE count == FastDigitCount(x.mantissa)
<1>1. /\ count \in 1..(IF x.negative THEN IntBufLen - 1 ELSE IntBufLen)
      /\ Len(DigitsBackward(x.mantissa)) = count
  BY DEF Writable
<1> HIDE DEF count
<1>2. count \in 1..IntBufLen /\ count + SignLength(x.negative) <= IntBufLen
  BY <1>1 DEF IntBufLen, SignLength
<1>3. QED
  BY <1>1, <1>2 DEF count

LEMMA IntLayoutFits ==
  ASSUME NEW x, Writable(x), x.how = "int", NEW negative \in BOOLEAN,
         negative => x.negative, NEW room \in Nat,
         room >= FastDigitCount(x.mantissa) + SignLength(negative)
  PROVE  Fits(IntLayout(negative, x.mantissa), room)
<1>1. PICK count \in 1..IntBufLen :
        /\ count = FastDigitCount(x.mantissa)
        /\ Len(DigitsBackward(x.mantissa)) = count
  BY DigitsBound
<1> DEFINE pos == SignLength(negative)
           sign == Write(0, IF negative THEN <<Minus>> ELSE << >>)
           digits == Digits(pos, DigitsBackward(x.mantissa), count)
           l == IntLayout(negative, x.mantissa)
<1>2. l.length = pos + count /\ l.writes = <<sign, digits>>
  BY <1>1 DEF IntLayout, SignLength
<1>3. sign.at = 0 /\ Len(sign.bytes) = pos
  BY DEF Write, SignLength
<1>4. digits.at = pos /\ Len(digits.bytes) = count
  BY <1>1 DEF Digits, Write, IntBufLen, SignLength
<1>5. pos \in 0..1 /\ room >= count + pos
  BY <1>1 DEF SignLength
<1> HIDE DEF pos, sign, digits, l
<1>6. WriteFits(sign, room) /\ WriteFits(digits, room)
  BY <1>1, <1>3, <1>4, <1>5 DEF WriteFits, IntBufLen
<1>7. DOMAIN l.writes = {1, 2} /\ l.writes[1] = sign /\ l.writes[2] = digits
  BY <1>2
<1>8. Fits(l, room)
  BY <1>1, <1>2, <1>5, <1>6, <1>7 DEF Fits, IntBufLen
<1>9. QED
  BY <1>8 DEF l

LEMMA FormatU64Good ==
  ASSUME NEW v, Good(v), v.kind = "bytes", NEW x, Writable(x), x.how = "int"
  PROVE  Good(FormatU64Direct(v, x.mantissa))
<1>1. PICK count \in 1..IntBufLen : count = FastDigitCount(x.mantissa)
  BY DigitsBound
<1> DEFINE r == Reserve(v, count)
<1>2. /\ Good(r) /\ r.kind = "bytes"
      /\ Failed(r) \/ Spare(r) >= count
  BY <1>1, ReserveGood DEF IntBufLen
<1>3. FormatU64Direct(v, x.mantissa) =
        IF Failed(r) THEN r ELSE WriteAtEnd(r, IntLayout(FALSE, x.mantissa))
  BY <1>1 DEF FormatU64Direct
<1> HIDE DEF r
<1>4. CASE ~ Failed(r)
  <2>1. Spare(r) \in Nat /\ Spare(r) >= count + 0
    BY <1>1, <1>2, <1>4 DEF Good, Sound, Spare
  <2>2. Fits(IntLayout(FALSE, x.mantissa), Spare(r))
    BY <1>1, <2>1, IntLayoutFits DEF SignLength
  <2>3. QED
    BY <1>2, <1>3, <1>4, <2>2, WriteAtEndGood
<1>5. QED
  BY <1>2, <1>3, <1>4

LEMMA WriteIntGood ==
  ASSUME NEW o, Good(o), NEW x, Writable(x), x.how = "int"
  PROVE  Good(WriteInt(o, x.negative, x.mantissa))
<1>1. CASE o.kind = "bytes"
  <2> DEFINE signed == IF x.negative THEN Extend(o, <<Minus>>) ELSE o
  <2>1. Len(<<Minus>>) \in Nat
    OBVIOUS
  <2>2. Good(signed) /\ signed.kind = "bytes"
    BY <1>1, <2>1, ExtendGood
  <2>3. WriteInt(o, x.negative, x.mantissa) =
          IF Failed(signed) THEN signed ELSE FormatU64Direct(signed, x.mantissa)
    BY <1>1 DEF WriteInt
  <2> HIDE DEF signed
  <2>4. QED
    BY <2>2, <2>3, FormatU64Good
<1>2. CASE o.kind # "bytes"
  <2> DEFINE l == IntLayout(x.negative, x.mantissa)
             b == Buffered(l, IntBufLen)
             u == [o EXCEPT !.wild = @ \/ b.wild]
  <2>1. IntBufLen >= FastDigitCount(x.mantissa) + SignLength(x.negative)
    BY DigitsBound DEF IntBufLen, SignLength
  <2>2. Fits(l, IntBufLen) /\ IntBufLen \in Nat
    BY <2>1, IntLayoutFits DEF IntBufLen, Writable
  <2> HIDE DEF l
  <2>3. b.wild = FALSE
    BY <2>2, BufferedText
  <2>4. WriteInt(o, x.negative, x.mantissa) = Send(u, b.text)
    BY <1>2 DEF WriteInt, l
  <2> HIDE DEF b
  <2>5. Good(u) /\ u.kind # "bytes"
    BY <1>2, <2>3 DEF Good, Sound, IsSink, SinkFields
  <2>6. QED
    BY <2>4, <2>5, SendGood
<1>3. QED
  BY <1>1, <1>2

(* A float's layout fits the buffer, and its text is at least one byte.    *)
LEMMA FloatLayoutFits ==
  ASSUME NEW x, Writable(x), x.how \in {"float", "decimal", "zero"}
  PROVE  Fits(FloatLayout(x), FormatBufLen)
<1>1. CASE x.how = "zero"
  <2> DEFINE text == IF x.negative THEN <<Minus, 0, Dot, 0>> ELSE <<0, Dot, 0>>
             w == Write(0, text)
             l == ZeroLayout(x.negative)
  <2>1. PICK n \in 3..4 : Len(text) = n
    OBVIOUS
  <2> HIDE DEF text
  <2>2. l.length = Len(text) /\ l.writes = <<w>> /\ w.at = 0 /\ w.bytes = text
    BY DEF ZeroLayout, text, Write
  <2>3. FloatLayout(x) = l
    BY <1>1 DEF FloatLayout
  <2> HIDE DEF l, w
  <2>4. l.length = n /\ Len(w.bytes) = n
    BY <2>1, <2>2
  <2>5. WriteFits(w, FormatBufLen) /\ l.length \in 0..FormatBufLen
    BY <2>2, <2>4 DEF WriteFits, FormatBufLen
  <2>6. DOMAIN l.writes = {1} /\ l.writes[1] = w
    BY <2>2
  <2>7. QED
    BY <2>3, <2>5, <2>6 DEF Fits
<1>2. CASE x.how \in {"float", "decimal"}
  <2> DEFINE d     == Shortest(x)
             text  == MantissaText(d.mantissa)
             count == MantissaDigitCount(d.mantissa)
             l     == Layout(x.negative, text, count, d.exponent)
  <2>1. /\ text \in Seq(0..9) /\ Len(text) = count /\ count \in DigitCount
        /\ d.exponent \in Int /\ count + d.exponent \in PointRange
    BY <1>2 DEF Writable, DigitCount, PointRange
  <2>2. FloatLayout(x) = l
    BY <1>2 DEF FloatLayout
  <2>3. Filled(l, 0)
    BY <2>1, EveryByteIsWritten DEF Writable
  <2> HIDE DEF l
  <2>4. l.length \in 0..FormatBufLen
    BY <2>3 DEF Filled, FormatBufLen
  <2>5. ASSUME NEW j \in DOMAIN l.writes
        PROVE  WriteFits(l.writes[j], FormatBufLen)
    <3> DEFINE w == l.writes[j]
               size == Len(w.bytes)
    <3>1. w.at \in Nat /\ w.at + size \in w.at..l.length
      BY <2>3 DEF Filled, WriteFits
    <3> HIDE DEF w, size
    <3>2. w.at + size \in w.at..FormatBufLen
      BY <2>4, <3>1 DEF FormatBufLen
    <3>3. QED
      BY <3>1, <3>2 DEF WriteFits, w, size
  <2>6. QED
    BY <2>2, <2>4, <2>5 DEF Fits
<1>3. QED
  BY <1>1, <1>2

LEMMA WriteFloatGood ==
  ASSUME NEW o, Good(o), NEW x, Writable(x),
         x.how \in {"float", "decimal", "zero", "nonfinite"}
  PROVE  Good(WriteFloat(o, x))
<1>1. CASE ~ IsFinite(x)
  BY <1>1, FailGood DEF WriteFloat
<1>2. CASE IsFinite(x)
  <2> DEFINE l == FloatLayout(x)
             b == Buffered(l, FormatBufLen)
             u == [o EXCEPT !.wild = @ \/ b.wild]
  <2>1. Fits(l, FormatBufLen) /\ FormatBufLen \in Nat
    BY <1>2, FloatLayoutFits DEF IsFinite, FormatBufLen
  <2> HIDE DEF l
  <2>2. b.wild = FALSE /\ Len(b.text) = l.length
    BY <2>1, BufferedText
  <2>3. l.length \in Nat
    BY <2>1 DEF Fits
  <2>4. WriteFloat(o, x) = WriteRaw(u, b.text)
    BY <1>2 DEF WriteFloat, l
  <2> HIDE DEF b
  <2>5. Good(u)
    BY <2>2 DEF Good, Sound, IsSink, SinkFields
  <2> HIDE DEF u
  <2>6. QED
    BY <2>2, <2>3, <2>4, <2>5, WriteRawGood
<1>3. QED
  BY <1>1, <1>2

LEMMA WriteFloatHintedGood ==
  ASSUME NEW o, Good(o), NEW x, Writable(x),
         x.how \in {"float", "decimal", "zero", "nonfinite"}
  PROVE  Good(WriteFloatHinted(o, x))
<1>1. CASE o.kind = "bytes" /\ IsFinite(x) /\ Spare(o) >= FormatBufLen
  <2> DEFINE l == FloatLayout(x)
  <2>1. Fits(l, FormatBufLen)
    BY <1>1, FloatLayoutFits DEF IsFinite
  <2>2. Spare(o) \in Nat /\ Spare(o) >= 32 /\ FormatBufLen = 32
    BY <1>1 DEF Good, Sound, Spare, FormatBufLen
  <2> HIDE DEF l
  <2>3. ASSUME NEW j \in DOMAIN l.writes
        PROVE  WriteFits(l.writes[j], Spare(o))
    <3> DEFINE w == l.writes[j]
               size == Len(w.bytes)
    <3>1. w.at \in Nat /\ w.at + size \in w.at..32
      BY <2>1, <2>2 DEF Fits, WriteFits
    <3> HIDE DEF w, size
    <3>2. w.at + size \in w.at..Spare(o)
      BY <2>2, <3>1
    <3>3. QED
      BY <3>1, <3>2 DEF WriteFits, w, size
  <2>4. l.length \in 0..Spare(o)
    BY <2>1, <2>2 DEF Fits
  <2>5. Fits(l, Spare(o))
    BY <2>3, <2>4 DEF Fits
  <2>6. WriteFloatHinted(o, x) = WriteAtEnd(o, l)
    BY <1>1 DEF WriteFloatHinted, l
  <2>7. QED
    BY <1>1, <2>5, <2>6, WriteAtEndGood
<1>2. CASE ~ (o.kind = "bytes" /\ IsFinite(x) /\ Spare(o) >= FormatBufLen)
  BY <1>2, WriteFloatGood DEF WriteFloatHinted
<1>3. QED
  BY <1>1, <1>2

-----------------------------------------------------------------------------
(* Elements and delimiters.                                                *)

LEMMA WriteWideIntGood ==
  ASSUME NEW o, Good(o), NEW x, Writable(x), x.how = "wide"
  PROVE  Good(WriteWideInt(o, x.negative, x.mantissa))
<1> DEFINE sign == IF x.negative THEN <<Minus>> ELSE << >>
           digits == DigitsBackward(x.mantissa)
<1>1. sign \in Seq(Int) /\ digits \in Seq(Int)
  BY DEF Minus, Writable
<1> HIDE DEF sign, digits
<1>2. Len(sign \o digits) \in Nat
  BY <1>1, ConcatProperties, LenProperties
<1>3. WriteWideInt(o, x.negative, x.mantissa) = WriteRaw(o, sign \o digits)
  BY DEF WriteWideInt, sign, digits
<1>4. QED
  BY <1>2, <1>3, WriteRawGood

LEMMA WriteQuotedGood ==
  ASSUME NEW o, Good(o), NEW bytes \in Seq(Int)
  PROVE  Good(WriteQuoted(o, bytes))
<1> DEFINE opened == WriteByte(o, Quote)
           body   == IF Failed(opened) \/ bytes = << >> THEN opened
                     ELSE WriteRaw(opened, bytes)
<1>1. Good(opened)
  BY WriteByteGood
<1>2. Len(bytes) \in Nat
  BY LenProperties
<1> HIDE DEF opened
<1>3. Good(body)
  BY <1>1, <1>2, WriteRawGood
<1>4. WriteQuoted(o, bytes) = IF Failed(body) THEN body ELSE WriteByte(body, Quote)
  BY DEF WriteQuoted, opened
<1> HIDE DEF body
<1>5. QED
  BY <1>3, <1>4, WriteByteGood

LEMMA WriteElementGood ==
  ASSUME NEW o, Good(o), NEW x, Writable(x)
  PROVE  Good(WriteElement(o, x))
<1>1. CASE x.how = "int"
  BY <1>1, WriteIntGood DEF WriteElement
<1>2. CASE x.how = "wide"
  BY <1>2, WriteWideIntGood DEF WriteElement
<1>3. CASE x.how = "word"
  <2>1. Len(x.bytes) \in Nat
    BY <1>3, LenProperties DEF Writable
  <2>2. WriteElement(o, x) = WriteRaw(o, x.bytes)
    BY <1>3 DEF WriteElement
  <2>3. QED
    BY <2>1, <2>2, WriteRawGood
<1>4. CASE x.how = "text"
  <2>1. x.bytes \in Seq(Int)
    BY <1>4 DEF Writable
  <2>2. WriteElement(o, x) = WriteQuoted(o, x.bytes)
    BY <1>4 DEF WriteElement
  <2>3. QED
    BY <2>1, <2>2, WriteQuotedGood
<1>5. CASE x.how \in {"float", "decimal", "zero", "nonfinite"}
  <2>1. WriteElement(o, x) = WriteFloatHinted(o, x)
    BY <1>5 DEF WriteElement
  <2>2. QED
    BY <1>5, <2>1, WriteFloatHintedGood
<1>6. QED
  BY <1>1, <1>2, <1>3, <1>4, <1>5 DEF Writable

LEMMA DelimiterGood ==
  ASSUME NEW o, Good(o), NEW b
  PROVE  Good(Delimiter(o, b))
BY WriteByteGood, WriteByteHintedGood DEF Delimiter

-----------------------------------------------------------------------------
(* The writer.                                                             *)

WithinSlice ==
  pc = "items" => head \in Nat /\ rest \in Nat /\ head + rest <= Count

Inv == Good(out) /\ job \in Jobs /\ WithinSlice

LEMMA SliceTypes ==
  ASSUME job \in Jobs
  PROVE  /\ Longest \in Nat /\ PerItem \in Nat /\ PerItem > 0
         /\ Count \in Nat /\ FullHint \in Int
         /\ Chunk \in Nat /\ Chunk <= Count
<1>1. Longest \in Nat /\ Count \in Nat
  BY JobsAssumption DEF Longest, Count
<1>2. PerItem \in Nat /\ PerItem > 0
  BY <1>1 DEF PerItem
<1>3. FullHint \in Int
  BY <1>1, <1>2 DEF FullHint
<1>4. ReserveWindow \div PerItem \in Int
  BY <1>2, ReserveWindowAssumption
<1>5. Chunk \in Nat /\ Chunk <= Count
  BY <1>1, <1>4 DEF Chunk
<1>6. QED
  BY <1>1, <1>2, <1>3, <1>5

LEMMA InitInv == Init => Inv
BY JobsAssumption DEF Init, Inv, WithinSlice, Good

LEMMA BeginGood ==
  ASSUME Good(out), NEW hint \in Int, Begin(hint)
  PROVE  Good(out') /\ pc' \in {"items", "done"}
<1> DEFINE hinted == IF hint = 0 THEN out ELSE ReserveHint(out, hint)
           o == IF Failed(hinted) THEN hinted ELSE Delimiter(hinted, Open)
<1>1. Good(hinted)
  BY ReserveHintGood
<1>2. out' = o /\ pc' = IF Failed(o) THEN "done" ELSE "items"
  BY DEF Begin, Continue
<1> HIDE DEF hinted
<1>3. Good(o)
  BY <1>1, DelimiterGood
<1> HIDE DEF o
<1>4. QED
  BY <1>2, <1>3

LEMMA ItemGood ==
  ASSUME Inv, WriteItem
  PROVE  Good(out')
<1> DEFINE done      == Count - head - rest
           separated == IF done = 0 THEN out ELSE Delimiter(out, Comma)
           x         == job.items[done + 1]
           o         == IF Failed(separated) THEN separated ELSE WriteElement(separated, x)
<1>1. done + 1 \in 1..Count
  BY SliceTypes DEF Inv, WithinSlice, WriteItem
<1>2. Writable(x)
  BY <1>1, JobsAssumption DEF Inv, Count
<1>3. Good(separated)
  BY DelimiterGood DEF Inv
<1>4. out' = o
  BY DEF WriteItem, Continue
<1> HIDE DEF x, separated
<1>5. Good(o)
  BY <1>2, <1>3, WriteElementGood
<1>6. QED
  BY <1>4, <1>5

LEMMA StepInv == Inv /\ [Next]_vars => Inv'
<1> SUFFICES ASSUME Inv, [Next]_vars
             PROVE  Inv'
  OBVIOUS
<1>1. job \in Jobs /\ Good(out)
  BY DEF Inv
<1>2. job' = job
  BY DEF Next, vars, WriteArray, WriteArrayHinted, WriteInWindows, WriteItem, NextWindow,
         EndArray
<1>3. Count' = Count
  BY <1>2 DEF Count
<1>4. CASE WriteArray
  <2>1. Good(out')
    BY <1>1, <1>4, BeginGood DEF WriteArray
  <2>2. WithinSlice'
    BY <1>1, <1>3, <1>4, SliceTypes DEF WriteArray, WithinSlice
  <2>3. QED
    BY <1>1, <1>2, <2>1, <2>2 DEF Inv
<1>5. CASE WriteArrayHinted
  <2>1. Good(out')
    BY <1>1, <1>5, SliceTypes, BeginGood DEF WriteArrayHinted
  <2>2. WithinSlice'
    BY <1>1, <1>3, <1>5, SliceTypes DEF WriteArrayHinted, WithinSlice
  <2>3. QED
    BY <1>1, <1>2, <2>1, <2>2 DEF Inv
<1>6. CASE WriteInWindows
  <2>1. Chunk * PerItem + 2 \in Int
    BY <1>1, SliceTypes
  <2>2. Good(out')
    BY <1>1, <1>6, <2>1, BeginGood DEF WriteInWindows
  <2>3. WithinSlice'
    BY <1>1, <1>3, <1>6, SliceTypes DEF WriteInWindows, WithinSlice
  <2>4. QED
    BY <1>1, <1>2, <2>2, <2>3 DEF Inv
<1>7. CASE WriteItem
  <2>1. Good(out')
    BY <1>7, ItemGood
  <2>2. WithinSlice'
    BY <1>1, <1>3, <1>7, SliceTypes DEF WriteItem, Continue, Inv, WithinSlice
  <2>3. QED
    BY <1>1, <1>2, <2>1, <2>2 DEF Inv
<1>8. CASE NextWindow
  <2>1. Chunk * PerItem \in Int
    BY <1>1, SliceTypes
  <2>2. Good(out')
    BY <1>1, <1>8, <2>1, ReserveHintGood DEF NextWindow, Continue
  <2>3. WithinSlice'
    BY <1>1, <1>3, <1>8, SliceTypes DEF NextWindow, Continue, Inv, WithinSlice
  <2>4. QED
    BY <1>1, <1>2, <2>2, <2>3 DEF Inv
<1>9. CASE EndArray
  <2>1. Good(out')
    BY <1>1, <1>9, DelimiterGood DEF EndArray, Continue
  <2>2. WithinSlice'
    BY <1>9 DEF EndArray, Continue, WithinSlice
  <2>3. QED
    BY <1>1, <1>2, <2>1, <2>2 DEF Inv
<1>10. CASE UNCHANGED vars
  BY <1>1, <1>3, <1>10 DEF vars, Inv, WithinSlice
<1>11. QED
  BY <1>4, <1>5, <1>6, <1>7, <1>8, <1>9, <1>10 DEF Next

(* Whatever is serialized, and however wrong the length a type declares:   *)
(* no unchecked write leaves the spare capacity or the buffer it was given *)
(* (RawWritesStayInside; ser.rs: the SAFETY comments).                     *)
THEOREM RawWritesAlwaysInside == Spec => []RawWritesStayInside
<1>1. Inv => RawWritesStayInside
  BY DEF Inv, Good, Sound, RawWritesStayInside
<1>2. QED
  BY InitInv, StepInv, <1>1, PTL DEF Spec

-----------------------------------------------------------------------------
(* How much room a write takes, where there is enough: no more than it     *)
(* writes, and the vector stays where it is.                               *)
Uses(o, r, n) ==
  /\ r.kind = o.kind /\ r.grew = o.grew
  /\ Spare(r) \in Int /\ Spare(r) >= Spare(o) - n

LEMMA SpareIs ==
  ASSUME NEW v, Good(v), v.kind = "bytes"
  PROVE  Spare(v) \in Nat /\ v.len \in Nat /\ v.cap \in Nat /\ Spare(v) = v.cap - v.len
BY DEF Good, Sound, Spare

LEMMA UsesNone ==
  ASSUME NEW v, Good(v), v.kind = "bytes", NEW n \in Nat
  PROVE  Uses(v, v, n)
BY SpareIs DEF Uses

LEMMA UsesThen ==
  ASSUME NEW o, NEW r, NEW q, Spare(o) \in Int, NEW m \in Nat, NEW n \in Nat, NEW k \in Nat,
         Uses(o, r, m), Uses(r, q, n), k >= m + n
  PROVE  Uses(o, q, k)
BY DEF Uses

LEMMA FailUses ==
  ASSUME NEW v, Good(v), v.kind = "bytes", NEW e, NEW n \in Nat
  PROVE  Uses(v, Fail(v, e), n)
<1>1. LET f == Fail(v, e)
      IN  f.kind = v.kind /\ f.grew = v.grew /\ f.cap = v.cap /\ f.len = v.len
  BY DEF Fail, Good, IsSink, SinkFields
<1>2. QED
  BY <1>1, SpareIs DEF Uses, Spare

LEMMA WriteAtEndUses ==
  ASSUME NEW v, Good(v), v.kind = "bytes", NEW layout, layout.length \in Nat
  PROVE  Uses(v, WriteAtEnd(v, layout), layout.length)
<1>1. LET w == WriteAtEnd(v, layout)
      IN  /\ w.kind = v.kind /\ w.grew = v.grew /\ w.cap = v.cap
          /\ w.len = v.len + layout.length
  BY DEF WriteAtEnd, Good, IsSink, SinkFields
<1>2. QED
  BY <1>1, SpareIs DEF Uses, Spare

LEMMA ExtendUses ==
  ASSUME NEW v, Good(v), v.kind = "bytes", NEW bytes, Len(bytes) \in Nat,
         Spare(v) >= Len(bytes)
  PROVE  Uses(v, Extend(v, bytes), Len(bytes))
<1> DEFINE n == Len(bytes)
           e == [v EXCEPT !.mem = Poked(@, v.len, <<Write(0, bytes)>>), !.len = @ + n]
<1>1. Reserve(v, n) = v
  BY DEF Reserve
<1>2. CASE Failed(v)
  BY <1>1, <1>2, UsesNone DEF Extend
<1>3. CASE ~ Failed(v)
  <2>1. Extend(v, bytes) = e
    BY <1>1, <1>3 DEF Extend
  <2>2. e.kind = v.kind /\ e.grew = v.grew /\ e.cap = v.cap /\ e.len = v.len + n
    BY DEF Good, IsSink, SinkFields
  <2> HIDE DEF e
  <2>3. Uses(v, e, n)
    BY <2>2, SpareIs DEF Uses, Spare
  <2>4. QED
    BY <2>1, <2>3
<1>4. QED
  BY <1>2, <1>3

LEMMA WriteRawUses ==
  ASSUME NEW v, Good(v), v.kind = "bytes", NEW bytes, Len(bytes) \in Nat,
         Spare(v) >= Len(bytes)
  PROVE  Uses(v, WriteRaw(v, bytes), Len(bytes))
BY ExtendUses DEF WriteRaw

LEMMA WriteByteUses ==
  ASSUME NEW v, Good(v), v.kind = "bytes", NEW b, Spare(v) >= 1
  PROVE  Uses(v, WriteByte(v, b), 1)
<1>1. Len(<<b>>) = 1
  OBVIOUS
<1>2. QED
  BY <1>1, WriteRawUses DEF WriteByte

LEMMA DelimiterUses ==
  ASSUME NEW v, Good(v), v.kind = "bytes", NEW b, Spare(v) >= 1
  PROVE  Uses(v, Delimiter(v, b), 1)
<1> DEFINE l == [length |-> 1, writes |-> <<Write(0, <<b>>)>>]
<1>1. Uses(v, WriteByte(v, b), 1)
  BY WriteByteUses
<1>2. l.length = 1
  OBVIOUS
<1> HIDE DEF l
<1>3. Uses(v, WriteAtEnd(v, l), 1)
  BY <1>2, WriteAtEndUses
<1>4. Spare(v) > 0
  BY SpareIs
<1>5. Delimiter(v, b) \in {WriteByte(v, b), WriteAtEnd(v, l)}
  BY <1>4 DEF Delimiter, WriteByteHinted, l
<1>6. QED
  BY <1>1, <1>3, <1>5

LEMMA FormatU64Uses ==
  ASSUME NEW v, Good(v), v.kind = "bytes", NEW x, Writable(x), x.how = "int",
         Spare(v) >= FastDigitCount(x.mantissa)
  PROVE  Uses(v, FormatU64Direct(v, x.mantissa), FastDigitCount(x.mantissa))
<1>1. PICK count \in 1..IntBufLen : count = FastDigitCount(x.mantissa)
  BY DigitsBound
<1> DEFINE l == IntLayout(FALSE, x.mantissa)
<1>2. count \in Nat
  BY <1>1 DEF IntBufLen
<1>3. l.length = count
  BY <1>1, <1>2 DEF IntLayout
<1> HIDE DEF l
<1>4. Reserve(v, count) = v
  BY <1>1 DEF Reserve
<1>5. FormatU64Direct(v, x.mantissa) = IF Failed(v) THEN v ELSE WriteAtEnd(v, l)
  BY <1>1, <1>4 DEF FormatU64Direct, l
<1>6. Uses(v, v, count) /\ Uses(v, WriteAtEnd(v, l), count)
  BY <1>2, <1>3, UsesNone, WriteAtEndUses
<1>7. QED
  BY <1>1, <1>5, <1>6

LEMMA WriteIntUses ==
  ASSUME NEW v, Good(v), v.kind = "bytes", NEW x, Writable(x), x.how = "int",
         Spare(v) >= TextLength(x)
  PROVE  TextLength(x) \in Nat /\ Uses(v, WriteInt(v, x.negative, x.mantissa), TextLength(x))
<1>1. PICK count \in 1..IntBufLen : count = FastDigitCount(x.mantissa)
  BY DigitsBound
<1>2. TextLength(x) = SignLength(x.negative) + count /\ count \in Nat
  BY <1>1 DEF TextLength, SignLength, IntBufLen
<1>3. CASE x.negative
  <2> DEFINE signed == Extend(v, <<Minus>>)
  <2>1. Len(<<Minus>>) = 1 /\ Spare(v) >= 1 /\ TextLength(x) = 1 + count
    BY <1>2, <1>3, SpareIs DEF SignLength
  <2>2. Uses(v, signed, 1) /\ Good(signed) /\ signed.kind = "bytes"
    BY <2>1, ExtendUses, ExtendGood
  <2>3. WriteInt(v, x.negative, x.mantissa) =
          IF Failed(signed) THEN signed ELSE FormatU64Direct(signed, x.mantissa)
    BY <1>3 DEF WriteInt
  <2> HIDE DEF signed
  <2>4. Spare(signed) >= count
    BY <1>2, <2>1, <2>2, SpareIs DEF Uses
  <2>5. Uses(signed, FormatU64Direct(signed, x.mantissa), count) /\ Uses(signed, signed, count)
    BY <1>1, <1>2, <2>2, <2>4, FormatU64Uses, UsesNone
  <2> DEFINE written == FormatU64Direct(signed, x.mantissa)
             k       == 1 + count
  <2>6. k \in Nat /\ k >= 1 + count /\ Spare(v) \in Int /\ k = TextLength(x)
    BY <1>2, <2>1, SpareIs
  <2>7. Uses(signed, written, count) /\ Uses(signed, signed, count)
    BY <2>5
  <2> HIDE DEF written, k
  <2>8. Uses(v, written, k)
    BY <1>2, <2>2, <2>6, <2>7, UsesThen
  <2>9. Uses(v, signed, k)
    BY <1>2, <2>2, <2>6, <2>7, UsesThen
  <2>10. WriteInt(v, x.negative, x.mantissa) \in {signed, written}
    BY <2>3 DEF written
  <2>11. QED
    BY <2>6, <2>8, <2>9, <2>10
<1>4. CASE ~ x.negative
  <2>1. WriteInt(v, x.negative, x.mantissa) = IF Failed(v) THEN v ELSE FormatU64Direct(v, x.mantissa)
    BY <1>4 DEF WriteInt
  <2>2. TextLength(x) = count
    BY <1>2, <1>4 DEF SignLength
  <2>3. Uses(v, v, count) /\ Uses(v, FormatU64Direct(v, x.mantissa), count)
    BY <1>1, <1>2, <2>2, UsesNone, FormatU64Uses
  <2>4. QED
    BY <1>2, <2>1, <2>2, <2>3
<1>5. QED
  BY <1>3, <1>4

LEMMA WriteQuotedUses ==
  ASSUME NEW v, Good(v), v.kind = "bytes", NEW bytes \in Seq(Int), Spare(v) >= Len(bytes) + 2
  PROVE  Uses(v, WriteQuoted(v, bytes), Len(bytes) + 2)
<1> DEFINE n      == Len(bytes)
           opened == WriteByte(v, Quote)
           body   == IF Failed(opened) \/ bytes = << >> THEN opened
                     ELSE WriteRaw(opened, bytes)
<1>1. n \in Nat /\ Spare(v) >= 1
  BY SpareIs, LenProperties
<1>2. Uses(v, opened, 1) /\ Good(opened)
  BY <1>1, WriteByteUses, WriteByteGood
<1>3. opened.kind = "bytes" /\ Spare(opened) >= n + 1
  BY <1>1, <1>2, SpareIs DEF Uses
<1>4. WriteQuoted(v, bytes) = IF Failed(body) THEN body ELSE WriteByte(body, Quote)
  BY DEF WriteQuoted
<1> HIDE DEF opened
<1>5. Spare(opened) >= n
  BY <1>1, <1>2, <1>3, SpareIs
<1>6. Uses(opened, body, n) /\ Good(body)
  BY <1>1, <1>2, <1>3, <1>5, WriteRawUses, UsesNone, WriteRawGood
<1> HIDE DEF body
<1>7. body.kind = "bytes" /\ Spare(body) >= 1
  BY <1>1, <1>3, <1>6, <1>2, SpareIs DEF Uses
<1>8. Uses(body, WriteByte(body, Quote), 1) /\ Uses(body, body, 1)
  BY <1>6, <1>7, WriteByteUses, UsesNone
<1> DEFINE closed == WriteByte(body, Quote)
           k      == 1 + n
           m      == n + 2
<1>9. k \in Nat /\ m \in Nat /\ k >= 1 + n /\ m >= k + 1 /\ Spare(v) \in Int
  BY <1>1, SpareIs
<1>10. Uses(body, closed, 1)
  BY <1>8
<1>11. WriteQuoted(v, bytes) \in {body, closed}
  BY <1>4
<1> HIDE DEF n, k, closed
<1>12. Uses(v, body, k)
  BY <1>1, <1>2, <1>6, <1>9, UsesThen
<1> HIDE DEF m
<1>13. Uses(v, closed, m)
  BY <1>9, <1>10, <1>12, UsesThen
<1>14. Uses(v, body, m)
  BY <1>8, <1>9, <1>12, UsesThen
<1>15. Uses(v, WriteQuoted(v, bytes), m)
  BY <1>11, <1>13, <1>14
<1>16. QED
  BY <1>15 DEF m, n
LEMMA UsesMore ==
  ASSUME NEW o, NEW r, Spare(o) \in Int, NEW m \in Nat, NEW k \in Nat, Uses(o, r, m), k >= m
  PROVE  Uses(o, r, k)
BY DEF Uses

LEMMA WriteWideIntUses ==
  ASSUME NEW v, Good(v), v.kind = "bytes", NEW x, Writable(x), x.how = "wide",
         Spare(v) >= TextLength(x)
  PROVE  TextLength(x) \in Nat /\ Uses(v, WriteWideInt(v, x.negative, x.mantissa), TextLength(x))
<1> DEFINE sign   == IF x.negative THEN <<Minus>> ELSE << >>
           digits == DigitsBackward(x.mantissa)
           bytes  == sign \o digits
<1>1. sign \in Seq(Int) /\ digits \in Seq(Int) /\ Len(sign) = SignLength(x.negative)
  BY DEF Minus, Writable, SignLength
<1>2. TextLength(x) = SignLength(x.negative) + Len(digits)
  BY DEF TextLength, SignLength
<1>3. WriteWideInt(v, x.negative, x.mantissa) = WriteRaw(v, bytes)
  BY DEF WriteWideInt
<1> HIDE DEF sign, digits
<1>4. Len(bytes) = Len(sign) + Len(digits)
  BY <1>1, ConcatProperties
<1>5. Len(sign) \in Nat /\ Len(digits) \in Nat
  BY <1>1, LenProperties
<1> HIDE DEF bytes
<1>6. Len(bytes) \in Nat /\ Len(bytes) = TextLength(x)
  BY <1>1, <1>2, <1>4, <1>5
<1>7. QED
  BY <1>3, <1>6, WriteRawUses

LEMMA WriteFloatHintedUses ==
  ASSUME NEW v, Good(v), v.kind = "bytes", NEW x, Writable(x), IsFloat(x),
         Spare(v) >= FormatBufLen
  PROVE  Uses(v, WriteFloatHinted(v, x), FormatBufLen)
<1>1. FormatBufLen \in Nat /\ Spare(v) \in Int
  BY SpareIs DEF FormatBufLen
<1>2. CASE ~ IsFinite(x)
  BY <1>1, <1>2, FailUses DEF WriteFloatHinted, WriteFloat
<1>3. CASE IsFinite(x)
  <2> DEFINE l == FloatLayout(x)
             n == l.length
  <2>1. x.how \in {"float", "decimal", "zero"}
    BY <1>3 DEF IsFloat, IsFinite
  <2>2. n \in Nat /\ n <= FormatBufLen
    BY <1>1, <2>1, FloatLayoutFits DEF Fits
  <2>3. WriteFloatHinted(v, x) = WriteAtEnd(v, l)
    BY <1>3 DEF WriteFloatHinted
  <2> HIDE DEF l
  <2>4. Uses(v, WriteAtEnd(v, l), n)
    BY <2>2, WriteAtEndUses
  <2> HIDE DEF n
  <2>5. QED
    BY <1>1, <2>2, <2>3, <2>4, UsesMore
<1>4. QED
  BY <1>2, <1>3

(* A value no longer than its type declares takes no more than that.       *)
LEMMA WriteElementUses ==
  ASSUME NEW v, Good(v), v.kind = "bytes", NEW x, Writable(x), NEW n \in Nat,
         Spare(v) >= n,
         IF IsFloat(x) THEN n >= FormatBufLen ELSE TextLength(x) <= n
  PROVE  Uses(v, WriteElement(v, x), n)
<1> DEFINE r == WriteElement(v, x)
           m == TextLength(x)
<1>1. Spare(v) \in Int
  BY SpareIs
<1>2. CASE IsFloat(x)
  <2>1. FormatBufLen \in Nat /\ Spare(v) >= FormatBufLen
    BY <1>1, <1>2 DEF FormatBufLen
  <2>2. r = WriteFloatHinted(v, x)
    BY <1>2 DEF WriteElement, IsFloat
  <2>3. Uses(v, r, FormatBufLen)
    BY <1>2, <2>1, <2>2, WriteFloatHintedUses
  <2> HIDE DEF r
  <2>4. Uses(v, r, n)
    BY <1>1, <1>2, <2>1, <2>3, UsesMore
  <2>5. QED
    BY <2>4 DEF r
<1>3. CASE x.how = "int"
  <2>1. m <= n
    BY <1>3 DEF IsFloat
  <2>2. r = WriteInt(v, x.negative, x.mantissa)
    BY <1>3 DEF WriteElement
  <2>3. m \in Nat
    <3>1. PICK count \in 1..IntBufLen : count = FastDigitCount(x.mantissa)
      BY <1>3, DigitsBound
    <3>2. m = SignLength(x.negative) + count
      BY <1>3, <3>1 DEF TextLength, SignLength
    <3>3. QED
      BY <3>1, <3>2 DEF SignLength, IntBufLen
  <2>4. Uses(v, r, m)
    <3>1. Spare(v) >= TextLength(x)
      BY <1>1, <2>1, <2>3
    <3>2. QED
      BY <1>3, <2>2, <3>1, WriteIntUses
  <2> HIDE DEF r, m
  <2>5. Uses(v, r, n)
    BY <1>1, <2>1, <2>3, <2>4, UsesMore
  <2>6. QED
    BY <2>5 DEF r
<1>4. CASE x.how = "wide"
  <2>1. m <= n
    BY <1>4 DEF IsFloat
  <2>2. r = WriteWideInt(v, x.negative, x.mantissa)
    BY <1>4 DEF WriteElement
  <2>3. m \in Nat
    <3>1. Len(DigitsBackward(x.mantissa)) \in Nat
      BY <1>4, LenProperties DEF Writable
    <3>2. QED
      BY <1>4, <3>1 DEF TextLength
  <2>4. Uses(v, r, m)
    <3>1. Spare(v) >= TextLength(x)
      BY <1>1, <2>1, <2>3
    <3>2. QED
      BY <1>4, <2>2, <3>1, WriteWideIntUses
  <2> HIDE DEF r, m
  <2>5. Uses(v, r, n)
    BY <1>1, <2>1, <2>3, <2>4, UsesMore
  <2>6. QED
    BY <2>5 DEF r
<1>5. CASE x.how = "word"
  <2>1. m <= n /\ m = Len(x.bytes) /\ m \in Nat
    BY <1>5, LenProperties DEF IsFloat, TextLength, Writable
  <2>2. r = WriteRaw(v, x.bytes)
    BY <1>5 DEF WriteElement
  <2>3. Uses(v, r, m)
    BY <1>1, <2>1, <2>2, WriteRawUses
  <2> HIDE DEF r, m
  <2>4. Uses(v, r, n)
    BY <1>1, <2>1, <2>3, UsesMore
  <2>5. QED
    BY <2>4 DEF r
<1>6. CASE x.how = "text"
  <2>1. x.bytes \in Seq(Int) /\ Len(x.bytes) \in Nat
    BY <1>6, LenProperties DEF Writable
  <2>2. m <= n /\ m = Len(x.bytes) + 2 /\ m \in Nat
    BY <1>6, <2>1 DEF IsFloat, TextLength
  <2>3. r = WriteQuoted(v, x.bytes)
    BY <1>6 DEF WriteElement
  <2>4. Uses(v, r, m)
    BY <1>1, <2>1, <2>2, <2>3, WriteQuotedUses
  <2> HIDE DEF r, m
  <2>5. Uses(v, r, n)
    BY <1>1, <2>2, <2>4, UsesMore
  <2>6. QED
    BY <2>5 DEF r
<1>7. QED
  BY <1>2, <1>3, <1>4, <1>5, <1>6 DEF Writable, IsFloat

LEMMA ReserveHintMakesRoom ==
  ASSUME NEW v, Good(v), v.kind = "bytes", NEW n \in Nat
  PROVE  LET r == ReserveHint(v, n)
         IN  r.kind = "bytes" /\ r.grew = FALSE /\ (Failed(r) \/ Spare(r) >= n)
<1> DEFINE q == Reserve(v, n)
           g == Grown(v, v.len + n)
           r == [q EXCEPT !.grew = FALSE]
<1>1. v.len \in Nat /\ v.cap \in Nat /\ Spare(v) = v.cap - v.len
  BY SpareIs
<1>2. Good(q) /\ q.kind = "bytes"
  BY ReserveGood
<1>3. g.cap >= v.len + n /\ g.len = v.len
  BY <1>1 DEF Grown, Good, IsSink, SinkFields
<1>4. Spare(g) >= n
  <2> HIDE DEF g
  <2>1. g.cap \in Int /\ g.len \in Int
    BY <1>1 DEF g, Grown, Good, IsSink, SinkFields
  <2>2. QED
    BY <1>1, <1>3, <2>1 DEF Spare
<1>5. Failed(q) \/ Spare(q) >= n
  <2>1. CASE Spare(v) >= n
    BY <2>1 DEF Reserve
  <2>2. CASE ~ (Spare(v) >= n) /\ v.len + n > VecMax
    <3>1. q = Fail(v, "CapacityOverflow")
      BY <2>2 DEF Reserve
    <3>2. Failed(Fail(v, "CapacityOverflow"))
      BY DEF Failed, Fail, Good, IsSink, SinkFields
    <3>3. QED
      BY <3>1, <3>2
  <2>3. CASE ~ (Spare(v) >= n) /\ ~ (v.len + n > VecMax)
    <3>1. q = g
      BY <2>3 DEF Reserve
    <3>2. QED
      BY <1>4, <3>1
  <2>4. QED
    BY <2>1, <2>2, <2>3
<1> HIDE DEF q, g
<1>6. r.kind = "bytes" /\ r.grew = FALSE /\ r.err = q.err /\ r.cap = q.cap /\ r.len = q.len
  BY <1>2 DEF Good, IsSink, SinkFields
<1>7. ReserveHint(v, n) = r
  BY DEF ReserveHint, q
<1> HIDE DEF r
<1>8. Failed(r) = Failed(q) /\ Spare(r) = Spare(q)
  BY <1>6 DEF Failed, Spare
<1>9. QED
  BY <1>5, <1>6, <1>7, <1>8
-----------------------------------------------------------------------------
(* The reservation.                                                        *)

Honestly == job.sink.kind = "bytes" /\ Longest # 0 /\ Honest

(* The bracket behind a slice that is reserved for as a whole.             *)
LastBracket == IF FullHint <= ReserveWindow THEN 1 ELSE 0

(* Room is left for what the window under way still holds; elements behind *)
(* it are there only where the slice was too long for one reservation.     *)
Reserved ==
  Honestly /\ pc # "done" =>
    /\ out.kind = "bytes" /\ ~ out.grew
    /\ pc = "items" => Spare(out) >= head * PerItem + LastBracket
    /\ pc = "items" /\ rest # 0 => LastBracket = 0

RInv == Inv /\ Reserved /\ ReservationHolds

LEMMA InitRInv == Init => RInv
<1> SUFFICES ASSUME Init PROVE RInv
  OBVIOUS
<1>1. job.sink.grew = FALSE
  BY JobsAssumption DEF Init
<1>2. QED
  BY <1>1, InitInv DEF Init, RInv, Reserved, ReservationHolds, Honestly

(* The hint covers the opening bracket and the window behind it.           *)
LEMMA BeginUses ==
  ASSUME Good(out), out.kind = "bytes", NEW room \in Nat, Begin(room + 1)
  PROVE  /\ out'.kind = "bytes" /\ out'.grew = FALSE
         /\ pc' = "items" => Spare(out') >= room
<1> DEFINE hinted == ReserveHint(out, room + 1)
           o      == IF Failed(hinted) THEN hinted ELSE Delimiter(hinted, Open)
<1>1. out' = o /\ pc' = IF Failed(o) THEN "done" ELSE "items"
  BY DEF Begin, Continue
<1>2. /\ Good(hinted) /\ hinted.kind = "bytes" /\ hinted.grew = FALSE
      /\ Failed(hinted) \/ Spare(hinted) >= room + 1
  <2> DEFINE n == room + 1
  <2>1. n \in Nat /\ n \in Int /\ n # 0
    OBVIOUS
  <2> HIDE DEF n
  <2>2. /\ Good(ReserveHint(out, n))
        /\ ReserveHint(out, n).kind = "bytes" /\ ReserveHint(out, n).grew = FALSE
        /\ Failed(ReserveHint(out, n)) \/ Spare(ReserveHint(out, n)) >= n
    BY <2>1, ReserveHintGood, ReserveHintMakesRoom
  <2>3. QED
    BY <2>2 DEF n
<1> HIDE DEF hinted
<1>3. CASE Failed(hinted)
  BY <1>1, <1>2, <1>3
<1>4. CASE ~ Failed(hinted)
  <2>1. Spare(hinted) \in Nat /\ Spare(hinted) >= room + 1 /\ Spare(hinted) >= 1
    BY <1>2, <1>4, SpareIs
  <2>2. Uses(hinted, o, 1)
    BY <1>2, <1>4, <2>1, DelimiterUses
  <2> HIDE DEF o
  <2>3. o.kind = "bytes" /\ o.grew = FALSE /\ Spare(o) >= room
    BY <1>2, <2>1, <2>2 DEF Uses
  <2>4. QED
    BY <1>1, <2>3
<1>5. QED
  BY <1>3, <1>4

(* An element and the comma before it take no more than was counted.       *)
LEMMA ItemUses ==
  ASSUME Inv, Honestly, out.kind = "bytes", WriteItem, Spare(out) >= PerItem
  PROVE  Uses(out, out', PerItem)
<1> DEFINE done      == Count - head - rest
           separated == IF done = 0 THEN out ELSE Delimiter(out, Comma)
           x         == job.items[done + 1]
           o         == IF Failed(separated) THEN separated ELSE WriteElement(separated, x)
<1>1. /\ Longest \in Nat /\ PerItem \in Nat /\ PerItem = Longest + 1
      /\ Good(out) /\ Spare(out) \in Nat
  BY SliceTypes, SpareIs DEF Inv, PerItem
<1>2. done + 1 \in 1..Count
  BY SliceTypes DEF Inv, WithinSlice, WriteItem
<1>3. Writable(x)
  BY <1>2, JobsAssumption DEF Inv, Count
<1>4. IF IsFloat(x) THEN Longest >= FormatBufLen ELSE TextLength(x) <= Longest
  BY <1>2 DEF Honestly, Honest
<1>5. out' = o
  BY DEF WriteItem, Continue
<1>6. Good(separated)
  BY <1>1, DelimiterGood
<1>7. Uses(out, separated, 1)
  <2>1. Uses(out, out, 1) /\ Spare(out) >= 1
    BY <1>1, UsesNone
  <2>2. Uses(out, Delimiter(out, Comma), 1)
    BY <1>1, <2>1, DelimiterUses
  <2>3. QED
    BY <2>1, <2>2
<1> HIDE DEF x, separated
<1>8. separated.kind = "bytes" /\ Spare(separated) >= Longest
  BY <1>1, <1>7 DEF Uses
<1>9. Uses(separated, WriteElement(separated, x), Longest)
  BY <1>1, <1>3, <1>4, <1>6, <1>8, WriteElementUses
<1>10. Uses(separated, separated, Longest)
  BY <1>1, <1>6, <1>8, UsesNone
<1>11. Uses(separated, o, Longest)
  BY <1>9, <1>10
<1> HIDE DEF o
<1>12. Uses(out, o, PerItem)
  BY <1>1, <1>7, <1>11, UsesThen
<1>13. QED
  BY <1>5, <1>12

LEMMA TimesSteps ==
  ASSUME NEW h \in Nat, NEW c \in Nat, NEW p \in Nat
  PROVE  /\ h * p \in Nat /\ (h + 1) * p = h * p + p
         /\ h <= c => h * p <= c * p
<1>1. h * p \in Nat /\ (h + 1) * p = h * p + p
  BY SMT
<1>2. ASSUME h <= c
      PROVE  h * p <= c * p
  <2>1. PICK d \in Nat : c = h + d
    <3>1. c - h \in Nat /\ c = h + (c - h)
      BY <1>2
    <3>2. QED
      BY <3>1
  <2>2. c * p = h * p + d * p /\ d * p \in Nat
    BY <2>1
  <2>3. QED
    BY <1>1, <2>2
<1>3. QED
  BY <1>1, <1>2

LEMMA StepRInv == RInv /\ [Next]_vars => RInv'
<1> SUFFICES ASSUME RInv, [Next]_vars
             PROVE  RInv'
  OBVIOUS
<1>1. Inv' /\ Inv /\ job \in Jobs /\ Good(out)
  BY StepInv DEF RInv, Inv
<1>2. job' = job
  BY DEF Next, vars, WriteArray, WriteArrayHinted, WriteInWindows, WriteItem, NextWindow,
         EndArray
<1>3. /\ Count' = Count /\ Longest' = Longest /\ PerItem' = PerItem
      /\ FullHint' = FullHint /\ LastBracket' = LastBracket /\ Honestly' = Honestly
  BY <1>2 DEF Count, Longest, PerItem, FullHint, LastBracket, Honestly, Honest
<1>4. /\ Longest \in Nat /\ PerItem \in Nat /\ Count \in Nat /\ FullHint \in Int
      /\ Chunk \in Nat /\ LastBracket \in {0, 1} /\ FullHint = Count * PerItem + 2
  BY <1>1, SliceTypes DEF LastBracket, FullHint
<1>5. Reserved' /\ ReservationHolds'
  <2> SUFFICES ASSUME Honestly
               PROVE  Reserved' /\ ReservationHolds'
    BY <1>2, <1>3 DEF Reserved, ReservationHolds, Honestly
  <2>1. /\ pc # "done" => out.kind = "bytes" /\ ~ out.grew
        /\ pc = "items" => Spare(out) >= head * PerItem + LastBracket
        /\ pc = "items" /\ rest # 0 => LastBracket = 0
        /\ out.grew => pc = "done" /\ FullHint > ReserveWindow
    BY DEF RInv, Reserved, ReservationHolds, Honestly
  (* What is left to show: the sink, what is still to come, the window.    *)
  <2>2. ASSUME out'.kind = "bytes", ~ out'.grew,
               pc' = "items" => Spare(out') >= head' * PerItem + LastBracket,
               pc' = "items" /\ rest' # 0 => LastBracket = 0,
               pc' # "start"
        PROVE  Reserved' /\ ReservationHolds'
    <3>1. Spare(out)' = Spare(out')
      BY DEF Spare
    <3>2. QED
      BY <1>3, <2>2, <3>1 DEF Reserved, ReservationHolds
  <2>3. CASE WriteArray
    BY <2>3 DEF WriteArray, Honestly
  <2>4. CASE WriteArrayHinted
    <3> DEFINE room == Count * PerItem + 1
    <3>1. room \in Nat /\ FullHint = room + 1 /\ LastBracket = 1
      BY <1>4, <2>4, TimesSteps DEF WriteArrayHinted, LastBracket
    <3>2. Begin(room + 1) /\ out.kind = "bytes" /\ head' = Count
      BY <2>1, <2>4, <3>1 DEF WriteArrayHinted
    <3> HIDE DEF room
    <3>3. /\ out'.kind = "bytes" /\ out'.grew = FALSE
          /\ pc' = "items" => Spare(out') >= room
      BY <1>1, <3>1, <3>2, BeginUses
    <3>4. pc' # "start"
      BY <3>2 DEF Begin, Continue
    <3>5. room = head' * PerItem + LastBracket
      BY <3>1, <3>2 DEF room
    <3>6. rest' = 0
      BY <2>4 DEF WriteArrayHinted
    <3>7. QED
      BY <2>2, <3>3, <3>4, <3>5, <3>6
  <2>5. CASE WriteInWindows
    <3> DEFINE room == Chunk * PerItem + 1
    <3>1. room \in Nat /\ Chunk * PerItem + 2 = room + 1 /\ Chunk * PerItem \in Nat
      BY <1>4, TimesSteps
    <3>2. Begin(room + 1) /\ out.kind = "bytes" /\ head' = Chunk
      BY <2>1, <2>5, <3>1 DEF WriteInWindows
    <3>3. room >= head' * PerItem + LastBracket /\ head' * PerItem + LastBracket \in Nat
      BY <1>4, <3>1, <3>2
    <3>4. Good(out')
      BY <1>1 DEF Inv
    <3> HIDE DEF room
    <3>5. /\ out'.kind = "bytes" /\ out'.grew = FALSE
          /\ pc' = "items" => Spare(out') >= room
      BY <1>1, <3>1, <3>2, BeginUses
    <3>6. pc' # "start"
      BY <3>2 DEF Begin, Continue
    <3>7. pc' = "items" => Spare(out') >= head' * PerItem + LastBracket
      BY <3>1, <3>3, <3>4, <3>5, SpareIs
    <3>8. LastBracket = 0
      BY <1>4, <2>5, ReserveWindowAssumption DEF WriteInWindows, LastBracket
    <3>9. QED
      BY <2>2, <3>5, <3>6, <3>7, <3>8
  <2>6. CASE WriteItem
    <3>1. pc = "items" /\ head \in Nat /\ head > 0 /\ head' = head - 1 /\ head' \in Nat
      BY <1>1, <2>6 DEF WriteItem, Inv, WithinSlice
    <3>2. head * PerItem = head' * PerItem + PerItem /\ head' * PerItem \in Nat
      <4>1. head = head' + 1
        BY <3>1
      <4>2. QED
        BY <1>4, <3>1, <4>1, TimesSteps
    <3>3. out.kind = "bytes" /\ ~ out.grew /\ Spare(out) \in Nat
          /\ Spare(out) >= head * PerItem + LastBracket
      BY <1>1, <2>1, <3>1, SpareIs
    <3>4. Spare(out) >= PerItem
      BY <1>4, <3>2, <3>3
    <3>5. Uses(out, out', PerItem)
      BY <1>1, <2>6, <3>3, <3>4, ItemUses
    <3>6. out'.kind = "bytes" /\ ~ out'.grew
      BY <3>3, <3>5 DEF Uses
    <3>7. Spare(out') >= head' * PerItem + LastBracket
      BY <1>4, <3>2, <3>3, <3>5 DEF Uses
    <3>8. pc' # "start"
      BY <2>6 DEF WriteItem, Continue
    <3>9. rest' = rest
      BY <2>6 DEF WriteItem
    <3>10. QED
      BY <2>1, <2>2, <3>1, <3>6, <3>7, <3>8, <3>9
  <2>7. CASE NextWindow
    <3> DEFINE hint == Chunk * PerItem
               o    == ReserveHint(out, hint)
    <3>1. pc = "items" /\ rest \in Nat /\ out' = o /\ pc' = (IF Failed(o) THEN "done" ELSE "items")
          /\ head' = (IF rest > Chunk THEN Chunk ELSE rest)
      BY <1>1, <2>7 DEF NextWindow, Continue, Inv, WithinSlice
    <3>2. hint \in Nat /\ head' \in Nat /\ head' <= Chunk
      BY <1>4, <3>1, TimesSteps
    <3>3. hint >= head' * PerItem /\ head' * PerItem \in Nat
      BY <1>4, <3>2, TimesSteps
    <3> HIDE DEF hint
    <3>4. o.kind = "bytes" /\ o.grew = FALSE /\ (Failed(o) \/ Spare(o) >= hint)
      BY <1>1, <2>1, <3>1, <3>2, ReserveHintMakesRoom
    <3> HIDE DEF o
    <3>5. LastBracket = 0
      BY <2>1, <2>7, <3>1 DEF NextWindow
    <3>6. Good(out')
      BY <1>1 DEF Inv
    <3>7. pc' = "items" => Spare(out') >= head' * PerItem + LastBracket
      BY <3>1, <3>2, <3>3, <3>4, <3>5, <3>6, SpareIs
    <3>8. QED
      BY <2>2, <3>1, <3>4, <3>5, <3>7
  <2>8. CASE EndArray
    <3> DEFINE o == Delimiter(out, Close)
    <3>1. pc = "items" /\ head = 0 /\ out' = o /\ pc' = "done"
      BY <2>8 DEF EndArray, Continue
    <3>2. out.kind = "bytes" /\ ~ out.grew
      BY <2>1, <3>1
    <3> HIDE DEF o
    <3>3. CASE FullHint > ReserveWindow
      BY <1>3, <3>1, <3>3 DEF Reserved, ReservationHolds
    <3>4. CASE ~ (FullHint > ReserveWindow)
      <4>1. LastBracket = 1
        BY <1>4, <3>4, ReserveWindowAssumption DEF LastBracket
      <4>2. head * PerItem = 0
        BY <1>4, <3>1
      <4>3. Spare(out) >= 1
        BY <2>1, <3>1, <4>1, <4>2
      <4>4. Uses(out, o, 1)
        BY <1>1, <3>2, <4>3, DelimiterUses DEF o
      <4>5. o.kind = "bytes" /\ ~ o.grew
        BY <3>2, <4>4 DEF Uses
      <4>6. QED
        BY <2>2, <3>1, <4>5
    <3>5. QED
      BY <3>3, <3>4
  <2>9. CASE UNCHANGED vars
    BY <1>3, <2>1, <2>9 DEF vars, Reserved, ReservationHolds, Spare
  <2>10. QED
    BY <2>3, <2>4, <2>5, <2>6, <2>7, <2>8, <2>9 DEF Next
<1>6. QED
  BY <1>1, <1>5 DEF RInv

(* Whatever is serialized, whatever the window: where no value is longer   *)
(* than its type declares, the vector is reallocated by reserve_hint only, *)
(* save for the last bracket of a slice written in windows                 *)
(* (ReservationHolds; ser.rs:1443-1475).                                   *)
THEOREM ReservationAlwaysHolds == Spec => []ReservationHolds
<1>1. RInv => ReservationHolds
  BY DEF RInv
<1>2. QED
  BY InitRInv, StepRInv, <1>1, PTL DEF Spec

-----------------------------------------------------------------------------
(* Sequences of whatever: the memory of a sink holds what it is given.     *)

IsSeq(s) == \E S : s \in Seq(S)

LEMMA SeqIs ==
  ASSUME NEW s, IsSeq(s)
  PROVE  /\ Len(s) \in Nat
         /\ s \in Seq({s[i] : i \in 1..Len(s)})
         /\ IsPrefix(s, s)
<1>1. PICK S : s \in Seq(S)
  BY DEF IsSeq
<1>2. Len(s) \in Nat /\ SubSeq(s, 1, Len(s)) = s
  BY <1>1, LenProperties, SubSeqFull
<1>3. SubSeq(s, 1, Len(s)) \in Seq({s[i] : i \in 1..Len(s)})
  <2> DEFINE T == {s[i] : i \in 1..Len(s)}
  <2>1. \A i \in 1..Len(s) : s[i] \in T
    OBVIOUS
  <2> HIDE DEF T
  <2>2. QED
    BY <1>2, <2>1, SubSeqProperties DEF T
<1>4. QED
  BY <1>2, <1>3 DEF IsPrefix

LEMMA JoinIs ==
  ASSUME NEW s, NEW t, IsSeq(s), IsSeq(t)
  PROVE  /\ IsSeq(s \o t)
         /\ Len(s \o t) = Len(s) + Len(t)
         /\ \A i \in 1..Len(s) : (s \o t)[i] = s[i]
         /\ \A i \in 1..Len(t) : (s \o t)[Len(s) + i] = t[i]
<1>1. PICK S, T : s \in Seq(S) /\ t \in Seq(T)
  BY DEF IsSeq
<1> DEFINE R == S \cup T
<1>2. s \in Seq(R) /\ t \in Seq(R)
  BY <1>1, SeqMonotonic
<1> HIDE DEF R
<1>3. /\ s \o t \in Seq(R) /\ Len(s \o t) = Len(s) + Len(t)
      /\ Len(s) \in Nat /\ Len(t) \in Nat
      /\ \A i \in 1..Len(s) + Len(t) : (s \o t)[i] = IF i <= Len(s) THEN s[i] ELSE t[i - Len(s)]
  BY <1>2, ConcatProperties, LenProperties
<1>4. IsSeq(s \o t)
  BY <1>3 DEF IsSeq
<1>5. ASSUME NEW i \in 1..Len(s) PROVE (s \o t)[i] = s[i]
  BY <1>3
<1>6. ASSUME NEW i \in 1..Len(t) PROVE (s \o t)[Len(s) + i] = t[i]
  <2>1. /\ Len(s) + i \in 1..Len(s) + Len(t) /\ ~ (Len(s) + i <= Len(s))
        /\ Len(s) + i - Len(s) = i
    BY <1>3
  <2>2. QED
    BY <1>3, <2>1
<1>7. QED
  BY <1>3, <1>4, <1>5, <1>6

LEMMA SameSeq ==
  ASSUME NEW s, NEW t, IsSeq(s), IsSeq(t), Len(s) = Len(t),
         \A i \in 1..Len(s) : s[i] = t[i]
  PROVE  s = t
<1>1. PICK S, T : s \in Seq(S) /\ t \in Seq(T)
  BY DEF IsSeq
<1>2. s \in Seq(S \cup T) /\ t \in Seq(S \cup T)
  BY <1>1, SeqMonotonic
<1>3. QED
  BY <1>2, SeqEqual

LEMMA JoinAgain ==
  ASSUME NEW s, NEW t, NEW u, IsSeq(s), IsSeq(t), IsSeq(u)
  PROVE  (s \o t) \o u = s \o (t \o u)
<1>1. PICK S, T, U : s \in Seq(S) /\ t \in Seq(T) /\ u \in Seq(U)
  BY DEF IsSeq
<1> DEFINE R == S \cup T \cup U
<1>2. s \in Seq(R) /\ t \in Seq(R) /\ u \in Seq(R)
  BY <1>1, SeqMonotonic
<1> HIDE DEF R
<1>3. QED
  BY <1>2, ConcatAssociative

LEMMA JoinNothing ==
  ASSUME NEW s, IsSeq(s)
  PROVE  s \o << >> = s /\ << >> \o s = s /\ IsSeq(<< >>) /\ Len(<< >>) = 0
<1>1. PICK S : s \in Seq(S)
  BY DEF IsSeq
<1>2. << >> \in Seq(S) /\ Len(<< >>) = 0
  BY EmptySeq
<1>3. QED
  BY <1>1, <1>2, ConcatEmptySeq DEF IsSeq

LEMMA OneIsSeq ==
  ASSUME NEW b
  PROVE  IsSeq(<<b>>) /\ Len(<<b>>) = 1 /\ <<b>>[1] = b
<1>1. <<b>> \in Seq({b})
  OBVIOUS
<1>2. QED
  BY <1>1 DEF IsSeq

LEMMA PartIs ==
  ASSUME NEW s, IsSeq(s), NEW n \in 0..Len(s)
  PROVE  /\ IsSeq(SubSeq(s, 1, n)) /\ Len(SubSeq(s, 1, n)) = n
         /\ \A i \in 1..n : SubSeq(s, 1, n)[i] = s[i]
<1> DEFINE T == {s[i] : i \in 1..Len(s)}
           p == SubSeq(s, 1, n)
<1>1. Len(s) \in Nat /\ n \in Nat
  BY SeqIs
<1>2. \A i \in 1..n : s[i] \in T
  BY <1>1
<1> HIDE DEF T
<1>3. /\ p \in Seq(T) /\ Len(p) = IF 1 <= n THEN n - 1 + 1 ELSE 0
      /\ \A i \in 1..n - 1 + 1 : p[i] = s[1 + i - 1]
  BY <1>1, <1>2, SubSeqProperties
<1> HIDE DEF p
<1>4. Len(p) = n /\ \A i \in 1..n : p[i] = s[i]
  <2>1. n - 1 + 1 = n
    BY <1>1
  <2>2. ASSUME NEW i \in 1..n PROVE p[i] = s[i]
    <3>1. 1 + i - 1 = i /\ i \in 1..n - 1 + 1
      BY <2>1
    <3>2. QED
      BY <1>3, <3>1
  <2>3. QED
    BY <1>1, <1>3, <2>1, <2>2
<1>5. QED
  BY <1>3, <1>4 DEF IsSeq, p

(* A prefix, place by place.                                               *)
LEMMA PrefixBy ==
  ASSUME NEW s, NEW t, IsSeq(s), IsSeq(t)
  PROVE  IsPrefix(s, t) <=> Len(s) <= Len(t) /\ \A i \in 1..Len(s) : s[i] = t[i]
<1>1. Len(s) \in Nat /\ Len(t) \in Nat
  BY SeqIs
<1>2. CASE Len(s) <= Len(t)
  <2>1. Len(s) \in 0..Len(s) /\ Len(s) \in 0..Len(t)
    BY <1>1, <1>2
  <2> DEFINE p == SubSeq(s, 1, Len(s))
             q == SubSeq(t, 1, Len(s))
  <2>2. /\ IsSeq(p) /\ Len(p) = Len(s) /\ \A i \in 1..Len(s) : p[i] = s[i]
        /\ IsSeq(q) /\ Len(q) = Len(s) /\ \A i \in 1..Len(s) : q[i] = t[i]
    BY <2>1, PartIs
  <2>3. IsPrefix(s, t) <=> p = q
    BY <1>2 DEF IsPrefix
  <2> HIDE DEF p, q
  <2>4. (\A i \in 1..Len(s) : p[i] = q[i]) => p = q
    BY <2>2, SameSeq
  <2>5. QED
    BY <1>2, <2>2, <2>3, <2>4
<1>3. CASE ~ (Len(s) <= Len(t))
  BY <1>3 DEF IsPrefix
<1>4. QED
  BY <1>2, <1>3

LEMMA PrefixOfJoin ==
  ASSUME NEW s, NEW t, NEW p, IsSeq(s), IsSeq(t), IsSeq(p), IsPrefix(p, s)
  PROVE  IsPrefix(p, s \o t)
<1>1. /\ IsSeq(s \o t) /\ Len(s \o t) = Len(s) + Len(t)
      /\ \A i \in 1..Len(s) : (s \o t)[i] = s[i]
  BY JoinIs
<1>2. Len(s) \in Nat /\ Len(t) \in Nat /\ Len(p) \in Nat
  BY SeqIs
<1>3. Len(p) <= Len(s) /\ \A i \in 1..Len(p) : p[i] = s[i]
  BY PrefixBy
<1>4. Len(p) <= Len(s \o t) /\ \A i \in 1..Len(p) : p[i] = (s \o t)[i]
  BY <1>1, <1>2, <1>3
<1>5. QED
  BY <1>1, <1>4, PrefixBy

-----------------------------------------------------------------------------
(* A layout that lies at the beginning of its place and leaves no byte of  *)
(* its length out is the text of its last writes, wherever it is put.      *)
Renders(l, x) ==
  /\ IsSeq(x) /\ l.length = Len(x)
  /\ \A j \in DOMAIN l.writes : l.writes[j].at \in Nat
  /\ \A k \in 0..(Len(x) - 1) :
       /\ Covering(l.writes, k) # {}
       /\ LET w == l.writes[LastWrite(l.writes, k)] IN w.bytes[k - w.at + 1] = x[k + 1]

LEMMA PokedIs ==
  ASSUME NEW mem, IsSeq(mem), NEW base \in Nat, NEW l, NEW x, Renders(l, x),
         base + Len(x) <= Len(mem)
  PROVE  LET p == Poked(mem, base, l.writes)
         IN  /\ IsSeq(p) /\ Len(p) = Len(mem)
             /\ \A i \in 1..base : p[i] = mem[i]
             /\ \A i \in 1..Len(x) : p[base + i] = x[i]
<1> DEFINE size == Len(mem)
           Byte(i) == LET k == i - 1 - base
                      IN  IF Covering(l.writes, k) = {} THEN mem[i]
                          ELSE LET w == l.writes[LastWrite(l.writes, k)]
                               IN  w.bytes[k - w.at + 1]
           p == [i \in 1..size |-> Byte(i)]
           S == {Byte(i) : i \in 1..size}
<1>1. size \in Nat /\ Len(x) \in Nat
  BY SeqIs DEF Renders
<1>2. Poked(mem, base, l.writes) = p
  BY DEF Poked
<1>3. ASSUME NEW i \in 1..base PROVE Byte(i) = mem[i]
  <2>1. i - 1 - base < 0
    OBVIOUS
  <2>2. Covering(l.writes, i - 1 - base) = {}
    BY <2>1 DEF Covering, Covers, Renders
  <2>3. QED
    BY <2>2
<1>4. ASSUME NEW i \in 1..Len(x) PROVE Byte(base + i) = x[i]
  <2>1. i - 1 \in 0..(Len(x) - 1) /\ (base + i) - 1 - base = i - 1 /\ i - 1 + 1 = i
    BY <1>1
  <2>2. /\ Covering(l.writes, i - 1) # {}
        /\ LET w == l.writes[LastWrite(l.writes, i - 1)] IN w.bytes[i - 1 - w.at + 1] = x[i - 1 + 1]
    BY <2>1 DEF Renders
  <2>3. QED
    BY <2>1, <2>2
<1> HIDE DEF Byte
<1>5. p \in Seq(S) /\ Len(p) = size
  BY <1>1
<1>6. \A i \in 1..base : p[i] = mem[i]
  <2>1. \A i \in 1..base : i \in 1..size
    BY <1>1
  <2>2. QED
    BY <1>3, <2>1
<1>7. \A i \in 1..Len(x) : p[base + i] = x[i]
  <2>1. \A i \in 1..Len(x) : base + i \in 1..size
    BY <1>1
  <2>2. QED
    BY <1>4, <2>1
<1>8. IsSeq(p)
  BY <1>5 DEF IsSeq
<1> HIDE DEF p
<1>9. QED
  BY <1>2, <1>5, <1>6, <1>7, <1>8

(* Behind what was there, its text follows.                                *)
LEMMA PokedBehind ==
  ASSUME NEW mem, IsSeq(mem), NEW base \in Nat, NEW l, NEW x, Renders(l, x),
         base + Len(x) <= Len(mem)
  PROVE  SubSeq(Poked(mem, base, l.writes), 1, base + Len(x)) = SubSeq(mem, 1, base) \o x
<1> DEFINE p == Poked(mem, base, l.writes)
           a == SubSeq(p, 1, base + Len(x))
           b == SubSeq(mem, 1, base)
<1>1. /\ IsSeq(p) /\ Len(p) = Len(mem)
      /\ \A i \in 1..base : p[i] = mem[i]
      /\ \A i \in 1..Len(x) : p[base + i] = x[i]
  BY PokedIs
<1>2. Len(x) \in Nat /\ Len(mem) \in Nat /\ IsSeq(x)
  BY SeqIs DEF Renders
<1> HIDE DEF p
<1>3. base + Len(x) \in 0..Len(p) /\ base \in 0..Len(mem)
  BY <1>1, <1>2
<1>4. /\ IsSeq(a) /\ Len(a) = base + Len(x) /\ \A i \in 1..base + Len(x) : a[i] = p[i]
      /\ IsSeq(b) /\ Len(b) = base /\ \A i \in 1..base : b[i] = mem[i]
  BY <1>1, <1>3, PartIs
<1> HIDE DEF a, b
<1>5. /\ IsSeq(b \o x) /\ Len(b \o x) = base + Len(x)
      /\ \A i \in 1..base : (b \o x)[i] = b[i]
      /\ \A i \in 1..Len(x) : (b \o x)[base + i] = x[i]
  BY <1>2, <1>4, JoinIs
<1>6. ASSUME NEW i \in 1..Len(a) PROVE a[i] = (b \o x)[i]
  <2>1. CASE i <= base
    <3>1. i \in 1..base /\ i \in 1..base + Len(x)
      BY <1>2, <1>4, <2>1
    <3>2. QED
      BY <1>1, <1>4, <1>5, <3>1
  <2>2. CASE ~ (i <= base)
    <3>1. PICK j \in 1..Len(x) : i = base + j
      <4>1. i - base \in 1..Len(x) /\ i = base + (i - base)
        BY <1>2, <1>4, <2>2
      <4>2. QED
        BY <4>1
    <3>2. i \in 1..base + Len(x)
      BY <1>4
    <3>3. QED
      BY <1>1, <1>4, <1>5, <3>1, <3>2
  <2>3. QED
    BY <2>1, <2>2
<1>7. a = b \o x
  BY <1>4, <1>5, <1>6, SameSeq
<1>8. QED
  BY <1>7 DEF a, b, p

(* In a buffer of its own, its text is all there is.                       *)
LEMMA BufferedIs ==
  ASSUME NEW size \in Nat, NEW l, NEW x, Renders(l, x), Len(x) <= size
  PROVE  Buffered(l, size).text = x
<1> DEFINE mem == Fill(size, Nul)
<1>1. mem \in Seq({Nul}) /\ Len(mem) = size
  BY DEF Fill
<1>2. IsSeq(mem)
  BY <1>1 DEF IsSeq
<1>3. Len(x) \in Nat /\ IsSeq(x) /\ l.length = Len(x)
  BY SeqIs DEF Renders
<1> HIDE DEF mem
<1>4. 0 + Len(x) = Len(x)
  BY <1>3
<1>5. SubSeq(Poked(mem, 0, l.writes), 1, Len(x)) = SubSeq(mem, 1, 0) \o x
  BY <1>1, <1>2, <1>4, PokedBehind
<1>6. SubSeq(mem, 1, 0) = << >>
  BY SubSeqEmpty
<1>7. SubSeq(mem, 1, 0) \o x = x
  BY <1>3, <1>6, JoinNothing
<1>8. Buffered(l, size).text = SubSeq(Poked(mem, 0, l.writes), 1, l.length)
  BY DEF Buffered, mem
<1>9. QED
  BY <1>3, <1>5, <1>7, <1>8

LEMMA OneWriteRenders ==
  ASSUME NEW b, IsSeq(b)
  PROVE  Renders([length |-> Len(b), writes |-> <<Write(0, b)>>], b)
<1> DEFINE w == Write(0, b)
           l == [length |-> Len(b), writes |-> <<w>>]
<1>1. w.at = 0 /\ w.bytes = b /\ Len(b) \in Nat
  BY SeqIs DEF Write
<1> HIDE DEF w
<1>2. l.length = Len(b) /\ l.writes[1] = w /\ DOMAIN l.writes = {1}
  OBVIOUS
<1> HIDE DEF l
<1>3. ASSUME NEW k \in 0..(Len(b) - 1)
      PROVE  /\ Covering(l.writes, k) # {}
             /\ LET u == l.writes[LastWrite(l.writes, k)] IN u.bytes[k - u.at + 1] = b[k + 1]
  <2>1. Covering(l.writes, k) = {1}
    BY <1>1, <1>2 DEF Covering, Covers
  <2>2. LastWrite(l.writes, k) = 1
    BY <2>1 DEF LastWrite
  <2>3. k - 0 + 1 = k + 1
    OBVIOUS
  <2>4. QED
    BY <1>1, <1>2, <2>1, <2>2, <2>3
<1>4. Renders(l, b)
  BY <1>1, <1>2, <1>3 DEF Renders
<1>5. QED
  BY <1>4 DEF l, w

SignText(negative) == IF negative THEN <<Minus>> ELSE << >>

(* The digits of an integer behind its sign.                               *)
LEMMA IntRenders ==
  ASSUME NEW x, Writable(x), x.how = "int", NEW negative \in BOOLEAN
  PROVE  /\ Renders(IntLayout(negative, x.mantissa), SignText(negative) \o DigitsBackward(x.mantissa))
         /\ IsSeq(SignText(negative)) /\ IsSeq(DigitsBackward(x.mantissa))
<1> DEFINE text == DigitsBackward(x.mantissa)
           sign == SignText(negative)
           pos == SignLength(negative)
           whole == sign \o text
<1>1. PICK count \in 1..IntBufLen : count = FastDigitCount(x.mantissa) /\ Len(text) = count
  BY DigitsBound
<1>2. IsSeq(text)
  BY DEF Writable, IsSeq
<1>3. IsSeq(sign) /\ Len(sign) = pos /\ pos \in 0..1
  <2>1. << >> \in Seq(Int) /\ <<Minus>> \in Seq(Int) /\ Len(<< >>) = 0 /\ Len(<<Minus>>) = 1
    BY DEF Minus
  <2>2. QED
    BY <2>1 DEF SignText, SignLength, IsSeq
<1> DEFINE first == Write(0, sign)
           second == Digits(pos, text, count)
           l == IntLayout(negative, x.mantissa)
<1>4. count \in Nat /\ pos \in Nat /\ pos + count - count = pos
  BY <1>1, <1>3 DEF IntBufLen
<1>5. l.length = pos + count /\ l.writes = <<first, second>>
  BY <1>1 DEF IntLayout, SignLength, SignText
<1>6. first.at = 0 /\ first.bytes = sign /\ second.at = pos /\ second.bytes = text
  BY <1>1, <1>4 DEF Digits, Write
<1> HIDE DEF text, sign, pos, first, second, l
<1>7. DOMAIN l.writes = {1, 2} /\ l.writes[1] = first /\ l.writes[2] = second
  BY <1>5
<1>8. /\ IsSeq(whole) /\ Len(whole) = pos + count
      /\ \A i \in 1..pos : whole[i] = sign[i]
      /\ \A i \in 1..count : whole[pos + i] = text[i]
  BY <1>1, <1>2, <1>3, JoinIs
<1> HIDE DEF whole
<1>9. ASSUME NEW k \in 0..(Len(whole) - 1)
      PROVE  /\ Covering(l.writes, k) # {}
             /\ LET w == l.writes[LastWrite(l.writes, k)] IN w.bytes[k - w.at + 1] = whole[k + 1]
  <2>1. k \in 0..(pos + count - 1)
    BY <1>4, <1>8
  <2>2. Covers(first, k) <=> k < pos
    BY <1>3, <1>4, <1>6, <2>1 DEF Covers
  <2>3. Covers(second, k) <=> k >= pos
    <3>1. second.at + Len(second.bytes) - 1 = pos + count - 1
      BY <1>1, <1>6
    <3>2. k \in pos..(pos + count - 1) <=> k >= pos
      BY <1>4, <2>1
    <3>3. QED
      BY <1>6, <3>1, <3>2 DEF Covers
  <2>4. CASE k < pos
    <3>1. Covering(l.writes, k) = {1}
      BY <1>4, <1>7, <2>1, <2>2, <2>3, <2>4 DEF Covering
    <3>2. LastWrite(l.writes, k) = 1
      BY <3>1 DEF LastWrite
    <3>3. k - 0 + 1 = k + 1 /\ k + 1 \in 1..pos
      BY <1>4, <2>1, <2>4
    <3>4. QED
      BY <1>6, <1>7, <1>8, <3>1, <3>2, <3>3
  <2>5. CASE ~ (k < pos)
    <3>1. Covering(l.writes, k) = {2}
      BY <1>4, <1>7, <2>1, <2>2, <2>3, <2>5 DEF Covering
    <3>2. LastWrite(l.writes, k) = 2
      BY <3>1 DEF LastWrite
    <3>3. k - pos + 1 \in 1..count /\ pos + (k - pos + 1) = k + 1
      BY <1>4, <2>1, <2>5
    <3>4. QED
      BY <1>6, <1>7, <1>8, <3>1, <3>2, <3>3
  <2>6. QED
    BY <2>4, <2>5
<1>10. \A j \in DOMAIN l.writes : l.writes[j].at \in Nat
  BY <1>4, <1>6, <1>7
<1>11. Renders(l, whole)
  BY <1>5, <1>8, <1>9, <1>10 DEF Renders
<1>12. QED
  BY <1>2, <1>3, <1>11 DEF l, whole, sign, text

(* A layout that leaves no byte out, as EveryByteIsWritten says.           *)
LEMMA FilledRenders ==
  ASSUME NEW l, Filled(l, 0)
  PROVE  /\ Renders(l, Buffered(l, FormatBufLen).text)
         /\ Len(Buffered(l, FormatBufLen).text) <= FormatBufLen
<1> DEFINE mem == Fill(FormatBufLen, Nul)
           p == Poked(mem, 0, l.writes)
           x == SubSeq(p, 1, l.length)
<1>1. l.length \in Nat /\ l.length <= FormatBufLen /\ FormatBufLen \in Nat
  BY DEF Filled, FormatBufLen
<1>2. mem \in Seq({Nul}) /\ Len(mem) = FormatBufLen
  BY <1>1 DEF Fill
<1> DEFINE Byte(i) == LET k == i - 1 - 0
                      IN  IF Covering(l.writes, k) = {} THEN mem[i]
                          ELSE LET w == l.writes[LastWrite(l.writes, k)]
                               IN  w.bytes[k - w.at + 1]
           S == {Byte(i) : i \in 1..FormatBufLen}
<1>3. p = [i \in 1..FormatBufLen |-> Byte(i)]
  BY <1>2 DEF Poked
<1> HIDE DEF mem
<1>4. IsSeq(p) /\ Len(p) = FormatBufLen /\ \A i \in 1..FormatBufLen : p[i] = Byte(i)
  <2> HIDE DEF Byte, p
  <2>1. p \in Seq(S) /\ Len(p) = FormatBufLen /\ \A i \in 1..FormatBufLen : p[i] = Byte(i)
    BY <1>1, <1>3
  <2>2. QED
    BY <2>1 DEF IsSeq
<1> HIDE DEF p
<1>5. l.length \in 0..Len(p)
  BY <1>1, <1>4
<1>6. IsSeq(x) /\ Len(x) = l.length /\ \A i \in 1..l.length : x[i] = p[i]
  BY <1>4, <1>5, PartIs
<1> HIDE DEF x
<1>7. ASSUME NEW k \in 0..(Len(x) - 1)
      PROVE  /\ Covering(l.writes, k) # {}
             /\ LET w == l.writes[LastWrite(l.writes, k)] IN w.bytes[k - w.at + 1] = x[k + 1]
  <2>1. \E j \in DOMAIN l.writes : Covers(l.writes[j], k)
    BY <1>6 DEF Filled
  <2>2. Covering(l.writes, k) # {}
    BY <2>1 DEF Covering
  <2>3. k + 1 \in 1..l.length /\ k + 1 \in 1..FormatBufLen /\ k + 1 - 1 - 0 = k
    BY <1>1, <1>6
  <2>4. x[k + 1] = Byte(k + 1)
    BY <1>4, <1>6, <2>3
  <2>5. QED
    BY <2>2, <2>3, <2>4
<1>8. \A j \in DOMAIN l.writes : l.writes[j].at \in Nat
  BY DEF Filled, WriteFits
<1>9. Renders(l, x)
  BY <1>6, <1>7, <1>8 DEF Renders
<1>10. Buffered(l, FormatBufLen).text = x
  BY DEF Buffered, x, p, mem
<1>11. QED
  BY <1>1, <1>6, <1>9, <1>10

LEMMA FloatRenders ==
  ASSUME NEW x, Writable(x), x.how \in {"float", "decimal", "zero"}
  PROVE  /\ Renders(FloatLayout(x), Buffered(FloatLayout(x), FormatBufLen).text)
         /\ Fits(FloatLayout(x), FormatBufLen)
<1>1. CASE x.how = "zero"
  <2> DEFINE text == IF x.negative THEN <<Minus, 0, Dot, 0>> ELSE <<0, Dot, 0>>
             l == [length |-> Len(text), writes |-> <<Write(0, text)>>]
  <2>1. text \in Seq(Int) /\ Len(text) <= 4 /\ 4 <= FormatBufLen /\ Len(text) \in Nat
    BY DEF Minus, Dot, FormatBufLen
  <2>2. FloatLayout(x) = l
    BY <1>1 DEF FloatLayout, ZeroLayout
  <2> HIDE DEF text
  <2>3. IsSeq(text) /\ Len(text) <= FormatBufLen /\ FormatBufLen \in Nat
    BY <2>1 DEF IsSeq, FormatBufLen
  <2>4. Renders(l, text)
    BY <2>3, OneWriteRenders
  <2> HIDE DEF l
  <2>5. Buffered(l, FormatBufLen).text = text
    BY <2>3, <2>4, BufferedIs
  <2>6. QED
    BY <1>1, <2>2, <2>4, <2>5, FloatLayoutFits
<1>2. CASE x.how \in {"float", "decimal"}
  <2> DEFINE d     == Shortest(x)
             text  == MantissaText(d.mantissa)
             count == MantissaDigitCount(d.mantissa)
             l     == Layout(x.negative, text, count, d.exponent)
  <2>1. /\ text \in Seq(0..9) /\ Len(text) = count /\ count \in DigitCount
        /\ d.exponent \in Int /\ count + d.exponent \in PointRange
    BY <1>2 DEF Writable, DigitCount, PointRange
  <2>2. FloatLayout(x) = l
    BY <1>2 DEF FloatLayout
  <2>3. Filled(l, 0)
    BY <2>1, EveryByteIsWritten DEF Writable
  <2> HIDE DEF l
  <2>4. QED
    BY <1>2, <2>2, <2>3, FilledRenders, FloatLayoutFits
<1>3. QED
  BY <1>1, <1>2

-----------------------------------------------------------------------------
(* A sink that was like z and then was sent the text behind z's: it has    *)
(* all of it, t, or has failed with a prefix.                              *)
Solid(o) ==
  /\ Good(o) /\ IsSeq(o.mem)
  /\ IF o.kind = "bytes" THEN Len(o.mem) = o.cap ELSE o.len = Len(o.mem)

ShortWrite(o) == IF o.kind = "io" THEN "Io" ELSE "TypeMismatch"

Took(z, o, t) ==
  /\ Solid(o) /\ o.kind = z.kind
  /\ IsSeq(t) /\ IsPrefix(Written(o), t)
  /\ \/ /\ o.err = "none" /\ Written(o) = t
        /\ o.kind # "bytes" => o.room \in Nat /\ o.room + Len(t) = z.room
     \/ o.err = "CapacityOverflow" /\ o.kind = "bytes"
     \/ /\ o.err = ShortWrite(o) /\ o.kind # "bytes"
        /\ Len(Written(o)) = z.room /\ z.room < Len(t)

LEMMA SolidWritten ==
  ASSUME NEW o, Solid(o)
  PROVE  /\ IsSeq(Written(o)) /\ o.len \in Nat /\ Len(Written(o)) = o.len
         /\ \A i \in 1..o.len : Written(o)[i] = o.mem[i]
         /\ Len(o.mem) \in Nat /\ o.len <= Len(o.mem)
         /\ o.kind # "bytes" => Written(o) = o.mem
<1>1. Len(o.mem) \in Nat
  BY SeqIs DEF Solid
<1>2. o.len \in 0..Len(o.mem)
  BY <1>1 DEF Solid, Good, Sound
<1>3. /\ IsSeq(Written(o)) /\ Len(Written(o)) = o.len
      /\ \A i \in 1..o.len : Written(o)[i] = o.mem[i]
  BY <1>2, PartIs DEF Written, Solid
<1>4. o.kind # "bytes" => Written(o) = o.mem
  BY <1>2, <1>3, SameSeq DEF Solid
<1>5. QED
  BY <1>1, <1>2, <1>3, <1>4

LEMMA TookAll ==
  ASSUME NEW z, NEW o, NEW t, Took(z, o, t), ~ Failed(o)
  PROVE  /\ Solid(o) /\ Good(o) /\ o.kind = z.kind /\ o.err = "none"
         /\ Written(o) = t /\ IsSeq(t) /\ o.len = Len(t) /\ Len(t) \in Nat
         /\ o.kind # "bytes" => o.room \in Nat /\ o.room + Len(t) = z.room /\ o.mem = t
<1>1. o.err = "none" /\ Solid(o)
  BY DEF Took, Failed
<1>2. o.err # "CapacityOverflow" /\ o.err # ShortWrite(o)
  BY <1>1 DEF ShortWrite
<1>3. QED
  BY <1>1, <1>2, SolidWritten, SeqIs DEF Took, Solid

(* After a failure nothing more is sent, and it is a prefix of more.       *)
LEMMA TookMore ==
  ASSUME NEW z, NEW o, NEW t, NEW s, Took(z, o, t), Failed(o), IsSeq(s)
  PROVE  Took(z, o, t \o s)
<1>1. IsSeq(t) /\ IsSeq(Written(o)) /\ IsPrefix(Written(o), t)
  BY SolidWritten DEF Took
<1>2. IsPrefix(Written(o), t \o s) /\ IsSeq(t \o s)
  BY <1>1, PrefixOfJoin, JoinIs
<1>3. Len(t) \in Nat /\ Len(s) \in Nat /\ Len(t \o s) = Len(t) + Len(s)
      /\ Len(Written(o)) \in Nat
  BY <1>1, JoinIs, SeqIs
<1>4. Len(Written(o)) = z.room /\ z.room < Len(t) => z.room < Len(t \o s)
  BY <1>3
<1>5. QED
  BY <1>2, <1>4 DEF Took, Failed

LEMMA FailTook ==
  ASSUME NEW z, NEW v, NEW t, Took(z, v, t), ~ Failed(v), v.kind = "bytes"
  PROVE  Took(z, Fail(v, "CapacityOverflow"), t)
<1> DEFINE f == Fail(v, "CapacityOverflow")
<1>1. /\ f.kind = v.kind /\ f.mem = v.mem /\ f.len = v.len /\ f.cap = v.cap
      /\ f.err = "CapacityOverflow" /\ Good(f)
  BY FailGood, TookAll DEF Fail, Good, IsSink, SinkFields
<1> HIDE DEF f
<1>2. Written(f) = Written(v) /\ Solid(f)
  BY <1>1 DEF Written, Solid, Took
<1>3. QED
  BY <1>1, <1>2 DEF Took, f

LEMMA ReserveTook ==
  ASSUME NEW z, NEW v, NEW t, Took(z, v, t), ~ Failed(v), v.kind = "bytes", NEW n \in Int
  PROVE  Took(z, Reserve(v, n), t)
<1>1. Solid(v) /\ Good(v) /\ v.err = "none" /\ Written(v) = t
  BY TookAll
<1>2. v.len \in Nat /\ v.cap \in Nat /\ v.len <= v.cap
  BY <1>1 DEF Good, Sound
<1>3. CASE Spare(v) >= n
  BY <1>3 DEF Reserve
<1>4. CASE ~ (Spare(v) >= n) /\ v.len + n > VecMax
  BY <1>4, FailTook DEF Reserve
<1>5. CASE ~ (Spare(v) >= n) /\ ~ (v.len + n > VecMax)
  <2> DEFINE needed == v.len + n
             least == IF needed > 8 THEN needed ELSE 8
             capacity == IF least > 2 * v.cap THEN least ELSE 2 * v.cap
             rest1 == Fill(capacity - v.len, Uninit)
             g == Grown(v, needed)
  <2>1. Reserve(v, n) = g
    BY <1>5 DEF Reserve
  <2>2. capacity \in Nat /\ capacity - v.len \in Nat
    BY <1>2
  <2>3. /\ g.kind = v.kind /\ g.err = v.err /\ g.len = v.len
        /\ g.cap = capacity /\ g.mem = Written(v) \o rest1
    BY <1>1 DEF Grown, Good, IsSink, SinkFields
  <2>4. Good(g)
    BY <1>1, <2>1, ReserveGood
  <2>5. rest1 \in Seq({Uninit}) /\ Len(rest1) = capacity - v.len
    BY <2>2 DEF Fill
  <2> HIDE DEF g, rest1, capacity
  <2>6. IsSeq(rest1)
    BY <2>5 DEF IsSeq
  <2>7. IsSeq(Written(v)) /\ Len(Written(v)) = v.len
    BY <1>1, SolidWritten
  <2>8. /\ IsSeq(g.mem) /\ Len(g.mem) = v.len + (capacity - v.len)
        /\ \A i \in 1..v.len : g.mem[i] = Written(v)[i]
    <3> DEFINE a == Written(v)
    <3>1. g.mem = a \o rest1 /\ IsSeq(a) /\ Len(a) = v.len
      BY <2>3, <2>7
    <3> HIDE DEF a
    <3>2. /\ IsSeq(a \o rest1) /\ Len(a \o rest1) = Len(a) + Len(rest1)
          /\ \A i \in 1..Len(a) : (a \o rest1)[i] = a[i]
      BY <2>6, <3>1, JoinIs
    <3>3. /\ IsSeq(g.mem) /\ Len(g.mem) = v.len + (capacity - v.len)
          /\ \A i \in 1..v.len : g.mem[i] = a[i]
      BY <2>5, <3>1, <3>2
    <3>4. QED
      BY <3>3 DEF a
  <2>9. Solid(g)
    BY <1>2, <2>2, <2>3, <2>4, <2>8 DEF Solid
  <2>10. Written(g) = Written(v)
    <3>1. /\ IsSeq(Written(g)) /\ Len(Written(g)) = v.len
          /\ \A i \in 1..v.len : Written(g)[i] = g.mem[i]
      BY <2>3, <2>9, SolidWritten
    <3>2. QED
      BY <2>7, <2>8, <3>1, SameSeq
  <2>11. QED
    BY <1>1, <2>1, <2>3, <2>9, <2>10 DEF Took
<1>6. QED
  BY <1>3, <1>4, <1>5

LEMMA ReserveHintTook ==
  ASSUME NEW z, NEW o, NEW t, Took(z, o, t), ~ Failed(o), NEW n \in Int
  PROVE  Took(z, ReserveHint(o, n), t)
<1>1. CASE o.kind = "bytes"
  <2> DEFINE r == Reserve(o, n)
             h == [r EXCEPT !.grew = FALSE]
  <2>1. Took(z, r, t) /\ r.kind = "bytes"
    BY <1>1, ReserveTook, ReserveGood, TookAll
  <2>2. ReserveHint(o, n) = h
    BY <1>1 DEF ReserveHint
  <2>3. Good(h)
    <3>1. Good(ReserveHint(o, n))
      BY ReserveHintGood, TookAll
    <3> HIDE DEF h
    <3>2. QED
      BY <2>2, <3>1
  <2> HIDE DEF r
  <2>4. /\ h.kind = r.kind /\ h.err = r.err /\ h.len = r.len /\ h.cap = r.cap /\ h.mem = r.mem
    BY <2>1 DEF Took, Solid, Good, IsSink, SinkFields
  <2> HIDE DEF h
  <2>5. Solid(h) /\ Written(h) = Written(r)
    BY <2>1, <2>3, <2>4 DEF Took, Solid, Written
  <2>6. QED
    BY <2>1, <2>2, <2>4, <2>5 DEF Took
<1>2. CASE o.kind # "bytes"
  BY <1>2 DEF ReserveHint
<1>3. QED
  BY <1>1, <1>2

(* A layout put behind the end of a vector that has room for it.           *)
LEMMA PutBehind ==
  ASSUME NEW z, NEW v, NEW t, Took(z, v, t), ~ Failed(v), v.kind = "bytes",
         NEW l, NEW x, Renders(l, x), Len(x) <= Spare(v),
         NEW w, Good(w), w.kind = v.kind, w.err = v.err, w.cap = v.cap,
         w.len = v.len + Len(x), w.mem = Poked(v.mem, v.len, l.writes)
  PROVE  Took(z, w, t \o x)
<1>1. Solid(v) /\ v.err = "none" /\ Written(v) = t /\ v.kind = z.kind
  BY TookAll
<1>2. v.len \in Nat /\ v.cap \in Nat /\ Len(v.mem) = v.cap /\ IsSeq(v.mem)
  BY <1>1 DEF Solid, Good, Sound
<1>3. Len(x) \in Nat /\ IsSeq(x)
  BY SeqIs DEF Renders
<1>4. v.len + Len(x) <= Len(v.mem)
  BY <1>2, <1>3 DEF Spare
<1>5. IsSeq(w.mem) /\ Len(w.mem) = Len(v.mem)
  BY <1>2, <1>4, PokedIs
<1>6. Written(w) = t \o x
  <2>1. SubSeq(Poked(v.mem, v.len, l.writes), 1, v.len + Len(x)) = SubSeq(v.mem, 1, v.len) \o x
    <3> DEFINE mem == v.mem
               base == v.len
    <3>1. IsSeq(mem) /\ base \in Nat /\ base + Len(x) <= Len(mem)
      BY <1>2, <1>4
    <3> HIDE DEF mem, base
    <3>2. SubSeq(Poked(mem, base, l.writes), 1, base + Len(x)) = SubSeq(mem, 1, base) \o x
      BY <3>1, PokedBehind
    <3>3. QED
      BY <3>2 DEF mem, base
  <2>2. t = SubSeq(v.mem, 1, v.len)
    BY <1>1 DEF Written
  <2>3. Written(w) = SubSeq(Poked(v.mem, v.len, l.writes), 1, v.len + Len(x))
    BY Zenon DEF Written
  <2>4. QED
    BY <2>1, <2>2, <2>3
<1>7. Solid(w)
  BY <1>2, <1>5 DEF Solid
<1>8. IsSeq(t \o x)
  BY <1>3, JoinIs DEF Took
<1>9. IsPrefix(Written(w), t \o x)
  BY <1>6, <1>8, SeqIs
<1>10. QED
  BY <1>1, <1>6, <1>7, <1>8, <1>9 DEF Took

LEMMA WriteAtEndTook ==
  ASSUME NEW z, NEW v, NEW t, Took(z, v, t), ~ Failed(v), v.kind = "bytes",
         NEW l, NEW x, Renders(l, x), Fits(l, Spare(v))
  PROVE  Took(z, WriteAtEnd(v, l), t \o x)
<1> DEFINE w == WriteAtEnd(v, l)
<1>1. Good(v) /\ Good(w)
  BY WriteAtEndGood, TookAll
<1>2. l.length = Len(x)
  BY DEF Renders
<1>3. /\ w.kind = v.kind /\ w.err = v.err /\ w.cap = v.cap
      /\ w.len = v.len + Len(x) /\ w.mem = Poked(v.mem, v.len, l.writes)
  BY <1>1, <1>2 DEF WriteAtEnd, Good, IsSink, SinkFields
<1>4. Len(x) <= Spare(v)
  BY <1>1, <1>2, SpareIs DEF Fits
<1> HIDE DEF w
<1>5. Took(z, w, t \o x)
  BY <1>1, <1>3, <1>4, PutBehind
<1>6. QED
  BY <1>5 DEF w

LEMMA ExtendTook ==
  ASSUME NEW z, NEW v, NEW t, Took(z, v, t), ~ Failed(v), v.kind = "bytes",
         NEW b, IsSeq(b)
  PROVE  Took(z, Extend(v, b), t \o b)
<1> DEFINE r == Reserve(v, Len(b))
           l == [length |-> Len(b), writes |-> <<Write(0, b)>>]
           e == [r EXCEPT !.mem = Poked(@, r.len, <<Write(0, b)>>), !.len = @ + Len(b)]
<1>1. Len(b) \in Nat
  BY SeqIs
<1>2. Took(z, r, t)
  BY <1>1, ReserveTook
<1>3. r.kind = "bytes" /\ Good(r) /\ (Failed(r) \/ Spare(r) >= Len(b)) /\ Good(v)
  BY <1>1, ReserveGood, TookAll
<1>4. Extend(v, b) = IF Failed(r) THEN r ELSE e
  BY DEF Extend
<1> HIDE DEF r
<1>5. CASE Failed(r)
  BY <1>2, <1>4, <1>5, TookMore
<1>6. CASE ~ Failed(r)
  <2>1. Renders(l, b) /\ l.writes = <<Write(0, b)>>
    BY OneWriteRenders
  <2>2. Good(e)
    BY <1>1, <1>3, <1>4, <1>6, ExtendGood
  <2>3. /\ e.kind = r.kind /\ e.err = r.err /\ e.cap = r.cap
        /\ e.len = r.len + Len(b) /\ e.mem = Poked(r.mem, r.len, <<Write(0, b)>>)
    BY <1>3 DEF Good, IsSink, SinkFields
  <2>4. Len(b) <= Spare(r)
    BY <1>1, <1>3, <1>6, SpareIs
  <2> HIDE DEF e, l
  <2>5. e.mem = Poked(r.mem, r.len, l.writes)
    BY <2>1, <2>3
  <2>6. Took(z, e, t \o b)
    BY <1>2, <1>3, <1>6, <2>1, <2>2, <2>3, <2>4, <2>5, PutBehind
  <2>7. QED
    BY <1>4, <1>6, <2>6
<1>7. QED
  BY <1>5, <1>6

(* A stream takes all of it, or fills up.                                  *)
LEMMA SendTook ==
  ASSUME NEW z, NEW o, NEW t, Took(z, o, t), ~ Failed(o), o.kind # "bytes",
         NEW b, IsSeq(b)
  PROVE  Took(z, Send(o, b), t \o b)
<1> DEFINE s == Send(o, b)
<1>1. /\ Solid(o) /\ Good(o) /\ o.kind = z.kind /\ o.err = "none"
      /\ IsSeq(t) /\ o.len = Len(t) /\ Len(t) \in Nat
      /\ o.room \in Nat /\ o.room + Len(t) = z.room /\ o.mem = t
  BY TookAll
<1>2. Len(b) \in Nat
  BY SeqIs
<1>3. Good(s)
  BY <1>1, SendGood
<1>4. /\ IsSeq(t \o b) /\ Len(t \o b) = Len(t) + Len(b)
      /\ \A i \in 1..Len(t) : (t \o b)[i] = t[i]
      /\ \A i \in 1..Len(b) : (t \o b)[Len(t) + i] = b[i]
  BY <1>1, JoinIs
<1>5. CASE Len(b) <= o.room
  <2>1. /\ s.kind = o.kind /\ s.err = o.err /\ s.mem = t \o b
        /\ s.len = Len(t) + Len(b) /\ s.room = o.room - Len(b)
    BY <1>1, <1>5 DEF Send, Good, IsSink, SinkFields
  <2> HIDE DEF s
  <2>2. Solid(s)
    BY <1>3, <1>4, <2>1 DEF Solid
  <2>3. Written(s) = t \o b
    BY <2>1, <2>2, SolidWritten
  <2>4. IsPrefix(Written(s), t \o b)
    BY <1>4, <2>3, SeqIs
  <2>5. s.room \in Nat /\ s.room + Len(t \o b) = z.room
    BY <1>1, <1>2, <1>4, <1>5, <2>1
  <2>6. Took(z, s, t \o b)
    BY <1>1, <1>4, <2>1, <2>2, <2>3, <2>4, <2>5 DEF Took
  <2>7. QED
    BY <2>6 DEF s
<1>6. CASE ~ (Len(b) <= o.room)
  <2> DEFINE c == SubSeq(b, 1, o.room)
  <2>1. /\ s.kind = o.kind /\ s.err = ShortWrite(o) /\ s.mem = t \o c
        /\ s.len = Len(t) + o.room
    BY <1>1, <1>6 DEF Send, Good, IsSink, SinkFields, ShortWrite
  <2>2. o.room \in 0..Len(b)
    BY <1>1, <1>2, <1>6
  <2>3. IsSeq(c) /\ Len(c) = o.room /\ \A i \in 1..o.room : c[i] = b[i]
    BY <2>2, PartIs
  <2> HIDE DEF s, c
  <2>4. /\ IsSeq(t \o c) /\ Len(t \o c) = Len(t) + o.room
        /\ \A i \in 1..Len(t) : (t \o c)[i] = t[i]
        /\ \A i \in 1..o.room : (t \o c)[Len(t) + i] = c[i]
    BY <1>1, <2>3, JoinIs
  <2>5. Solid(s)
    BY <1>3, <2>1, <2>4 DEF Solid
  <2>6. Written(s) = t \o c
    BY <2>1, <2>5, SolidWritten
  <2>7. ASSUME NEW i \in 1..Len(t \o c) PROVE (t \o c)[i] = (t \o b)[i]
    <3>1. CASE i <= Len(t)
      <4>1. i \in 1..Len(t)
        BY <1>1, <2>4, <3>1
      <4>2. QED
        BY <1>4, <2>4, <4>1
    <3>2. CASE ~ (i <= Len(t))
      <4>1. PICK j \in 1..o.room : i = Len(t) + j
        <5>1. i - Len(t) \in 1..o.room /\ i = Len(t) + (i - Len(t))
          BY <1>1, <2>4, <3>2
        <5>2. QED
          BY <5>1
      <4>2. j \in 1..Len(b)
        BY <1>2, <2>2
      <4>3. QED
        BY <1>4, <2>3, <2>4, <4>1, <4>2
    <3>3. QED
      BY <3>1, <3>2
  <2>8. Len(t \o c) <= Len(t \o b)
    BY <1>1, <1>2, <1>4, <2>2, <2>4
  <2>9. IsPrefix(Written(s), t \o b)
    BY <1>4, <2>4, <2>6, <2>7, <2>8, PrefixBy
  <2>10. Len(Written(s)) = z.room /\ z.room < Len(t \o b)
    BY <1>1, <1>2, <1>4, <1>6, <2>4, <2>6
  <2>11. ShortWrite(s) = ShortWrite(o)
    BY <2>1 DEF ShortWrite
  <2>12. Took(z, s, t \o b)
    BY <1>1, <1>4, <2>1, <2>5, <2>9, <2>10, <2>11 DEF Took
  <2>13. QED
    BY <2>12 DEF s
<1>7. QED
  BY <1>5, <1>6

LEMMA WriteRawTook ==
  ASSUME NEW z, NEW o, NEW t, Took(z, o, t), ~ Failed(o), NEW b, IsSeq(b)
  PROVE  Took(z, WriteRaw(o, b), t \o b)
BY ExtendTook, SendTook DEF WriteRaw

LEMMA WriteByteTook ==
  ASSUME NEW z, NEW o, NEW t, Took(z, o, t), ~ Failed(o), NEW b
  PROVE  Took(z, WriteByte(o, b), t \o <<b>>)
BY WriteRawTook, OneIsSeq DEF WriteByte

LEMMA DelimiterTook ==
  ASSUME NEW z, NEW o, NEW t, Took(z, o, t), ~ Failed(o), NEW b
  PROVE  Took(z, Delimiter(o, b), t \o <<b>>)
<1> DEFINE l == [length |-> 1, writes |-> <<Write(0, <<b>>)>>]
<1>1. CASE o.kind = "bytes" /\ Spare(o) > 0 /\ Longest # 0
  <2>1. Len(<<b>>) = 1 /\ IsSeq(<<b>>)
    BY OneIsSeq
  <2>2. Renders(l, <<b>>)
    BY <2>1, OneWriteRenders
  <2>3. l.length = 1 /\ l.writes = <<Write(0, <<b>>)>> /\ DOMAIN l.writes = {1}
    OBVIOUS
  <2>4. Spare(o) \in Nat /\ Spare(o) >= 1
    BY <1>1, TookAll, SpareIs
  <2>5. Delimiter(o, b) = WriteAtEnd(o, l)
    BY <1>1 DEF Delimiter, WriteByteHinted
  <2> HIDE DEF l
  <2>6. WriteFits(Write(0, <<b>>), Spare(o))
    <3> DEFINE w == Write(0, <<b>>)
               size == Len(w.bytes)
    <3>1. w.at = 0 /\ size = 1
      BY <2>1 DEF Write
    <3> HIDE DEF w, size
    <3>2. w.at \in Nat /\ w.at + size \in w.at..Spare(o)
      BY <2>4, <3>1
    <3>3. QED
      BY <3>2 DEF WriteFits, w, size
  <2>7. Fits(l, Spare(o))
    BY <2>3, <2>4, <2>6 DEF Fits
  <2>8. QED
    BY <1>1, <2>2, <2>5, <2>7, WriteAtEndTook
<1>2. CASE ~ (o.kind = "bytes" /\ Spare(o) > 0 /\ Longest # 0)
  <2>1. Delimiter(o, b) = WriteByte(o, b)
    BY <1>2 DEF Delimiter, WriteByteHinted
  <2>2. QED
    BY <2>1, WriteByteTook
<1>3. QED
  BY <1>1, <1>2

-----------------------------------------------------------------------------
(* Every value is sent as ElementText says, by whichever way.              *)

LEMMA WildTook ==
  ASSUME NEW z, NEW o, NEW t, Took(z, o, t)
  PROVE  LET u == [o EXCEPT !.wild = @ \/ FALSE]
         IN  Took(z, u, t) /\ u.err = o.err /\ u.kind = o.kind
<1> DEFINE u == [o EXCEPT !.wild = @ \/ FALSE]
<1>1. Good(o)
  BY DEF Took, Solid
<1>2. /\ Good(u) /\ u.kind = o.kind /\ u.err = o.err /\ u.mem = o.mem
      /\ u.len = o.len /\ u.cap = o.cap /\ u.room = o.room
  BY <1>1 DEF Good, Sound, IsSink, SinkFields
<1> HIDE DEF u
<1>3. Solid(u) /\ Written(u) = Written(o) /\ ShortWrite(u) = ShortWrite(o)
  BY <1>2 DEF Took, Solid, Written, ShortWrite
<1>4. Took(z, u, t)
  BY <1>2, <1>3 DEF Took
<1>5. QED
  BY <1>2, <1>4 DEF u

LEMMA FormatU64Took ==
  ASSUME NEW z, NEW v, NEW t, Took(z, v, t), ~ Failed(v), v.kind = "bytes",
         NEW x, Writable(x), x.how = "int"
  PROVE  Took(z, FormatU64Direct(v, x.mantissa), t \o DigitsBackward(x.mantissa))
<1> DEFINE digits == DigitsBackward(x.mantissa)
           l == IntLayout(FALSE, x.mantissa)
<1>1. PICK count \in 1..IntBufLen : count = FastDigitCount(x.mantissa)
  BY DigitsBound
<1>2. count \in Nat /\ count \in Int
  BY <1>1 DEF IntBufLen
<1> DEFINE r == Reserve(v, count)
<1>3. /\ Good(r) /\ r.kind = "bytes"
      /\ Failed(r) \/ Spare(r) >= count
  BY <1>2, ReserveGood, TookAll
<1>4. Took(z, r, t)
  BY <1>2, ReserveTook
<1>5. FormatU64Direct(v, x.mantissa) = IF Failed(r) THEN r ELSE WriteAtEnd(r, l)
  BY <1>1 DEF FormatU64Direct
<1> HIDE DEF r
<1>6. IsSeq(digits)
  BY IntRenders
<1>7. CASE Failed(r)
  BY <1>4, <1>5, <1>6, <1>7, TookMore
<1>8. CASE ~ Failed(r)
  <2>1. Spare(r) \in Nat /\ Spare(r) >= count + 0
    BY <1>2, <1>3, <1>8, SpareIs
  <2>2. Fits(l, Spare(r))
    BY <1>1, <2>1, IntLayoutFits DEF SignLength
  <2>3. Renders(l, << >> \o digits)
    BY IntRenders DEF SignText
  <2>4. << >> \o digits = digits
    BY <1>6, JoinNothing
  <2> HIDE DEF l, digits
  <2>5. Took(z, WriteAtEnd(r, l), t \o digits)
    BY <1>3, <1>4, <1>8, <2>2, <2>3, <2>4, WriteAtEndTook
  <2>6. QED
    BY <1>5, <1>8, <2>5 DEF digits
<1>9. QED
  BY <1>7, <1>8

LEMMA WriteIntTook ==
  ASSUME NEW z, NEW o, NEW t, Took(z, o, t), ~ Failed(o),
         NEW x, Writable(x), x.how = "int"
  PROVE  /\ Took(z, WriteInt(o, x.negative, x.mantissa), t \o ElementText(x))
         /\ IsSeq(ElementText(x))
<1> DEFINE sign == SignText(x.negative)
           digits == DigitsBackward(x.mantissa)
           l == IntLayout(x.negative, x.mantissa)
           b == Buffered(l, IntBufLen)
<1>1. x.negative \in BOOLEAN /\ IntBufLen \in Nat
  BY DEF Writable, IntBufLen
<1>2. Renders(l, sign \o digits) /\ IsSeq(sign) /\ IsSeq(digits)
  BY <1>1, IntRenders
<1>3. Fits(l, IntBufLen)
  <2>1. IntBufLen >= FastDigitCount(x.mantissa) + SignLength(x.negative)
    BY DigitsBound DEF IntBufLen, SignLength
  <2>2. QED
    BY <1>1, <2>1, IntLayoutFits
<1>4. b.wild = FALSE
  BY <1>1, <1>3, BufferedText
<1> HIDE DEF l
<1>5. b.text = sign \o digits
  <2>1. l.length = Len(sign \o digits) /\ l.length <= IntBufLen
    BY <1>1, <1>2, <1>3 DEF Renders, Fits
  <2>2. QED
    BY <1>1, <1>2, <2>1, BufferedIs
<1>6. ElementText(x) = b.text
  BY DEF ElementText, l
<1> HIDE DEF b
<1>7. IsSeq(sign \o digits)
  BY <1>2, JoinIs
<1>8. CASE o.kind = "bytes"
  <2> DEFINE signed == IF x.negative THEN Extend(o, <<Minus>>) ELSE o
  <2>1. WriteInt(o, x.negative, x.mantissa) =
          IF Failed(signed) THEN signed ELSE FormatU64Direct(signed, x.mantissa)
    BY <1>8 DEF WriteInt
  <2>2. Took(z, signed, t \o sign)
    <3>1. CASE x.negative
      BY <1>8, <3>1, ExtendTook, OneIsSeq DEF SignText
    <3>2. CASE ~ x.negative
      <4>1. t \o << >> = t
        BY JoinNothing, TookAll
      <4>2. QED
        BY <3>2, <4>1 DEF SignText
    <3>3. QED
      BY <3>1, <3>2
  <2>3. signed.kind = "bytes"
    BY <1>8, <2>2, TookAll DEF Took
  <2>4. (t \o sign) \o digits = t \o (sign \o digits)
    BY <1>2, TookAll, JoinAgain
  <2> HIDE DEF signed, sign, digits
  <2>5. CASE Failed(signed)
    BY <1>2, <1>5, <1>6, <1>7, <2>1, <2>2, <2>4, <2>5, TookMore
  <2>6. CASE ~ Failed(signed)
    <3>1. Took(z, FormatU64Direct(signed, x.mantissa), (t \o sign) \o DigitsBackward(x.mantissa))
      BY <2>2, <2>3, <2>6, FormatU64Took
    <3>2. QED
      BY <1>5, <1>6, <1>7, <2>1, <2>4, <2>6, <3>1 DEF digits
  <2>7. QED
    BY <2>5, <2>6
<1>9. CASE o.kind # "bytes"
  <2> DEFINE u == [o EXCEPT !.wild = @ \/ FALSE]
  <2>1. WriteInt(o, x.negative, x.mantissa) = Send(u, b.text)
    BY <1>4, <1>9 DEF WriteInt, b, l
  <2>2. Took(z, u, t) /\ u.err = o.err /\ u.kind = o.kind
    BY WildTook
  <2> HIDE DEF u, sign, digits
  <2>3. Took(z, Send(u, b.text), t \o b.text)
    BY <1>5, <1>7, <1>9, <2>2, SendTook DEF Failed
  <2>4. QED
    BY <1>5, <1>6, <1>7, <2>1, <2>3
<1>10. QED
  BY <1>8, <1>9

LEMMA WriteFloatTook ==
  ASSUME NEW z, NEW o, NEW t, Took(z, o, t), ~ Failed(o),
         NEW x, Writable(x), x.how \in {"float", "decimal", "zero"}
  PROVE  /\ Took(z, WriteFloatHinted(o, x), t \o ElementText(x))
         /\ IsSeq(ElementText(x))
<1> DEFINE l == FloatLayout(x)
           b == Buffered(l, FormatBufLen)
<1>1. Renders(l, b.text) /\ Fits(l, FormatBufLen)
  BY FloatRenders
<1>2. IsSeq(b.text) /\ FormatBufLen \in Nat /\ IsFinite(x)
  BY <1>1 DEF Renders, FormatBufLen, IsFinite
<1>3. ElementText(x) = b.text
  BY DEF ElementText
<1>4. b.wild = FALSE
  BY <1>1, <1>2, BufferedText
<1>5. CASE o.kind = "bytes" /\ Spare(o) >= FormatBufLen
  <2>1. WriteFloatHinted(o, x) = WriteAtEnd(o, l)
    BY <1>2, <1>5 DEF WriteFloatHinted
  <2> HIDE DEF l, b
  <2>2. Spare(o) \in Nat
    BY <1>5, TookAll, SpareIs
  <2>3. Fits(l, Spare(o))
    <3>1. l.length \in 0..Spare(o)
      BY <1>1, <1>2, <1>5, <2>2 DEF Fits
    <3>2. ASSUME NEW j \in DOMAIN l.writes PROVE WriteFits(l.writes[j], Spare(o))
      <4> DEFINE w == l.writes[j]
                 end == w.at + Len(w.bytes)
      <4>1. w.at \in Nat /\ end \in w.at..FormatBufLen
        BY <1>1 DEF Fits, WriteFits
      <4> HIDE DEF w, end
      <4>2. end \in w.at..Spare(o)
        BY <1>2, <1>5, <2>2, <4>1
      <4>3. QED
        BY <4>1, <4>2 DEF WriteFits, w, end
    <3>3. QED
      BY <3>1, <3>2 DEF Fits
  <2>4. Took(z, WriteAtEnd(o, l), t \o b.text)
    BY <1>1, <1>5, <2>3, WriteAtEndTook
  <2>5. QED
    BY <1>2, <1>3, <2>1, <2>4
<1>6. CASE ~ (o.kind = "bytes" /\ Spare(o) >= FormatBufLen)
  <2> DEFINE u == [o EXCEPT !.wild = @ \/ FALSE]
  <2>1. WriteFloatHinted(o, x) = WriteRaw(u, b.text)
    BY <1>2, <1>4, <1>6 DEF WriteFloatHinted, WriteFloat
  <2>2. Took(z, u, t) /\ u.err = o.err
    BY WildTook
  <2> HIDE DEF u, b
  <2>3. Took(z, WriteRaw(u, b.text), t \o b.text)
    BY <1>2, <2>2, WriteRawTook DEF Failed
  <2>4. QED
    BY <1>2, <1>3, <2>1, <2>3
<1>7. QED
  BY <1>5, <1>6

LEMMA WriteQuotedTook ==
  ASSUME NEW z, NEW o, NEW t, Took(z, o, t), ~ Failed(o), NEW bytes, IsSeq(bytes)
  PROVE  /\ Took(z, WriteQuoted(o, bytes), t \o ((<<Quote>> \o bytes) \o <<Quote>>))
         /\ IsSeq((<<Quote>> \o bytes) \o <<Quote>>)
<1> DEFINE q == <<Quote>>
           opened == WriteByte(o, Quote)
           body   == IF Failed(opened) \/ bytes = << >> THEN opened ELSE WriteRaw(opened, bytes)
           w      == IF Failed(body) THEN body ELSE WriteByte(body, Quote)
<1>1. IsSeq(q) /\ IsSeq(t)
  BY OneIsSeq, TookAll
<1>2. Took(z, opened, t \o q)
  BY WriteByteTook
<1>3. WriteQuoted(o, bytes) = w
  BY DEF WriteQuoted
<1> HIDE DEF opened
<1>4. Took(z, body, (t \o q) \o bytes)
  <2>1. CASE Failed(opened)
    BY <1>2, <2>1, TookMore
  <2>2. CASE ~ Failed(opened) /\ bytes = << >>
    <3>1. (t \o q) \o << >> = t \o q
      BY <1>1, JoinIs, JoinNothing
    <3>2. QED
      BY <1>2, <2>2, <3>1
  <2>3. CASE ~ Failed(opened) /\ bytes # << >>
    BY <1>2, <2>3, WriteRawTook
  <2>4. QED
    BY <2>1, <2>2, <2>3
<1> HIDE DEF body
<1>5. Took(z, w, ((t \o q) \o bytes) \o q)
  <2>1. CASE Failed(body)
    BY <1>1, <1>4, <2>1, TookMore
  <2>2. CASE ~ Failed(body)
    BY <1>4, <2>2, WriteByteTook
  <2>3. QED
    BY <2>1, <2>2
<1> HIDE DEF w, q
<1>6. IsSeq(q \o bytes) /\ IsSeq((q \o bytes) \o q) /\ IsSeq(t \o q)
  BY <1>1, JoinIs
<1>7. ((t \o q) \o bytes) \o q = t \o ((q \o bytes) \o q)
  <2>1. (t \o q) \o bytes = t \o (q \o bytes)
    BY <1>1, JoinAgain
  <2>2. (t \o (q \o bytes)) \o q = t \o ((q \o bytes) \o q)
    <3> DEFINE r == q \o bytes
    <3>1. IsSeq(r)
      BY <1>6
    <3> HIDE DEF r
    <3>2. (t \o r) \o q = t \o (r \o q)
      BY <1>1, <3>1, JoinAgain
    <3>3. QED
      BY <3>2 DEF r
  <2>3. QED
    BY <2>1, <2>2
<1>8. QED
  BY <1>3, <1>5, <1>6, <1>7 DEF q

LEMMA WriteElementTook ==
  ASSUME NEW z, NEW o, NEW t, Took(z, o, t), ~ Failed(o), NEW x, Writable(x), IsFinite(x)
  PROVE  /\ Took(z, WriteElement(o, x), t \o ElementText(x))
         /\ IsSeq(ElementText(x))
<1>1. CASE x.how = "int"
  <2>1. WriteElement(o, x) = WriteInt(o, x.negative, x.mantissa)
    BY <1>1 DEF WriteElement
  <2>2. QED
    BY <1>1, <2>1, WriteIntTook
<1>2. CASE x.how = "wide"
  <2> DEFINE text == SignText(x.negative) \o DigitsBackward(x.mantissa)
  <2>1. IsSeq(SignText(x.negative)) /\ IsSeq(DigitsBackward(x.mantissa))
    <3>1. << >> \in Seq(Int) /\ <<Minus>> \in Seq(Int)
      BY DEF Minus
    <3>2. QED
      BY <1>2, <3>1 DEF Writable, IsSeq, SignText
  <2>2. IsSeq(text)
    BY <2>1, JoinIs
  <2>3. WriteElement(o, x) = WriteRaw(o, text) /\ ElementText(x) = text
    BY <1>2 DEF WriteElement, WriteWideInt, ElementText, SignText
  <2> HIDE DEF text
  <2>4. QED
    BY <2>2, <2>3, WriteRawTook
<1>3. CASE x.how = "word"
  <2>1. WriteElement(o, x) = WriteRaw(o, x.bytes) /\ ElementText(x) = x.bytes
    BY <1>3 DEF WriteElement, ElementText
  <2>2. IsSeq(x.bytes)
    BY <1>3 DEF Writable, IsSeq
  <2>3. QED
    BY <2>1, <2>2, WriteRawTook
<1>4. CASE x.how = "text"
  <2>1. WriteElement(o, x) = WriteQuoted(o, x.bytes)
    BY <1>4 DEF WriteElement
  <2>2. ElementText(x) = (<<Quote>> \o x.bytes) \o <<Quote>>
    BY <1>4 DEF ElementText
  <2>3. IsSeq(x.bytes)
    BY <1>4 DEF Writable, IsSeq
  <2>4. QED
    BY <2>1, <2>2, <2>3, WriteQuotedTook
<1>5. CASE x.how \in {"float", "decimal", "zero"}
  <2>1. WriteElement(o, x) = WriteFloatHinted(o, x)
    BY <1>5 DEF WriteElement
  <2>2. QED
    BY <1>5, <2>1, WriteFloatTook
<1>6. QED
  BY <1>1, <1>2, <1>3, <1>4, <1>5 DEF Writable, IsFinite

(* An infinity is refused, and what was sent stays.                        *)
LEMMA NonFiniteTook ==
  ASSUME NEW z, NEW o, NEW t, Took(z, o, t), ~ Failed(o), NEW x, ~ IsFinite(x)
  PROVE  LET w == WriteElement(o, x)
         IN  w.err = "NonFiniteFloat" /\ Written(w) = t
<1> DEFINE w == Fail(o, "NonFiniteFloat")
<1>1. WriteElement(o, x) = w
  BY DEF WriteElement, WriteFloatHinted, WriteFloat, IsFinite
<1>2. w.err = "NonFiniteFloat" /\ w.mem = o.mem /\ w.len = o.len
  BY TookAll DEF Fail, Good, IsSink, SinkFields
<1>3. Written(w) = t
  BY <1>2, TookAll DEF Written
<1>4. QED
  BY <1>1, <1>2, <1>3

-----------------------------------------------------------------------------
(* The text of the first elements.                                         *)

LEMMA LeastOf ==
  ASSUME NEW S, S \subseteq Nat, S # {}
  PROVE  \E n \in S : \A m \in S : n <= m
<1>1. PICK n \in S : \A m \in S : ~ (<<m, n>> \in OpToRel(<, Nat))
  BY NatLessThanWellFounded, WFMin
<1>2. ASSUME NEW m \in S PROVE n <= m
  <2>1. m \in Nat /\ n \in Nat
    OBVIOUS
  <2>2. m < n => <<m, n>> \in OpToRel(<, Nat)
    BY <2>1 DEF OpToRel
  <2>3. ~ (m < n)
    BY <1>1, <2>2
  <2>4. QED
    BY <2>1, <2>3
<1>3. QED
  BY <1>2

TextStep(items, f, n) == IF n = 0 THEN FirstText ELSE TextBehind(items, f[n - 1], n)

(* The recursive function is what its unfolding says: there is one such    *)
(* function for every length.                                              *)
LEMMA TextStepwise ==
  ASSUME NEW items, Len(items) \in Nat
  PROVE  /\ ElementsUpTo(items)[0] = FirstText
         /\ \A n \in 1..Len(items) :
              ElementsUpTo(items)[n] = TextBehind(items, ElementsUpTo(items)[n - 1], n)
<1> DEFINE D == 0..Len(items)
           Made(f, m) == [n \in 0..m |-> TextStep(items, f, n)]
           Missing == {m \in D : ~ \E f : f = Made(f, m)}
           g == CHOOSE f : f = [n \in D |-> TextStep(items, f, n)]
<1>1. \E f : f = Made(f, 0)
  <2>1. Made(0, 0) = Made(Made(0, 0), 0)
    <3>1. \A f : Made(f, 0) = [n \in 0..0 |-> FirstText]
      BY DEF TextStep
    <3> HIDE DEF Made
    <3>2. QED
      BY <3>1
  <2> HIDE DEF Made
  <2>2. QED
    BY <2>1
<1>2. ASSUME NEW m \in Nat, NEW f, f = Made(f, m)
      PROVE  \E h : h = Made(h, m + 1)
  <2> DEFINE h == [n \in 0..(m + 1) |-> IF n \in 0..m THEN f[n] ELSE TextStep(items, f, n)]
  <2>1. \A n \in 0..m : h[n] = f[n]
    OBVIOUS
  <2>2. \A n \in 0..(m + 1) : TextStep(items, h, n) = TextStep(items, f, n)
    <3>1. ASSUME NEW n \in 0..(m + 1), n # 0 PROVE h[n - 1] = f[n - 1]
      BY <2>1, <3>1
    <3> HIDE DEF h
    <3>2. QED
      BY <3>1 DEF TextStep
  <2>3. \A n \in 0..m : f[n] = TextStep(items, f, n)
    <3> DEFINE F == [n \in 0..m |-> TextStep(items, f, n)]
    <3>1. f = F
      BY <1>2
    <3>2. \A n \in 0..m : F[n] = TextStep(items, f, n)
      OBVIOUS
    <3> HIDE DEF F
    <3>3. QED
      BY <3>1, <3>2
  <2>4. \A n \in 0..(m + 1) : h[n] = TextStep(items, h, n)
    <3>1. \A n \in 0..(m + 1) : h[n] = TextStep(items, f, n)
      BY <2>3
    <3>2. QED
      BY <2>2, <3>1
  <2>5. h = Made(h, m + 1)
    <3>1. h = [n \in 0..(m + 1) |-> h[n]]
      OBVIOUS
    <3> HIDE DEF h
    <3>2. QED
      BY <2>4, <3>1
  <2> HIDE DEF h, Made
  <2>6. QED
    BY <2>5
<1> HIDE DEF Made
<1>3. Missing = {}
  <2>1. SUFFICES ASSUME Missing # {} PROVE FALSE
    OBVIOUS
  <2>2. Missing \subseteq Nat
    OBVIOUS
  <2>3. PICK m \in Missing : \A k \in Missing : m <= k
    <3> HIDE DEF Missing
    <3>1. QED
      BY <2>1, <2>2, LeastOf
  <2>4. m # 0
    BY <1>1
  <2>5. m - 1 \in D /\ m - 1 \in Nat /\ m - 1 \notin Missing
    BY <2>3, <2>4
  <2>6. PICK f : f = Made(f, m - 1)
    BY <2>5
  <2>7. \E h : h = Made(h, m - 1 + 1)
    BY <1>2, <2>5, <2>6
  <2>8. m - 1 + 1 = m
    OBVIOUS
  <2>9. QED
    BY <2>7, <2>8
<1>4. \E f : f = Made(f, Len(items))
  BY <1>3
<1>5. g = [n \in D |-> TextStep(items, g, n)]
  <2>1. \E f : f = [n \in D |-> TextStep(items, f, n)]
    BY <1>4 DEF Made
  <2>2. QED
    BY <2>1, Zenon
<1>6. ElementsUpTo(items) = g
  BY Zenon DEF ElementsUpTo, TextStep
<1> HIDE DEF g
<1>7. \A n \in D : g[n] = TextStep(items, g, n)
  <2> DEFINE G == [n \in D |-> TextStep(items, g, n)]
  <2>1. \A n \in D : G[n] = TextStep(items, g, n)
    OBVIOUS
  <2>2. g = G
    BY <1>5
  <2> HIDE DEF G
  <2>3. QED
    BY <2>1, <2>2
<1>8. g[0] = FirstText
  <2>1. 0 \in D
    OBVIOUS
  <2>2. QED
    BY <1>7, <2>1 DEF TextStep
<1>9. \A n \in 1..Len(items) : g[n] = TextBehind(items, g[n - 1], n)
  <2>1. \A n \in 1..Len(items) : n \in D /\ n # 0
    OBVIOUS
  <2>2. QED
    BY <1>7, <2>1 DEF TextStep
<1>10. QED
  BY <1>6, <1>8, <1>9

(* A sink at the start has what it came with.                              *)
LEMMA StartTook ==
  ASSUME NEW j \in Jobs
  PROVE  /\ Took(j.sink, j.sink, Written(j.sink)) /\ ~ Failed(j.sink)
         /\ IsSeq(Written(j.sink)) /\ (j.sink.kind # "bytes" => Len(Written(j.sink)) = 0)
<1> DEFINE z == j.sink
<1>1. /\ Good(z) /\ z.err = "none"
      /\ IF z.kind = "bytes" THEN z.mem \in Seq(Int) /\ Len(z.mem) = z.cap
         ELSE z.mem = << >> /\ z.len = 0 /\ z.room \in Nat
  BY JobsAssumption DEF Good
<1> HIDE DEF z
<1>2. IsSeq(<< >>) /\ Len(<< >>) = 0
  <2>1. << >> \in Seq(Int)
    OBVIOUS
  <2>2. QED
    BY <2>1 DEF IsSeq
<1>3. Solid(z)
  BY <1>1, <1>2 DEF Solid, IsSeq
<1>4. /\ IsSeq(Written(z)) /\ IsPrefix(Written(z), Written(z))
      /\ z.kind # "bytes" => Len(Written(z)) = 0 /\ z.room + Len(Written(z)) = z.room
  <2>1. IsSeq(Written(z)) /\ Len(Written(z)) = z.len
    BY <1>3, SolidWritten
  <2>2. IsPrefix(Written(z), Written(z))
    BY <2>1, SeqIs
  <2>3. QED
    BY <1>1, <2>1, <2>2
<1>5. QED
  BY <1>1, <1>3, <1>4 DEF Took, Failed, z

LEMMA ElementIsSeq ==
  ASSUME NEW j \in Jobs, NEW x, Writable(x)
  PROVE  IsSeq(ElementText(x))
<1>1. CASE IsFinite(x)
  BY <1>1, StartTook, WriteElementTook
<1>2. CASE ~ IsFinite(x)
  <2>1. ElementText(x) = << >>
    BY <1>2 DEF ElementText, IsFinite
  <2>2. QED
    BY <2>1, OneIsSeq, JoinNothing
<1>3. QED
  BY <1>1, <1>2

LEMMA SeparatorIsSeq == \A n : IsSeq(Separator(n))
BY OneIsSeq, JoinNothing DEF Separator

(* The text behind one that has ended is that; another grows.              *)
LEMMA TextBehindIs ==
  ASSUME NEW j \in Jobs, NEW n \in 1..Len(j.items), NEW before, IsSeq(before.text)
  PROVE  LET now == TextBehind(j.items, before, n)
         IN  /\ IsSeq(now.text)
             /\ before.ends => now = before
             /\ \E s : IsSeq(s) /\ now.text = before.text \o s
<1> DEFINE x   == ElementText(j.items[n])
           sep == Separator(n)
           t   == before.text
           now == TextBehind(j.items, before, n)
<1>1. IsSeq(x) /\ IsSeq(sep) /\ IsSeq(t)
  BY JobsAssumption, ElementIsSeq, SeparatorIsSeq
<1>2. CASE before.ends
  <2>1. now = before
    BY <1>2 DEF TextBehind
  <2>2. t \o << >> = t /\ IsSeq(<< >>)
    BY <1>1, JoinNothing
  <2>3. QED
    BY <1>1, <2>1, <2>2
<1>3. CASE ~ before.ends
  <2>1. now.text = (t \o sep) \o x
    BY <1>3 DEF TextBehind
  <2> HIDE DEF now, t, x, sep
  <2>2. (t \o sep) \o x = t \o (sep \o x) /\ IsSeq(sep \o x) /\ IsSeq(t \o (sep \o x))
    BY <1>1, JoinAgain, JoinIs
  <2>3. IsSeq(now.text) /\ \E s : IsSeq(s) /\ now.text = t \o s
    BY <2>1, <2>2
  <2>4. QED
    BY <1>3, <2>3 DEF now, t
<1>4. QED
  BY <1>2, <1>3

LEMMA TextsAreSeqs ==
  ASSUME NEW j \in Jobs, NEW k \in 0..Len(j.items)
  PROVE  IsSeq(ElementsUpTo(j.items)[k].text)
<1> DEFINE U   == ElementsUpTo(j.items)
           Bad == {n \in 0..Len(j.items) : ~ IsSeq(U[n].text)}
<1>1. /\ Len(j.items) \in Nat /\ U[0] = FirstText
      /\ \A n \in 1..Len(j.items) : U[n] = TextBehind(j.items, U[n - 1], n)
  BY JobsAssumption, TextStepwise
<1> HIDE DEF U
<1>2. Bad = {}
  <2>1. SUFFICES ASSUME Bad # {} PROVE FALSE
    OBVIOUS
  <2>2. Bad \subseteq Nat
    OBVIOUS
  <2>3. PICK n \in Bad : \A m \in Bad : n <= m
    <3> HIDE DEF Bad
    <3>1. QED
      BY <2>1, <2>2, LeastOf
  <2>4. n # 0
    <3>1. IsSeq(U[0].text)
      BY <1>1, OneIsSeq DEF FirstText
    <3>2. QED
      BY <3>1
  <2>5. n \in 1..Len(j.items) /\ n - 1 \in 0..Len(j.items) /\ ~ (n <= n - 1)
    BY <1>1, <2>4
  <2>6. IsSeq(U[n - 1].text)
    BY <2>3, <2>5
  <2>7. IsSeq(U[n].text)
    BY <1>1, <2>5, <2>6, TextBehindIs
  <2>8. QED
    BY <2>7
<1>3. QED
  BY <1>2 DEF U

(* What is sent later only follows, and nothing follows an infinity.       *)
LEMMA TextGrows ==
  ASSUME NEW j \in Jobs, NEW k \in 0..Len(j.items)
  PROVE  LET U == ElementsUpTo(j.items)
         IN  /\ \E s : IsSeq(s) /\ U[Len(j.items)].text = U[k].text \o s
             /\ U[k].ends => U[Len(j.items)] = U[k]
<1> DEFINE U       == ElementsUpTo(j.items)
           Follows(n) == /\ \E s : IsSeq(s) /\ U[n].text = U[k].text \o s
                         /\ U[k].ends => U[n] = U[k]
           Bad == {n \in k..Len(j.items) : ~ Follows(n)}
<1>1. /\ Len(j.items) \in Nat
      /\ \A n \in 1..Len(j.items) : U[n] = TextBehind(j.items, U[n - 1], n)
  BY JobsAssumption, TextStepwise
<1>2. \A n \in 0..Len(j.items) : IsSeq(U[n].text)
  BY TextsAreSeqs
<1> HIDE DEF U
<1>3. Follows(k)
  <2>1. U[k].text \o << >> = U[k].text /\ IsSeq(<< >>)
    BY <1>2, JoinNothing
  <2>2. QED
    BY <2>1
<1>4. ASSUME NEW n \in (k + 1)..Len(j.items), Follows(n - 1)
      PROVE  Follows(n)
  <2>1. n \in 1..Len(j.items) /\ n - 1 \in 0..Len(j.items)
    BY <1>1
  <2>2. IsSeq(U[n - 1].text) /\ IsSeq(U[k].text) /\ U[n] = TextBehind(j.items, U[n - 1], n)
    BY <1>1, <1>2, <2>1
  <2>3. /\ U[n - 1].ends => U[n] = U[n - 1]
        /\ \E s : IsSeq(s) /\ U[n].text = U[n - 1].text \o s
    <3> DEFINE b == U[n - 1]
    <3>1. IsSeq(b.text) /\ U[n] = TextBehind(j.items, b, n)
      BY <2>2
    <3> HIDE DEF b
    <3>2. LET now == TextBehind(j.items, b, n)
          IN  (b.ends => now = b) /\ \E s : IsSeq(s) /\ now.text = b.text \o s
      BY <2>1, <3>1, TextBehindIs
    <3>3. QED
      BY <3>1, <3>2 DEF b
  <2>4. PICK s : IsSeq(s) /\ U[n].text = U[n - 1].text \o s
    BY <2>3
  <2>5. PICK r : IsSeq(r) /\ U[n - 1].text = U[k].text \o r
    BY <1>4
  <2>6. (U[k].text \o r) \o s = U[k].text \o (r \o s) /\ IsSeq(r \o s)
    <3> DEFINE u == U[k].text
    <3>1. IsSeq(u)
      BY <2>2
    <3> HIDE DEF u
    <3>2. (u \o r) \o s = u \o (r \o s)
      BY <2>4, <2>5, <3>1, JoinAgain
    <3>3. QED
      BY <2>4, <2>5, <3>2, JoinIs DEF u
  <2>7. U[n].text = U[k].text \o (r \o s)
    BY <2>4, <2>5, <2>6
  <2>8. U[k].ends => U[n] = U[k]
    BY <1>4, <2>3
  <2>9. QED
    BY <2>6, <2>7, <2>8
<1> HIDE DEF Follows
<1>5. Bad = {}
  <2>1. SUFFICES ASSUME Bad # {} PROVE FALSE
    OBVIOUS
  <2>2. Bad \subseteq Nat
    OBVIOUS
  <2>3. PICK n \in Bad : \A m \in Bad : n <= m
    <3> HIDE DEF Bad
    <3>1. QED
      BY <2>1, <2>2, LeastOf
  <2>4. n # k /\ n \in k..Len(j.items)
    BY <1>3
  <2>5. n \in (k + 1)..Len(j.items) /\ n - 1 \in k..Len(j.items) /\ ~ (n <= n - 1)
    BY <1>1, <2>4
  <2>6. Follows(n - 1)
    BY <2>3, <2>5
  <2>7. QED
    BY <1>4, <2>5, <2>6
<1>6. Follows(Len(j.items))
  <2>1. Len(j.items) \in k..Len(j.items)
    BY <1>1
  <2>2. QED
    BY <1>5, <2>1
<1>7. QED
  BY <1>6 DEF Follows, U

LEMMA WholeGrows ==
  ASSUME NEW j \in Jobs, NEW k \in 0..Len(j.items)
  PROVE  LET U == ElementsUpTo(j.items)
         IN  /\ IsSeq(U[k].text) /\ IsSeq(WholeText(j.items))
             /\ \E s : IsSeq(s) /\ WholeText(j.items) = U[k].text \o s
             /\ U[k].ends => U[Len(j.items)].ends /\ WholeText(j.items) = U[k].text
<1> DEFINE U   == ElementsUpTo(j.items)
           all == U[Len(j.items)]
           end == IF all.ends THEN << >> ELSE <<Close>>
<1>1. Len(j.items) \in Nat
  BY JobsAssumption
<1>2. IsSeq(U[k].text) /\ IsSeq(all.text)
  BY <1>1, TextsAreSeqs
<1>3. U[k].ends => all = U[k]
  BY TextGrows
<1>4. PICK s : IsSeq(s) /\ all.text = U[k].text \o s
  BY TextGrows
<1>5. WholeText(j.items) = IF all.ends THEN all.text ELSE all.text \o <<Close>>
  BY DEF WholeText, Closed
<1> HIDE DEF U
<1>6. IsSeq(end)
  BY <1>2, OneIsSeq, JoinNothing
<1>7. WholeText(j.items) = all.text \o end
  BY <1>2, <1>5, JoinNothing
<1> HIDE DEF all, end
<1>8. (U[k].text \o s) \o end = U[k].text \o (s \o end) /\ IsSeq(s \o end)
      /\ IsSeq(all.text \o end)
  <2>1. (U[k].text \o s) \o end = U[k].text \o (s \o end)
    <3> DEFINE u == U[k].text
    <3>1. IsSeq(u)
      BY <1>2
    <3> HIDE DEF u
    <3>2. (u \o s) \o end = u \o (s \o end)
      BY <1>4, <1>6, <3>1, JoinAgain
    <3>3. QED
      BY <3>2 DEF u
  <2>2. QED
    BY <1>2, <1>4, <1>6, <2>1, JoinIs
<1>9. IsSeq(WholeText(j.items)) /\ WholeText(j.items) = U[k].text \o (s \o end)
  BY <1>4, <1>7, <1>8
<1>10. U[k].ends => all.ends /\ WholeText(j.items) = U[k].text
  BY <1>3, <1>5
<1>11. QED
  BY <1>2, <1>8, <1>9, <1>10 DEF all, U

-----------------------------------------------------------------------------
(* While it is written, a sink that has not failed has the text up to the  *)
(* element reached, and no infinity is behind it.                          *)

Before(j, n) == Written(j.sink) \o ElementsUpTo(j.items)[n].text

WholeBefore(j) == Written(j.sink) \o WholeText(j.items)

Reached(j, o, n) ==
  /\ Took(j.sink, o, Before(j, n)) /\ ~ Failed(o)
  /\ ~ ElementsUpTo(j.items)[n].ends

Ended(j, o) ==
  LET ends == ElementsUpTo(j.items)[Len(j.items)].ends
  IN  \/ Took(j.sink, o, WholeBefore(j)) /\ (o.err = "none" => ~ ends)
      \/ o.err = "NonFiniteFloat" /\ ends /\ Written(o) = WholeBefore(j)

Sent ==
  /\ pc \in {"start", "items", "done"}
  /\ pc = "start" => out = job.sink
  /\ pc = "items" => Reached(job, out, Count - head - rest)
  /\ pc = "done" => Ended(job, out)

LEMMA BeforeIs ==
  ASSUME NEW j \in Jobs, NEW n \in 0..Len(j.items)
  PROVE  LET u == ElementsUpTo(j.items)[n]
         IN  /\ IsSeq(Before(j, n)) /\ IsSeq(WholeBefore(j))
             /\ \E s : IsSeq(s) /\ WholeBefore(j) = Before(j, n) \o s
             /\ u.ends => /\ ElementsUpTo(j.items)[Len(j.items)].ends
                          /\ WholeBefore(j) = Before(j, n)
<1> DEFINE w == Written(j.sink)
           t == ElementsUpTo(j.items)[n].text
           all == WholeText(j.items)
<1>1. IsSeq(w) /\ IsSeq(t) /\ IsSeq(all)
  BY StartTook, WholeGrows
<1>2. PICK s : IsSeq(s) /\ all = t \o s
  BY WholeGrows
<1>3. ElementsUpTo(j.items)[n].ends =>
        ElementsUpTo(j.items)[Len(j.items)].ends /\ all = t
  BY WholeGrows
<1>4. Before(j, n) = w \o t /\ WholeBefore(j) = w \o all
  BY DEF Before, WholeBefore
<1> HIDE DEF w, t, all
<1>5. (w \o t) \o s = w \o (t \o s)
  BY <1>1, <1>2, JoinAgain
<1>6. IsSeq(w \o t) /\ IsSeq(w \o all)
  BY <1>1, JoinIs
<1>7. QED
  BY <1>2, <1>3, <1>4, <1>5, <1>6

(* A sink that failed within the text has failed within the whole.         *)
LEMMA FailedEnds ==
  ASSUME NEW j \in Jobs, NEW n \in 0..Len(j.items), NEW o,
         Took(j.sink, o, Before(j, n)), Failed(o)
  PROVE  Ended(j, o)
<1>1. PICK s : IsSeq(s) /\ WholeBefore(j) = Before(j, n) \o s
  BY BeforeIs
<1>2. Took(j.sink, o, WholeBefore(j))
  BY <1>1, TookMore
<1>3. QED
  BY <1>2 DEF Ended, Failed

LEMMA FirstBefore ==
  ASSUME NEW j \in Jobs
  PROVE  /\ 0 \in 0..Len(j.items) /\ Before(j, 0) = Written(j.sink) \o <<Open>>
         /\ ~ ElementsUpTo(j.items)[0].ends
<1>1. Len(j.items) \in Nat
  BY JobsAssumption
<1>2. ElementsUpTo(j.items)[0] = FirstText
  BY <1>1, TextStepwise
<1>3. FirstText.text = <<Open>> /\ FirstText.ends = FALSE
  BY DEF FirstText
<1>4. QED
  BY <1>1, <1>2, <1>3 DEF Before

LEMMA NextBefore ==
  ASSUME NEW j \in Jobs, NEW n \in 0..(Len(j.items) - 1),
         ~ ElementsUpTo(j.items)[n].ends
  PROVE  LET x == j.items[n + 1]
         IN  /\ n + 1 \in 0..Len(j.items) /\ Writable(x) /\ IsSeq(ElementText(x))
             /\ Before(j, n + 1) = (Before(j, n) \o Separator(n + 1)) \o ElementText(x)
             /\ ElementsUpTo(j.items)[n + 1].ends <=> ~ IsFinite(x)
<1> DEFINE U   == ElementsUpTo(j.items)
           w   == Written(j.sink)
           t   == U[n].text
           sep == Separator(n + 1)
           x   == j.items[n + 1]
           e   == ElementText(x)
<1>1. Len(j.items) \in Nat /\ n + 1 \in 1..Len(j.items) /\ n + 1 - 1 = n
  BY JobsAssumption
<1>2. Writable(x) /\ IsSeq(e)
  BY <1>1, JobsAssumption, ElementIsSeq
<1>3. U[n + 1] = TextBehind(j.items, U[n + 1 - 1], n + 1)
  BY <1>1, TextStepwise
<1>4. U[n + 1] = TextBehind(j.items, U[n], n + 1)
  BY <1>1, <1>3
<1>5. U[n + 1].text = (t \o sep) \o e /\ (U[n + 1].ends <=> ~ IsFinite(x))
  <2> DEFINE now == [text |-> (t \o sep) \o e, ends |-> ~ IsFinite(x)]
  <2>1. U[n + 1] = now
    BY <1>4 DEF TextBehind
  <2>2. now.text = (t \o sep) \o e /\ (now.ends <=> ~ IsFinite(x))
    OBVIOUS
  <2> HIDE DEF now, U, t, sep, e
  <2>3. QED
    BY <2>1, <2>2
<1>6. IsSeq(w) /\ IsSeq(t) /\ IsSeq(sep)
  BY <1>1, StartTook, TextsAreSeqs, SeparatorIsSeq
<1>7. Before(j, n) = w \o t /\ Before(j, n + 1) = w \o U[n + 1].text
  BY DEF Before
<1> HIDE DEF w, t, sep, e
<1>8. IsSeq(t \o sep) /\ (w \o t) \o sep = w \o (t \o sep)
  BY <1>6, JoinAgain, JoinIs
<1>9. w \o ((t \o sep) \o e) = (w \o (t \o sep)) \o e
  <2> DEFINE r == t \o sep
  <2>1. IsSeq(r) /\ IsSeq(w) /\ IsSeq(e)
    BY <1>2, <1>6, <1>8 DEF e
  <2> HIDE DEF r
  <2>2. (w \o r) \o e = w \o (r \o e)
    BY <2>1, JoinAgain
  <2>3. QED
    BY <2>2 DEF r
<1>10. Before(j, n + 1) = (Before(j, n) \o sep) \o e
  BY <1>5, <1>7, <1>8, <1>9
<1>11. QED
  BY <1>1, <1>2, <1>5, <1>10 DEF sep, e

-----------------------------------------------------------------------------
(* The steps.                                                              *)

LEMMA BeginSends ==
  ASSUME job \in Jobs, out = job.sink, NEW hint \in Int, Begin(hint)
  PROVE  /\ pc' = "items" => Reached(job, out', 0)
         /\ pc' = "done" => Ended(job, out')
         /\ pc' \in {"items", "done"}
<1> DEFINE z == job.sink
           hinted == IF hint = 0 THEN out ELSE ReserveHint(out, hint)
           o == IF Failed(hinted) THEN hinted ELSE Delimiter(hinted, Open)
<1>1. Took(z, hinted, Written(z))
  BY StartTook, ReserveHintTook
<1>2. out' = o /\ pc' = IF Failed(o) THEN "done" ELSE "items"
  BY DEF Begin, Continue
<1> HIDE DEF hinted
<1>3. Took(z, o, Written(z) \o <<Open>>)
  BY <1>1, OneIsSeq, TookMore, DelimiterTook
<1>4. Took(z, o, Before(job, 0)) /\ 0 \in 0..Len(job.items)
      /\ ~ ElementsUpTo(job.items)[0].ends
  BY <1>3, FirstBefore
<1> HIDE DEF o
<1>5. CASE Failed(o)
  BY <1>2, <1>4, <1>5, FailedEnds
<1>6. CASE ~ Failed(o)
  BY <1>2, <1>4, <1>6 DEF Reached
<1>7. QED
  BY <1>5, <1>6

LEMMA SeparatorSent ==
  ASSUME NEW j \in Jobs, NEW n \in 0..(Len(j.items) - 1), NEW o, Reached(j, o, n)
  PROVE  Took(j.sink, IF n = 0 THEN o ELSE Delimiter(o, Comma),
              Before(j, n) \o Separator(n + 1))
<1>1. Took(j.sink, o, Before(j, n)) /\ ~ Failed(o) /\ IsSeq(Before(j, n))
  BY JobsAssumption, BeforeIs DEF Reached
<1>2. CASE n = 0
  <2>1. Before(j, n) \o Separator(n + 1) = Before(j, n)
    BY <1>1, <1>2, JoinNothing DEF Separator
  <2>2. QED
    BY <1>1, <1>2, <2>1
<1>3. CASE n # 0
  <2>1. Separator(n + 1) = <<Comma>>
    BY <1>3 DEF Separator
  <2>2. QED
    BY <1>1, <1>3, <2>1, DelimiterTook
<1>4. QED
  BY <1>2, <1>3

LEMMA ItemSent ==
  ASSUME NEW j \in Jobs, NEW n \in 0..(Len(j.items) - 1), NEW o, Reached(j, o, n)
  PROVE  LET separated == IF n = 0 THEN o ELSE Delimiter(o, Comma)
             w == IF Failed(separated) THEN separated
                  ELSE WriteElement(separated, j.items[n + 1])
         IN  IF Failed(w) THEN Ended(j, w) ELSE Reached(j, w, n + 1)
<1> DEFINE x   == j.items[n + 1]
           e   == ElementText(x)
           t   == Before(j, n) \o Separator(n + 1)
           separated == IF n = 0 THEN o ELSE Delimiter(o, Comma)
           w   == IF Failed(separated) THEN separated ELSE WriteElement(separated, x)
           ends == ElementsUpTo(j.items)[n + 1].ends
<1>1. /\ n + 1 \in 0..Len(j.items) /\ Writable(x) /\ IsSeq(e)
      /\ Before(j, n + 1) = t \o e /\ (ends <=> ~ IsFinite(x))
  BY NextBefore DEF Reached
<1>2. Took(j.sink, separated, t)
  BY SeparatorSent
<1> HIDE DEF separated, t
<1>3. CASE Failed(separated)
  <2>1. Took(j.sink, w, Before(j, n + 1)) /\ Failed(w)
    BY <1>1, <1>2, <1>3, TookMore
  <2> HIDE DEF w
  <2>2. Ended(j, w)
    BY <1>1, <2>1, FailedEnds
  <2>3. QED
    BY <2>1, <2>2 DEF w, separated
<1>4. CASE ~ Failed(separated) /\ IsFinite(x)
  <2>1. Took(j.sink, w, Before(j, n + 1))
    BY <1>1, <1>2, <1>4, WriteElementTook
  <2> HIDE DEF w
  <2>2. Failed(w) => Ended(j, w)
    BY <1>1, <2>1, FailedEnds
  <2>3. ~ Failed(w) => Reached(j, w, n + 1)
    BY <1>1, <1>4, <2>1 DEF Reached
  <2>4. QED
    BY <2>2, <2>3 DEF w, separated
<1>5. CASE ~ Failed(separated) /\ ~ IsFinite(x)
  <2>1. w = WriteElement(separated, x)
    BY <1>5
  <2>2. w.err = "NonFiniteFloat" /\ Written(w) = t
    BY <1>2, <1>5, <2>1, NonFiniteTook
  <2> HIDE DEF w
  <2>3. e = << >>
    BY <1>5 DEF ElementText, IsFinite
  <2>4. IsSeq(t)
    BY <1>2 DEF Took
  <2>5. Written(w) = Before(j, n + 1)
    BY <1>1, <2>2, <2>3, <2>4, JoinNothing
  <2>6. /\ ElementsUpTo(j.items)[Len(j.items)].ends
        /\ WholeBefore(j) = Before(j, n + 1)
    BY <1>1, <1>5, BeforeIs
  <2>7. Failed(w) /\ Ended(j, w)
    BY <2>2, <2>5, <2>6 DEF Failed, Ended
  <2>8. QED
    BY <2>7 DEF w, separated
<1>6. QED
  BY <1>3, <1>4, <1>5

LEMMA EndSent ==
  ASSUME NEW j \in Jobs, NEW o, Reached(j, o, Len(j.items))
  PROVE  Ended(j, Delimiter(o, Close))
<1> DEFINE n == Len(j.items)
           w == Written(j.sink)
           t == ElementsUpTo(j.items)[n].text
<1>1. n \in Nat /\ n \in 0..n
  BY JobsAssumption
<1>2. Took(j.sink, Delimiter(o, Close), Before(j, n) \o <<Close>>)
  BY DelimiterTook DEF Reached
<1>3. ~ ElementsUpTo(j.items)[n].ends
  BY DEF Reached
<1>4. Before(j, n) = w \o t /\ WholeBefore(j) = w \o (t \o <<Close>>)
  BY <1>3 DEF Before, WholeBefore, WholeText, Closed
<1>5. IsSeq(w) /\ IsSeq(t) /\ IsSeq(<<Close>>)
  BY <1>1, StartTook, TextsAreSeqs, OneIsSeq
<1> HIDE DEF w, t
<1>6. (w \o t) \o <<Close>> = w \o (t \o <<Close>>)
  BY <1>5, JoinAgain
<1>7. Took(j.sink, Delimiter(o, Close), WholeBefore(j))
  BY <1>2, <1>4, <1>6
<1>8. QED
  BY <1>3, <1>7 DEF Ended

LEMMA InitSent == Init => Sent
BY DEF Init, Sent

LEMMA StepSent == Inv /\ Sent /\ [Next]_vars => Sent'
<1> SUFFICES ASSUME Inv, Sent, [Next]_vars
             PROVE  Sent'
  OBVIOUS
<1> DEFINE k == Count - head - rest
<1>1. /\ job \in Jobs /\ Count \in Nat /\ Chunk \in Nat /\ Count = Len(job.items)
      /\ FullHint \in Int /\ Chunk * PerItem \in Int /\ Chunk * PerItem + 2 \in Int
  BY SliceTypes DEF Inv, Count
<1>2. job' = job
  BY DEF Next, vars, WriteArray, WriteArrayHinted, WriteInWindows, WriteItem, NextWindow,
         EndArray
<1>3. Count' = Count
  BY <1>2 DEF Count
<1>4. CASE WriteArray \/ WriteArrayHinted \/ WriteInWindows
  <2>1. /\ pc' = "items" => Reached(job, out', 0)
        /\ pc' = "done" => Ended(job, out')
        /\ pc' \in {"items", "done"}
    <3>1. out = job.sink
      BY <1>4 DEF Sent, WriteArray, WriteArrayHinted, WriteInWindows
    <3>2. Begin(0) \/ Begin(FullHint) \/ Begin(Chunk * PerItem + 2)
      BY <1>4 DEF WriteArray, WriteArrayHinted, WriteInWindows
    <3>3. QED
      BY <1>1, <3>1, <3>2, BeginSends
  <2>2. Count - head' - rest' = 0
    BY <1>1, <1>4 DEF WriteArray, WriteArrayHinted, WriteInWindows
  <2>3. QED
    BY <1>2, <1>3, <2>1, <2>2 DEF Sent
<1>5. CASE WriteItem
  <2> DEFINE separated == IF k = 0 THEN out ELSE Delimiter(out, Comma)
             w == IF Failed(separated) THEN separated
                  ELSE WriteElement(separated, job.items[k + 1])
  <2>1. k \in 0..(Len(job.items) - 1) /\ Reached(job, out, k)
    BY <1>1, <1>5 DEF WriteItem, Inv, WithinSlice, Sent
  <2>2. out' = w /\ pc' = IF Failed(w) THEN "done" ELSE "items"
    BY <1>5 DEF WriteItem, Continue
  <2>3. Count - head' - rest' = k + 1
    BY <1>1, <1>5 DEF WriteItem, Inv, WithinSlice
  <2>4. IF Failed(w) THEN Ended(job, w) ELSE Reached(job, w, k + 1)
    BY <1>1, <2>1, ItemSent
  <2> HIDE DEF w, k
  <2>5. QED
    BY <1>2, <1>3, <2>2, <2>3, <2>4 DEF Sent
<1>6. CASE NextWindow
  <2>1. k \in 0..Len(job.items) /\ Reached(job, out, k)
    BY <1>1, <1>6 DEF NextWindow, Inv, WithinSlice, Sent
  <2> DEFINE o == ReserveHint(out, Chunk * PerItem)
  <2>2. out' = o /\ pc' = IF Failed(o) THEN "done" ELSE "items"
    BY <1>6 DEF NextWindow, Continue
  <2>3. Count - head' - rest' = k
    <3>1. head = 0 /\ rest \in Nat /\ head' \in Int /\ rest' = rest - head'
      BY <1>1, <1>6 DEF NextWindow, Inv, WithinSlice
    <3> HIDE DEF o
    <3>2. QED
      BY <1>1, <3>1
  <2>4. Took(job.sink, o, Before(job, k))
    BY <1>1, <2>1, ReserveHintTook DEF Reached
  <2> HIDE DEF o, k
  <2>5. Failed(o) => Ended(job, o)
    BY <1>1, <2>1, <2>4, FailedEnds
  <2>6. ~ Failed(o) => Reached(job, o, k)
    BY <2>1, <2>4 DEF Reached
  <2>7. QED
    BY <1>2, <1>3, <2>2, <2>3, <2>5, <2>6 DEF Sent
<1>7. CASE EndArray
  <2>1. k = Len(job.items) /\ Reached(job, out, k)
    BY <1>1, <1>7 DEF EndArray, Sent
  <2>2. out' = Delimiter(out, Close) /\ pc' = "done"
    BY <1>7 DEF EndArray, Continue
  <2>3. Ended(job, Delimiter(out, Close))
    BY <1>1, <2>1, EndSent
  <2>4. QED
    BY <1>2, <2>2, <2>3 DEF Sent
<1>8. CASE UNCHANGED vars
  BY <1>2, <1>3, <1>8 DEF vars, Sent
<1>9. QED
  BY <1>4, <1>5, <1>6, <1>7, <1>8 DEF Next

LEMMA SentIsPrefix ==
  ASSUME Inv, Sent
  PROVE  IsPrefix(Written(out), WholeBefore(job))
<1> DEFINE k == Count - head - rest
           w == Written(out)
           whole == WholeBefore(job)
<1>1. job \in Jobs /\ Len(job.items) \in Nat
  BY JobsAssumption DEF Inv
<1>2. IsSeq(whole) /\ IsPrefix(whole, whole)
  BY <1>1, FirstBefore, BeforeIs, SeqIs
<1>3. CASE pc = "start"
  <2>1. IsSeq(w) /\ IsPrefix(w, w) /\ w = Written(job.sink)
    BY <1>1, <1>3, StartTook, SeqIs DEF Sent
  <2>2. IsSeq(WholeText(job.items))
    BY <1>1, FirstBefore, WholeGrows
  <2>3. QED
    BY <2>1, <2>2, PrefixOfJoin DEF WholeBefore
<1>4. CASE pc = "items"
  <2>1. k \in 0..Len(job.items) /\ Took(job.sink, out, Before(job, k))
    BY <1>1, <1>4 DEF Inv, Sent, WithinSlice, Reached, Count
  <2> HIDE DEF k
  <2>2. IsSeq(w) /\ IsSeq(Before(job, k)) /\ IsPrefix(w, Before(job, k))
    BY <2>1, SolidWritten DEF Took
  <2>3. PICK s : IsSeq(s) /\ whole = Before(job, k) \o s
    BY <1>1, <2>1, BeforeIs
  <2> HIDE DEF w, whole
  <2>4. IsPrefix(w, Before(job, k) \o s)
    BY <2>2, <2>3, PrefixOfJoin
  <2>5. QED
    BY <2>3, <2>4 DEF w, whole
<1>5. CASE pc = "done"
  <2>1. Took(job.sink, out, whole) \/ w = whole
    BY <1>5 DEF Sent, Ended
  <2>2. QED
    BY <1>2, <2>1 DEF Took
<1>6. QED
  BY <1>3, <1>4, <1>5 DEF Sent

(* Whatever is serialized, and however room is reserved for it: a vector   *)
(* and a stream get the same text, that of the elements as each reads by   *)
(* itself.  One that fails has a prefix of it, a vector only for want of   *)
(* memory and a stream only when it is full before the end, and an         *)
(* infinity ends the text where it stands (EverySinkGetsTheText; ser.rs,   *)
(* ByteSink, IoSink and FmtSink, 341-1000).                                *)
THEOREM EverySinkGetsIt == Spec => []EverySinkGetsTheText
<1>1. Inv /\ Sent => EverySinkGetsTheText
  <2> SUFFICES ASSUME Inv, Sent PROVE EverySinkGetsTheText
    OBVIOUS
  <2> DEFINE whole == WholeBefore(job)
             ends  == ElementsUpTo(job.items)[Count].ends
             written == Written(out)
  <2>1. IsPrefix(written, whole)
    BY SentIsPrefix
  <2>2. ASSUME pc = "done"
        PROVE  \/ out.err = "none" /\ ~ ends /\ written = whole
               \/ out.err = "NonFiniteFloat" /\ ends /\ written = whole
               \/ out.err = "CapacityOverflow" /\ out.kind = "bytes"
               \/ /\ out.err = ShortWrite(out) /\ out.kind # "bytes"
                  /\ Len(written) = job.sink.room /\ Len(written) < Len(whole)
    BY <2>2 DEF Sent, Ended, Took, Count
  <2>3. \/ ShortWrite(out) = "Io" /\ out.kind = "io"
        \/ ShortWrite(out) = "TypeMismatch" /\ out.kind # "io"
    BY DEF ShortWrite
  <2>4. whole = Written(job.sink) \o WholeText(job.items)
    BY DEF WholeBefore
  <2> HIDE DEF whole, ends, written
  <2>5. pc = "done" =>
          CASE out.err = "none"             -> ~ ends /\ written = whole
            [] out.err = "NonFiniteFloat"   -> ends /\ written = whole
            [] out.err = "CapacityOverflow" -> out.kind = "bytes"
            [] OTHER -> /\ out.kind # "bytes"
                        /\ out.err = (IF out.kind = "io" THEN "Io" ELSE "TypeMismatch")
                        /\ Len(written) = job.sink.room
                        /\ Len(written) < Len(whole)
    BY <2>2, <2>3
  <2>6. QED
    BY <2>1, <2>4, <2>5 DEF EverySinkGetsTheText, GetsText, ends, written
<1>2. QED
  BY InitInv, InitSent, StepInv, StepSent, <1>1, PTL DEF Spec
=============================================================================
