------------------------------- MODULE FloatText -------------------------------
(***************************************************************************)
(* format_finite_to_ptr: where the bytes of a float's text are written in  *)
(* the buffer it is given, one unchecked write after the other, and the    *)
(* length it returns.  Some writes are overwritten by later ones: the sign *)
(* is always written, and digits are written one place to the right of     *)
(* where they end up, to make room for the point.                          *)
(*                                                                         *)
(* Symbols are those of NumberLiteral.                                     *)
(***************************************************************************)
EXTENDS Integers, Sequences

Minus == -1
Dot   == -3
Exp   == -4

FormatBufLen == 32
FixedPoint   == -6..21        \* where the point may be in fixed form

Zeros(n) == [i \in 1..n |-> 0]

(* A layout is a length and the writes it is made of, at offsets from      *)
(* where it is put.                                                        *)
Write(offset, bytes) == [at |-> offset, bytes |-> bytes]

Covers(w, k) == k \in w.at..(w.at + Len(w.bytes) - 1)

WriteFits(w, room) == w.at \in Nat /\ w.at + Len(w.bytes) \in w.at..room

Fits(layout, room) ==
  /\ layout.length \in 0..room
  /\ \A j \in DOMAIN layout.writes : WriteFits(layout.writes[j], room)

(* write_digits_at_ptr fills count places from the last one down.          *)
Digits(offset, text, count) == Write(offset + count - Len(text), text)

(* write_exponent_ptr                                                      *)
ExponentText(x) ==
  LET mag    == IF x < 0 THEN -x ELSE x
      digits == IF mag >= 100 THEN <<mag \div 100, (mag % 100) \div 10, mag % 10>>
                ELSE IF mag >= 10 THEN <<mag \div 10, mag % 10>>
                ELSE <<mag>>
  IN  IF x < 0 THEN <<Minus>> \o digits ELSE digits

(* "0.", zeros, digits                                                     *)
Fraction(pos, text, count, zeros) ==
  [length |-> pos + 2 + zeros + count,
   writes |-> <<Write(pos, <<0, Dot>>), Write(pos + 2, Zeros(zeros)),
                Digits(pos + 2 + zeros, text, count)>>]

(* digits, zeros, ".0"                                                     *)
Whole(pos, text, count, zeros) ==
  [length |-> pos + count + zeros + 2,
   writes |-> <<Digits(pos, text, count), Write(pos + count, Zeros(zeros)),
                Write(pos + count + zeros, <<Dot, 0>>)>>]

(* The first p digits are copied down by one, and the point put behind.    *)
MixedCopiedAfterPoint(pos, text, count, p) == \* mutant: the copy starts one digit late
  [length |-> pos + count + 1,
   writes |-> <<Digits(pos + 1, text, count), Write(pos, SubSeq(text, 2, p + 1)),
                Write(pos + p, <<Dot>>)>>]

Mixed(pos, text, count, p) ==
  [length |-> pos + count + 1,
   writes |-> <<Digits(pos + 1, text, count), Write(pos, SubSeq(text, 1, p)),
                Write(pos + p, <<Dot>>)>>]

(* The first digit is copied down; a lone digit gets no point.             *)
Scientific(pos, text, count, x) ==
  LET after == IF count > 1 THEN pos + 1 + count ELSE pos + 1
  IN  [length |-> after + 1 + Len(ExponentText(x)),
       writes |-> <<Digits(pos + 1, text, count), Write(pos, <<text[1]>>),
                    Write(pos + 1, IF count > 1 THEN <<Dot>> ELSE << >>),
                    Write(after, <<Exp>>), Write(after + 1, ExponentText(x))>>]

Placed(pos, text, count, exponent) ==
  LET point == count + exponent
  IN  IF point \notin FixedPoint THEN Scientific(pos, text, count, point - 1)
      ELSE IF point <= 0         THEN Fraction(pos, text, count, -point)
      ELSE IF point >= count     THEN Whole(pos, text, count, point - count)
      ELSE Mixed(pos, text, count, point)

(* The sign is written before anything is known of it.                     *)
Layout(negative, text, count, exponent) ==
  LET placed == Placed(IF negative THEN 1 ELSE 0, text, count, exponent)
  IN  [length |-> placed.length, writes |-> <<Write(0, <<Minus>>)>> \o placed.writes]

ZeroLayout(negative) ==
  LET text == IF negative THEN <<Minus, 0, Dot, 0>> ELSE <<0, Dot, 0>>
  IN  [length |-> Len(text), writes |-> <<Write(0, text)>>]
=============================================================================
