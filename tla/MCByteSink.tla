------------------------------ MODULE MCByteSink -------------------------------
(***************************************************************************)
(* Slices written to vectors and to streams.  Floats are those of a format *)
(* of four bits and of doubles known by their decimals; the window is of   *)
(* 64 bytes, so that three ints or two floats are written in windows.      *)
(***************************************************************************)
EXTENDS SliceWriter

N == INSTANCE NumberLiteral WITH
       Base <- 10, Max64 <- 2147483647, Max128 <- 2147483647,
       MantissaDigits <- 9, MantissaMax <- 999999999

-----------------------------------------------------------------------------
(* The jobs.                                                               *)

MCExponentMin == -34

Item(how, negative, mantissa, exponent, bytes) ==
  [how |-> how, negative |-> negative, mantissa |-> mantissa,
   exponent |-> exponent, bytes |-> bytes]

Float(negative, m, e) == Item("float", negative, m, e, << >>)
Double(negative, m, e) == Item("decimal", negative, m, e, << >>)
Zero(negative) == Item("zero", negative, 0, 0, << >>)
Infinite == Item("nonfinite", FALSE, 0, 0, << >>)
I64(negative, n) == Item("int", negative, n, 0, << >>)
I128(negative, n) == Item("wide", negative, n, 0, << >>)
Word(bytes) == Item("word", FALSE, 0, 0, bytes)
Text(bytes) == Item("text", FALSE, 0, 0, bytes)

Letters(n) == [i \in 1..n |-> -30 - i]
True  == Word(Letters(4))
False == Word(Letters(5))

Job(max, items, sink) == [max |-> max, items |-> items, sink |-> sink]

Vectors == {Vec(Fill(depth, Open), depth + spare) : depth \in {0, 2}, spare \in {0, 3, 40, 115}}

SmallFloats ==
  {Float(FALSE, m, e) : m \in 8..15, e \in -34..10} \cup {Float(TRUE, m, -34) : m \in 1..7}

Doubles ==
  {Double(FALSE, m, e) :
     m \in {1, 9, 10, 12, 99, 100, 123, 1000, 9999, 10000, 10203, 99999999,
            100000000, 268435455, 268435456, 999999999, 1000000000, 2147483647},
     e \in {-324, -109, -100, -16, -15, -14, -12, -9, -7, -6, -5, -3, -1,
            0, 1, 5, 11, 12, 20, 21, 22, 99, 290}}

SomeFloats ==
  {Float(TRUE, 9, -34), Double(TRUE, 2147483647, -324), Double(FALSE, 5, 0),
   Zero(TRUE), Infinite}

Edges == {0, 1, 9, 10, 99, 100, 999, 1000, 9999, 10000, 99999, 100000, 999999,
          1000000, 9999999, 10000000, 99999999, 100000000, 999999999, 1000000000,
          2147483647}

SomeInts == {I64(TRUE, 2147483647), I64(FALSE, 7), I64(TRUE, 10)}

Lies ==
  {Job(2, <<Word(Letters(7)), Word(Letters(1)), Word(Letters(9))>>, v) : v \in Vectors}
  \cup {Job(2, <<Double(TRUE, 2147483647, -324), Zero(FALSE)>>, v) : v \in Vectors}
  \cup {Job(5000, <<True>>, v) : v \in Vectors}

StreamJobs ==
  {Job(32, items, Stream(kind, room)) :
     items \in SeqOf(SomeFloats, 2), kind \in {"io", "fmt"}, room \in {0, 1, 2, 9, 18, 20, 40}}
  \cup {Job(20, items, Stream(kind, room)) :
     items \in SeqOf(SomeInts, 3), kind \in {"io", "fmt"}, room \in {0, 3, 12, 13, 25, 90}}
  \cup {Job(0, <<Text(Letters(2)), Text(<< >>)>>, Stream(kind, room)) :
     kind \in {"io", "fmt"}, room \in 0..10}

MCJobs ==
  {Job(32, <<x>>, Vec(<< >>, 0)) : x \in SmallFloats \cup Doubles}
  \cup {Job(20, <<I64(TRUE, n), I64(FALSE, n)>>, Vec(<< >>, 0)) : n \in Edges}
  \cup {Job(40, <<I128(TRUE, n)>>, Vec(<< >>, 0)) : n \in Edges}
  \cup {Job(32, items, v) : items \in SeqOf(SomeFloats, 3), v \in Vectors}
  \cup {Job(20, items, v) : items \in SeqOf(SomeInts, 4), v \in Vectors}
  \cup {Job(5, Fill(n, x), v) : n \in 8..22, x \in {True, False}, v \in Vectors}
  \cup {Job(4, Fill(n, True), v) : n \in {12, 13, 24, 36}, v \in Vectors}
  \cup {Job(0, items, v) : items \in SeqOf({Text(Letters(2)), Text(<< >>)}, 3), v \in Vectors}
  \cup Lies \cup StreamJobs

-----------------------------------------------------------------------------
(* What a text says.                                                       *)

(* The digits of n, one division each.                                     *)
DigitsOf(n) ==
  LET d[k \in Nat] == IF k < 10 THEN <<k>> ELSE Append(d[k \div 10], k % 10)
  IN  d[n]

(* A decimal without zeros at either end.                                  *)
Plain(negative, digits, exponent) ==
  LET nonzero == {i \in DOMAIN digits : digits[i] # 0}
      first == CHOOSE i \in nonzero : \A j \in nonzero : i <= j
      last  == CHOOSE i \in nonzero : \A j \in nonzero : i >= j
  IN  IF nonzero = {} THEN [negative |-> negative, digits |-> << >>, exponent |-> 0]
      ELSE [negative |-> negative, digits |-> SubSeq(digits, first, last),
            exponent |-> exponent + Len(digits) - last]

Place(s, b) == IF \E i \in DOMAIN s : s[i] = b
               THEN CHOOSE i \in DOMAIN s : s[i] = b ELSE Len(s) + 1

OnlyDigits(s) == SelectSeq(s, LAMBDA c : c \in 0..9)

ReadDecimal(s) ==
  LET number   == SubSeq(s, 1, Place(s, Exp) - 1)
      exponent == SubSeq(s, Place(s, Exp) + 1, Len(s))
      power    == IF exponent = << >> THEN 0
                  ELSE (IF exponent[1] = Minus THEN -1 ELSE 1) * N!Value(OnlyDigits(exponent))
      fraction == SubSeq(number, Place(number, Dot) + 1, Len(number))
  IN  Plain(s[1] = Minus, OnlyDigits(number), power - Len(fraction))

Signed(x, digits) == (IF x.negative THEN <<Minus>> ELSE << >>) \o digits

ExactText(x) ==
  CASE x.how \in {"int", "wide"} -> Signed(x, DigitsOf(x.mantissa))
    [] x.how = "word"            -> x.bytes
    [] x.how = "text"            -> <<Quote>> \o x.bytes \o <<Quote>>

FloatValue(x) ==
  IF x.how = "zero" THEN Plain(x.negative, <<0>>, 0)
  ELSE Plain(x.negative, DigitsOf(Shortest(x).mantissa), Shortest(x).exponent)

(* Where x ends in s if s begins with it, else 0.                          *)
EndOf(x, s) ==
  IF ~ IsFloat(x)
  THEN IF IsPrefix(ExactText(x), s) THEN Len(ExactText(x)) ELSE 0
  ELSE LET r == N!ReadNumber(s)
           literal == SubSeq(s, 1, r.end)
       IN  IF /\ r.kind = "ok"
              /\ \E i \in DOMAIN literal : literal[i] \in {Dot, Exp}
              /\ ReadDecimal(literal) = FloatValue(x)
           THEN r.end ELSE 0

IsArrayOf(items, s) ==
  LET From(k) == SubSeq(s, k + 1, Len(s))
      end[i \in 0..Len(items)] ==     \* where item i ends, 0 if it is not there
        IF i = 0 THEN IF s # << >> /\ s[1] = Open THEN 1 ELSE 0
        ELSE LET before == end[i - 1]
                 at == IF i = 1 THEN before ELSE before + 1
                 length == EndOf(items[i], From(at))
             IN  IF /\ before > 0
                    /\ i > 1 => before < Len(s) /\ s[at] = Comma
                    /\ length > 0
                 THEN at + length ELSE 0
  IN  /\ end[Len(items)] > 0
      /\ From(end[Len(items)]) = <<Close>>

-----------------------------------------------------------------------------
(* What is written, whatever was reserved and however it was cut into      *)
(* windows, is what was there before and a JSON array of the elements: an  *)
(* integer digit by digit, a float as a number that is no integer's and    *)
(* says its shortest decimal, every byte of it initialised.  A slice that  *)
(* holds no infinity is written without an error, unless T declares more   *)
(* than a vector can hold.                                                 *)
WritesTheArray ==
  pc = "done" =>
    /\ ~ Failed(out) =>
         LET earlier == Written(job.sink)
         IN  /\ IsPrefix(earlier, Written(out))
             /\ IsArrayOf(job.items, SubSeq(Written(out), Len(earlier) + 1, out.len))
    /\ Failed(out) =>
         \/ out.kind # "bytes"
         \/ out.err = "NonFiniteFloat" /\ \E i \in DOMAIN job.items : ~ IsFinite(job.items[i])
         \/ out.err = "CapacityOverflow" /\ Longest > VecMax

(* The decimal of a float lies within its rounding interval, the ends      *)
(* included where its mantissa is even; no decimal with fewer digits does, *)
(* and none with as many is nearer.  A small integer is exact.             *)
IsShortest(e, m) ==
  LET unit  == IF IsCentred(e, m) THEN 2 ELSE 4      \* parts of 2^e
      d     == ToDecimal(e, m)
      k     == d.exponent
      shift == k - e + (IF unit = 2 THEN 1 ELSE 2)
      Pow(b, n) == IF n > 0 THEN b ^ n ELSE 1
      step  == Pow(2, shift) * Pow(5, k)              \* 10^k, in units
      scale == Pow(2, -shift) * Pow(5, -k)
      value == unit * m * scale
      low   == (unit * m - 1) * scale
      high  == (unit * m + unit \div 2) * scale
      least == IF m % 2 = 0 THEN CeilDiv(low, step) ELSE (low \div step) + 1
      most  == IF m % 2 = 0 THEN high \div step ELSE CeilDiv(high, step) - 1
      Off(c) == IF c * step > value THEN c * step - value ELSE value - c * step
  IN  IF IsSmallInteger(e, m) THEN d.mantissa * step = value
      ELSE /\ d.mantissa \in least..most
           /\ \A c \in least..most : c % 10 # 0 /\ Off(d.mantissa) <= Off(c)

(* Of every float of the slice, at the end (float.rs, teju).               *)
ShortestDecimal ==
  pc = "done" =>
    \A i \in DOMAIN job.items :
      LET x == job.items[i] IN x.how = "float" => IsShortest(x.exponent, x.mantissa)
=============================================================================
