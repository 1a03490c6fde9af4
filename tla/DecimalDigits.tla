----------------------------- MODULE DecimalDigits -----------------------------
(***************************************************************************)
(* Decimal digits without a division per digit: how many a number has, by  *)
(* its leading zeros or by thresholds, and the digits themselves, two or   *)
(* four at a time from the back (ser.rs, float.rs).  A digit is the number *)
(* it stands for.  The tables are the code's as far as 31 bits go.         *)
(***************************************************************************)
EXTENDS Integers, Sequences

CONSTANT
  Wide              \* 2^32: where a mantissa is split in two words

Pair(n) == <<n \div 10, n % 10>>
Quad(n) == Pair(n \div 100) \o Pair(n % 100)

-----------------------------------------------------------------------------
(* fast_digit_count: a candidate and the last number that has so many, by  *)
(* the number of bits.                                                     *)
CountTable ==
  << <<1, 1>>, <<1, 3>>, <<1, 7>>, <<1, 9>>,
     <<2, 31>>, <<2, 63>>, <<2, 99>>,
     <<3, 255>>, <<3, 511>>, <<3, 999>>,
     <<4, 2047>>, <<4, 4095>>, <<4, 8191>>, <<4, 9999>>,
     <<5, 32767>>, <<5, 65535>>, <<5, 99999>>,
     <<6, 262143>>, <<6, 524287>>, <<6, 999999>>,
     <<7, 2097151>>, <<7, 4194303>>, <<7, 8388607>>, <<7, 9999999>>,
     <<8, 33554431>>, <<8, 67108863>>, <<8, 99999999>>,
     <<9, 268435455>>, <<9, 536870911>>, <<9, 999999999>>,
     <<10, 2147483647>> >>

BitLength(n) == CHOOSE b \in 1..31 : n \div 2 ^ (b - 1) = 1

FastDigitCountOr0(n) == \* mutant: the threshold counts as one more
  LET entry == CountTable[BitLength(IF n = 0 THEN 1 ELSE n)]
  IN  entry[1] + (IF n >= entry[2] THEN 1 ELSE 0)

FastDigitCount(n) ==
  LET entry == CountTable[BitLength(IF n = 0 THEN 1 ELSE n)]
  IN  entry[1] + (IF n > entry[2] THEN 1 ELSE 0)

(* write_digits_backward; format_u128 has the same loop.                   *)
DigitsBackward(n) ==
  LET text[k \in Nat] ==
        IF k >= 100 THEN text[k \div 100] \o Pair(k % 100)
        ELSE IF k >= 10 THEN Pair(k)
        ELSE <<k>>
  IN  text[n]

-----------------------------------------------------------------------------
(* mantissa_digit_count and write_digits_at_ptr, for a float's mantissa.   *)
DigitThresholds ==
  <<1000000000, 100000000, 10000000, 1000000, 100000, 10000, 1000, 100, 10>>

MantissaDigitCount(n) ==
  LET reached == {i \in DOMAIN DigitThresholds : n >= DigitThresholds[i]}
  IN  IF reached = {} THEN 1
      ELSE Len(DigitThresholds) + 2 - (CHOOSE i \in reached : \A j \in reached : i <= j)

(* A word of 32 bits.                                                      *)
ShortMantissaText(n) ==
  LET lead(k) == IF k >= 10 THEN Pair(k) ELSE <<k>>
      text[k \in Nat] ==
        IF k >= 10000 THEN text[k \div 10000] \o Quad(k % 10000)
        ELSE IF k >= 100 THEN lead(k \div 100) \o Pair(k % 100)
        ELSE lead(k)
  IN  text[n]

MantissaText(n) ==
  IF n < Wide THEN ShortMantissaText(n)
  ELSE LET low == n % 100000000
       IN  ShortMantissaText(n \div 100000000) \o Quad(low \div 10000) \o Quad(low % 10000)
=============================================================================
