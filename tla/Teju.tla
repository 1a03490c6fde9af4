--------------------------------- MODULE Teju ----------------------------------
(***************************************************************************)
(* The shortest decimal that reads back as a float: float.rs's port of     *)
(* teju jagua, with the tables teju_gen.rs computes for it.  A float is    *)
(* mantissa * 2^exponent with a mantissa of MantissaWidth bits, fewer at   *)
(* the smallest exponent; words have WordBits bits and multipliers two of  *)
(* them.  The widths are parameters, so that every float of a small format *)
(* can be looked at.                                                       *)
(***************************************************************************)
EXTENDS Integers, Sequences

CONSTANTS
  WordBits,         \* 64; a multiple of 4, as minv5 below asks for
  MantissaWidth,    \* 53
  ExponentMin,      \* -1074
  LogNumerator,     \* 1292913987
  LogBits,          \* 32: log10(2) is about LogNumerator / 2^LogBits
  MinverseLength    \* 27: powers of five a word can hold

WordMax == 2 ^ WordBits - 1
Times(x, y) == (x * y) % 2 ^ WordBits

Decimal(m, e) == [mantissa |-> m, exponent |-> e]

-----------------------------------------------------------------------------
(* The tables (teju_gen.rs).                                               *)

PowerBits(n) == CHOOSE b \in 1..30 : 5 ^ n \div 2 ^ (b - 1) = 1

CeilDiv(n, d) == (n + d - 1) \div d

(* compute_multiplier: 5^-f brought to two words, rounded up, and once     *)
(* more where it is exact.                                                 *)
Multiplier(f) ==
  LET width == 2 * WordBits
      n     == IF f < 0 THEN -f ELSE f
      bits  == PowerBits(n)
  IN  IF f = 0 THEN 2 ^ (width - 1) + 1
      ELSE IF f > 0 THEN CeilDiv(2 ^ (width - 1 + bits), 5 ^ n)
      ELSE IF bits <= width THEN 5 ^ n * 2 ^ (width - bits) + 1
      ELSE CeilDiv(5 ^ n, 2 ^ (bits - width))

Upper(M) == M \div 2 ^ WordBits
Lower(M) == M % 2 ^ WordBits

(* compute_minverse: Newton's steps for the inverse of 5^n, and how far    *)
(* the multiples of 5^n go.                                                *)
Inverse5(n) ==
  LET p == 5 ^ n
      step[k \in 0..6] ==
        IF k = 0 THEN p
        ELSE Times(step[k - 1], (2 - Times(p, step[k - 1])) % 2 ^ WordBits)
  IN  IF n = 0 THEN 1 ELSE step[6]

Bound5(n) == WordMax \div 5 ^ n

-----------------------------------------------------------------------------
(* Helpers.                                                                *)

Log10Pow2(e) == (LogNumerator * e) \div 2 ^ LogBits
Log10Pow2Residual(e) == ((LogNumerator * e) % 2 ^ LogBits) \div LogNumerator

MulShift(m, M) == (m * Upper(M) + (m * Lower(M)) \div 2 ^ WordBits) \div 2 ^ WordBits

MulShiftPow2(k, M) ==
  LET s == k - WordBits
  IN  IF s <= 0 THEN Upper(M) \div 2 ^ (-s)
      ELSE ((Upper(M) * 2 ^ s) % 2 ^ WordBits) + (Lower(M) \div 2 ^ (WordBits - s))

CanTestPow5(f) == f \in 0..(MinverseLength - 1)
IsMultipleOfPow5(f, n) == CanTestPow5(f) /\ Times(n, Inverse5(f)) <= Bound5(f)

RotateRight1(x) == (x \div 2) + ((x % 2) * 2 ^ (WordBits - 1))

(* Exact division by ten: by five through its inverse, by two in the       *)
(* rotation; what is no multiple lands above the bound.                    *)
RemoveTrailingZeros(m, e) ==
  LET minv5 == (0 - WordMax \div 5) % 2 ^ WordBits
      bound == WordMax \div 10 + 1
      strip[n \in Nat, k \in Int] ==
        LET q == RotateRight1(Times(n, minv5))
        IN  IF q >= bound THEN Decimal(n, k) ELSE strip[q, k + 1]
  IN  IF m = 0 THEN Decimal(0, e) ELSE strip[m, e]

(* The even one of two neighbours on a tie, else the nearer one.           *)
Nearer(tie, c2, f) ==
  LET left == (tie /\ (c2 \div 2) % 2 = 0) \/ c2 % 2 = 0
  IN  Decimal(c2 \div 2 + (IF left THEN 0 ELSE 1), f)

-----------------------------------------------------------------------------
(* The three cases.                                                        *)

IsSmallInteger(e, m) == -e \in 0..(MantissaWidth - 1) /\ m % 2 ^ (-e) = 0

IsCentred(e, m) == m # 2 ^ (MantissaWidth - 1) \/ e = ExponentMin

ToDecimalCentredClosed(e, m) == \* mutant: the lower end belongs to odd mantissas too
  LET f == Log10Pow2(e)
      scale == 2 ^ Log10Pow2Residual(e)
      M == Multiplier(f)
      ma == (2 * m - 1) * scale
      q == MulShift((2 * m + 1) * scale, M) \div 10
      s == 10 * q
      a == MulShift(ma, M)
      c2 == MulShift(4 * m * scale, M)
  IN  IF s > a \/ (s = a /\ IsMultipleOfPow5(f, ma)) THEN RemoveTrailingZeros(q, f + 1)
      ELSE Nearer(IsMultipleOfPow5(-f, c2), c2, f)

ToDecimalCentred(e, m) ==
  LET f == Log10Pow2(e)
      scale == 2 ^ Log10Pow2Residual(e)
      M == Multiplier(f)
      ma == (2 * m - 1) * scale
      mb == (2 * m + 1) * scale
      a == MulShift(ma, M)
      b == MulShift(mb, M)
      q == b \div 10
      s == 10 * q
      even == m % 2 = 0
      shortest ==
        IF ~ CanTestPow5(f) THEN s > a
        ELSE IF s = b THEN ~ IsMultipleOfPow5(f, mb) \/ even
        ELSE IF s = a THEN IsMultipleOfPow5(f, ma) /\ even
        ELSE s > a
      c2 == MulShift(4 * m * scale, M)
  IN  IF shortest THEN RemoveTrailingZeros(q, f + 1)
      ELSE Nearer(IsMultipleOfPow5(-f, c2), c2, f)

(* The lowest mantissa of an exponent: half as far to the float below.     *)
ToDecimalUncentred(e) ==
  LET m == 2 ^ (MantissaWidth - 1)
      f == Log10Pow2(e)
      r == Log10Pow2Residual(e)
      M == Multiplier(f)
      ma == (4 * m - 1) * 2 ^ r
      mb == (2 * m + 1) * 2 ^ r
      b == MulShift(mb, M)
      a == MulShift(ma, M) \div 2
      q == b \div 10
      s == 10 * q
      tie(n) == n % 5 = 0 /\ IsMultipleOfPow5(f, n)
      even == m % 2 = 0
      shortest ==
        IF ~ CanTestPow5(f) THEN s > a
        ELSE IF s = b THEN ~ tie(mb) \/ even
        ELSE IF s = a THEN tie(ma) /\ even
        ELSE s > a
      c2 == MulShiftPow2(MantissaWidth + r + 1, M)
      fine == MulShift(40 * m * 2 ^ r, M)
  IN  IF a < b
      THEN IF shortest THEN RemoveTrailingZeros(q, f + 1)
           ELSE IF c2 \div 2 = a /\ ~ tie(ma) THEN Decimal(a + 1, f)
           ELSE Nearer(IsMultipleOfPow5(-f, c2), c2, f)
      ELSE IF tie(ma) /\ even THEN RemoveTrailingZeros(a, f)
           ELSE Nearer(IsMultipleOfPow5(-f, fine), fine, f - 1)

ToDecimal(e, m) ==
  IF IsSmallInteger(e, m) THEN RemoveTrailingZeros(m \div 2 ^ (-e), 0)
  ELSE IF IsCentred(e, m) THEN ToDecimalCentred(e, m)
  ELSE ToDecimalUncentred(e)
=============================================================================
