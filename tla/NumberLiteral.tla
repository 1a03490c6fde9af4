----------------------------- MODULE NumberLiteral -----------------------------
(***************************************************************************)
(* Number literals: the grammar walk of Lexer::read_number, the decoding   *)
(* of a walked literal by JsonNum::as_u64 and as_i64 (event.rs), and       *)
(* Lexer::parse_f64_value with its fast path.                              *)
(*                                                                         *)
(* A text is a sequence of symbols: digits of Base are the numbers they    *)
(* stand for, the other bytes a literal can meet are negative numbers.     *)
(* Machine words hold 0..max, or half of that on each side of zero.        *)
(***************************************************************************)
EXTENDS Integers, Sequences

CONSTANTS
  Base,             \* 10 in the code
  Max64, Max128,    \* u64::MAX, u128::MAX
  MantissaDigits,   \* 19: digits the float fast path folds into a u64
  MantissaMax       \* 2^53: the integers a double represents exactly

Minus == -1         \* `-`
Plus  == -2         \* `+`
Dot   == -3         \* `.`
Exp   == -4         \* `e` or `E`
Comma == -5         \* a byte that may stand behind a value
Junk  == -6         \* a byte that may not
Eof   == -7         \* no byte

Digit == 0..(Base - 1)

Char(s, k) == IF k < Len(s) THEN s[k + 1] ELSE Eof
Unexpected(c) == IF c = Eof THEN "UnexpectedEof" ELSE "UnexpectedByte"

(* Lexer::scan_digit_run: the first byte from k on that is not a digit.    *)
DigitsEnd(s, k) ==
  CHOOSE e \in k..Len(s) :
    /\ Char(s, e) \notin Digit
    /\ \A j \in k..(e - 1) : Char(s, j) \in Digit

Refused(kind, e) == [kind |-> kind, end |-> e]
Read(e) == [kind |-> "ok", end |-> e]

-----------------------------------------------------------------------------
(* read_number, one part after the other; an empty fraction or exponent is *)
(* InvalidNumber.                                                          *)
ExponentFrom(s, k) ==
  IF Char(s, k) # Exp THEN Read(k)
  ELSE LET from == IF Char(s, k + 1) \in {Plus, Minus} THEN k + 2 ELSE k + 1
           e == DigitsEnd(s, from)
       IN  IF e = from THEN Refused("InvalidNumber", e) ELSE Read(e)

FractionFrom(s, k) ==
  IF Char(s, k) # Dot THEN ExponentFrom(s, k)
  ELSE LET e == DigitsEnd(s, k + 1)
       IN  IF e = k + 1 THEN Refused("InvalidNumber", e) ELSE ExponentFrom(s, e)

ReadNumber(s) ==
  LET k == IF Char(s, 0) = Minus THEN 1 ELSE 0
  IN  CASE Char(s, k) = 0             -> FractionFrom(s, k + 1)
        [] Char(s, k) \in Digit \ {0} -> FractionFrom(s, DigitsEnd(s, k))
        [] OTHER                      -> Refused(Unexpected(Char(s, k)), k)

-----------------------------------------------------------------------------
(* Decoding the walked literal.                                            *)

IsDigits(s) == s # << >> /\ \A k \in DOMAIN s : s[k] \in Digit

(* The value of the first k digits of s, negated step by step for sign -1. *)
Partial(s, sign) ==
  LET v[k \in 0..Len(s)] == IF k = 0 THEN 0 ELSE v[k - 1] * Base + sign * s[k]
  IN  v

Value(s) == Partial(s, 1)[Len(s)]

(* A word of lo..hi after unchecked arithmetic came to x.                  *)
Wrapped(x, lo, hi) == ((x - lo) % (hi - lo + 1)) + lo

None == [some |-> FALSE, value |-> 0]
Some(x) == [some |-> TRUE, value |-> x]

(* Short digit strings are folded unchecked; longer ones are checked at    *)
(* every digit.                                                            *)
Fold(s, sign, fast, lo, hi) ==
  LET v == Partial(s, sign)
  IN  IF /\ IsDigits(s)
         /\ Len(s) <= fast \/ \A k \in DOMAIN v : v[k] \in lo..hi
      THEN Some(Wrapped(v[Len(s)], lo, hi)) ELSE None

ParseU64(s, fast) == Fold(s, 1, fast, 0, Max64)

ParseI64Symmetric(s, fast) == \* mutant: negatives are folded as positives and negated
  LET half == Max64 \div 2
      negative == s # << >> /\ s[1] = Minus
      n == Fold(IF negative THEN Tail(s) ELSE s, 1, fast, -half - 1, half)
  IN  IF negative /\ n.some THEN Some(-n.value) ELSE n

(* A negative literal is folded downwards where the checks are on, so that *)
(* i64::MIN is reached; on the fast path it is negated at the end.         *)
ParseI64(s, fast) ==
  LET half == Max64 \div 2
      negative == s # << >> /\ s[1] = Minus
      digits == IF negative THEN Tail(s) ELSE s
      up == Fold(digits, 1, fast, -half - 1, half)
  IN  IF ~ negative THEN up
      ELSE IF Len(digits) <= fast /\ up.some THEN Some(-up.value)
      ELSE Fold(digits, -1, fast, -half - 1, half)

-----------------------------------------------------------------------------
(* Floats.  A double is the exact quotient value / Base^scale, rounded     *)
(* once: what is modelled is which quotient it is and where the cursor     *)
(* stops.  What the fast path does not take is walked by read_number and   *)
(* left to str::parse (external), whose refusal of infinities is left out. *)

(* The digits of s, whatever stands between them.                          *)
DigitsUpTo(s) ==
  LET upTo[n \in 0..Len(s)] ==
        IF n = 0 THEN << >>
        ELSE IF s[n] \in Digit THEN Append(upTo[n - 1], s[n])
        ELSE upTo[n - 1]
  IN  upTo

DigitsOf(s) == DigitsUpTo(s)[Len(s)]

NotFast == [kind |-> "none", end |-> 0, mantissa |-> 0, scale |-> 0]

(* parse_f64_fast: no exponent, few digits, a terminator behind, and a     *)
(* mantissa that is exact.                                                 *)
ParseF64FastRunsOn(s) ==      \* mutant: what follows the digits is not looked at
  LET k == IF Char(s, 0) = Minus THEN 1 ELSE 0
      int == IF Char(s, k) = 0 THEN k + 1 ELSE DigitsEnd(s, k)
      dot == Char(s, int) = Dot
      e == IF dot THEN DigitsEnd(s, int + 1) ELSE int
      digits == DigitsOf(SubSeq(s, k + 1, e))
      fast == /\ Char(s, k) \in Digit
              /\ dot => e > int + 1
              /\ Len(digits) <= MantissaDigits
              /\ Wrapped(Value(digits), 0, Max64) <= MantissaMax
  IN  IF fast
      THEN [kind |-> "ok", end |-> e, mantissa |-> Wrapped(Value(digits), 0, Max64),
            scale |-> IF dot THEN e - int - 1 ELSE 0]
      ELSE NotFast

ParseF64Fast(s) ==
  LET k == IF Char(s, 0) = Minus THEN 1 ELSE 0
      int == IF Char(s, k) = 0 THEN k + 1 ELSE DigitsEnd(s, k)
      dot == Char(s, int) = Dot
      e == IF dot THEN DigitsEnd(s, int + 1) ELSE int
      digits == DigitsOf(SubSeq(s, k + 1, e))
      fast == /\ Char(s, k) \in Digit
              /\ dot => e > int + 1
              /\ Len(digits) <= MantissaDigits
              /\ Char(s, e) \in {Comma, Eof}
              /\ Wrapped(Value(digits), 0, Max64) <= MantissaMax
  IN  IF fast
      THEN [kind |-> "ok", end |-> e, mantissa |-> Wrapped(Value(digits), 0, Max64),
            scale |-> IF dot THEN e - int - 1 ELSE 0]
      ELSE NotFast

(* parse_f64_value: the fast path, or the grammar walk from the start.     *)
ParseF64(s) ==
  LET fast == ParseF64Fast(s)
  IN  IF fast.kind = "ok" THEN Read(fast.end) ELSE ReadNumber(s)
=============================================================================
