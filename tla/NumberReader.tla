------------------------------ MODULE NumberReader ------------------------------
(***************************************************************************)
(* The fused integer readers of the lexer: parse_i64_value,                *)
(* parse_u64_value, parse_i128_value and parse_u128_value                  *)
(* (lexer.rs:527-836).  Each walks the digits of a literal and folds them  *)
(* into an unsigned word, the first few without looking at overflow, the   *)
(* rest checked.                                                           *)
(***************************************************************************)
EXTENDS NumberLiteral

CONSTANTS
  Texts,            \* what may stand at the cursor
  Fast64, Fast128,  \* U64_FAST_DIGITS, U128_FAST_DIGITS: digits folded unchecked
  LiteralU64, LiteralI64,  \* the same when a walked literal is decoded (event.rs)
  Power             \* Power[k] is Base^k, as far as the fast digits go

(* The fast digits fit the word: what U64_FAST_DIGITS and U128_FAST_DIGITS *)
(* are chosen for.                                                         *)
FastFits(max, fast) ==
  /\ max \in Nat \ {0} /\ fast \in Nat
  /\ \A k \in 0..fast : Power[k] \in Nat /\ Power[k] <= max + 1
  /\ \A k \in 0..(fast - 1) : Power[k + 1] = Power[k] * Base
  /\ Power[0] = 1

ASSUME NumberAssumption ==
  /\ Base \in Nat /\ Base >= 2
  /\ \A s \in Texts : s \in Seq(Int)
  /\ FastFits(Max64, Fast64)
  /\ FastFits(Max128, Fast128)
  /\ FastFits(Max64, LiteralU64)
  /\ FastFits(Max64 \div 2, LiteralI64)
  /\ FastFits(Max64, MantissaDigits)

VARIABLES
  text,             \* the bytes from the cursor on
  method,           \* which reader was called
  pc,
  pos,              \* i in the code; the cursor once the reader returns
  negative, acc, count,
  exact,            \* history: the number the digits so far stand for
  ret, value        \* what is returned

vars == <<text, method, pc, pos, negative, acc, count, exact, ret, value>>

Methods == {"i64", "u64", "i128", "u128"}
Errors == {"ExpectedNumber", "NumberOutOfRange", "UnexpectedByte", "UnexpectedEof"}

Init ==
  /\ text \in Texts
  /\ method \in Methods
  /\ pc = "start"
  /\ pos = 0
  /\ negative = FALSE
  /\ acc = 0 /\ count = 0 /\ exact = 0
  /\ ret = "none" /\ value = 0

Here == Char(text, pos)

Done(kind, v) == pc' = "done" /\ ret' = kind /\ value' = v
Fail(kind) == Done(kind, 0)

(* `.` or an exponent behind the digits: not an integer.                   *)
Float(p) == Char(text, p) \in {Dot, Exp}

-----------------------------------------------------------------------------
(* The sign.  A leading `-` is out of any unsigned range, `-0` included.   *)
RefuseSign ==
  /\ pc = "start" /\ pos = 0
  /\ Here = Minus
  /\ Fail("NumberOutOfRange")
  /\ UNCHANGED <<text, method, pos, negative, acc, count, exact>>

TakeSign ==
  /\ pc = "start" /\ pos = 0
  /\ Here = Minus
  /\ negative' = TRUE
  /\ pos' = 1
  /\ UNCHANGED <<text, method, pc, acc, count, exact, ret, value>>

(* A leading zero is the whole literal.                                    *)
Zero ==
  /\ pc = "start" /\ Here = 0
  /\ pos' = pos + 1
  /\ IF Float(pos + 1) THEN Fail("ExpectedNumber") ELSE Done("ok", 0)
  /\ UNCHANGED <<text, method, negative, acc, count, exact>>

FirstDigit ==
  /\ pc = "start" /\ Here \in Digit \ {0}
  /\ pc' = "digits"
  /\ UNCHANGED <<text, method, pos, negative, acc, count, exact, ret, value>>

NoDigit ==
  /\ pc = "start" /\ Here \notin Digit
  /\ pos = 0 => Here # Minus
  /\ Fail(Unexpected(Here))
  /\ UNCHANGED <<text, method, pos, negative, acc, count, exact>>

Start == Zero \/ FirstDigit \/ NoDigit

FoldDigitLate(max, fast) ==   \* mutant: one digit too many is folded unchecked
  LET next == acc * Base + Here
  IN  /\ pc = "digits" /\ Here \in Digit
      /\ \/ /\ count <= fast
            /\ acc' = next % (max + 1)
            /\ pos' = pos + 1 /\ count' = count + 1
            /\ exact' = exact * Base + Here
            /\ UNCHANGED <<pc, ret, value>>
         \/ /\ count > fast
            /\ next <= max
            /\ acc' = next
            /\ pos' = pos + 1 /\ count' = count + 1
            /\ exact' = exact * Base + Here
            /\ UNCHANGED <<pc, ret, value>>
         \/ /\ count > fast
            /\ next > max
            /\ Fail("NumberOutOfRange")
            /\ UNCHANGED <<acc, pos, count, exact>>
      /\ UNCHANGED <<text, method, negative>>

(* One digit: unchecked (and so wrapping) while count < fast, checked      *)
(* from there on.                                                          *)
FoldDigit(max, fast) ==
  LET next == acc * Base + Here
  IN  /\ pc = "digits" /\ Here \in Digit
      /\ \/ /\ count < fast
            /\ acc' = next % (max + 1)
            /\ pos' = pos + 1 /\ count' = count + 1
            /\ exact' = exact * Base + Here
            /\ UNCHANGED <<pc, ret, value>>
         \/ /\ count >= fast
            /\ next <= max
            /\ acc' = next
            /\ pos' = pos + 1 /\ count' = count + 1
            /\ exact' = exact * Base + Here
            /\ UNCHANGED <<pc, ret, value>>
         \/ /\ count >= fast
            /\ next > max
            /\ Fail("NumberOutOfRange")
            /\ UNCHANGED <<acc, pos, count, exact>>
      /\ UNCHANGED <<text, method, negative>>

FromMagnitudeOneSided(max) == \* mutant: the magnitude of the minimum is out of range
  IF acc <= max \div 2
  THEN Done("ok", IF negative THEN -acc ELSE acc)
  ELSE Fail("NumberOutOfRange")

(* i64_from_unsigned_magnitude and its copy for i128: the negative side    *)
(* reaches one further than the positive.                                  *)
FromMagnitude(max) ==
  IF acc <= (IF negative THEN max \div 2 + 1 ELSE max \div 2)
  THEN Done("ok", IF negative THEN -acc ELSE acc)
  ELSE Fail("NumberOutOfRange")

FinishSigned(max) ==
  /\ pc = "digits" /\ Here \notin Digit
  /\ IF Float(pos) THEN Fail("ExpectedNumber") ELSE FromMagnitude(max)
  /\ UNCHANGED <<text, method, pos, negative, acc, count, exact>>

FinishUnsigned ==
  /\ pc = "digits" /\ Here \notin Digit
  /\ IF Float(pos) THEN Fail("ExpectedNumber") ELSE Done("ok", acc)
  /\ UNCHANGED <<text, method, pos, negative, acc, count, exact>>

-----------------------------------------------------------------------------
ParseI64Value ==
  /\ method = "i64"
  /\ TakeSign \/ Start \/ FoldDigit(Max64, Fast64) \/ FinishSigned(Max64)

ParseU64Value ==
  /\ method = "u64"
  /\ RefuseSign \/ Start \/ FoldDigit(Max64, Fast64) \/ FinishUnsigned

ParseI128Value ==
  /\ method = "i128"
  /\ TakeSign \/ Start \/ FoldDigit(Max128, Fast128) \/ FinishSigned(Max128)

ParseU128Value ==
  /\ method = "u128"
  /\ RefuseSign \/ Start \/ FoldDigit(Max128, Fast128) \/ FinishUnsigned

Next == ParseI64Value \/ ParseU64Value \/ ParseI128Value \/ ParseU128Value

Spec == Init /\ [][Next]_vars

-----------------------------------------------------------------------------
(* An integer literal at the start of s, declaratively: an optional sign,  *)
(* then a lone zero or digits that do not start with zero, as far as they  *)
(* go, and neither fraction nor exponent behind.                           *)
SignOf(s) == IF Char(s, 0) = Minus THEN 1 ELSE 0
IntegerEnd(s) ==
  IF Char(s, SignOf(s)) = 0 THEN SignOf(s) + 1 ELSE DigitsEnd(s, SignOf(s))
IsInteger(s) ==
  /\ Char(s, SignOf(s)) \in Digit
  /\ Char(s, IntegerEnd(s)) \notin {Dot, Exp}
Magnitude(s) == Value(SubSeq(s, SignOf(s) + 1, IntegerEnd(s)))
IntegerOf(s) == IF SignOf(s) = 1 THEN -Magnitude(s) ELSE Magnitude(s)

MaxOf(m) == IF m \in {"i64", "u64"} THEN Max64 ELSE Max128
Lowest(m) == IF m \in {"i64", "i128"} THEN -(MaxOf(m) \div 2) - 1 ELSE 0
Highest(m) == IF m \in {"i64", "i128"} THEN MaxOf(m) \div 2 ELSE MaxOf(m)

TypeOK ==
  /\ text \in Seq(Int)
  /\ method \in Methods
  /\ pc \in {"start", "digits", "done"}
  /\ pos \in 0..Len(text)
  /\ negative \in BOOLEAN
  /\ acc \in Nat /\ count \in Nat /\ exact \in Nat
  /\ ret \in {"none", "ok"} \cup Errors
  /\ value \in Int

(* The word a reader folds digits into never wraps: it is the number the   *)
(* digits stand for, unchecked digits included (lexer.rs:605-609, 655-658, *)
(* 718-719, 798-799).                                                      *)
AccumulatorIsExact == acc = exact /\ acc <= MaxOf(method)

(* A reader accepts exactly the integer literals whose value its type      *)
(* holds, returns that value and stops right behind the literal; the       *)
(* unsigned ones refuse every sign (lexer.rs:527-532, 564-576).            *)
ReadsExactlyTheIntegers ==
  LET signed == method \in {"i64", "i128"}
  IN  pc = "done" =>
        /\ (ret = "ok") <=> /\ IsInteger(text)
                            /\ signed \/ SignOf(text) = 0
                            /\ IntegerOf(text) \in Lowest(method)..Highest(method)
        /\ ret = "ok" => value = IntegerOf(text) /\ pos = IntegerEnd(text)

(* The same number by itself: read_number, then as_i64 or as_u64           *)
(* (de.rs:132-144, 176-188).                                               *)
FromLex ==
  LET walked == ReadNumber(text)
      literal == SubSeq(text, 1, walked.end)
  IN  IF walked.kind # "ok" THEN None
      ELSE IF method = "i64" THEN ParseI64(literal, LiteralI64) ELSE ParseU64(literal, LiteralU64)

(* The elements of a Vec are read by the fused readers, a number by itself *)
(* by read_number and a decoding of the literal: what one accepts the      *)
(* other accepts, with the same value and the cursor in the same place     *)
(* (de.rs:132-164, 176-210).                                               *)
ElementsReadAsTheyDoAlone ==
  pc = "done" /\ method \in {"i64", "u64"} =>
    /\ FromLex = IF ret = "ok" THEN Some(value) ELSE None
    /\ ret = "ok" => ReadNumber(text).end = pos

(* The float fast path takes nothing the grammar walk would not take, and  *)
(* takes it as the same digits at the same scale: its mantissa is exact,   *)
(* the power of ten it divides by is exact as well, and the cursor is      *)
(* where the walk would leave it (lexer.rs:880-974).                       *)
FloatsFollowTheGrammar ==
  LET fast == ParseF64Fast(text)
      walked == ReadNumber(text)
      digits == DigitsOf(SubSeq(text, 1, fast.end))
  IN  pc = "start" =>
        /\ ParseF64(text) = walked
        /\ fast.kind = "ok" =>
             /\ fast.mantissa = Value(digits)
             /\ fast.mantissa <= MantissaMax
             /\ fast.scale < MantissaDigits
             /\ \A k \in 1..fast.end : text[k] = Dot => fast.scale = fast.end - k
=============================================================================
