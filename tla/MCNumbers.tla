------------------------------- MODULE MCNumbers -------------------------------
(* The number readers on every short text, and on digit strings around the *)
(* limits of two small word sizes.                                         *)
EXTENDS NumberReader

CONSTANTS
  AnyLength,        \* longest text over every symbol
  DigitsLength      \* longest string of digits

Symbol == Digit \cup {Minus, Plus, Dot, Exp, Comma, Junk}
Strings(S, n) == UNION {[1..k -> S] : k \in 0..n}

MCPower == [k \in 0..Fast128 |-> Base ^ k]

MCTexts ==
  LET digits == Strings(Digit, DigitsLength)
      signs == {<< >>, <<Minus>>}
      tails == {<< >>, <<Comma>>, <<Exp, 1>>, <<Dot, 1>>}
  IN  Strings(Symbol, AnyLength) \cup {g \o d \o t : g \in signs, d \in digits, t \in tails}
=============================================================================
