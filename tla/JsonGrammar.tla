------------------------------ MODULE JsonGrammar ------------------------------
(***************************************************************************)
(* RFC 8259 over the token classes of Lexer, written as the grammar is and *)
(* not as any reader of this crate works: the reference that acceptance is *)
(* judged by.  scalars and keys are the tokens allowed as scalar values    *)
(* and as keys, depth is the number of containers that may nest.           *)
(***************************************************************************)
EXTENDS Naturals, Sequences, FiniteSets

(* A token that begins a lexeme: whitespace is none, a run of digits one.  *)
LexemeBegins(text, n) ==
  text[n] # "ws" /\ ~ (n > 1 /\ text[n] = "1" /\ text[n - 1] = "1")

(* The lexemes that begin in the first n tokens, for each n.               *)
LexemesUpTo(text) ==
  LET upTo[n \in 0..Len(text)] ==
        IF n = 0 THEN << >>
        ELSE IF LexemeBegins(text, n) THEN Append(upTo[n - 1], text[n])
        ELSE upTo[n - 1]
  IN  upTo

(* The document without whitespace and with each run of digits made one.   *)
Lexemes(text) == LexemesUpTo(text)[Len(text)]

(* What a symbol of the grammar can stand for: x = <<symbol, i, j, d>> is  *)
(* about t[i..j] with at most d containers nested.                         *)
Spans(t, depth) ==
  {"value", "elements", "member", "members"} \X (1..Len(t)) \X (1..Len(t)) \X (0..depth)

(* x by one production of the grammar, from the smaller spans that are     *)
(* derived.                                                                *)
Production(t, scalars, keys, derived, x) ==
  LET i == x[2]
      j == x[3]
      d == x[4]
      body(open, close, symbol) ==
        /\ i < j /\ d > 0 /\ t[i] = open /\ t[j] = close
        /\ j = i + 1 \/ derived[<<symbol, i + 1, j - 1, d - 1>>]
      list(symbol, item) ==
        \/ derived[<<item, i, j, d>>]
        \/ \E k \in (i + 1)..(j - 1) :
             t[k] = "," /\ derived[<<item, i, k - 1, d>>] /\ derived[<<symbol, k + 1, j, d>>]
  IN  \/ /\ x[1] = "value"
         /\ \/ i = j /\ t[i] \in scalars
            \/ body("[", "]", "elements")
            \/ body("{", "}", "members")
      \/ x[1] = "elements" /\ list("elements", "value")
      \/ /\ x[1] = "member"
         /\ i + 2 <= j /\ t[i] \in keys /\ t[i + 1] = ":"
         /\ derived[<<"value", i + 2, j, d>>]
      \/ x[1] = "members" /\ list("members", "member")

(* The whole of t is a value with at most depth containers nested.         *)
Derives(t, scalars, keys, depth) ==
  LET derived[x \in Spans(t, depth)] == Production(t, scalars, keys, derived, x)
  IN  derived[<<"value", 1, Len(t), depth>>]

IsDocument(text, scalars, keys, depth) ==
  LET t == Lexemes(text)
  IN  t # << >> /\ Derives(t, scalars, keys, depth)

-----------------------------------------------------------------------------
(* The members of an object that is a whole text.                          *)

DepthAt(t, i) ==
  Cardinality({k \in 1..i : t[k] \in {"[", "{"}})
    - Cardinality({k \in 1..i : t[k] \in {"]", "}"}})

(* By the position of their colon.                                         *)
Members(t) == {c \in 2..Len(t) : t[c] = ":" /\ DepthAt(t, c) = 1}

MemberValue(t, c) ==
  LET end == CHOOSE e \in (c + 1)..Len(t) :
               /\ DepthAt(t, e - 1) = 1 /\ DepthAt(t, e) <= 1
               /\ t[e] \in {",", "}"}
               /\ \A k \in (c + 1)..(e - 1) : ~ (t[k] = "," /\ DepthAt(t, k) = 1)
  IN  SubSeq(t, c + 1, end - 1)
=============================================================================
