------------------------------ MODULE EscapeCodec ------------------------------
(***************************************************************************)
(* The pure parts of the escape codec (escape/hex.rs, escape/writer.rs,    *)
(* utf8_leading_byte_info) over a small character set: bytes are named,    *)
(* hex digits have the values 0..Radix-1, and code units are four digits   *)
(* as in the code.  Text is a sequence of bytes in the multi-byte encoding *)
(* that Encode gives.                                                      *)
(***************************************************************************)
EXTENDS Integers, Sequences, FiniteSets, SequencesExt

CONSTANTS
  Radix,            \* 16 in the code
  HexDigits,        \* the bytes of the hex digits, in order
  Controls,         \* bytes below 0x20 that no escape names, in order of code
  High, Low,        \* the two ranges of surrogates
  Encode            \* code point -> its bytes (char::encode_utf8)

(* Bytes with a meaning of their own; "x" stands for every other ASCII     *)
(* byte, "bad" for the bytes no encoding uses.                             *)
Cont  == {"cont", "contHigh"}
Plain == {"slash", "n", "u", "x"} \cup Range(HexDigits)
Control == {"newline"} \cup Range(Controls)

(* utf8_leading_byte_info: how many bytes follow a leading byte, and which *)
(* may be the second: after lead3 not every continuation byte may, as      *)
(* after 0xE0, 0xED, 0xF0 and 0xF4 in the code.                            *)
LeadInfo ==
  [lead2 |-> [extra |-> 1, second |-> Cont],
   lead3 |-> [extra |-> 2, second |-> {"contHigh"}],
   lead4 |-> [extra |-> 3, second |-> Cont]]
Leading == DOMAIN LeadInfo

Byte == Plain \cup Control \cup Cont \cup Leading \cup {"quote", "backslash", "bad"}
NonAscii == Cont \cup Leading \cup {"bad"}
Ascii == Byte \ NonAscii

(* The end of the character at position k of s (from 0), or the byte where *)
(* it goes wrong: one turn of consume_utf8_multibyte.                      *)
ByteAt(s, k) == IF k < Len(s) THEN s[k + 1] ELSE "eof"
Least(S) == CHOOSE x \in S : \A y \in S : x <= y
CharEnd(s, k) ==
  IF ByteAt(s, k) \notin Leading THEN [ok |-> FALSE, end |-> k]
  ELSE LET info == LeadInfo[ByteAt(s, k)]
           last == k + info.extra
           wrong == {j \in (k + 1)..last :
                       ByteAt(s, j) \notin (IF j = k + 1 THEN info.second ELSE Cont)}
       IN  IF wrong = {} THEN [ok |-> TRUE, end |-> last + 1]
           ELSE [ok |-> FALSE, end |-> Least(wrong)]

(* The bytes of s from a to b (from 0, b itself not among them) are text:   *)
(* whole characters, the first at a, each one right behind the one before. *)
(* What a continuation byte stands behind is a matter of its character.    *)
Starts(s, a, b) == {k \in a..b : k = b \/ ByteAt(s, k) \notin Cont}
TextBetween(s, a, b) ==
  /\ a \in Starts(s, a, b)
  /\ \A k \in Starts(s, a, b) \ {b} :
       \/ ByteAt(s, k) \in Ascii /\ k + 1 \in Starts(s, a, b)
       \/ CharEnd(s, k).ok /\ CharEnd(s, k).end \in Starts(s, a, b)
IsText(s) == TextBetween(s, 0, Len(s))

(* What `\` and one byte stand for.                                        *)
NamedEscape == [quote |-> "quote", backslash |-> "backslash", slash |-> "slash", n |-> "newline"]
Named == DOMAIN NamedEscape

-----------------------------------------------------------------------------
(* Hex4. *)

IsHex(b) == b \in Range(HexDigits)
HexValue(b) == (CHOOSE k \in DOMAIN HexDigits : HexDigits[k] = b) - 1
AllHex(s) == \A k \in DOMAIN s : IsHex(s[k])
Hex4(s) ==
  ((HexValue(s[1]) * Radix + HexValue(s[2])) * Radix + HexValue(s[3])) * Radix + HexValue(s[4])

Combine(h, l) == Radix ^ 4 + (h - Least(High)) * Cardinality(Low) + (l - Least(Low))

(* The digits are bytes of their own, one for each value, and what a code  *)
(* point is encoded as is text (char::encode_utf8).                        *)
Units == 0..(Radix * Radix * Radix * Radix - 1)
Scalars == (Units \ (High \cup Low)) \cup {Combine(h, l) : h \in High, l \in Low}

ASSUME CodecAssumption ==
  /\ Radix \in Nat
  /\ DOMAIN HexDigits = 1..Radix
  /\ Range(HexDigits) \cap (NonAscii \cup {"eof"}) = {}
  /\ Range(Controls) \cap (NonAscii \cup {"eof"}) = {}
  /\ High \cap Low = {}
  /\ \A v \in Scalars : Encode[v] \in Seq(Byte) /\ IsText(Encode[v])

-----------------------------------------------------------------------------
(* The writer. *)

EscapeNibblesSwapped(b) ==    \* mutant: the two digits of a control byte change places
  LET code == (CHOOSE k \in DOMAIN Controls : Controls[k] = b) - 1
  IN  <<"backslash", "u", HexDigits[1], HexDigits[1],
        HexDigits[(code % Radix) + 1], HexDigits[code \div Radix + 1]>>

(* write_escape_byte for a byte that no escape names.                      *)
EscapeControl(b) ==
  LET code == (CHOOSE k \in DOMAIN Controls : Controls[k] = b) - 1
  IN  <<"backslash", "u", HexDigits[1], HexDigits[1],
        HexDigits[code \div Radix + 1], HexDigits[(code % Radix) + 1]>>

(* write_escape_byte: ESCAPE_TABLE first (the solidus is not in it), then  *)
(* the controls; everything else is part of a literal run.                 *)
EscapeByte(b) ==
  CASE b \in {"quote", "backslash"} -> <<"backslash", b>>
    [] b = "newline"                -> <<"backslash", "n">>
    [] b \in Range(Controls)        -> EscapeControl(b)
    [] OTHER                        -> <<b>>

(* write_escaped_body; what the runs are split into does not show in the   *)
(* bytes.                                                                  *)
EscapedBody(text) == FlattenSeq([k \in DOMAIN text |-> EscapeByte(text[k])])
=============================================================================
