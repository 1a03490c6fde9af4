------------------------------ MODULE StringReader ------------------------------
(***************************************************************************)
(* Reading one JSON string: the lexer's scan (read_string_inner,           *)
(* parse_str_value), the validator that the stream consumers' strings go   *)
(* through, and the decoder that the typed readers run instead of it.      *)
(* Each step is one turn of one of the code's loops.                       *)
(***************************************************************************)
EXTENDS EscapeCodec

CONSTANTS
  Sources,          \* [input, text]: the bytes from the opening quote on, and
                    \* the text the writer wrote them for, if it did
  Capacity          \* EscapeScratch's size, 4 in the code

ASSUME SourcesAssumption == \A s \in Sources : s.input \in Seq(Byte)

(* Who reads: a consumer of read_value, String and Cow, char, &str, and    *)
(* skip_object_body for a key it throws away.                              *)
Uses == {"stream", "owned", "char", "borrowed", "skipped"}

VARIABLES
  source, use,
  pc,               \* the loop that runs
  offset,           \* the lexer's cursor
  raw,              \* the bytes between the quotes, once the scan has them
  hasEscapes,
  i,                \* the validator's or decoder's position in raw
  out,              \* the text produced
  ret

vars == <<source, use, pc, offset, raw, hasEscapes, i, out, ret>>

Errors == {"UnexpectedEof", "UnexpectedByte", "InvalidEscape", "ControlCharInString",
           "InvalidUtf8", "InvalidUnicodeEscape", "UnpairedSurrogate", "TypeMismatch"}

Init ==
  /\ source \in Sources
  /\ use \in Uses
  /\ pc = "scan"
  /\ offset = 1                          \* the opening quote is bumped
  /\ raw = << >> /\ hasEscapes = FALSE
  /\ i = 1
  /\ out = << >>
  /\ ret = "none"

At(k) == ByteAt(source.input, k)
Unexpected(b) == IF b = "eof" THEN "UnexpectedEof" ELSE "UnexpectedByte"

Return(kind) == pc' = "done" /\ ret' = kind
Stay == UNCHANGED <<pc, ret>>

-----------------------------------------------------------------------------
(* The scan. *)

Scanning == pc = "scan" /\ UNCHANGED <<source, use, i>>
NotClosed == UNCHANGED <<raw, out>>

(* scan_ascii_string_run: on to the first quote, backslash, control or     *)
(* non-ASCII byte.                                                         *)
RunEnd(k) ==
  CHOOSE e \in k..Len(source.input) :
    /\ At(e) \notin Plain
    /\ \A j \in k..(e - 1) : At(j) \in Plain

ScanRunNotStored ==           \* mutant: the cursor is not written back
  /\ Scanning /\ NotClosed
  /\ At(offset) \in Plain
  /\ offset' = offset
  /\ Stay /\ UNCHANGED hasEscapes

ScanRun ==
  /\ Scanning /\ NotClosed
  /\ At(offset) \in Plain
  /\ offset' = RunEnd(offset)
  /\ Stay /\ UNCHANGED hasEscapes

ScanUtf8AnySecond ==          \* mutant: the second byte's own range is forgotten
  LET extra == IF At(offset) \in Leading THEN LeadInfo[At(offset)].extra ELSE 0
  IN  /\ Scanning /\ NotClosed
      /\ At(offset) \in NonAscii
      /\ IF At(offset) \in Leading /\ \A j \in (offset + 1)..(offset + extra) : At(j) \in Cont
         THEN offset' = offset + extra + 1 /\ Stay
         ELSE offset' = offset /\ Return("InvalidUtf8")
      /\ UNCHANGED hasEscapes

(* consume_utf8_multibyte, one character a turn.                           *)
ScanUtf8 ==
  LET char == CharEnd(source.input, offset)
  IN  /\ Scanning /\ NotClosed
      /\ At(offset) \in NonAscii
      /\ offset' = char.end
      /\ IF char.ok THEN Stay ELSE Return("InvalidUtf8")
      /\ UNCHANGED hasEscapes

ScanControl ==
  /\ Scanning /\ NotClosed
  /\ At(offset) \in Control
  /\ Return("ControlCharInString")
  /\ UNCHANGED <<offset, hasEscapes>>

ScanEnd ==
  /\ Scanning /\ NotClosed
  /\ At(offset) = "eof"
  /\ Return("UnexpectedEof")
  /\ UNCHANGED <<offset, hasEscapes>>

RefuseEscapeInSkipped ==      \* mutant: a skipped key is read as a borrowed one
  /\ Scanning /\ NotClosed
  /\ use \in {"borrowed", "skipped"} /\ At(offset) = "backslash"
  /\ Return("InvalidEscape")
  /\ UNCHANGED <<offset, hasEscapes>>

(* A borrowed string cannot hold an escape: the cursor stays on it.        *)
RefuseEscape ==
  /\ Scanning /\ NotClosed
  /\ use = "borrowed" /\ At(offset) = "backslash"
  /\ Return("InvalidEscape")
  /\ UNCHANGED <<offset, hasEscapes>>

(* The scan looks at the shape of an escape only: `\u` and four hex        *)
(* digits, whatever they stand for.                                        *)
ScanEscape ==
  LET kind == At(offset + 1)
      notHex == {k \in (offset + 2)..(offset + 5) : ~ IsHex(At(k))}
  IN  /\ Scanning /\ NotClosed
      /\ use # "borrowed" /\ At(offset) = "backslash"
      /\ hasEscapes' = TRUE
      /\ CASE kind \in Named -> offset' = offset + 2 /\ Stay
           [] kind = "u" /\ notHex = {} -> offset' = offset + 6 /\ Stay
           [] kind = "u" /\ notHex # {} -> /\ offset' = Least(notHex)
                                           /\ Return(Unexpected(At(Least(notHex))))
           [] kind = "eof" -> offset' = offset + 1 /\ Return("UnexpectedEof")
           [] OTHER -> offset' = offset + 1 /\ Return("InvalidEscape")

(* single_char: a string for a char holds exactly one.                     *)
IsOneChar(s) == s # << >> /\ (IF s[1] \in Ascii THEN Len(s) = 1 ELSE CharEnd(s, 0) = [ok |-> TRUE, end |-> Len(s)])
Checked(text) == IF use = "char" /\ ~ IsOneChar(text) THEN "TypeMismatch" ELSE "ok"

(* The closing quote.  Without escapes the bytes are the text; with them   *)
(* the validator or the decoder goes over the bytes, or, for a skipped     *)
(* key, nobody.                                                            *)
ScanClose ==
  LET body == SubSeq(source.input, 2, offset)
  IN  /\ Scanning
      /\ At(offset) = "quote"
      /\ offset' = offset + 1
      /\ raw' = body
      /\ \/ /\ hasEscapes /\ use = "stream"
            /\ pc' = "check" /\ UNCHANGED <<ret, out>>
         \/ /\ hasEscapes /\ use \in {"owned", "char"}
            /\ pc' = "decode" /\ UNCHANGED <<ret, out>>
         \/ /\ hasEscapes /\ use = "skipped"
            /\ Return("ok") /\ UNCHANGED out
         \/ /\ ~ hasEscapes
            /\ out' = body /\ Return(Checked(body))
      /\ UNCHANGED hasEscapes

-----------------------------------------------------------------------------
(* EscapeValidator::check. *)

Ended(kind, k) == [kind |-> kind, next |-> k]

(* check_unicode, at the `u` in position k: a unit that is no surrogate,   *)
(* or a pair in the right order.                                           *)
CheckUnicode(k) ==
  LET whole == k + 4 <= Len(raw) /\ AllHex(SubSeq(raw, k + 1, k + 4))
      unit == Hex4(SubSeq(raw, k + 1, k + 4))
      low == whole /\ unit \in Low
      high == whole /\ unit \in High
      paired == /\ high /\ k + 10 <= Len(raw)
                /\ raw[k + 5] = "backslash" /\ raw[k + 6] = "u"
      second == SubSeq(raw, k + 7, k + 10)
      closes == paired /\ AllHex(second) /\ Hex4(second) \in Low
  IN  CASE ~ whole \/ (paired /\ ~ AllHex(second)) -> Ended("InvalidUnicodeEscape", k)
        [] \/ low
           \/ high /\ ~ paired
           \/ paired /\ AllHex(second) /\ ~ closes -> Ended("UnpairedSurrogate", k)
        [] whole /\ ~ low /\ ~ high               -> Ended("ok", k + 5)
        [] closes                                 -> Ended("ok", k + 11)

CheckEscape(k) ==
  LET kind == IF k <= Len(raw) THEN raw[k] ELSE "eof"
  IN  CASE kind \in Named -> Ended("ok", k + 1)
        [] kind = "u"     -> CheckUnicode(k)
        [] OTHER          -> Ended("InvalidEscape", k)

Check ==
  LET step == IF raw[i] = "backslash" THEN CheckEscape(i + 1)
              ELSE Ended(IF raw[i] \in Control THEN "ControlCharInString" ELSE "ok", i + 1)
  IN  /\ pc = "check" /\ i <= Len(raw)
      /\ i' = step.next
      /\ IF step.kind = "ok" THEN Stay ELSE Return(step.kind)
      /\ UNCHANGED <<source, use, offset, raw, hasEscapes, out>>

CheckDone ==
  /\ pc = "check" /\ i > Len(raw)
  /\ Return("ok")
  /\ UNCHANGED <<source, use, offset, raw, hasEscapes, i, out>>

-----------------------------------------------------------------------------
(* EscapeDecoder::decode. *)

Decoded(kind, text, k) == [kind |-> kind, text |-> text, next |-> k]
Invalid(kind) == Decoded(kind, << >>, i)

(* unicode_escape, at the `u` in position k.                               *)
UnicodeEscape(k) ==
  LET whole == k + 4 <= Len(raw) /\ AllHex(SubSeq(raw, k + 1, k + 4))
      unit == Hex4(SubSeq(raw, k + 1, k + 4))
      low == whole /\ unit \in Low
      high == whole /\ unit \in High
      paired == /\ high /\ k + 10 <= Len(raw)
                /\ raw[k + 5] = "backslash" /\ raw[k + 6] = "u"
      second == SubSeq(raw, k + 7, k + 10)
      closes == paired /\ AllHex(second) /\ Hex4(second) \in Low
  IN  CASE ~ whole \/ (paired /\ ~ AllHex(second)) -> Invalid("InvalidUnicodeEscape")
        [] \/ low
           \/ high /\ ~ paired
           \/ paired /\ AllHex(second) /\ ~ closes -> Invalid("UnpairedSurrogate")
        [] whole /\ ~ low /\ ~ high -> Decoded("ok", Encode[unit], k + 5)
        [] closes -> Decoded("ok", Encode[Combine(unit, Hex4(second))], k + 11)

(* find_backslash: the end of the literal run at k.                        *)
LiteralEnd(k) ==
  CHOOSE e \in k..(Len(raw) + 1) :
    /\ e > Len(raw) \/ raw[e] = "backslash"
    /\ \A j \in k..(e - 1) : raw[j] # "backslash"

(* One literal run or one escape.                                          *)
NextPiece ==
  CASE raw[i] # "backslash" -> Decoded("ok", SubSeq(raw, i, LiteralEnd(i) - 1), LiteralEnd(i))
    [] raw[i] = "backslash" /\ i = Len(raw) -> Invalid("InvalidEscape")
    [] raw[i] = "backslash" /\ i < Len(raw) ->
         CASE raw[i + 1] = "u"     -> UnicodeEscape(i + 1)
           [] raw[i + 1] \in Named -> Decoded("ok", <<NamedEscape[raw[i + 1]]>>, i + 2)
           [] OTHER                -> Invalid("InvalidEscape")

PushTruncates(text, next) ==  \* mutant: what does not fit is dropped
  IF use = "char" /\ Len(out) + Len(text) > Capacity
  THEN out' = out /\ i' = next /\ Stay
  ELSE out' = out \o text /\ i' = next /\ Stay

(* EscapeSink::push: the char reader's sink is bounded, and says so.       *)
Push(text, next) ==
  IF use = "char" /\ Len(out) + Len(text) > Capacity
  THEN UNCHANGED <<out, i>> /\ Return("TypeMismatch")
  ELSE out' = out \o text /\ i' = next /\ Stay

Decode ==
  /\ pc = "decode" /\ i <= Len(raw)
  /\ IF NextPiece.kind = "ok" THEN Push(NextPiece.text, NextPiece.next)
     ELSE UNCHANGED <<out, i>> /\ Return(NextPiece.kind)
  /\ UNCHANGED <<source, use, offset, raw, hasEscapes>>

DecodeDone ==
  /\ pc = "decode" /\ i > Len(raw)
  /\ Return(Checked(out))
  /\ UNCHANGED <<source, use, offset, raw, hasEscapes, i, out>>

Next ==
  \/ ScanRun \/ ScanUtf8 \/ ScanControl \/ ScanEnd \/ RefuseEscape \/ ScanEscape \/ ScanClose
  \/ Check \/ CheckDone
  \/ Decode \/ DecodeDone

Spec == Init /\ [][Next]_vars /\ WF_vars(Next)

-----------------------------------------------------------------------------
(* The bytes handed out unchecked are text at every step, and so are those *)
(* the decoder is given: no run is cut inside a character, and no          *)
(* ill-formed character gets through the scan (the precondition of         *)
(* from_utf8_unchecked at decoder.rs:129, lexer.rs:1003, event.rs:100).    *)
OutIsAlwaysText == IsText(out) /\ IsText(raw)
=============================================================================
