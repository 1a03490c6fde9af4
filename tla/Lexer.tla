--------------------------------- MODULE Lexer ---------------------------------
(***************************************************************************)
(* lexer.rs: the byte walker under every reader of the crate, at the level *)
(* of tokens.  The input is a sequence of token classes; a string, escaped *)
(* string or keyword is one token (their insides fail in ways that no      *)
(* caller resumes from), a digit is one token and a number is a maximal    *)
(* run of digits, so that two adjacent digits are one number here too.     *)
(*                                                                         *)
(* Every method is an action on the cursor, the frame stack and the result *)
(* the method returned.  The modules that drive the lexer (the streaming   *)
(* Parser, skip_value, the derived readers) call these actions.            *)
(***************************************************************************)
EXTENDS Naturals, Sequences

CONSTANTS
  MaxDepth,         \* the const generic MAX_DEPTH
  Plain,            \* strings without escapes
  Escaped,          \* strings with valid escapes
  Inputs            \* the documents to read: sequences of tokens

VARIABLES
  input,            \* the document; never changes
  offset,           \* cursor, 0..Len(input)
  frames,           \* open containers (see FrameSequences)
  ret               \* what the last call returned

lexVars == <<input, offset, frames, ret>>

(* "lone" is a string whose escapes are well formed but leave a surrogate  *)
(* unpaired, "kw" a keyword, "junk" any byte that starts no token, and     *)
(* "unopened" such a byte where a string's opening quote should be: the    *)
(* text and the closing quote follow.                                      *)
Punctuation == {"[", "]", "{", "}", ",", ":"}
Strings     == Plain \cup Escaped
Token       == Punctuation \cup Strings \cup {"lone", "kw", "1", "ws", "junk", "unopened"}

ScalarTokens == Strings \cup {"kw", "1"}

ASSUME LexerAssumption ==
  /\ MaxDepth \in Nat
  /\ Strings \cap (Punctuation
                  \cup {"lone", "kw", "1", "ws", "junk", "unopened", "eof"}) = {}
  /\ Plain \cap Escaped = {}
  /\ Inputs \subseteq Seq(Token)

Scalar == {"String", "Literal", "Number"}

ErrorKind ==
  {"UnexpectedByte", "UnexpectedEof", "InvalidEscape", "UnpairedSurrogate",
   "TrailingData", "DepthLimitExceeded", "TypeMismatch"}

FS == INSTANCE FrameSequences

-----------------------------------------------------------------------------
(* Looking at the input.                                                   *)

Peek(o) == IF o < Len(input) THEN input[o + 1] ELSE "eof"

(* The end of the maximal run of token t that starts at o (o if none).     *)
RunEnd(o, t) ==
  CHOOSE e \in o..Len(input) :
    /\ \A i \in o..(e - 1) : Peek(i) = t
    /\ Peek(e) # t

SkipWhitespace(o) == RunEnd(o, "ws")

-----------------------------------------------------------------------------
(* How a method ends.                                                      *)

Return(o, r) ==
  /\ offset' = o
  /\ ret' = r
  /\ UNCHANGED <<input, frames>>

Unexpected(o) ==
  Return(o, IF Peek(o) = "eof" THEN "UnexpectedEof" ELSE "UnexpectedByte")

PushFrameTooDeep(f, o, r) == \* mutant: the depth test lets one more in
  \/ /\ Len(frames) <= MaxDepth
     /\ frames' = Append(frames, f)
     /\ offset' = o
     /\ ret' = r
     /\ UNCHANGED input
  \/ /\ Len(frames) > MaxDepth
     /\ Return(o, "DepthLimitExceeded")

(* push_frame, the opening byte already consumed.                          *)
PushFrame(f, o, r) ==
  \/ /\ Len(frames) < MaxDepth
     /\ frames' = Append(frames, f)
     /\ offset' = o
     /\ ret' = r
     /\ UNCHANGED input
  \/ /\ Len(frames) >= MaxDepth
     /\ Return(o, "DepthLimitExceeded")

PopFrameKept(f, o, r) == \* mutant: the frame stays
  /\ FS!TopOf(frames) = f
  /\ Return(o, r)

PopFrameAnyKind(f, o, r) ==  \* mutant: the kind of the frame is not compared
  \/ /\ frames = << >>
     /\ Return(o, "UnexpectedByte")
  \/ /\ frames # << >>
     /\ frames' = FS!Popped(frames)
     /\ offset' = o
     /\ ret' = r
     /\ UNCHANGED input

(* pop_frame, the closing byte already consumed: a frame of the other kind *)
(* is popped all the same.                                                 *)
PopFrame(f, o, r) ==
  \/ /\ frames = << >>
     /\ Return(o, "UnexpectedByte")
  \/ /\ frames # << >>
     /\ frames' = FS!Popped(frames)
     /\ offset' = o
     /\ ret' = IF FS!TopOf(frames) = f THEN r ELSE "TypeMismatch"
     /\ UNCHANGED input

-----------------------------------------------------------------------------
(* Values.                                                                 *)

ReadString(o, r) ==
  \/ /\ Peek(o) \in Strings
     /\ Return(o + 1, r)
  \/ /\ Peek(o) = "lone"
     /\ Return(o + 1, "UnpairedSurrogate")

(* read_string_no_validate at o: the escapes are left to the decoder.  The *)
(* code eats one byte for the opening quote without looking at it (its     *)
(* debug_assert aside), so that an unopened string is read as well.  Any   *)
(* other token sends it into the text that follows, where it fails or ends *)
(* inside a token, having read no name anybody knows.                      *)
ReadStringNoValidate(o) ==
  \/ Peek(o) \in Strings \cup {"lone", "unopened"} /\ Return(o + 1, "String")
  \/ Peek(o) \notin Strings \cup {"lone", "unopened"} /\ Unexpected(o)

(* read_value: scalars whole, containers only opened.                      *)
ReadValue(from) ==
  LET o == SkipWhitespace(from)
  IN  \/ Peek(o) = "{" /\ PushFrame("Object", o + 1, "StartObject")
      \/ Peek(o) = "[" /\ PushFrame("Array", o + 1, "StartArray")
      \/ ReadString(o, "String")
      \/ Peek(o) = "kw" /\ Return(o + 1, "Literal")
      \/ Peek(o) = "1" /\ Return(RunEnd(o, "1"), "Number")
      \/ /\ Peek(o) \notin Strings \cup {"{", "[", "lone", "kw", "1"}
         /\ Unexpected(o)

(* parse_i64_value: no whitespace skipping, digits only.                   *)
ParseI64Value ==
  \/ Peek(offset) = "1" /\ Return(RunEnd(offset, "1"), "Number")
  \/ Peek(offset) # "1" /\ Unexpected(offset)

(* parse_str_value at o: an escape-free string.  A backslash leaves the    *)
(* cursor inside the string, which tokens cannot show: the cursor stays at *)
(* its quote and InvalidEscape is never resumed from.                      *)
BorrowedString(o) == Peek(o) \in Plain
EscapedString(o)  == Peek(o) \in Escaped \cup {"lone"}

ParseStrValue ==
  \/ BorrowedString(offset) /\ Return(offset + 1, "String")
  \/ EscapedString(offset) /\ Return(offset, "InvalidEscape")
  \/ /\ ~ BorrowedString(offset) /\ ~ EscapedString(offset)
     /\ Unexpected(offset)

-----------------------------------------------------------------------------
(* Speculation: a caller may go back to a checkpoint.  Only the depth is   *)
(* saved, and truncate cannot grow: frames popped since stay popped.       *)

Checkpoint == [offset |-> offset, depth |-> Len(frames)]

Restore(cp) ==
  /\ offset' = cp.offset
  /\ frames' = FS!Truncated(frames, cp.depth)
  /\ UNCHANGED <<input, ret>>

-----------------------------------------------------------------------------
(* Arrays.                                                                 *)

(* array_start: "Empty" when the array closed at once, else "Open".        *)
ArrayStart ==
  LET o == SkipWhitespace(offset)
      first == SkipWhitespace(o + 1)
  IN  \/ Peek(o) # "[" /\ Unexpected(o)
      \/ /\ Peek(o) = "[" /\ Peek(first) # "]" /\ Len(frames) < MaxDepth
         /\ PushFrame("Array", first, "Open")
      \/ /\ Peek(o) = "[" /\ Peek(first) = "]" /\ Len(frames) < MaxDepth
         /\ Return(first + 1, "Empty")
      \/ /\ Peek(o) = "[" /\ Len(frames) >= MaxDepth
         /\ Return(o + 1, "DepthLimitExceeded")

(* array_continue: end_byte is the bracket the caller waits for, and any   *)
(* but "]" closes an object.                                               *)
ArrayContinue(end_byte) ==
  LET o == SkipWhitespace(offset)
      frame == IF end_byte = "]" THEN "Array" ELSE "Object"
  IN  \/ Peek(o) = end_byte /\ PopFrame(frame, o + 1, "Closed")
      \/ Peek(o) = "," /\ Return(SkipWhitespace(o + 1), "More")
      \/ Peek(o) \notin {end_byte, ","} /\ Unexpected(o)

-----------------------------------------------------------------------------
(* Objects.  A key is returned with its colon and the whitespace after it  *)
(* consumed.  The borrowing walkers reject escapes; the _lex walkers take  *)
(* every string, unpaired surrogates included (read_string_no_validate).   *)

ObjectStart ==
  LET o == SkipWhitespace(offset)
  IN  \/ Peek(o) # "{" /\ Unexpected(o)
      \/ /\ Peek(o) = "{" /\ Len(frames) < MaxDepth
         /\ PushFrame("Object", SkipWhitespace(o + 1), "StartObject")
      \/ /\ Peek(o) = "{" /\ Len(frames) >= MaxDepth
         /\ Return(o + 1, "DepthLimitExceeded")

ExpectColon(from) ==
  LET o == SkipWhitespace(from)
  IN  \/ Peek(o) = ":" /\ Return(SkipWhitespace(o + 1), "Key")
      \/ Peek(o) # ":" /\ Unexpected(o)

KeyThenColon(o, lex) ==
  \/ (BorrowedString(o) \/ (lex /\ EscapedString(o))) /\ ExpectColon(o + 1)
  \/ ~ lex /\ EscapedString(o) /\ Return(o, "InvalidEscape")

IsQuote(o) == BorrowedString(o) \/ EscapedString(o)

ObjectFirstKey(lex) ==
  LET o == SkipWhitespace(offset)
  IN  \/ Peek(o) = "}" /\ PopFrame("Object", o + 1, "Closed")
      \/ IsQuote(o) /\ KeyThenColon(o, lex)
      \/ Peek(o) # "}" /\ ~ IsQuote(o) /\ Unexpected(o)

ObjectNextKeyTrailing(lex) == \* mutant: a brace after a comma closes
  LET o == SkipWhitespace(offset)
      q == SkipWhitespace(o + 1)
  IN  \/ Peek(o) = "}" /\ PopFrame("Object", o + 1, "Closed")
      \/ Peek(o) = "," /\ IsQuote(q) /\ KeyThenColon(q, lex)
      \/ Peek(o) = "," /\ Peek(q) = "}" /\ PopFrame("Object", q + 1, "Closed")
      \/ Peek(o) = "," /\ ~ IsQuote(q) /\ Peek(q) # "}" /\ Unexpected(q)
      \/ Peek(o) \notin {"}", ","} /\ Unexpected(o)

ObjectNextKey(lex) ==
  LET o == SkipWhitespace(offset)
      q == SkipWhitespace(o + 1)
  IN  \/ Peek(o) = "}" /\ PopFrame("Object", o + 1, "Closed")
      \/ Peek(o) = "," /\ IsQuote(q) /\ KeyThenColon(q, lex)
      \/ Peek(o) = "," /\ ~ IsQuote(q) /\ Unexpected(q)
      \/ Peek(o) \notin {"}", ","} /\ Unexpected(o)
=============================================================================
