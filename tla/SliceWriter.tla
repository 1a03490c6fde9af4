------------------------------ MODULE SliceWriter ------------------------------
(***************************************************************************)
(* Serialization of a slice, [T]::write_json (ser.rs), into one of the     *)
(* sinks.  Where T declares the longest text of a value, room is reserved  *)
(* ahead: for the whole slice if that is within ReserveWindow, else for a  *)
(* window of elements at a time.                                           *)
(*                                                                         *)
(* An element is a record: a "float", "decimal", "zero" or "nonfinite" one *)
(* (see ByteSink), an "int", a "wide" int, a "word" written as it stands,  *)
(* or a "text" between quotes.                                             *)
(***************************************************************************)
EXTENDS ByteSink, SequencesExt

CONSTANTS
  ReserveWindow,    \* 256 * 1024
  Jobs              \* slices and their sinks: max, items, sink

(* What the digit writers are relied on for: as many digits as were        *)
(* counted, and no more than a u64 or a double has; a double's decimal     *)
(* point is within its range.                                              *)
Writable(x) ==
  /\ x.how \in {"int", "wide", "word", "text", "float", "decimal", "zero", "nonfinite"}
  /\ x.negative \in BOOLEAN
  /\ x.how = "int" =>
       /\ FastDigitCount(x.mantissa) \in 1..(IF x.negative THEN IntBufLen - 1 ELSE IntBufLen)
       /\ Len(DigitsBackward(x.mantissa)) = FastDigitCount(x.mantissa)
  /\ x.how \in {"int", "wide"} => DigitsBackward(x.mantissa) \in Seq(Int)
  /\ x.how \in {"word", "text"} => x.bytes \in Seq(Int)
  /\ x.how \in {"float", "decimal"} =>
       LET d     == Shortest(x)
           text  == MantissaText(d.mantissa)
           count == MantissaDigitCount(d.mantissa)
       IN  /\ text \in Seq(0..9) /\ Len(text) = count /\ count \in 1..17
           /\ d.exponent \in Int /\ count + d.exponent \in -998..1000

ASSUME ReserveWindowAssumption == ReserveWindow \in Nat

ASSUME JobsAssumption ==
  \A j \in Jobs :
    /\ j.max \in Nat
    /\ Len(j.items) \in Nat
    /\ \A i \in 1..Len(j.items) : Writable(j.items[i])
    /\ IsSink(j.sink) /\ Sound(j.sink) /\ j.sink.grew = FALSE /\ j.sink.err = "none"
    /\ IF j.sink.kind = "bytes" THEN j.sink.mem \in Seq(Int) /\ Len(j.sink.mem) = j.sink.cap
       ELSE j.sink.mem = << >> /\ j.sink.len = 0 /\ j.sink.room \in Nat

VARIABLES
  job,              \* the slice written; never changes
  out,              \* the sink
  head,             \* elements left in the window under way
  rest,             \* elements behind it
  pc                \* "start", "items" or "done"

vars == <<job, out, head, rest, pc>>

Quote == -13

Init ==
  /\ job \in Jobs
  /\ out = job.sink
  /\ head = 0 /\ rest = 0
  /\ pc = "start"

(* MAX_SERIALIZED_LEN, 0 where there is none; and a comma.                 *)
Longest == job.max
PerItem == Longest + 1
Count == Len(job.items)

FullHint == Count * PerItem + 2

Chunk ==
  LET window == IF ReserveWindow \div PerItem > 1 THEN ReserveWindow \div PerItem ELSE 1
  IN  IF window < Count THEN window ELSE Count

-----------------------------------------------------------------------------
(* T::write_json                                                           *)

WriteQuoted(o, bytes) ==
  LET opened == WriteByte(o, Quote)
      body   == IF Failed(opened) \/ bytes = << >> THEN opened ELSE WriteRaw(opened, bytes)
  IN  IF Failed(body) THEN body ELSE WriteByte(body, Quote)

WriteElement(o, x) ==
  CASE x.how = "int"  -> WriteInt(o, x.negative, x.mantissa)
    [] x.how = "wide" -> WriteWideInt(o, x.negative, x.mantissa)
    [] x.how = "word" -> WriteRaw(o, x.bytes)
    [] x.how = "text" -> WriteQuoted(o, x.bytes)
    [] OTHER          -> WriteFloatHinted(o, x)

(* Delimiters of write_array, and of the hinted writers.                   *)
Delimiter(o, b) == IF Longest = 0 THEN WriteByte(o, b) ELSE WriteByteHinted(o, b)

-----------------------------------------------------------------------------
(* An error ends the writer.                                               *)
Continue(o, at) == out' = o /\ pc' = IF Failed(o) THEN "done" ELSE at

Begin(hint) ==
  LET hinted == IF hint = 0 THEN out ELSE ReserveHint(out, hint)
  IN  Continue(IF Failed(hinted) THEN hinted ELSE Delimiter(hinted, Open), "items")

WriteArray ==
  /\ pc = "start" /\ Longest = 0
  /\ Begin(0)
  /\ head' = Count /\ rest' = 0
  /\ UNCHANGED job

WriteArrayHinted ==
  /\ pc = "start" /\ Longest # 0 /\ FullHint <= ReserveWindow
  /\ Begin(FullHint)
  /\ head' = Count /\ rest' = 0
  /\ UNCHANGED job

WriteInWindows ==
  /\ pc = "start" /\ Longest # 0 /\ FullHint > ReserveWindow
  /\ Begin(Chunk * PerItem + 2)
  /\ head' = Chunk /\ rest' = Count - Chunk
  /\ UNCHANGED job

WriteItem ==
  /\ pc = "items" /\ head > 0
  /\ LET done      == Count - head - rest
         separated == IF done = 0 THEN out ELSE Delimiter(out, Comma)
     IN  Continue(IF Failed(separated) THEN separated
                  ELSE WriteElement(separated, job.items[done + 1]), "items")
  /\ head' = head - 1
  /\ UNCHANGED <<job, rest>>

NextWindowBare == \* mutant: the hint leaves the commas out
  /\ pc = "items" /\ head = 0 /\ rest > 0
  /\ Continue(ReserveHint(out, Chunk * Longest), "items")
  /\ head' = IF rest > Chunk THEN Chunk ELSE rest
  /\ rest' = rest - head'
  /\ UNCHANGED job

NextWindow ==
  /\ pc = "items" /\ head = 0 /\ rest > 0
  /\ Continue(ReserveHint(out, Chunk * PerItem), "items")
  /\ head' = IF rest > Chunk THEN Chunk ELSE rest
  /\ rest' = rest - head'
  /\ UNCHANGED job

EndArray ==
  /\ pc = "items" /\ head = 0 /\ rest = 0
  /\ Continue(Delimiter(out, Close), "done")
  /\ UNCHANGED <<job, head, rest>>

Next ==
  \/ WriteArray \/ WriteArrayHinted \/ WriteInWindows
  \/ WriteItem \/ NextWindow \/ EndArray

Spec == Init /\ [][Next]_vars

-----------------------------------------------------------------------------
(* No unchecked write leaves the place made for it, the vector's spare     *)
(* capacity or a formatter's buffer, even where T's bound is wrong         *)
(* (ser.rs: the SAFETY comments of write_byte_hinted,                      *)
(* write_float_f64_hinted, format_u64_direct, and the formatters).         *)
RawWritesStayInside == ~ out.wild

(* How many bytes a value is written in that is no float.                  *)
TextLength(x) ==
  CASE x.how = "int"  -> (IF x.negative THEN 1 ELSE 0) + FastDigitCount(x.mantissa)
    [] x.how = "wide" -> (IF x.negative THEN 1 ELSE 0) + Len(DigitsBackward(x.mantissa))
    [] x.how = "word" -> Len(x.bytes)
    [] x.how = "text" -> Len(x.bytes) + 2

IsFloat(x) == x.how \in {"float", "decimal", "zero", "nonfinite"}

(* A value is not longer than T declares.                                  *)
Honest ==
  \A i \in 1..Count :
    LET x == job.items[i]
    IN  IF IsFloat(x) THEN Longest >= FormatBufLen ELSE TextLength(x) <= Longest

(* Where no value is longer than T declares, the vector is not reallocated *)
(* between a reservation and the next; only the last bracket of a slice    *)
(* written in windows was not counted (ser.rs:1443-1475).                  *)
ReservationHolds ==
  (job.sink.kind = "bytes" /\ Longest # 0 /\ Honest /\ out.grew) =>
    pc = "done" /\ FullHint > ReserveWindow

(* The text of one value, rendered by itself.                              *)
ElementText(x) ==
  CASE x.how = "int"  -> Buffered(IntLayout(x.negative, x.mantissa), IntBufLen).text
    [] x.how = "wide" -> (IF x.negative THEN <<Minus>> ELSE << >>) \o DigitsBackward(x.mantissa)
    [] x.how = "word" -> x.bytes
    [] x.how = "text" -> (<<Quote>> \o x.bytes) \o <<Quote>>
    [] x.how = "nonfinite" -> << >>
    [] OTHER          -> Buffered(FloatLayout(x), FormatBufLen).text

Separator(n) == IF n = 1 THEN << >> ELSE <<Comma>>

FirstText == [text |-> <<Open>>, ends |-> FALSE]

(* The n-th element behind what is before it, but none behind an infinity. *)
TextBehind(items, before, n) ==
  IF before.ends THEN before
  ELSE [text |-> (before.text \o Separator(n)) \o ElementText(items[n]),
        ends |-> ~ IsFinite(items[n])]

(* The text of the first n elements, which ends at one that has none.      *)
ElementsUpTo(items) ==
  LET upTo[n \in 0..Len(items)] ==
        IF n = 0 THEN FirstText ELSE TextBehind(items, upTo[n - 1], n)
  IN  upTo

Closed(all) == IF all.ends THEN all.text ELSE all.text \o <<Close>>

WholeText(items) == Closed(ElementsUpTo(items)[Len(items)])

(* What a sink may have got of a text that ends at an infinity, or not.    *)
GetsText(whole, ends) ==
  /\ IsPrefix(Written(out), whole)
  /\ pc = "done" =>
       CASE out.err = "none"             -> ~ ends /\ Written(out) = whole
         [] out.err = "NonFiniteFloat"   -> ends /\ Written(out) = whole
         [] out.err = "CapacityOverflow" -> out.kind = "bytes"
         [] OTHER -> /\ out.kind # "bytes"
                     /\ out.err = (IF out.kind = "io" THEN "Io" ELSE "TypeMismatch")
                     /\ Len(Written(out)) = job.sink.room
                     /\ Len(Written(out)) < Len(whole)

(* Every sink gets the same text, whichever way it is written: in front,   *)
(* with or without a reservation, behind the end without a check, or to a  *)
(* stream.  One that fails half way has got a prefix of it and nothing     *)
(* after it, and the first failure is reported: an infinity, a vector that *)
(* cannot grow, or, as the writer's own error or as a type mismatch, a     *)
(* stream that would not take all (ser.rs:341-1000).                       *)
EverySinkGetsTheText ==
  GetsText(Written(job.sink) \o WholeText(job.items), ElementsUpTo(job.items)[Count].ends)
=============================================================================
