------------------------------- MODULE ByteSink -------------------------------
(***************************************************************************)
(* Where serialized bytes go (ser.rs): ByteSink, which appends to a        *)
(* Vec<u8> and writes digits, delimiters and floats behind its end without *)
(* a bounds check, and the sinks over an io::Write or a fmt::Write, which  *)
(* may refuse what they are given.                                         *)
(*                                                                         *)
(* Of a vector, mem is its allocation, cap the size of it and len the      *)
(* vector's length; wild says that an unchecked write left the place it    *)
(* was given, grew that the vector was reallocated since the last          *)
(* reserve_hint.  Of a stream, mem is what its writer took and room what   *)
(* it will take before it fails once.  err is the error the call in hand   *)
(* returned.                                                               *)
(***************************************************************************)
EXTENDS DecimalDigits, FloatText, Teju

CONSTANT
  VecMax            \* isize::MAX: a vector is never longer

Open   == -11       \* `[`
Close  == -12       \* `]`
Comma  == -5        \* `,`
Uninit == -20       \* memory nothing was written to
Nul    == -21       \* a zeroed stack buffer's byte

IntBufLen == 20

Fill(n, b) == [i \in 1..n |-> b]

Vec(bytes, capacity) ==
  [kind |-> "bytes", mem |-> bytes \o Fill(capacity - Len(bytes), Uninit),
   cap |-> capacity, len |-> Len(bytes), room |-> 0, wild |-> FALSE, grew |-> FALSE, err |-> "none"]

Stream(kind, room) ==
  [kind |-> kind, mem |-> << >>, cap |-> 0, len |-> 0, room |-> room,
   wild |-> FALSE, grew |-> FALSE, err |-> "none"]

SinkFields == {"kind", "mem", "cap", "len", "room", "wild", "grew", "err"}

IsSink(o) == DOMAIN o = SinkFields

(* A vector is within its allocation.                                      *)
Sound(o) ==
  /\ o.wild = FALSE
  /\ o.kind = "bytes" => o.len \in Nat /\ o.cap \in Nat /\ o.len <= o.cap

Written(o) == SubSeq(o.mem, 1, o.len)
Failed(o) == o.err # "none"
Fail(o, err) == [o EXCEPT !.err = err]

-----------------------------------------------------------------------------
(* Unchecked writes.                                                       *)

Covering(writes, k) == {j \in DOMAIN writes : Covers(writes[j], k)}

(* The last write to the byte at offset k.                                 *)
LastWrite(writes, k) ==
  CHOOSE j \in Covering(writes, k) : \A i \in Covering(writes, k) : i <= j

(* The memory after the writes, put behind its first base bytes.           *)
Poked(mem, base, writes) ==
  [i \in 1..Len(mem) |->
     LET k == i - 1 - base
     IN  IF Covering(writes, k) = {} THEN mem[i]
         ELSE LET w == writes[LastWrite(writes, k)] IN w.bytes[k - w.at + 1]]

(* Rendered in a zeroed buffer of its own.                                 *)
Buffered(layout, size) ==
  [text |-> SubSeq(Poked(Fill(size, Nul), 0, layout.writes), 1, layout.length),
   wild |-> ~ Fits(layout, size)]

-----------------------------------------------------------------------------
(* Vec<u8>                                                                 *)

Spare(v) == v.cap - v.len

(* Reallocation at least doubles the capacity.                             *)
Grown(v, needed) ==
  LET least    == IF needed > 8 THEN needed ELSE 8
      capacity == IF least > 2 * v.cap THEN least ELSE 2 * v.cap
  IN  [v EXCEPT !.mem = Written(v) \o Fill(capacity - v.len, Uninit),
                !.cap = capacity, !.grew = TRUE]

Reserve(v, additional) ==
  IF Spare(v) >= additional THEN v
  ELSE IF v.len + additional > VecMax THEN Fail(v, "CapacityOverflow")
  ELSE Grown(v, v.len + additional)

Extend(v, bytes) ==
  LET r == Reserve(v, Len(bytes))
  IN  IF Failed(r) THEN r
      ELSE [r EXCEPT !.mem = Poked(@, r.len, <<Write(0, bytes)>>), !.len = @ + Len(bytes)]

(* The layout at the end, and set_len behind it.                           *)
WriteAtEnd(v, layout) ==
  [v EXCEPT !.mem = Poked(@, v.len, layout.writes), !.len = @ + layout.length,
            !.wild = @ \/ ~ Fits(layout, Spare(v))]

-----------------------------------------------------------------------------
(* write_all, or write_str of a fmt::Write: all of it, or as much as there *)
(* is room for and an error.  A writer that failed may go on later.        *)
SendShort(o, bytes) == \* mutant: a short write counts as done
  [o EXCEPT !.mem = @ \o SubSeq(bytes, 1, IF Len(bytes) <= o.room THEN Len(bytes) ELSE o.room),
            !.len = @ + (IF Len(bytes) <= o.room THEN Len(bytes) ELSE o.room)]

Send(o, bytes) ==
  IF Len(bytes) <= o.room
  THEN [o EXCEPT !.mem = @ \o bytes, !.len = @ + Len(bytes), !.room = @ - Len(bytes)]
  ELSE [o EXCEPT !.mem = @ \o SubSeq(bytes, 1, o.room), !.len = @ + o.room,
                 !.room = VecMax,
                 !.err = IF o.kind = "io" THEN "Io" ELSE "TypeMismatch"]

-----------------------------------------------------------------------------
(* The methods of JsonWrite.                                               *)

ReserveHint(o, additional) ==
  IF o.kind = "bytes" THEN [Reserve(o, additional) EXCEPT !.grew = FALSE] ELSE o

WriteRaw(o, bytes) == IF o.kind = "bytes" THEN Extend(o, bytes) ELSE Send(o, bytes)

WriteByte(o, b) == WriteRaw(o, <<b>>)

WriteByteHinted(o, b) ==
  IF o.kind = "bytes" /\ Spare(o) > 0
  THEN WriteAtEnd(o, [length |-> 1, writes |-> <<Write(0, <<b>>)>>])
  ELSE WriteByte(o, b)

(* format_u64_direct, format_u64, and format_i64 with its sign.            *)
IntLayout(negative, n) ==
  LET count == FastDigitCount(n)
      pos   == IF negative THEN 1 ELSE 0
  IN  [length |-> pos + count,
       writes |-> <<Write(0, IF negative THEN <<Minus>> ELSE << >>),
                    Digits(pos, DigitsBackward(n), count)>>]

FormatU64Direct(v, n) ==
  LET r == Reserve(v, FastDigitCount(n))
  IN  IF Failed(r) THEN r ELSE WriteAtEnd(r, IntLayout(FALSE, n))

WriteInt(o, negative, n) ==
  IF o.kind = "bytes"
  THEN LET signed == IF negative THEN Extend(o, <<Minus>>) ELSE o
       IN  IF Failed(signed) THEN signed ELSE FormatU64Direct(signed, n)
  ELSE LET b == Buffered(IntLayout(negative, n), IntBufLen)
       IN  Send([o EXCEPT !.wild = @ \/ b.wild], b.text)

(* i128 and u128: in a buffer of 40, with checked indices.                 *)
WriteWideInt(o, negative, n) ==
  WriteRaw(o, (IF negative THEN <<Minus>> ELSE << >>) \o DigitsBackward(n))

-----------------------------------------------------------------------------
(* Floats.  A "float" is negative or not, a mantissa and a binary exponent *)
(* (see Teju); a "decimal" is a double known by its shortest decimal.      *)
Shortest(x) ==
  IF x.how = "float" THEN ToDecimal(x.exponent, x.mantissa)
  ELSE Decimal(x.mantissa, x.exponent)

FloatLayout(x) ==
  IF x.how = "zero" THEN ZeroLayout(x.negative)
  ELSE LET d == Shortest(x)
       IN  Layout(x.negative, MantissaText(d.mantissa), MantissaDigitCount(d.mantissa),
                  d.exponent)

IsFinite(x) == x.how # "nonfinite"

(* format_finite_to_vec, and format_finite_fmt to a stream.                *)
WriteFloat(o, x) ==
  IF ~ IsFinite(x) THEN Fail(o, "NonFiniteFloat")
  ELSE LET b == Buffered(FloatLayout(x), FormatBufLen)
       IN  WriteRaw([o EXCEPT !.wild = @ \/ b.wild], b.text)

WriteFloatHintedUnchecked(o, x) == \* mutant: the tail is taken to be there
  IF o.kind = "bytes" /\ IsFinite(x) THEN WriteAtEnd(o, FloatLayout(x))
  ELSE WriteFloat(o, x)

(* write_float_f64_hinted, and f64::write_json, which calls                *)
(* write_float_f64 again where the hinted write said no.                   *)
WriteFloatHinted(o, x) ==
  IF o.kind = "bytes" /\ IsFinite(x) /\ Spare(o) >= FormatBufLen
  THEN WriteAtEnd(o, FloatLayout(x))
  ELSE WriteFloat(o, x)
=============================================================================
