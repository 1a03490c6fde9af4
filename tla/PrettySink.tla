------------------------------ MODULE PrettySink -------------------------------
(***************************************************************************)
(* PrettyStringSink of ser.rs: the sink of to_string_pretty.  An opening   *)
(* bracket is held back until something follows it, so that an empty       *)
(* container stays on one line; everything else opens or continues a line  *)
(* of the current depth.  A sink is a record                               *)
(*   out      the text so far, as tokens; "nl", "indent" and " " are layout*)
(*   depth    the indentation of the next line                             *)
(*   pending  << >>, or the bracket held back                              *)
(* and each method of JsonWrite maps one to the next.                      *)
(***************************************************************************)
EXTENDS Integers, Sequences

Layout == {"nl", "indent", " "}

Sink(out, depth, pending) == [out |-> out, depth |-> depth, pending |-> pending]

New == Sink(<< >>, 0, << >>)

NewlineAndIndent(out, depth) == out \o <<"nl">> \o [i \in 1..depth |-> "indent"]

FlushPendingOpen(s) ==
  IF s.pending = << >> THEN s
  ELSE Sink(NewlineAndIndent(s.out \o s.pending, s.depth + 1), s.depth + 1, << >>)

BeginUnflushed(s, open) == \* mutant: a nested open forgets the outer one
  Sink(s.out, s.depth, <<open>>)

(* begin_object, begin_array                                               *)
Begin(s, open) ==
  LET flushed == FlushPendingOpen(s)
  IN  Sink(flushed.out, flushed.depth, <<open>>)

EndSameLine(s, close) == \* mutant: the closing bracket keeps the inner depth
  IF s.pending # << >>
    THEN Sink(s.out \o s.pending \o <<close>>, s.depth, << >>)
    ELSE Sink(Append(NewlineAndIndent(s.out, s.depth), close), s.depth - 1, << >>)

(* end_object, end_array (end_container)                                   *)
End(s, close) ==
  IF s.pending # << >>
    THEN Sink(s.out \o s.pending \o <<close>>, s.depth, << >>)
    ELSE Sink(Append(NewlineAndIndent(s.out, s.depth - 1), close), s.depth - 1, << >>)

(* separator does not flush: a value has been written before it.           *)
Separator(s) == Sink(NewlineAndIndent(Append(s.out, ","), s.depth), s.depth, s.pending)

ObjectKey(s, key) ==
  LET flushed == FlushPendingOpen(s)
  IN  Sink(flushed.out \o <<key, ":", " ">>, flushed.depth, flushed.pending)

(* write_byte, write_str_raw, write_escaped_str, write_float_f64           *)
WriteRaw(s, token) ==
  LET flushed == FlushPendingOpen(s)
  IN  Sink(Append(flushed.out, token), flushed.depth, flushed.pending)
=============================================================================
