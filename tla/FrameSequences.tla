---------------------------- MODULE FrameSequences -----------------------------
(* The nesting stack as a sequence of container kinds, outermost first.    *)
EXTENDS Naturals, Sequences

Frame == {"Array", "Object"}

TopOf(s) == IF s = << >> THEN "None" ELSE s[Len(s)]

Popped(s) == SubSeq(s, 1, Len(s) - 1)

(* Shrink to n frames; a request to grow is ignored.                       *)
Truncated(s, n) == SubSeq(s, 1, IF n <= Len(s) THEN n ELSE Len(s))
=============================================================================
