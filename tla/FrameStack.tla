------------------------------ MODULE FrameStack ------------------------------
(***************************************************************************)
(* What the lexer's nesting stack promises: a bounded stack of container   *)
(* kinds.  This is the abstract specification; NestStack, the packed u128  *)
(* of lexer.rs, implements it, which is why the modules about its callers  *)
(* may keep a sequence of frames instead of bits.                          *)
(***************************************************************************)
EXTENDS FrameSequences

CONSTANT MaxDepth   \* the const generic MAX_DEPTH

VARIABLES
  frames,           \* open containers, outermost first
  call,             \* the last call: the frame it pushed, or its name
  ret               \* what the last call returned

stackVars == <<frames, call, ret>>

-----------------------------------------------------------------------------
Init ==
  /\ frames = << >>
  /\ call = "new"
  /\ ret = "Ok"

Push(f) ==
  /\ call' = f
  /\ \/ /\ Len(frames) < MaxDepth
        /\ frames' = Append(frames, f)
        /\ ret' = "Ok"
     \/ /\ Len(frames) >= MaxDepth
        /\ ret' = "Err"
        /\ UNCHANGED frames

Pop ==
  /\ call' = "pop"
  /\ ret' = TopOf(frames)
  /\ frames' = IF frames = << >> THEN frames ELSE Popped(frames)

Top ==
  /\ call' = "top"
  /\ ret' = TopOf(frames)
  /\ UNCHANGED frames

Truncate(n) ==
  /\ call' = "truncate"
  /\ frames' = Truncated(frames, n)
  /\ ret' = "Ok"

Next ==
  \/ \E f \in Frame : Push(f)
  \/ Pop
  \/ Top
  \/ \E n \in 0..MaxDepth : Truncate(n)

Spec == Init /\ [][Next]_stackVars
=============================================================================
