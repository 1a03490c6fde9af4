------------------------------- MODULE NestStack ------------------------------
(***************************************************************************)
(* lexer.rs, struct Stack<MAX_DEPTH>: the nesting stack packed into one    *)
(* u128, one bit per frame (set = Object, clear = Array), plus a length.   *)
(* A popped or truncated frame leaves its bit behind, so the bits at and   *)
(* above len are garbage that the next push has to overwrite.              *)
(*                                                                         *)
(* bits is the set of the bit positions that are one.                      *)
(***************************************************************************)
EXTENDS Naturals, Sequences

CONSTANTS
  MaxDepth,         \* the const generic MAX_DEPTH
  Width             \* width of the bit field: 128

(* Stack::new asserts MAX_DEPTH <= 128.                                    *)
ASSUME WidthAssumption == MaxDepth \in Nat /\ Width \in Nat /\ MaxDepth <= Width

VARIABLES
  bits,             \* Stack::bits
  len,              \* Stack::len
  call,             \* the last call: the frame it pushed, or its name
  answer            \* what the last call returned

stackVars == <<bits, len, call, answer>>

Bit == 0..(Width - 1)

FrameAt(i) == IF i \in bits THEN "Object" ELSE "Array"

TopFrame == IF len = 0 THEN "None" ELSE FrameAt(len - 1)

-----------------------------------------------------------------------------
StackInit ==
  /\ bits = {}
  /\ len = 0
  /\ call = "new"
  /\ answer = "Ok"

PushFull ==
  /\ call' \in {"Array", "Object"}
  /\ len >= MaxDepth
  /\ answer' = "Err"
  /\ UNCHANGED <<bits, len>>

PushArrayKeepsBit ==         \* mutant: pushing an Array does not clear its bit
  /\ call' = "Array"
  /\ len < MaxDepth
  /\ len' = len + 1
  /\ answer' = "Ok"
  /\ UNCHANGED bits

PushObject ==
  /\ call' = "Object"
  /\ len < MaxDepth
  /\ bits' = bits \cup {len}
  /\ len' = len + 1
  /\ answer' = "Ok"

PushArray ==
  /\ call' = "Array"
  /\ len < MaxDepth
  /\ bits' = bits \ {len}
  /\ len' = len + 1
  /\ answer' = "Ok"

Pop ==
  /\ call' = "pop"
  /\ answer' = TopFrame
  /\ len' = IF len = 0 THEN 0 ELSE len - 1
  /\ UNCHANGED bits

Top ==
  /\ call' = "top"
  /\ answer' = TopFrame
  /\ UNCHANGED <<bits, len>>

Truncate(n) ==
  /\ call' = "truncate"
  /\ len' = IF n <= len THEN n ELSE len
  /\ answer' = "Ok"
  /\ UNCHANGED bits

StackNext ==
  \/ PushFull
  \/ PushObject
  \/ PushArray
  \/ Pop
  \/ Top
  \/ \E n \in 0..MaxDepth : Truncate(n)

StackSpec == StackInit /\ [][StackNext]_stackVars

-----------------------------------------------------------------------------
(* Types: the length never passes MAX_DEPTH, so a push never shifts by the *)
(* width of the bit field or more (lexer.rs, Stack::push).                 *)
StackTypeOK ==
  /\ bits \subseteq Bit
  /\ len \in 0..MaxDepth
  /\ call \in {"new", "Array", "Object", "pop", "top", "truncate"}
  /\ answer \in {"Ok", "Err", "None", "Array", "Object"}

(* The abstract stack the packed one stands for: only the bits below len.  *)
FramesOf(b, n) == [i \in 1..n |-> IF i - 1 \in b THEN "Object" ELSE "Array"]

Frames == FramesOf(bits, len)

FS == INSTANCE FrameStack WITH frames <- Frames, ret <- answer

(* Whatever sequence of pushes, pops and truncations ran before, and so    *)
(* whatever stale bits they left, every call answers as a stack of frames  *)
(* would and leaves the frames below untouched (lexer.rs, impl Stack).     *)
ImplementsFrameStack == FS!Spec
=============================================================================
