----------------------------- MODULE UntaggedEnum ------------------------------
(***************************************************************************)
(* #[bourne(untagged)]: each variant is tried in the order of declaration  *)
(* from the same checkpoint; the first that reads is the value.  A failed  *)
(* attempt leaves the cursor and the stack wherever it failed.             *)
(***************************************************************************)
EXTENDS EnumReader

VARIABLES
  origin,           \* __cp
  attempt           \* the number of variants tried

untaggedVars == <<readerVars, origin, attempt>>

UntaggedInit ==
  /\ EnumInit
  /\ origin = Checkpoint
  /\ attempt = 0

Begin ==
  /\ step = "enum"
  /\ origin' = Checkpoint
  /\ step' = "try"
  /\ UNCHANGED <<lexVars, structVars, variant, attempt>>

(* Behind the checkpoint or a failed attempt.                              *)
Trying == step = "try" \/ BodyFailed

TryLenient == \* mutant: unknown keys are skipped in an attempt
  /\ Trying /\ attempt < Len(Order)
  /\ Restore(origin)
  /\ attempt' = attempt + 1
  /\ EnterBody(Order[attempt'], NoTag, FALSE)
  /\ UNCHANGED <<origin, key>>

TryTheSame == \* mutant: the attempts are not counted
  /\ Trying /\ attempt < Len(Order)
  /\ Restore(origin)
  /\ EnterBody(Order[attempt + 1], NoTag, TRUE)
  /\ UNCHANGED <<origin, key, attempt>>

(* Unknown keys are always refused in an attempt (enums.rs:389-394).       *)
Try ==
  /\ Trying /\ attempt < Len(Order)
  /\ Restore(origin)
  /\ attempt' = attempt + 1
  /\ EnterBody(Order[attempt'], NoTag, TRUE)
  /\ UNCHANGED <<origin, key>>

UntaggedBuilt ==
  /\ BodyRead
  /\ step' = "built"
  /\ UNCHANGED <<lexVars, structVars, variant, origin, attempt>>

(* No variant reads it; nothing is restored.                               *)
GiveUp ==
  /\ Trying /\ attempt = Len(Order)
  /\ step' = "failed"
  /\ ret' = "TypeMismatch"
  /\ UNCHANGED <<input, offset, frames, structVars, variant, origin, attempt>>

UntaggedNext ==
  \/ Begin
  \/ Try
  \/ ReadBody /\ UNCHANGED <<origin, attempt>>
  \/ UntaggedBuilt
  \/ GiveUp

UntaggedSpec ==
  UntaggedInit /\ [][UntaggedNext]_untaggedVars /\ WF_untaggedVars(UntaggedNext)

-----------------------------------------------------------------------------
(* Text t is variant v: the first that reads it.                           *)
UntaggedReads(t, v) ==
  \E i \in DOMAIN Order :
    /\ Order[i] = v /\ BodyAccepts(v, t, TRUE)
    /\ \A j \in 1..(i - 1) : ~ BodyAccepts(Order[j], t, TRUE)

UntaggedSlots(t, v) == SlotsOf(t, BodyPlan(v, NoTag, TRUE))

(* The value is the first variant that reads the text from its beginning,  *)
(* whatever the attempts before it consumed or left open, and there is     *)
(* none only if no variant reads it (enums.rs:372-419).                    *)
FirstVariantThatReads ==
  LET upTo(e) == Lexemes(SubSeq(input, 1, e))
  IN  /\ step = "built" =>
           /\ WellFormed(upTo(offset)) /\ UntaggedReads(upTo(offset), variant)
           /\ Shape[variant] = "struct" => slots = UntaggedSlots(upTo(offset), variant)
      /\ step = "failed" =>
           \A e \in 0..Len(input), v \in Variants :
             ~ (WellFormed(upTo(e)) /\ UntaggedReads(upTo(e), v))
=============================================================================
