----------------------------- MODULE EventGrammar ------------------------------
(***************************************************************************)
(* What a consumer of Parser::next_event may rely on, without any input:   *)
(* the events it is handed are those of one document.  Containers close in *)
(* the order they opened, a key appears only directly inside an object     *)
(* and is followed by exactly one value, a value never appears where a key *)
(* is due, one value stands at the root, and None comes after it.  A call  *)
(* that fails leaves all that as it was.                                   *)
(***************************************************************************)
EXTENDS Naturals, Sequences

CONSTANT MaxDepth

VARIABLES
  open,      \* what each open container waits for, outermost first
  complete,  \* the root value is complete
  event      \* the event just handed out, or the error

grammarVars == <<open, complete, event>>

ScalarEvent == {"String", "Literal", "Number"}
Failure == {"UnexpectedByte", "UnexpectedEof", "InvalidEscape",
            "UnpairedSurrogate", "TrailingData", "DepthLimitExceeded",
            "TypeMismatch"}

(* "element": an array; "key" and "value": an object.                      *)
Innermost == IF open = << >> THEN "root" ELSE open[Len(open)]

ValueDue ==
  \/ Innermost \in {"element", "value"}
  \/ Innermost = "root" /\ ~ complete

(* The containers left open once a value is complete inside s: an object   *)
(* whose value it was waits for a key again.                               *)
Settled(s) ==
  [i \in 1..Len(s) |->
     IF i = Len(s) /\ s[i] = "value" THEN "key" ELSE s[i]]

Outer == SubSeq(open, 1, Len(open) - 1)

-----------------------------------------------------------------------------
Init ==
  /\ open = << >>
  /\ complete = FALSE
  /\ event = "None"

ScalarValue ==
  /\ ValueDue
  /\ event' \in ScalarEvent
  /\ open' = Settled(open)
  /\ complete' = (open = << >>)

StartContainer(ev, first) ==
  /\ ValueDue
  /\ Len(open) < MaxDepth
  /\ event' = ev
  /\ open' = Append(open, first)
  /\ UNCHANGED complete

EndContainer(ev, due) ==
  /\ Innermost = due
  /\ event' = ev
  /\ open' = Settled(Outer)
  /\ complete' = (Outer = << >>)

Key ==
  /\ Innermost = "key"
  /\ event' = "Key"
  /\ open' = [open EXCEPT ![Len(open)] = "value"]
  /\ UNCHANGED complete

End ==
  /\ complete
  /\ event' = "None"
  /\ UNCHANGED <<open, complete>>

Fail ==
  /\ event' \in Failure
  /\ UNCHANGED <<open, complete>>

Next ==
  \/ ScalarValue
  \/ StartContainer("StartArray", "element")
  \/ StartContainer("StartObject", "key")
  \/ EndContainer("EndArray", "element")
  \/ EndContainer("EndObject", "key")
  \/ Key
  \/ End
  \/ Fail

Spec == Init /\ [][Next]_grammarVars
=============================================================================
