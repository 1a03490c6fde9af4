------------------------------ MODULE MCSkipValue ------------------------------
(* skip_value over the nested documents and their neighbours, judged by    *)
(* the reference grammar.                                                  *)
EXTENDS SkipValue, Documents

CONSTANTS Leaves, Keys, Edits

MCInputs ==
  LET docs == Nested(Leaves, Keys)
  IN  docs \cup OneTokenAway(docs, Edits)

MCEntered == {<< >>, <<"Object">>}
=============================================================================
