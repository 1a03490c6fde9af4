---------------------------- MODULE MCParserClient -----------------------------
(* The mixing consumer over the nested documents and their neighbours.     *)
EXTENDS ParserClient, Documents

CONSTANTS Leaves, Keys, Edits

MCInputs ==
  LET docs == Nested(Leaves, Keys)
  IN  docs \cup OneTokenAway(docs, Edits)
=============================================================================
