------------------------------- MODULE MCParser --------------------------------
(* The streaming parser over every document of at most MaxLen tokens of an *)
(* alphabet, over the nested documents and their neighbours, and over      *)
(* documents that nest as deep as the parser may and one level deeper,     *)
(* judged by the reference grammar.                                        *)
EXTENDS Parser, Documents

CONSTANTS Alphabet, MaxLen, Leaves, Keys, Edits

Deeper(docs) ==
  ArraysOf(docs) \cup {<<"{", k, ":">> \o d \o <<"}">> : k \in Keys, d \in docs}

MCInputs ==
  LET docs == Nested(Leaves, Keys)
      three == Deeper(ArraysOf(Deeper({<<l>> : l \in Leaves})))
  IN  UNION {BoundedSeq(Alphabet, MaxLen), docs, three, OneTokenAway(docs, Edits)}
=============================================================================
