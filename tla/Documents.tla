------------------------------- MODULE Documents -------------------------------
(***************************************************************************)
(* Documents to model-check the readers on: the nested documents up to two *)
(* containers deep with up to two items each, and every sequence one token *)
(* away from one of them.                                                  *)
(***************************************************************************)
EXTENDS Naturals, Sequences, SequencesExt

ArraysOf(values) ==
  {<<"[", "]">>}
  \cup {<<"[">> \o v \o <<"]">> : v \in values}
  \cup {<<"[">> \o v \o <<",">> \o w \o <<"]">> : v, w \in values}

ObjectsOf(keys, values) ==
  LET members == {<<k, ":">> \o v : k \in keys, v \in values}
  IN  {<<"{", "}">>}
      \cup {<<"{">> \o m \o <<"}">> : m \in members}
      \cup {<<"{">> \o m \o <<",">> \o n \o <<"}">> : m, n \in members}

Nested(scalars, keys) ==
  LET leaves == {<<s>> : s \in scalars}
      level1 == leaves \cup ArraysOf(leaves) \cup ObjectsOf(keys, leaves)
  IN  level1 \cup ArraysOf(level1) \cup ObjectsOf(keys, level1)

OneTokenAway(docs, tokens) ==
  UNION { {RemoveAt(d, i) : i \in 1..Len(d)}
          \cup {[d EXCEPT ![i] = t] : i \in 1..Len(d), t \in tokens}
          \cup {InsertAt(d, i, t) : i \in 1..(Len(d) + 1), t \in tokens}
          : d \in docs }
=============================================================================
