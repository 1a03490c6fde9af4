-------------------------------- MODULE MCWriter -------------------------------
(***************************************************************************)
(* Values to write: every struct of three fields with every combination of *)
(* attributes and absences, tagged or not, and every container of up to    *)
(* two small values.                                                       *)
(***************************************************************************)
EXTENDS RoundTrip

Literal(text) == [kind |-> "scalar", text |-> text]
Scalar == Literal("1")
Null == Literal("kw")
Array(items) == [kind |-> "array", items |-> items]
Map(values) ==
  [kind |-> "map",
   items |-> [i \in DOMAIN values |-> [key |-> <<"k", "l">>[i], value |-> values[i]]]]
Object(tagged, fields) == [kind |-> "object", tagged |-> tagged, fields |-> fields]
Around(kind, v) == [kind |-> kind, value |-> v]

(* The ways a field can be: fused, renamed (to a key with an escape),      *)
(* skipped, optional and there, optional and absent, and an absent option  *)
(* without skip_if_none.  The first field's keys in these ways, the        *)
(* second's and the third's:                                               *)
Keys == <<[fused |-> "a", renamed |-> "ra", skipped |-> "ka", option |-> "oa"],
          [fused |-> "b", renamed |-> "rb", skipped |-> "kb", option |-> "ob"],
          [fused |-> "c", renamed |-> "rc", skipped |-> "kc", option |-> "oc"]>>

KeysFor(ways) == {Keys[i][w] : i \in DOMAIN Keys, w \in ways}

Way(kind, plainly, skip, conditional, none) ==
  [kind |-> kind, plain |-> plainly, skip |-> skip, conditional |-> conditional, none |-> none]

Ways ==
  {Way("fused",   TRUE,  FALSE, FALSE, FALSE),
   Way("renamed", FALSE, FALSE, FALSE, FALSE),
   Way("skipped", TRUE,  TRUE,  FALSE, FALSE),
   Way("option",  TRUE,  FALSE, TRUE,  FALSE),
   Way("option",  FALSE, FALSE, TRUE,  TRUE),
   Way("option",  TRUE,  FALSE, FALSE, TRUE)}

FieldOf(i, way, v) ==
  [key |-> Keys[i][way.kind], value |-> IF way.none THEN Null ELSE v,
   plain |-> way.plain, skip |-> way.skip,
   conditional |-> way.conditional, none |-> way.none]

MCEscaped  == KeysFor({"renamed"}) \cup {"esc"}
MCPlain    == KeysFor({"fused", "skipped", "option"})
                \cup {"k", "l", "str", TagKey, ContentKey, TagName}
MCDecoded  == [s \in MCPlain \cup MCEscaped \cup {"unopened"} |-> s]
MCFields   == KeysFor({"fused", "renamed", "skipped", "option"})
MCKey      == [f \in MCFields |-> f]
MCType     == [f \in MCFields |-> IF f \in KeysFor({"option"}) THEN "Option" ELSE "i64"]
MCSkip     == KeysFor({"skipped"})
MCDeclared == <<"a", "ra", "ka", "oa", "b", "rb", "kb", "ob", "c", "rc", "kc", "oc">>

UpTo2(items) == {<< >>} \cup {<<v>> : v \in items} \cup {<<v, w>> : v, w \in items}

Structs(items) ==
  {Object(tagged, <<FieldOf(1, x, u), FieldOf(2, y, u), FieldOf(3, z, v)>>) :
     tagged \in BOOLEAN, x, y, z \in Ways, u \in {Scalar}, v \in items}

Small ==
  {Scalar, Array(<< >>), Array(<<Scalar, Scalar>>), Map(<< >>), Map(<<Scalar>>),
   Object(FALSE, << >>), Object(TRUE, << >>)}

Level1 ==
  Small \cup {Array(s) : s \in UpTo2({Null, Literal("str"), Literal("esc")})}
  \cup {Array(s) : s \in UpTo2(Small)} \cup {Map(s) : s \in UpTo2(Small)}
  \cup {Around(kind, v) : kind \in {"external", "adjacent"}, v \in Small}

MCValues == Level1 \cup Structs(Small)
  \cup {Around(kind, v) : kind \in {"external", "adjacent"}, v \in Structs({Scalar})}
  \cup {Array(<<v, Scalar>>) : v \in Level1}
  \cup {Map(<<v, v>>) : v \in Structs({Scalar})}

MCNodes == MCValues \cup Level1 \cup Structs({Scalar}) \cup {Null, Literal("str"), Literal("esc")}

MCWords == MCPlain \cup MCEscaped \cup {"1", "kw"}
=============================================================================
