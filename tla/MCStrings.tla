------------------------------- MODULE MCStrings -------------------------------
(* Strings put together from whole and broken pieces, and strings that the *)
(* writer wrote, judged by the table of what RFC 8259 lets stand in one.   *)
EXTENDS StringReader

CONSTANTS Pieces, WrittenLength

MCHexDigits == <<"0", "1">>
MCControls == <<"ctl0", "ctl1", "ctl2">>
MCHigh == {12, 13}
MCLow == {14, 15}
MCEncode == [v \in 0..19 |->
  CASE v < 3       -> <<MCControls[v + 1]>>
    [] v \in 3..6  -> <<(<<"newline", "quote", "backslash", "x">>)[v - 2]>>
    [] v \in 7..8  -> <<"lead2", IF v = 7 THEN "cont" ELSE "contHigh">>
    [] v \in 9..10 -> <<"lead3", "contHigh", IF v = 9 THEN "cont" ELSE "contHigh">>
    [] v = 11      -> <<"n">>
    [] v \in 12..15 -> << >>              \* surrogates have no encoding
    [] v > 15 -> <<"lead4", "contHigh", IF v < 18 THEN "cont" ELSE "contHigh",
                   IF v % 2 = 0 THEN "cont" ELSE "contHigh">>]

UnitEscape(v) ==
  <<"backslash", "u">> \o [k \in 1..4 |-> MCHexDigits[((v \div (2 ^ (4 - k))) % 2) + 1]]

-----------------------------------------------------------------------------
(* What may stand in a string, each piece with the text it stands for.     *)
Characters == {MCEncode[v] : v \in (0..19) \ (12..15)}
MultiByte ==
  {<<"lead2", c>> : c \in Cont} \cup {<<"lead3", "contHigh", c>> : c \in Cont}
  \cup {<<"lead4", c, d, e>> : c, d, e \in Cont}
LegalPieces ==
  {[bytes |-> <<b>>, text |-> <<b>>] : b \in Plain}
  \cup {[bytes |-> c, text |-> c] : c \in MultiByte}
  \cup {[bytes |-> <<"backslash", b>>, text |-> <<NamedEscape[b]>>] : b \in Named}
  \cup {[bytes |-> UnitEscape(v), text |-> MCEncode[v]] : v \in 0..11}
  \cup {[bytes |-> UnitEscape(h) \o UnitEscape(l), text |-> MCEncode[16 + (h - 12) * 2 + (l - 14)]]
          : h \in MCHigh, l \in MCLow}

(* The text of a string body, read off piece by piece, or none.            *)
TextOf(s, pieces) ==
  LET f[k \in 0..Len(s)] ==
        IF k = Len(s) THEN [some |-> TRUE, text |-> << >>]
        ELSE LET here == {p \in pieces : IsPrefix(p.bytes, SubSeq(s, k + 1, Len(s)))}
             IN  IF here = {} THEN [some |-> FALSE, text |-> << >>]
                 ELSE LET p == CHOOSE q \in here : TRUE
                          rest == f[k + Len(p.bytes)]
                      IN  [some |-> rest.some, text |-> p.text \o rest.text]
  IN  f[0]

(* The first quote that no backslash escapes closes the string.            *)
Input == source.input
Escaping(k) ==
  LET f[j \in 1..k] == j > 1 /\ Input[j] = "backslash" /\ ~ f[j - 1] IN f[k]
Closing == {k \in 2..Len(Input) : Input[k] = "quote" /\ ~ Escaping(k - 1)}
Body == SubSeq(Input, 2, Least(Closing) - 1)
IsString == Closing # {} /\ TextOf(Body, LegalPieces).some

-----------------------------------------------------------------------------
(* A string that is legal is read, by validator and decoder alike, as the  *)
(* text it stands for and up to its closing quote, and one that is not is  *)
(* refused.  A borrowed string may not hold an escape; a char is a string  *)
(* of one character (escape/, lexer.rs:431-477, de.rs:404-476).            *)
ReadsTheText ==
  pc = "done" /\ use # "skipped" =>
    LET text == TextOf(Body, LegalPieces).text
        accepts == /\ IsString
                   /\ use = "borrowed" => \A k \in DOMAIN Body : Body[k] # "backslash"
                   /\ use = "char" => text \in {p.text : p \in LegalPieces}
    IN  /\ (ret = "ok") <=> accepts
        /\ ret = "ok" => offset = Least(Closing)
        /\ ret = "ok" /\ use # "stream" => out = text

(* What the writer writes for a text is read back as that text, by every   *)
(* reader that can hold it (writer.rs:123-156).                            *)
WrittenTextReadsBack ==
  pc = "done" /\ source.written /\ use = "owned" => ret = "ok" /\ out = source.text

(* A key that skip_value throws away is scanned and not decoded: what is   *)
(* lost by that is the pairing of surrogates and nothing else, and the     *)
(* cursor ends where any other reader would leave it (lexer.rs:1369-1379). *)
Unpaired == {[bytes |-> UnitEscape(v), text |-> << >>] : v \in MCHigh \cup MCLow}
SkippedKeysMissOnlyPairing ==
  pc = "done" /\ use = "skipped" =>
    /\ (ret = "ok") <=> Closing # {} /\ TextOf(Body, LegalPieces \cup Unpaired).some
    /\ ret = "ok" => offset = Least(Closing)

(* Reading a string ends.                                                  *)
ReadReturns == <>(pc = "done")

-----------------------------------------------------------------------------
BrokenPieces ==
  {<<"backslash">>, <<"backslash", "x">>, <<"backslash", "u", "0", "1">>,
   <<"backslash", "u", "1", "1", "0", "x">>, <<"ctl1">>, <<"newline">>,
   <<"cont">>, <<"bad">>, <<"lead3", "cont", "cont">>, <<"lead2">>,
   <<"lead4", "cont", "contHigh">>, <<"quote">>}
SomeUnits == {1, 6, 9, 12, 13, 14, 15}
SomePieces ==
  BrokenPieces \cup {UnitEscape(v) : v \in SomeUnits} \cup {<<"backslash", b>> : b \in Named}
  \cup {<<"n">>, <<"u">>, <<"1">>, MCEncode[7], MCEncode[9], MCEncode[16]}

FewPieces ==
  {UnitEscape(v) : v \in {1, 12, 14}} \cup
  {<<"backslash">>, <<"n">>, <<"quote">>, MCEncode[9], <<"lead3">>, <<"cont">>}

SeqsUpTo(S, n) == UNION {[1..k -> S] : k \in 0..n}
Quoted(s) == <<"quote">> \o s \o <<"quote">>

MCSources ==
  {[input |-> q, written |-> FALSE, text |-> << >>] :
     q \in UNION {{Quoted(FlattenSeq(p)), <<"quote">> \o FlattenSeq(p)} :
                    p \in SeqsUpTo(SomePieces, Pieces) \cup SeqsUpTo(FewPieces, Pieces + 1)}}
  \cup {[input |-> Quoted(EscapedBody(FlattenSeq(t))), written |-> TRUE, text |-> FlattenSeq(t)] :
          t \in SeqsUpTo(Characters \cup {<<"slash">>, <<"u">>, <<"0">>}, WrittenLength)}
=============================================================================
