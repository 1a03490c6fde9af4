---------------------------- MODULE GrammarProofs -----------------------------
(***************************************************************************)
(* What the grammar of JsonGrammar derives, for every text, in the terms   *)
(* the proofs about its readers and its writers need.                      *)
(*                                                                         *)
(* The grammar is a recursive function over spans.  The least set of spans *)
(* closed under its productions (Derived) says the same, and is reasoned   *)
(* about by closure in one direction and by induction over a span's length *)
(* in the other: Derives holds of what is Derived and of nothing else, at  *)
(* any depth that is enough.  Lexemes, recursive too, follows from its     *)
(* unfolding at each token.                                                *)
(*                                                                         *)
(* A reader works from left to right, the grammar does not.  What a reader *)
(* has read is a text some continuation of which may be a document; what   *)
(* it expects next, and the containers it is inside of, say how.           *)
(***************************************************************************)
EXTENDS JsonGrammar, SequenceTheorems, WellFoundedInduction, TLAPS

(* The marks by name: the SMT translation does not take all of their       *)
(* characters, so that no step of arithmetic or sequences may spell them.  *)
Brace == "{"
EndBrace == "}"
Comma == ","
Colon == ":"

Symbols == {"value", "elements", "member", "members"}
AllSpans == Symbols \X Nat \X Nat \X Nat

ArrayMarks == [open |-> "[", close |-> "]", body |-> "elements", item |-> "value"]
ObjectMarks == [open |-> Brace, close |-> EndBrace, body |-> "members", item |-> "member"]
Containers == {ArrayMarks, ObjectMarks}

(* The productions of JsonGrammar, from a set of spans.                    *)
Rule(words, t, X, symbol, i, j, d) ==
  \/ symbol = "value" /\ i = j /\ t[i] \in words.scalars
  \/ /\ symbol = "value" /\ i < j /\ d > 0
     /\ \E c \in Containers :
          /\ t[i] = c.open /\ t[j] = c.close
          /\ j = i + 1 \/ <<c.body, i + 1, j - 1, d - 1>> \in X
  \/ \E l \in Containers :
       /\ symbol = l.body
       /\ \/ <<l.item, i, j, d>> \in X
          \/ \E k \in (i + 1)..(j - 1) :
               t[k] = Comma /\ <<l.item, i, k - 1, d>> \in X /\ <<l.body, k + 1, j, d>> \in X
  \/ /\ symbol = "member" /\ i + 2 <= j
     /\ t[i] \in words.keys /\ t[i + 1] = Colon /\ <<"value", i + 2, j, d>> \in X

Closed(words, t, X) ==
  \A symbol \in Symbols, i, j \in 1..Len(t), d \in Nat :
    Rule(words, t, X, symbol, i, j, d) => <<symbol, i, j, d>> \in X

Derived(words, t, x) == \A X \in SUBSET AllSpans : Closed(words, t, X) => x \in X

Language(words, t) == {x \in AllSpans : Derived(words, t, x)}

LEMMA ContainerParts ==
  \A l \in Containers : /\ l.body \in Symbols /\ l.item \in Symbols
                       /\ l.body # "value" /\ l.body # "member"
BY DEF Containers, ArrayMarks, ObjectMarks, Symbols

LEMMA RuleGrows ==
  ASSUME NEW words, NEW t, NEW X, NEW Y, X \subseteq Y, NEW symbol, NEW i, NEW j, NEW d,
         Rule(words, t, X, symbol, i, j, d)
  PROVE  Rule(words, t, Y, symbol, i, j, d)
BY Zenon DEF Rule

LEMMA LanguageIsClosed ==
  ASSUME NEW words, NEW t, NEW symbol \in Symbols, NEW i \in 1..Len(t), NEW j \in 1..Len(t), NEW d \in Nat,
         Len(t) \in Nat,
         Rule(words, t, Language(words, t), symbol, i, j, d)
  PROVE  Derived(words, t, <<symbol, i, j, d>>) /\ <<symbol, i, j, d>> \in Language(words, t)
<1>1. ASSUME NEW X \in SUBSET AllSpans, Closed(words, t, X)
      PROVE  <<symbol, i, j, d>> \in X
  <2>1. Language(words, t) \subseteq X
    BY <1>1 DEF Language, Derived
  <2>2. Rule(words, t, X, symbol, i, j, d)
    BY <2>1, RuleGrows
  <2>3. QED
    BY <1>1, <2>2 DEF Closed
<1>2. <<symbol, i, j, d>> \in AllSpans
  BY DEF AllSpans
<1>3. QED
  BY <1>1, <1>2 DEF Derived, Language

LEMMA LanguageByRules ==
  ASSUME NEW words, NEW t, Len(t) \in Nat, NEW x, Derived(words, t, x)
  PROVE  \E symbol \in Symbols, i, j \in 1..Len(t), d \in Nat :
           x = <<symbol, i, j, d>> /\ Rule(words, t, Language(words, t), symbol, i, j, d)
<1> DEFINE By(y) == \E symbol \in Symbols, i, j \in 1..Len(t), d \in Nat :
                      y = <<symbol, i, j, d>> /\ Rule(words, t, Language(words, t), symbol, i, j, d)
           L == {y \in AllSpans : By(y)}
<1>1. ASSUME NEW symbol \in Symbols, NEW i \in 1..Len(t), NEW j \in 1..Len(t), NEW d \in Nat,
             Rule(words, t, L, symbol, i, j, d)
      PROVE  <<symbol, i, j, d>> \in L
  <2>1. L \subseteq Language(words, t)
    <3>1. ASSUME NEW y \in L PROVE y \in Language(words, t)
      <4>1. PICK s2 \in Symbols, i2 \in 1..Len(t), j2 \in 1..Len(t), d2 \in Nat :
              y = <<s2, i2, j2, d2>> /\ Rule(words, t, Language(words, t), s2, i2, j2, d2)
        OBVIOUS
      <4>2. QED
        BY <4>1, LanguageIsClosed
    <3>2. QED
      BY <3>1
  <2>2. Rule(words, t, Language(words, t), symbol, i, j, d)
    BY <1>1, <2>1, RuleGrows
  <2>3. <<symbol, i, j, d>> \in AllSpans
    BY DEF AllSpans
  <2>4. QED
    BY <2>2, <2>3
<1>2. Closed(words, t, L) /\ L \in SUBSET AllSpans
  BY <1>1 DEF Closed
<1>3. x \in L
  BY <1>2 DEF Derived
<1>4. QED
  BY <1>3

(* Text written behind it takes nothing from what is derived.              *)
Extends(v, t) ==
  /\ Len(t) \in Nat /\ Len(v) \in Nat /\ Len(t) <= Len(v)
  /\ \A k \in 1..Len(t) : v[k] = t[k]

LEMMA DerivedStays ==
  ASSUME NEW words, NEW t, NEW v, Extends(v, t), NEW x, Derived(words, t, x)
  PROVE  Derived(words, v, x)
<1>1. ASSUME NEW X \in SUBSET AllSpans, Closed(words, v, X)
      PROVE  Closed(words, t, X)
  <2>1. ASSUME NEW symbol \in Symbols, NEW i \in 1..Len(t), NEW j \in 1..Len(t), NEW d \in Nat,
               Rule(words, t, X, symbol, i, j, d)
        PROVE  <<symbol, i, j, d>> \in X
    <3>1. \A k \in (i + 1)..(j - 1) : k \in 1..Len(t)
      BY DEF Extends
    <3>2. symbol = "member" /\ i + 2 <= j => i + 1 \in 1..Len(t)
      BY DEF Extends
    <3>3. i \in 1..Len(v) /\ j \in 1..Len(v)
      BY DEF Extends
    <3>4. \A k \in 1..Len(t) : v[k] = t[k]
      BY DEF Extends
    <3>5. Rule(words, v, X, symbol, i, j, d)
      BY <2>1, <3>1, <3>2, <3>4, Zenon DEF Rule
    <3>6. QED
      BY <1>1, <3>3, <3>5 DEF Closed
  <2>2. QED
    BY <2>1 DEF Closed
<1>2. QED
  BY <1>1 DEF Derived

LEMMA SpansAre ==
  ASSUME NEW t, NEW depth
  PROVE  Spans(t, depth) = Symbols \X (1..Len(t)) \X (1..Len(t)) \X (0..depth)
BY DEF Spans, Symbols

LEMMA ProductionIsRule ==
  ASSUME NEW words, NEW t, Len(t) \in Nat, NEW depth \in Nat, NEW X, NEW g,
         \A y \in Spans(t, depth) : g[y] <=> y \in X,
         NEW symbol \in Symbols, NEW i \in 1..Len(t), NEW j \in 1..Len(t), NEW d \in 0..depth
  PROVE  Production(t, words.scalars, words.keys, g, <<symbol, i, j, d>>)
           <=> Rule(words, t, X, symbol, i, j, d)
<1> DEFINE Body(open, close, s) ==
             /\ i < j /\ d > 0 /\ t[i] = open /\ t[j] = close
             /\ j = i + 1 \/ g[<<s, i + 1, j - 1, d - 1>>]
           List(s, item) ==
             \/ g[<<item, i, j, d>>]
             \/ \E k \in (i + 1)..(j - 1) :
                  t[k] = Comma /\ g[<<item, i, k - 1, d>>] /\ g[<<s, k + 1, j, d>>]
           InBody(open, close, s) ==
             /\ i < j /\ d > 0 /\ t[i] = open /\ t[j] = close
             /\ j = i + 1 \/ <<s, i + 1, j - 1, d - 1>> \in X
           InList(s, item) ==
             \/ <<item, i, j, d>> \in X
             \/ \E k \in (i + 1)..(j - 1) :
                  t[k] = Comma /\ <<item, i, k - 1, d>> \in X /\ <<s, k + 1, j, d>> \in X
           Member == /\ i + 2 <= j /\ t[i] \in words.keys /\ t[i + 1] = Colon
                     /\ g[<<"value", i + 2, j, d>>]
           InMember == /\ i + 2 <= j /\ t[i] \in words.keys /\ t[i + 1] = Colon
                       /\ <<"value", i + 2, j, d>> \in X
<1>1. Production(t, words.scalars, words.keys, g, <<symbol, i, j, d>>) <=>
        \/ /\ symbol = "value"
           /\ \/ i = j /\ t[i] \in words.scalars
              \/ Body("[", "]", "elements")
              \/ Body(Brace, EndBrace, "members")
        \/ symbol = "elements" /\ List("elements", "value")
        \/ symbol = "member" /\ Member
        \/ symbol = "members" /\ List("members", "member")
  BY Zenon DEF Production, Brace, EndBrace, Comma, Colon
<1>2. Rule(words, t, X, symbol, i, j, d) <=>
        \/ /\ symbol = "value"
           /\ \/ i = j /\ t[i] \in words.scalars
              \/ InBody("[", "]", "elements")
              \/ InBody(Brace, EndBrace, "members")
        \/ symbol = "elements" /\ InList("elements", "value")
        \/ symbol = "member" /\ InMember
        \/ symbol = "members" /\ InList("members", "member")
  <2>1. (\E c \in Containers :
           /\ t[i] = c.open /\ t[j] = c.close
           /\ j = i + 1 \/ <<c.body, i + 1, j - 1, d - 1>> \in X)
        <=> \/ /\ t[i] = "[" /\ t[j] = "]"
               /\ j = i + 1 \/ <<"elements", i + 1, j - 1, d - 1>> \in X
            \/ /\ t[i] = Brace /\ t[j] = EndBrace
               /\ j = i + 1 \/ <<"members", i + 1, j - 1, d - 1>> \in X
    BY DEF Containers, ArrayMarks, ObjectMarks
  <2>2. (\E l \in Containers : symbol = l.body /\ InList(l.body, l.item))
        <=> \/ symbol = "elements" /\ InList("elements", "value")
            \/ symbol = "members" /\ InList("members", "member")
    <3> HIDE DEF InList
    <3>1. QED
      BY DEF Containers, ArrayMarks, ObjectMarks
  <2>3. QED
    BY <2>1, <2>2, Zenon DEF Rule
<1>3. \A s \in Symbols, a, b \in 1..Len(t), e \in 0..depth :
        g[<<s, a, b, e>>] <=> <<s, a, b, e>> \in X
  BY SpansAre
<1>4. /\ "value" \in Symbols /\ "elements" \in Symbols
      /\ "member" \in Symbols /\ "members" \in Symbols
  BY DEF Symbols
<1>5. ASSUME NEW open, NEW close, NEW s \in Symbols
      PROVE  Body(open, close, s) <=> InBody(open, close, s)
  <2>1. i < j /\ d > 0 /\ j # i + 1 =>
          i + 1 \in 1..Len(t) /\ j - 1 \in 1..Len(t) /\ d - 1 \in 0..depth
    OBVIOUS
  <2>2. QED
    BY <1>3, <2>1, Zenon
<1>6. ASSUME NEW s \in Symbols, NEW item \in Symbols
      PROVE  List(s, item) <=> InList(s, item)
  <2>1. \A k \in (i + 1)..(j - 1) : k - 1 \in 1..Len(t) /\ k + 1 \in 1..Len(t)
    OBVIOUS
  <2>2. QED
    BY <1>3, <2>1, Zenon
<1>7. Member <=> InMember
  <2>1. i + 2 <= j => i + 2 \in 1..Len(t)
    OBVIOUS
  <2>2. QED
    BY <1>3, <1>4, <2>1, Zenon
<1> HIDE DEF Body, InBody, List, InList, Member, InMember
<1>8. QED
  BY <1>1, <1>2, <1>4, <1>5, <1>6, <1>7, Zenon

(* The recursive function of Derives is a solution of its equation, since  *)
(* there is one.                                                           *)
Solves(words, t, depth, g) ==
  /\ \A x \in Spans(t, depth) : g[x] = Production(t, words.scalars, words.keys, g, x)
  /\ Derives(t, words.scalars, words.keys, depth) = g[<<"value", 1, Len(t), depth>>]

LEMMA DerivesSolves ==
  ASSUME NEW words, NEW t, Len(t) \in Nat, NEW depth \in Nat
  PROVE  \E g : Solves(words, t, depth, g)
<1> DEFINE S == Spans(t, depth)
           Made(f) == [x \in S |-> Production(t, words.scalars, words.keys, f, x)]
           g == CHOOSE f : f = Made(f)
           h == [x \in S |-> Derived(words, t, x)]
<1>1. \A x \in S : \E symbol \in Symbols, i, j \in 1..Len(t), d \in 0..depth :
        x = <<symbol, i, j, d>>
  BY SpansAre
<1>2. \A symbol \in Symbols, i, j \in 1..Len(t), d \in 0..depth :
        <<symbol, i, j, d>> \in S /\ <<symbol, i, j, d>> \in AllSpans
  BY SpansAre DEF AllSpans
<1>3. \A x \in S : h[x] <=> x \in Language(words, t)
  <2>1. ASSUME NEW x \in S PROVE x \in AllSpans
    BY <1>1, <1>2
  <2>2. QED
    BY <2>1 DEF Language
<1>4. ASSUME NEW x \in S
      PROVE  Production(t, words.scalars, words.keys, h, x) <=> Derived(words, t, x)
  <2>1. PICK symbol \in Symbols, i \in 1..Len(t), j \in 1..Len(t), d \in 0..depth :
          x = <<symbol, i, j, d>>
    BY <1>1
  <2> HIDE DEF h, S
  <2>2. Production(t, words.scalars, words.keys, h, x) <=> Rule(words, t, Language(words, t), symbol, i, j, d)
    BY <1>3, <2>1, ProductionIsRule DEF S
  <2>3. Rule(words, t, Language(words, t), symbol, i, j, d) => Derived(words, t, x)
    BY <2>1, LanguageIsClosed
  <2>4. Derived(words, t, x) => Rule(words, t, Language(words, t), symbol, i, j, d)
    <3>1. SUFFICES ASSUME Derived(words, t, x) PROVE Rule(words, t, Language(words, t), symbol, i, j, d)
      OBVIOUS
    <3>2. PICK s2 \in Symbols, i2 \in 1..Len(t), j2 \in 1..Len(t), d2 \in Nat :
            x = <<s2, i2, j2, d2>> /\ Rule(words, t, Language(words, t), s2, i2, j2, d2)
      BY <3>1, LanguageByRules
    <3>3. s2 = symbol /\ i2 = i /\ j2 = j /\ d2 = d
      BY <2>1, <3>2
    <3>4. QED
      BY <3>2, <3>3
  <2>5. QED
    BY <2>2, <2>3, <2>4
<1>5. h = Made(h)
  <2>1. ASSUME NEW x \in S
        PROVE  Production(t, words.scalars, words.keys, h, x) = Derived(words, t, x)
    <3>1. /\ Production(t, words.scalars, words.keys, h, x) \in BOOLEAN
          /\ Derived(words, t, x) \in BOOLEAN
      <4> HIDE DEF h
      <4>1. QED
        BY Zenon DEF Production, Derived
    <3>2. QED
      BY <1>4, <3>1
  <2>2. QED
    BY <2>1, Zenon
<1>6. g = Made(g)
  <2> HIDE DEF Made, h
  <2>1. QED
    BY <1>5, Zenon
<1>7. Derives(t, words.scalars, words.keys, depth) = g[<<"value", 1, Len(t), depth>>]
  BY Zenon DEF Derives
<1> HIDE DEF h, g
<1>8. \A x \in S : g[x] = Production(t, words.scalars, words.keys, g, x)
  <2>1. \A f : Made(f) = [x \in S |-> Production(t, words.scalars, words.keys, f, x)]
    OBVIOUS
  <2> HIDE DEF Made, S
  <2>2. g = [x \in S |-> Production(t, words.scalars, words.keys, g, x)]
    BY <1>6, <2>1
  <2>3. QED
    BY <2>2, Zenon
<1>9. Solves(words, t, depth, g)
  BY <1>7, <1>8 DEF Solves
<1>10. QED
  BY <1>9

LEMMA DerivedIsDerives ==
  ASSUME NEW words, NEW t, Len(t) \in Nat, Len(t) # 0, NEW depth \in Nat,
         Derived(words, t, <<"value", 1, Len(t), depth>>)
  PROVE  Derives(t, words.scalars, words.keys, depth)
<1>0. PICK g : Solves(words, t, depth, g)
  BY DerivesSolves
<1>1. /\ \A x \in Spans(t, depth) :
           g[x] = Production(t, words.scalars, words.keys, g, x)
      /\ Derives(t, words.scalars, words.keys, depth) = g[<<"value", 1, Len(t), depth>>]
  BY <1>0 DEF Solves
<1> DEFINE S == Spans(t, depth)
           X == {x \in AllSpans : x \in S => g[x]}
<1>2. \A x \in S : x \in AllSpans
  BY SpansAre DEF AllSpans
<1>3. Closed(words, t, X)
  <2>1. ASSUME NEW symbol \in Symbols, NEW i \in 1..Len(t), NEW j \in 1..Len(t),
               NEW d \in Nat, Rule(words, t, X, symbol, i, j, d)
        PROVE  <<symbol, i, j, d>> \in X
    <3> DEFINE x == <<symbol, i, j, d>>
    <3>1. x \in AllSpans
      BY DEF AllSpans
    <3>2. CASE x \in S
      <4>1. d \in 0..depth
        BY <3>2, SpansAre
      <4>2. \A y \in S : y \in AllSpans
        BY <1>2
      <4>3. \A y \in Spans(t, depth) : g[y] <=> y \in X
        BY <4>2
      <4> HIDE DEF X
      <4>4. Production(t, words.scalars, words.keys, g, x)
        BY <2>1, <4>1, <4>3, ProductionIsRule
      <4>5. QED
        BY <1>1, <3>1, <3>2, <4>4 DEF X
    <3>3. QED
      BY <3>1, <3>2
  <2>2. QED
    BY <2>1 DEF Closed
<1>4. <<"value", 1, Len(t), depth>> \in X
  BY <1>3 DEF Derived
<1>5. <<"value", 1, Len(t), depth>> \in S
  <2>1. "value" \in Symbols /\ 1 \in 1..Len(t) /\ Len(t) \in 1..Len(t) /\ depth \in 0..depth
    BY DEF Symbols
  <2>2. QED
    BY <2>1, SpansAre
<1>6. QED
  BY <1>1, <1>4, <1>5

(* A list of members or items with one more behind it is one: the grammar  *)
(* has its lists the other way round.                                      *)
LEMMA OneMore ==
  ASSUME NEW words, NEW t, Len(t) \in Nat, NEW l \in Containers, NEW i \in 1..Len(t),
         NEW k \in 1..Len(t), NEW j \in 1..Len(t), i < k, k < j, NEW d \in Nat,
         Derived(words, t, <<l.body, i, k - 1, d>>), t[k] = Comma,
         Derived(words, t, <<l.item, k + 1, j, d>>)
  PROVE  Derived(words, t, <<l.body, i, j, d>>)
<1> DEFINE Longer(x) == \A a \in 1..Len(t) :
                           x = <<l.body, a, k - 1, d>> => Derived(words, t, <<l.body, a, j, d>>)
           X == {x \in Language(words, t) : x[2] <= x[3] /\ Longer(x)}
<1>1. l.body \in Symbols /\ l.item \in Symbols /\ l.body # "value" /\ l.body # "member"
      /\ \A m \in Containers : m.body = l.body => m = l
  BY ContainerParts DEF Containers, ArrayMarks, ObjectMarks
<1>2. <<l.item, k + 1, j, d>> \in Language(words, t)
  BY <1>1 DEF Language, AllSpans
<1>3. <<l.body, k + 1, j, d>> \in Language(words, t)
  <2>1. Rule(words, t, Language(words, t), l.body, k + 1, j, d)
    BY <1>2 DEF Rule
  <2>2. k + 1 \in 1..Len(t)
    OBVIOUS
  <2>3. QED
    BY <1>1, <2>1, <2>2, LanguageIsClosed
<1>4. ASSUME NEW symbol \in Symbols, NEW a \in 1..Len(t), NEW b \in 1..Len(t), NEW e \in Nat,
             Rule(words, t, X, symbol, a, b, e)
      PROVE  <<symbol, a, b, e>> \in X
  <2> DEFINE x == <<symbol, a, b, e>>
  <2>1. Rule(words, t, Language(words, t), symbol, a, b, e)
    BY <1>4, RuleGrows
  <2>2. x \in Language(words, t)
    BY <2>1, LanguageIsClosed
  <2>3. a <= b
    <3>1. \A s, f : <<s, a, b, f>> \in X => a <= b
      OBVIOUS
    <3> HIDE DEF X
    <3>2. \/ a = b \/ a < b \/ a + 2 <= b
          \/ \E m \in Containers : \/ <<m.item, a, b, e>> \in X
                              \/ \E c \in (a + 1)..(b - 1) : t[c] = Comma
      BY <1>4, Zenon DEF Rule
    <3>3. (\E m \in Containers : <<m.item, a, b, e>> \in X) => a <= b
      BY <3>1, Zenon
    <3>4. (\E c \in (a + 1)..(b - 1) : t[c] = Comma) => a <= b
      OBVIOUS
    <3>5. QED
      BY <3>2, <3>3, <3>4
  <2>4. ASSUME symbol = l.body, b = k - 1, e = d
        PROVE  Derived(words, t, <<l.body, a, j, d>>)
    <3>1. \/ <<l.item, a, k - 1, d>> \in X
          \/ \E c \in (a + 1)..(b - 1) :
               /\ t[c] = Comma /\ <<l.item, a, c - 1, d>> \in X
               /\ <<l.body, c + 1, k - 1, d>> \in X
      <4> HIDE DEF X
      <4>1. \E m \in Containers :
              /\ symbol = m.body
              /\ \/ <<m.item, a, b, e>> \in X
                 \/ \E c \in (a + 1)..(b - 1) :
                      t[c] = Comma /\ <<m.item, a, c - 1, e>> \in X
                      /\ <<m.body, c + 1, b, e>> \in X
        BY <1>1, <1>4, <2>4, Zenon DEF Rule
      <4>2. QED
        BY <1>1, <2>4, <4>1
    <3>2. Rule(words, t, Language(words, t), l.body, a, j, d)
      <4>1. CASE <<l.item, a, k - 1, d>> \in X
        <5>1. <<l.item, a, k - 1, d>> \in Language(words, t) /\ k \in (a + 1)..(j - 1)
          BY <2>3, <2>4, <4>1
        <5>2. QED
          BY <1>3, <5>1 DEF Rule
      <4>2. ASSUME NEW c \in (a + 1)..(b - 1), t[c] = Comma, <<l.item, a, c - 1, d>> \in X,
                   <<l.body, c + 1, k - 1, d>> \in X
            PROVE  Rule(words, t, Language(words, t), l.body, a, j, d)
        <5>1. c + 1 \in 1..Len(t) /\ c \in (a + 1)..(j - 1)
          <6>1. b = k - 1
            BY <2>4
          <6>2. a \in Nat /\ k \in Nat /\ j \in Nat /\ b \in Nat /\ j <= Len(t) /\ 1 <= a
            OBVIOUS
          <6>3. c \in Nat /\ a < c /\ c <= b - 1
            BY <6>2
          <6>4. QED
            BY <6>1, <6>2, <6>3
        <5>2. Derived(words, t, <<l.body, c + 1, j, d>>) /\ <<l.item, a, c - 1, d>> \in Language(words, t)
          BY <4>2, <5>1
        <5>3. <<l.body, c + 1, j, d>> \in Language(words, t)
          <6>1. <<l.body, c + 1, j, d>> \in AllSpans
            BY <1>1, <5>1 DEF AllSpans
          <6>2. QED
            BY <5>2, <6>1 DEF Language
        <5>4. QED
          BY <4>2, <5>1, <5>2, <5>3 DEF Rule
      <4>3. QED
        BY <3>1, <4>1, <4>2
    <3>3. QED
      BY <1>1, <3>2, LanguageIsClosed
  <2>5. Longer(x)
    BY <2>4
  <2>6. QED
    BY <2>2, <2>3, <2>5
<1>5. Closed(words, t, X) /\ X \in SUBSET AllSpans
  BY <1>4 DEF Closed, Language
<1>6. <<l.body, i, k - 1, d>> \in X
  BY <1>5 DEF Derived
<1>7. QED
  BY <1>6

(* A span is derived just when one production derives it from others.      *)
LEMMA DerivedByRule ==
  ASSUME NEW words, NEW t, Len(t) \in Nat, NEW symbol \in Symbols, NEW i \in 1..Len(t),
         NEW j \in 1..Len(t), NEW d \in Nat
  PROVE  Derived(words, t, <<symbol, i, j, d>>)
           <=> Rule(words, t, Language(words, t), symbol, i, j, d)
<1>1. ASSUME Derived(words, t, <<symbol, i, j, d>>)
      PROVE  Rule(words, t, Language(words, t), symbol, i, j, d)
  <2>1. PICK s2 \in Symbols, i2 \in 1..Len(t), j2 \in 1..Len(t), d2 \in Nat :
          /\ <<symbol, i, j, d>> = <<s2, i2, j2, d2>>
          /\ Rule(words, t, Language(words, t), s2, i2, j2, d2)
    BY <1>1, LanguageByRules
  <2>2. s2 = symbol /\ i2 = i /\ j2 = j /\ d2 = d
    BY <2>1
  <2>3. QED
    BY <2>1, <2>2
<1>2. QED
  BY <1>1, LanguageIsClosed

(* What is derived lies in the text, and begins before it ends.            *)
LEMMA SpansAreOrdered ==
  ASSUME NEW words, NEW t, Len(t) \in Nat, NEW symbol, NEW i, NEW j, NEW d,
         Derived(words, t, <<symbol, i, j, d>>)
  PROVE  symbol \in Symbols /\ i \in 1..Len(t) /\ j \in 1..Len(t) /\ d \in Nat /\ i <= j
<1> DEFINE X == {x \in AllSpans : x[2] \in 1..Len(t) /\ x[3] \in 1..Len(t) /\ x[2] <= x[3]}
<1>1. ASSUME NEW s \in Symbols, NEW a \in 1..Len(t), NEW b \in 1..Len(t), NEW e \in Nat,
             Rule(words, t, X, s, a, b, e)
      PROVE  <<s, a, b, e>> \in X
  <2>1. \A s2, f : <<s2, a, b, f>> \in X => a <= b
    OBVIOUS
  <2> HIDE DEF X
  <2>2. \/ a = b \/ a < b \/ a + 2 <= b
        \/ \E m \in Containers : \/ <<m.item, a, b, e>> \in X
                                 \/ \E c \in (a + 1)..(b - 1) : t[c] = Comma
    BY <1>1, Zenon DEF Rule
  <2>3. (\E m \in Containers : <<m.item, a, b, e>> \in X) => a <= b
    BY <2>1, Zenon
  <2>4. (\E c \in (a + 1)..(b - 1) : t[c] = Comma) => a <= b
    OBVIOUS
  <2>5. a <= b
    BY <2>2, <2>3, <2>4
  <2>6. QED
    BY <2>5 DEF X, AllSpans
<1>2. Closed(words, t, X) /\ X \in SUBSET AllSpans
  BY <1>1 DEF Closed
<1>3. <<symbol, i, j, d>> \in X
  BY <1>2 DEF Derived
<1>4. QED
  BY <1>3 DEF AllSpans

LEMMA InLanguageIfDerived ==
  ASSUME NEW words, NEW t, Len(t) \in Nat, NEW symbol, NEW i, NEW j, NEW d
  PROVE  Derived(words, t, <<symbol, i, j, d>>)
           <=> <<symbol, i, j, d>> \in Language(words, t)
<1>1. Derived(words, t, <<symbol, i, j, d>>) => <<symbol, i, j, d>> \in AllSpans
  BY SpansAreOrdered DEF AllSpans
<1>2. QED
  BY <1>1 DEF Language

(* What stands behind a span has no part in it: the other way round from   *)
(* DerivedStays.                                                           *)
LEMMA DerivedInPrefix ==
  ASSUME NEW words, NEW t, NEW v, Extends(v, t), NEW symbol, NEW i, NEW j, NEW d,
         j <= Len(t), Derived(words, v, <<symbol, i, j, d>>)
  PROVE  Derived(words, t, <<symbol, i, j, d>>)
<1> DEFINE X == {x \in AllSpans : x[3] <= Len(t) => x \in Language(words, t)}
<1>1. ASSUME NEW s \in Symbols, NEW a \in 1..Len(v), NEW b \in 1..Len(v), NEW e \in Nat,
             Rule(words, v, X, s, a, b, e)
      PROVE  <<s, a, b, e>> \in X
  <2>1. CASE b > Len(t)
    BY <2>1 DEF AllSpans, Extends
  <2>2. CASE b <= Len(t)
    <3>1. b \in 1..Len(t) /\ Len(t) \in Nat /\ Len(v) \in Nat
      BY <2>2 DEF Extends
    <3>2. a <= b
      <4>0. ASSUME NEW m \in Containers, <<m.item, a, b, e>> \in X
            PROVE  a <= b
        BY <3>1, <4>0, InLanguageIfDerived, SpansAreOrdered
      <4> HIDE DEF X
      <4>1. \/ a = b \/ a < b \/ a + 2 <= b
            \/ \E m \in Containers : \/ <<m.item, a, b, e>> \in X
                                     \/ \E c \in (a + 1)..(b - 1) : v[c] = Comma
        BY <1>1, Zenon DEF Rule
      <4>2. (\E m \in Containers : <<m.item, a, b, e>> \in X) => a <= b
        BY <4>0, Zenon
      <4>3. (\E c \in (a + 1)..(b - 1) : v[c] = Comma) => a <= b
        OBVIOUS
      <4>4. QED
        BY <4>1, <4>2, <4>3
    <3>3. \A s2, a2, f : \A b2 \in Nat :
            b2 <= Len(t) /\ <<s2, a2, b2, f>> \in X => <<s2, a2, b2, f>> \in Language(words, t)
      OBVIOUS
    <3>4. \A k \in 1..Len(t) : v[k] = t[k]
      BY DEF Extends
    <3>5. a \in 1..Len(t)
      BY <3>1, <3>2
    <3>6. \A k \in (a + 1)..(b - 1) : k \in 1..Len(t) /\ k - 1 \in Nat /\ k - 1 <= Len(t)
      BY <3>1
    <3>7. s = "member" /\ a + 2 <= b => a + 1 \in 1..Len(t)
      BY <3>1
    <3>8. b - 1 <= Len(t) /\ (b # 0 => b - 1 \in Nat) /\ b # 0 /\ b \in Nat /\ b <= Len(t)
      BY <3>1
    <3> HIDE DEF X
    <3>9. Rule(words, t, Language(words, t), s, a, b, e)
      BY <1>1, <3>1, <3>3, <3>4, <3>5, <3>6, <3>7, <3>8, Zenon DEF Rule
    <3>10. QED
      BY <3>1, <3>5, <3>9, LanguageIsClosed DEF X, AllSpans
  <2>3. QED
    BY <2>1, <2>2 DEF Extends
<1>2. Closed(words, v, X) /\ X \in SUBSET AllSpans
  BY <1>1 DEF Closed
<1>3. <<symbol, i, j, d>> \in X
  BY <1>2 DEF Derived
<1>4. QED
  BY <1>3 DEF Language

LEMMA LeastOf ==
  ASSUME NEW S, S \subseteq Nat, S # {}
  PROVE  \E n \in S : \A m \in S : n <= m
<1>1. PICK n \in S : \A m \in S : ~ (<<m, n>> \in OpToRel(<, Nat))
  BY NatLessThanWellFounded, WFMin
<1>2. ASSUME NEW m \in S PROVE n <= m
  <2>1. m \in Nat /\ n \in Nat
    OBVIOUS
  <2>2. m < n => <<m, n>> \in OpToRel(<, Nat)
    BY <2>1 DEF OpToRel
  <2>3. ~ (m < n)
    BY <1>1, <2>2
  <2>4. QED
    BY <2>1, <2>3
<1>3. QED
  BY <1>2

(* The recursive function of Derives has no other solution.  By the least  *)
(* length of a span that it takes and no production derives; of two spans  *)
(* of one length, a list counts as longer than the item it may be.         *)
Lists == {"elements", "members"}

SpanWeight(t, x) ==
  2 * (Len(t) + x[3] - x[2]) + (IF x[1] \in Lists THEN 1 ELSE 0)

LEMMA SolutionIsDerived ==
  ASSUME NEW words, NEW t, Len(t) \in Nat, NEW depth \in Nat, NEW g,
         \A x \in Spans(t, depth) : g[x] = Production(t, words.scalars, words.keys, g, x),
         NEW x \in Spans(t, depth), g[x], ~ Derived(words, t, x),
         \A y \in Spans(t, depth) :
           /\ SpanWeight(t, y) \in Nat /\ SpanWeight(t, y) < SpanWeight(t, x)
           /\ g[y]
           => Derived(words, t, y)
  PROVE  FALSE
<1> DEFINE X == {y \in Spans(t, depth) : g[y]}
<1>1. PICK s \in Symbols, i \in 1..Len(t), j \in 1..Len(t), d \in 0..depth :
        x = <<s, i, j, d>>
  BY SpansAre
<1>2. \A y \in Spans(t, depth) : g[y] <=> y \in X
  OBVIOUS
<1>3. ASSUME NEW y \in X, SpanWeight(t, y) \in Nat, SpanWeight(t, y) < SpanWeight(t, x)
      PROVE  y \in Language(words, t)
  <2>1. Derived(words, t, y)
    BY <1>3
  <2>2. y \in AllSpans
    BY SpansAre DEF AllSpans
  <2>3. QED
    BY <2>1, <2>2 DEF Language
<1> HIDE DEF X
<1>4. Rule(words, t, X, s, i, j, d)
  BY <1>1, <1>2, ProductionIsRule
<1>5. /\ i \in Nat /\ j \in Nat /\ 1 <= i /\ 1 <= j /\ i <= Len(t) /\ j <= Len(t)
      /\ d \in Nat
  OBVIOUS
<1>6. SpanWeight(t, x) = 2 * (Len(t) + j - i) + (IF s \in Lists THEN 1 ELSE 0)
  BY <1>1 DEF SpanWeight
<1>7. ASSUME NEW s2 \in Symbols, NEW a \in Nat, NEW b \in Nat, NEW e,
             <<s2, a, b, e>> \in X, a <= Len(t) + b, b - a + 1 <= j - i
      PROVE  <<s2, a, b, e>> \in Language(words, t)
  <2>1. SpanWeight(t, <<s2, a, b, e>>) = 2 * (Len(t) + b - a) + (IF s2 \in Lists THEN 1 ELSE 0)
    BY DEF SpanWeight
  <2>2. SpanWeight(t, <<s2, a, b, e>>) \in Nat
    BY <1>7, <2>1
  <2>3. SpanWeight(t, <<s2, a, b, e>>) < SpanWeight(t, x)
    BY <1>5, <1>6, <1>7, <2>1
  <2>4. QED
    BY <1>3, <1>7, <2>2, <2>3
<1>8. ASSUME s \in Lists, NEW s2, s2 \notin Lists, <<s2, i, j, d>> \in X
      PROVE  <<s2, i, j, d>> \in Language(words, t)
  <2>1. SpanWeight(t, <<s2, i, j, d>>) = 2 * (Len(t) + j - i)
    BY <1>8 DEF SpanWeight
  <2>2. SpanWeight(t, <<s2, i, j, d>>) \in Nat
    BY <1>5, <2>1
  <2>3. SpanWeight(t, <<s2, i, j, d>>) < SpanWeight(t, x)
    BY <1>5, <1>6, <1>8, <2>1
  <2>4. QED
    BY <1>3, <1>8, <2>2, <2>3
<1>9. Rule(words, t, Language(words, t), s, i, j, d)
  <2>1. ASSUME NEW c \in Containers, i < j, d > 0, j # i + 1,
               <<c.body, i + 1, j - 1, d - 1>> \in X
        PROVE  <<c.body, i + 1, j - 1, d - 1>> \in Language(words, t)
    <3>1. /\ i + 1 \in Nat /\ j - 1 \in Nat /\ i + 1 <= Len(t) + (j - 1)
          /\ (j - 1) - (i + 1) + 1 <= j - i
      BY <1>5, <2>1
    <3>2. QED
      BY <1>7, <2>1, <3>1, ContainerParts
  <2>2. ASSUME NEW l \in Containers, s = l.body, <<l.item, i, j, d>> \in X
        PROVE  <<l.item, i, j, d>> \in Language(words, t)
    <3>1. s \in Lists /\ l.item \notin Lists
      BY <2>2 DEF Containers, ArrayMarks, ObjectMarks, Lists
    <3>2. QED
      BY <1>8, <2>2, <3>1
  <2>3. ASSUME NEW l \in Containers, NEW k \in (i + 1)..(j - 1),
               <<l.item, i, k - 1, d>> \in X, <<l.body, k + 1, j, d>> \in X
        PROVE  /\ <<l.item, i, k - 1, d>> \in Language(words, t)
               /\ <<l.body, k + 1, j, d>> \in Language(words, t)
    <3>1. k \in Nat /\ i < k /\ k < j
      BY <1>5
    <3>2. /\ k - 1 \in Nat /\ i <= Len(t) + (k - 1) /\ (k - 1) - i + 1 <= j - i
      BY <1>5, <3>1
    <3>3. /\ k + 1 \in Nat /\ k + 1 <= Len(t) + j /\ j - (k + 1) + 1 <= j - i
      BY <1>5, <3>1
    <3>4. QED
      BY <1>5, <1>7, <2>3, <3>2, <3>3, ContainerParts
  <2>4. ASSUME i + 2 <= j, <<"value", i + 2, j, d>> \in X
        PROVE  <<"value", i + 2, j, d>> \in Language(words, t)
    <3>1. /\ i + 2 \in Nat /\ i + 2 <= Len(t) + j /\ j - (i + 2) + 1 <= j - i
      BY <1>5, <2>4
    <3>2. QED
      BY <1>5, <1>7, <2>4, <3>1 DEF Symbols
  <2>5. QED
    BY <1>4, <2>1, <2>2, <2>3, <2>4, Zenon DEF Rule
<1>10. QED
  BY <1>1, <1>9, LanguageIsClosed

LEMMA DerivesIsDerived ==
  ASSUME NEW words, NEW t, Len(t) \in Nat, Len(t) # 0, NEW depth \in Nat,
         Derives(t, words.scalars, words.keys, depth)
  PROVE  Derived(words, t, <<"value", 1, Len(t), depth>>)
<1>0. PICK g : Solves(words, t, depth, g)
  BY DerivesSolves
<1>1. /\ \A x \in Spans(t, depth) :
           g[x] = Production(t, words.scalars, words.keys, g, x)
      /\ Derives(t, words.scalars, words.keys, depth) = g[<<"value", 1, Len(t), depth>>]
  BY <1>0 DEF Solves
<1> DEFINE Bad == {x \in Spans(t, depth) : g[x] /\ ~ Derived(words, t, x)}
           Weights == {n \in Nat : \E x \in Bad : SpanWeight(t, x) = n}
<1>2. \A x \in Spans(t, depth) : SpanWeight(t, x) \in Nat
  <2>1. ASSUME NEW x \in Spans(t, depth) PROVE SpanWeight(t, x) \in Nat
    <3>1. x[2] \in 1..Len(t) /\ x[3] \in 1..Len(t)
      BY SpansAre
    <3>2. QED
      BY <3>1 DEF SpanWeight
  <2>2. QED
    BY <2>1
<1>3. SUFFICES ASSUME NEW bad \in Bad PROVE FALSE
  <2>1. "value" \in Symbols /\ 1 \in 1..Len(t) /\ Len(t) \in 1..Len(t) /\ depth \in 0..depth
    BY DEF Symbols
  <2>2. <<"value", 1, Len(t), depth>> \in Spans(t, depth)
    BY <2>1, SpansAre
  <2>3. QED
    BY <1>1, <2>2
<1>4. SpanWeight(t, bad) \in Weights
  BY <1>2
<1>5. PICK n \in Weights : \A m \in Weights : n <= m
  <2>1. Weights \subseteq Nat
    OBVIOUS
  <2> HIDE DEF Weights
  <2>2. QED
    BY <1>4, <2>1, LeastOf
<1>6. PICK x \in Bad : SpanWeight(t, x) = n
  OBVIOUS
<1>7. ASSUME NEW y \in Spans(t, depth), SpanWeight(t, y) \in Nat,
             SpanWeight(t, y) < SpanWeight(t, x), g[y]
      PROVE  Derived(words, t, y)
  <2>1. SpanWeight(t, y) \notin Weights
    BY <1>5, <1>6, <1>7
  <2>2. QED
    BY <1>7, <2>1
<1>8. x \in Spans(t, depth) /\ g[x] /\ ~ Derived(words, t, x)
  OBVIOUS
<1> HIDE DEF Bad, Weights
<1>9. QED
  BY <1>1, <1>7, <1>8, SolutionIsDerived

LEMMA DerivesExactly ==
  ASSUME NEW words, NEW t, Len(t) \in Nat, Len(t) # 0, NEW depth \in Nat
  PROVE  Derives(t, words.scalars, words.keys, depth)
           <=> Derived(words, t, <<"value", 1, Len(t), depth>>)
BY DerivesIsDerived, DerivedIsDerives

-----------------------------------------------------------------------------
(* Lexemes: how many begin in the first n tokens of a text, and that each  *)
(* token that begins one is found there.                                   *)
Begun(text, n) == Len(LexemesUpTo(text)[n])

(* f holds the lexemes of the first n tokens, for n up to m.               *)
HoldsLexemes(text, m, f) ==
  /\ f[0] = << >>
  /\ \A n \in 1..m : f[n] = IF LexemeBegins(text, n) THEN Append(f[n - 1], text[n])
                            ELSE f[n - 1]

LexemeStep(text, f, n) ==
  IF n = 0 THEN << >>
  ELSE IF LexemeBegins(text, n) THEN Append(f[n - 1], text[n])
  ELSE f[n - 1]

LEMMA LexemesStepwise ==
  ASSUME NEW text, Len(text) \in Nat
  PROVE  HoldsLexemes(text, Len(text), LexemesUpTo(text))
<1> DEFINE D == 0..Len(text)
           Made(f, m) == [n \in 0..m |-> LexemeStep(text, f, n)]
           Missing == {m \in D : ~ \E f : f = Made(f, m)}
           g == CHOOSE f : f = [n \in D |-> LexemeStep(text, f, n)]
<1>1. \E f : f = Made(f, 0)
  <2>1. Made(0, 0) = Made(Made(0, 0), 0)
    <3>1. \A f : Made(f, 0) = [n \in 0..0 |-> << >>]
      BY DEF LexemeStep
    <3> HIDE DEF Made
    <3>2. QED
      BY <3>1
  <2> HIDE DEF Made
  <2>2. QED
    BY <2>1
<1>2. ASSUME NEW m \in Nat, NEW f, f = Made(f, m)
      PROVE  \E h : h = Made(h, m + 1)
  <2> DEFINE h == [n \in 0..(m + 1) |-> IF n \in 0..m THEN f[n] ELSE LexemeStep(text, f, n)]
  <2>1. \A n \in 0..m : h[n] = f[n]
    OBVIOUS
  <2>2. \A n \in 0..(m + 1) : LexemeStep(text, h, n) = LexemeStep(text, f, n)
    <3>1. ASSUME NEW n \in 0..(m + 1), n # 0 PROVE h[n - 1] = f[n - 1]
      BY <2>1, <3>1
    <3> HIDE DEF h
    <3>2. QED
      BY <3>1 DEF LexemeStep
  <2>3. \A n \in 0..m : f[n] = LexemeStep(text, f, n)
    <3> DEFINE F == [n \in 0..m |-> LexemeStep(text, f, n)]
    <3>1. f = F
      BY <1>2
    <3>2. \A n \in 0..m : F[n] = LexemeStep(text, f, n)
      OBVIOUS
    <3> HIDE DEF F
    <3>3. QED
      BY <3>1, <3>2
  <2>4. \A n \in 0..(m + 1) : h[n] = LexemeStep(text, h, n)
    <3>1. \A n \in 0..(m + 1) : h[n] = LexemeStep(text, f, n)
      BY <2>3
    <3>2. QED
      BY <2>2, <3>1
  <2>5. h = Made(h, m + 1)
    <3>1. h = [n \in 0..(m + 1) |-> h[n]]
      OBVIOUS
    <3> HIDE DEF h
    <3>2. QED
      BY <2>4, <3>1
  <2> HIDE DEF h, Made
  <2>6. QED
    BY <2>5
<1> HIDE DEF Made
<1>3. Missing = {}
  <2>1. SUFFICES ASSUME Missing # {} PROVE FALSE
    OBVIOUS
  <2>2. Missing \subseteq Nat
    OBVIOUS
  <2>3. PICK m \in Missing : \A k \in Missing : m <= k
    <3> HIDE DEF Missing
    <3>1. QED
      BY <2>1, <2>2, LeastOf
  <2>4. m # 0
    BY <1>1
  <2>5. m - 1 \in D /\ m - 1 \in Nat /\ m - 1 \notin Missing
    BY <2>3, <2>4
  <2>6. PICK f : f = Made(f, m - 1)
    BY <2>5
  <2>7. \E h : h = Made(h, m - 1 + 1)
    BY <1>2, <2>5, <2>6
  <2>8. m - 1 + 1 = m
    OBVIOUS
  <2>9. QED
    BY <2>7, <2>8
<1>4. \E f : f = Made(f, Len(text))
  BY <1>3
<1>5. g = [n \in D |-> LexemeStep(text, g, n)]
  <2>1. \E f : f = [n \in D |-> LexemeStep(text, f, n)]
    BY <1>4 DEF Made
  <2>2. QED
    BY <2>1, Zenon
<1>6. LexemesUpTo(text) = g
  BY DEF LexemesUpTo, LexemeStep
<1> HIDE DEF g
<1>7. \A n \in D : g[n] = LexemeStep(text, g, n)
  <2> DEFINE G == [n \in D |-> LexemeStep(text, g, n)]
  <2>1. \A n \in D : G[n] = LexemeStep(text, g, n)
    OBVIOUS
  <2>2. g = G
    BY <1>5
  <2> HIDE DEF G
  <2>3. QED
    BY <2>1, <2>2
<1>8. g[0] = << >>
  <2>1. 0 \in D
    OBVIOUS
  <2>2. QED
    BY <1>7, <2>1 DEF LexemeStep
<1>9. \A n \in 1..Len(text) : g[n] = IF LexemeBegins(text, n) THEN Append(g[n - 1], text[n])
                                     ELSE g[n - 1]
  <2>1. \A n \in 1..Len(text) : n \in D /\ n # 0
    OBVIOUS
  <2>2. QED
    BY <1>7, <2>1 DEF LexemeStep
<1>10. QED
  BY <1>6, <1>8, <1>9 DEF HoldsLexemes

LEMMA LexemesAreTokens ==
  ASSUME NEW T, NEW text \in Seq(T), NEW n \in 0..Len(text)
  PROVE  LexemesUpTo(text)[n] \in Seq(T) /\ Begun(text, n) \in Nat
<1> DEFINE u == LexemesUpTo(text)
           Bad == {k \in 0..Len(text) : u[k] \notin Seq(T)}
<1>1. HoldsLexemes(text, Len(text), u)
  BY LexemesStepwise
<1> HIDE DEF u
<1>2. Bad = {}
  <2>1. SUFFICES ASSUME Bad # {} PROVE FALSE
    OBVIOUS
  <2>2. Bad \subseteq Nat
    OBVIOUS
  <2>3. PICK k \in Bad : \A m \in Bad : k <= m
    <3> HIDE DEF Bad
    <3>1. QED
      BY <2>1, <2>2, LeastOf
  <2>4. k # 0
    <3>1. u[0] = << >> /\ << >> \in Seq(T)
      BY <1>1 DEF HoldsLexemes
    <3>2. u[0] \in Seq(T)
      BY <3>1
    <3>3. QED
      BY <3>2
  <2>5. k \in 1..Len(text) /\ k - 1 \in 0..Len(text) /\ k - 1 \notin Bad
    BY <2>3, <2>4
  <2>6. u[k - 1] \in Seq(T) /\ text[k] \in T
    BY <2>5, ElementOfSeq
  <2>7. u[k] = Append(u[k - 1], text[k]) \/ u[k] = u[k - 1]
    BY <1>1, <2>5 DEF HoldsLexemes
  <2>8. u[k] \in Seq(T)
    <3>1. Append(u[k - 1], text[k]) \in Seq(T)
      BY <2>6, AppendProperties
    <3>2. QED
      BY <2>6, <2>7, <3>1
  <2>9. QED
    BY <2>8
<1>3. u[n] \in Seq(T)
  BY <1>2
<1>4. QED
  BY <1>3, LenProperties DEF Begun, u

(* One token more.                                                         *)
LEMMA OneTokenMore ==
  ASSUME NEW T, NEW text \in Seq(T), NEW n \in 1..Len(text)
  PROVE  /\ Extends(LexemesUpTo(text)[n], LexemesUpTo(text)[n - 1])
         /\ LexemeBegins(text, n) => /\ Begun(text, n) = Begun(text, n - 1) + 1
                                     /\ LexemesUpTo(text)[n][Begun(text, n)] = text[n]
         /\ ~ LexemeBegins(text, n) => LexemesUpTo(text)[n] = LexemesUpTo(text)[n - 1]
<1> DEFINE u == LexemesUpTo(text)
<1>1. HoldsLexemes(text, Len(text), u)
  BY LexemesStepwise
<1>2. u[n - 1] \in Seq(T) /\ text[n] \in T
  <2>1. n - 1 \in 0..Len(text)
    OBVIOUS
  <2>2. QED
    BY <2>1, LexemesAreTokens, ElementOfSeq
<1> HIDE DEF u
<1>3. CASE LexemeBegins(text, n)
  <2>1. u[n] = Append(u[n - 1], text[n])
    BY <1>1, <1>3 DEF HoldsLexemes
  <2>2. /\ Len(u[n]) = Len(u[n - 1]) + 1 /\ u[n][Len(u[n])] = text[n]
        /\ Len(u[n - 1]) \in Nat /\ \A k \in 1..Len(u[n - 1]) : u[n][k] = u[n - 1][k]
    BY <1>2, <2>1, AppendProperties
  <2>3. QED
    BY <1>3, <2>2 DEF Extends, Begun, u
<1>4. CASE ~ LexemeBegins(text, n)
  <2>1. u[n] = u[n - 1]
    BY <1>1, <1>4 DEF HoldsLexemes
  <2>2. Len(u[n - 1]) \in Nat
    BY <1>2
  <2>3. QED
    BY <1>4, <2>1, <2>2 DEF Extends, u
<1>5. QED
  BY <1>3, <1>4

LEMMA MoreTokens ==
  ASSUME NEW T, NEW text \in Seq(T), NEW m \in 0..Len(text), NEW n \in m..Len(text)
  PROVE  Extends(LexemesUpTo(text)[n], LexemesUpTo(text)[m])
<1> DEFINE u == LexemesUpTo(text)
           Bad == {k \in m..Len(text) : ~ Extends(u[k], u[m])}
<1>1. \A k \in 0..Len(text) : Len(u[k]) \in Nat
  BY LexemesAreTokens DEF Begun
<1>2. \A k \in 1..Len(text) : Extends(u[k], u[k - 1])
  BY OneTokenMore
<1> HIDE DEF u
<1>3. SUFFICES ASSUME n \in Bad PROVE FALSE
  BY DEF u
<1>4. Bad \subseteq Nat /\ Bad # {}
  BY <1>3
<1>5. PICK k \in Bad : \A i \in Bad : k <= i
  <2> HIDE DEF Bad
  <2>1. QED
    BY <1>4, LeastOf
<1>6. k # m
  BY <1>1 DEF Extends
<1>7. k - 1 \in m..Len(text) /\ k \in 1..Len(text) /\ k - 1 \notin Bad
  BY <1>5, <1>6
<1>8. Extends(u[k - 1], u[m]) /\ Extends(u[k], u[k - 1])
  BY <1>2, <1>7
<1>9. Extends(u[k], u[m])
  BY <1>8 DEF Extends
<1>10. QED
  BY <1>9

(* A token that begins a lexeme is the next one of the whole text.         *)
LEMMA LexemeIsThere ==
  ASSUME NEW T, NEW text \in Seq(T), NEW n \in 1..Len(text), LexemeBegins(text, n)
  PROVE  /\ Begun(text, n - 1) \in Nat /\ Begun(text, n) = Begun(text, n - 1) + 1
         /\ Begun(text, n) <= Len(Lexemes(text))
         /\ Lexemes(text)[Begun(text, n)] = text[n]
<1>1. n - 1 \in 0..Len(text) /\ n \in 0..Len(text) /\ Len(text) \in n..Len(text)
  OBVIOUS
<1>2. Extends(Lexemes(text), LexemesUpTo(text)[n])
  BY <1>1, MoreTokens DEF Lexemes
<1>3. /\ Begun(text, n) = Begun(text, n - 1) + 1 /\ LexemesUpTo(text)[n][Begun(text, n)] = text[n]
      /\ Begun(text, n - 1) \in Nat
  BY <1>1, OneTokenMore, LexemesAreTokens
<1>4. Begun(text, n) \in 1..Len(LexemesUpTo(text)[n])
  BY <1>3 DEF Begun
<1>5. QED
  BY <1>2, <1>3, <1>4 DEF Extends, Begun

LEMMA BegunBounds ==
  ASSUME NEW T, NEW text \in Seq(T)
  PROVE  /\ Lexemes(text) \in Seq(T) /\ Len(Lexemes(text)) \in Nat
         /\ Begun(text, 0) = 0 /\ Begun(text, Len(text)) = Len(Lexemes(text))
         /\ \A n \in 0..Len(text) : Begun(text, n) \in 0..Len(Lexemes(text))
<1>1. 0 \in 0..Len(text) /\ Len(text) \in 0..Len(text)
  OBVIOUS
<1>2. Lexemes(text) \in Seq(T) /\ Len(Lexemes(text)) \in Nat
  BY <1>1, LexemesAreTokens DEF Lexemes, Begun
<1>3. Begun(text, 0) = 0
  BY LexemesStepwise DEF HoldsLexemes, Begun
<1>4. ASSUME NEW n \in 0..Len(text) PROVE Begun(text, n) \in 0..Len(Lexemes(text))
  <2>1. Extends(Lexemes(text), LexemesUpTo(text)[n])
    BY MoreTokens DEF Lexemes
  <2>2. QED
    BY <1>2, <2>1 DEF Extends, Begun
<1>5. QED
  BY <1>2, <1>3, <1>4 DEF Begun, Lexemes

(* Whitespace and the further digits of a run begin none.                  *)
LEMMA NoneBegun ==
  ASSUME NEW T, NEW text \in Seq(T), NEW m \in 0..Len(text), NEW n \in m..Len(text),
         \A k \in (m + 1)..n : ~ LexemeBegins(text, k)
  PROVE  Begun(text, n) = Begun(text, m)
<1> DEFINE Bad == {k \in m..n : Begun(text, k) # Begun(text, m)}
<1>1. SUFFICES ASSUME n \in Bad PROVE FALSE
  OBVIOUS
<1>2. Bad \subseteq Nat /\ Bad # {}
  BY <1>1
<1>3. PICK k \in Bad : \A i \in Bad : k <= i
  <2> HIDE DEF Bad
  <2>1. QED
    BY <1>2, LeastOf
<1>4. k \in (m + 1)..n /\ k \in 1..Len(text) /\ k - 1 \in m..n /\ k - 1 \notin Bad
  BY <1>3
<1>5. Begun(text, k) = Begun(text, k - 1)
  BY <1>4, OneTokenMore DEF Begun
<1>6. QED
  BY <1>4, <1>5

(* The lexemes of the beginning of a text.                                 *)
LEMMA LexemesOfBeginning ==
  ASSUME NEW T, NEW text \in Seq(T), NEW e \in 0..Len(text)
  PROVE  Lexemes(SubSeq(text, 1, e)) = LexemesUpTo(text)[e]
<1> DEFINE u == LexemesUpTo(text)
           some == SubSeq(text, 1, e)
           v == LexemesUpTo(some)
           Bad == {k \in 0..e : v[k] # u[k]}
<1>1. some \in Seq(T) /\ Len(some) = e /\ \A k \in 1..e : some[k] = text[k]
  BY SubSeqProperties
<1>2. HoldsLexemes(text, Len(text), u) /\ HoldsLexemes(some, e, v)
  <2>1. Len(text) \in Nat /\ Len(some) \in Nat
    BY <1>1
  <2> HIDE DEF some
  <2>2. HoldsLexemes(text, Len(text), u) /\ HoldsLexemes(some, Len(some), v)
    BY <2>1, LexemesStepwise
  <2>3. QED
    BY <1>1, <2>2
<1>3. \A k \in 1..e : LexemeBegins(some, k) = LexemeBegins(text, k)
  <2>1. ASSUME NEW k \in 1..e PROVE LexemeBegins(some, k) = LexemeBegins(text, k)
    <3>1. k > 1 => k - 1 \in 1..e
      OBVIOUS
    <3> HIDE DEF some
    <3>2. QED
      BY <1>1, <3>1 DEF LexemeBegins
  <2>2. QED
    BY <2>1
<1> HIDE DEF u, v, some
<1>4. Bad = {}
  <2>1. SUFFICES ASSUME Bad # {} PROVE FALSE
    OBVIOUS
  <2>2. Bad \subseteq Nat
    OBVIOUS
  <2>3. PICK k \in Bad : \A i \in Bad : k <= i
    <3> HIDE DEF Bad
    <3>1. QED
      BY <2>1, <2>2, LeastOf
  <2>4. k # 0
    BY <1>2 DEF HoldsLexemes
  <2>5. k \in 1..e /\ k \in 1..Len(text) /\ k - 1 \notin Bad /\ k - 1 \in 0..e
    BY <2>3, <2>4
  <2>6. v[k - 1] = u[k - 1] /\ some[k] = text[k]
    BY <1>1, <2>5
  <2>7. v[k] = u[k]
    BY <1>2, <1>3, <2>5, <2>6 DEF HoldsLexemes
  <2>8. QED
    BY <2>7
<1>5. v[e] = u[e]
  BY <1>4
<1>6. QED
  BY <1>1, <1>5 DEF Lexemes, u, v, some

-----------------------------------------------------------------------------
(* Reading: a text is read from its beginning to end, container by         *)
(* container.  fs are the containers opened before e and still open; what  *)
(* is read so far can be completed to a value that ends at end if each of  *)
(* them has a place q[k] to close at, with nothing missing in between.     *)
(* Every step of a reader keeps exactly the completions there are.         *)
Structural == {"[", "]", Brace, EndBrace, Comma, Colon}

Readable(r) ==
  /\ Len(r.text) \in Nat /\ r.depth \in Nat /\ r.end \in 0..Len(r.text)
  /\ r.scalars \cap Structural = {} /\ r.keys \cap Structural = {}

MarksOf(f) == IF f = "Array" THEN ArrayMarks ELSE ObjectMarks

IsA(r, symbol, i, j, d) == Derived(r, r.text, <<symbol, i, j, d>>)

(* From behind an item at e, the container that closes at q goes on right. *)
GoesOn(r, l, e, q, d) ==
  q = e + 1 \/ (r.text[e + 1] = Comma /\ IsA(r, l.body, e + 2, q - 1, d))

ClosesAt(r, fs, q) ==
  \A k \in 1..Len(fs) :
    /\ r.text[q[k]] = MarksOf(fs[k]).close
    /\ GoesOn(r, MarksOf(fs[k]), q[k + 1], q[k], r.depth - k)

(* A value has ended at e.                                                 *)
Completes(r, fs, e) ==
  \E q \in [1..(Len(fs) + 1) -> 1..Len(r.text)] :
    q[1] = r.end /\ q[Len(fs) + 1] = e /\ ClosesAt(r, fs, q)

(* An item stands behind e.                                                *)
ItemThen(r, symbol, fs, e) ==
  \E j \in 1..Len(r.text) :
    IsA(r, symbol, e + 1, j, r.depth - Len(fs)) /\ Completes(r, fs, j)

Shorter(fs) == SubSeq(fs, 1, Len(fs) - 1)
Innermost(fs) == MarksOf(fs[Len(fs)])

(* The innermost container closes behind e.                                *)
CloseThen(r, fs, e) ==
  /\ fs # << >> /\ e + 1 \in 1..Len(r.text)
  /\ r.text[e + 1] = Innermost(fs).close
  /\ Completes(r, Shorter(fs), e + 1)

Kinds == {"Array", "Object"}

LEMMA MarksOfKind ==
  /\ \A f \in Kinds : /\ MarksOf(f) \in Containers
                      /\ MarksOf(f).close \in {"]", EndBrace} /\ MarksOf(f).open \in {"[", Brace}
                      /\ MarksOf(f).close # Comma /\ MarksOf(f).close \in Structural
  /\ \A l \in Containers : \A m \in Containers : l.open = m.open => l = m
  /\ \A l \in Containers : \A m \in Containers : l.body = m.body => l = m
<1>1. "]" # Comma /\ EndBrace # Comma /\ "[" # Brace
  BY Zenon DEF EndBrace, Comma, Brace
<1>2. QED
  BY <1>1 DEF Kinds, MarksOf, Containers, ArrayMarks, ObjectMarks, Structural

(* The productions one by one, as a reader meets them.                     *)
LEMMA ValueByRule ==
  ASSUME NEW r, Readable(r), NEW i \in 1..Len(r.text), NEW j \in 1..Len(r.text), NEW d \in Nat
  PROVE  IsA(r, "value", i, j, d) <=>
           \/ i = j /\ r.text[i] \in r.scalars
           \/ /\ i < j /\ d > 0
              /\ \E c \in Containers :
                   /\ r.text[i] = c.open /\ r.text[j] = c.close
                   /\ j = i + 1 \/ IsA(r, c.body, i + 1, j - 1, d - 1)
<1>1. "value" \in Symbols /\ \A l \in Containers : l.body # "value"
  BY ContainerParts DEF Symbols
<1>2. IsA(r, "value", i, j, d) <=> Rule(r, r.text, Language(r, r.text), "value", i, j, d)
  BY <1>1, DerivedByRule DEF IsA, Readable
<1>3. \A c : IsA(r, c.body, i + 1, j - 1, d - 1)
               <=> <<c.body, i + 1, j - 1, d - 1>> \in Language(r, r.text)
  BY InLanguageIfDerived DEF IsA, Readable
<1>4. QED
  BY <1>1, <1>2, <1>3, Zenon DEF Rule

LEMMA BodyByRule ==
  ASSUME NEW r, Readable(r), NEW l \in Containers, NEW i, NEW j, NEW d
  PROVE  IsA(r, l.body, i, j, d) <=>
           \/ IsA(r, l.item, i, j, d)
           \/ \E k \in (i + 1)..(j - 1) :
                r.text[k] = Comma /\ IsA(r, l.item, i, k - 1, d) /\ IsA(r, l.body, k + 1, j, d)
<1> DEFINE Right == \/ IsA(r, l.item, i, j, d)
                    \/ \E k \in (i + 1)..(j - 1) :
                         /\ r.text[k] = Comma /\ IsA(r, l.item, i, k - 1, d)
                         /\ IsA(r, l.body, k + 1, j, d)
<1>1. l.body \in Symbols /\ l.item \in Symbols /\ l.body # "value" /\ l.body # "member"
      /\ \A m \in Containers : l.body = m.body => m = l
  BY ContainerParts, MarksOfKind
<1>2. CASE ~ (i \in 1..Len(r.text) /\ j \in 1..Len(r.text) /\ d \in Nat)
  <2>1. ~ IsA(r, l.body, i, j, d) /\ ~ IsA(r, l.item, i, j, d)
    BY <1>2, SpansAreOrdered DEF IsA, Readable
  <2>2. \A k : ~ (IsA(r, l.item, i, k - 1, d) /\ IsA(r, l.body, k + 1, j, d))
    BY <1>2, SpansAreOrdered DEF IsA, Readable
  <2>3. QED
    BY <2>1, <2>2, Zenon
<1>3. CASE i \in 1..Len(r.text) /\ j \in 1..Len(r.text) /\ d \in Nat
  <2>1. IsA(r, l.body, i, j, d) <=> Rule(r, r.text, Language(r, r.text), l.body, i, j, d)
    BY <1>1, <1>3, DerivedByRule DEF IsA, Readable
  <2>2. \A s, a, b : IsA(r, s, a, b, d) <=> <<s, a, b, d>> \in Language(r, r.text)
    BY InLanguageIfDerived DEF IsA, Readable
  <2>3. Rule(r, r.text, Language(r, r.text), l.body, i, j, d) <=>
          \E m \in Containers :
            /\ l.body = m.body
            /\ \/ IsA(r, m.item, i, j, d)
               \/ \E k \in (i + 1)..(j - 1) :
                    /\ r.text[k] = Comma /\ IsA(r, m.item, i, k - 1, d)
                    /\ IsA(r, m.body, k + 1, j, d)
    BY <1>1, <2>2, Zenon DEF Rule
  <2>4. QED
    BY <1>1, <2>1, <2>3, Zenon
<1>4. QED
  BY <1>2, <1>3

LEMMA MemberByRule ==
  ASSUME NEW r, Readable(r), NEW i \in Nat, NEW j \in Nat, NEW d
  PROVE  IsA(r, "member", i, j, d) <=>
           /\ 1 <= i /\ i + 2 <= j /\ j <= Len(r.text)
           /\ r.text[i] \in r.keys /\ r.text[i + 1] = Colon
           /\ IsA(r, "value", i + 2, j, d)
<1>0. Len(r.text) \in Nat
  BY DEF Readable
<1>1. "member" \in Symbols /\ "value" \in Symbols /\ \A l \in Containers : l.body # "member"
  BY ContainerParts DEF Symbols
<1>2. CASE ~ (i \in 1..Len(r.text) /\ j \in 1..Len(r.text) /\ d \in Nat)
  <2>1. ~ IsA(r, "member", i, j, d)
    BY <1>0, <1>2, SpansAreOrdered DEF IsA
  <2>2. (1 <= i /\ i + 2 <= j /\ j <= Len(r.text)) => ~ IsA(r, "value", i + 2, j, d)
    BY <1>0, <1>2, SpansAreOrdered DEF IsA
  <2>3. QED
    BY <2>1, <2>2
<1>3. CASE i \in 1..Len(r.text) /\ j \in 1..Len(r.text) /\ d \in Nat
  <2>1. IsA(r, "member", i, j, d) <=> Rule(r, r.text, Language(r, r.text), "member", i, j, d)
    BY <1>0, <1>1, <1>3, DerivedByRule DEF IsA
  <2>2. IsA(r, "value", i + 2, j, d) <=> <<"value", i + 2, j, d>> \in Language(r, r.text)
    BY <1>0, InLanguageIfDerived DEF IsA
  <2>3. Rule(r, r.text, Language(r, r.text), "member", i, j, d) <=>
          /\ i + 2 <= j /\ r.text[i] \in r.keys /\ r.text[i + 1] = Colon
          /\ IsA(r, "value", i + 2, j, d)
    BY <1>1, <2>2, Zenon DEF Rule
  <2>4. 1 <= i /\ j <= Len(r.text)
    BY <1>3
  <2>5. QED
    BY <2>1, <2>3, <2>4
<1>4. QED
  BY <1>2, <1>3

LEMMA IsBounds ==
  ASSUME NEW r, Readable(r), NEW symbol, NEW i, NEW j, NEW d, IsA(r, symbol, i, j, d)
  PROVE  i \in 1..Len(r.text) /\ j \in 1..Len(r.text) /\ i <= j /\ d \in Nat
BY SpansAreOrdered DEF IsA, Readable

LEMMA CompletesAtTop ==
  ASSUME NEW r, Readable(r), NEW e
  PROVE  Completes(r, << >>, e) <=> e = r.end /\ e \in 1..Len(r.text)
<1>1. ASSUME e = r.end, e \in 1..Len(r.text)
      PROVE  Completes(r, << >>, e)
  <2> DEFINE q == [k \in 1..1 |-> e]
  <2>1. q \in [1..(Len(<< >>) + 1) -> 1..Len(r.text)] /\ q[1] = e
    BY <1>1
  <2>2. ClosesAt(r, << >>, q)
    BY DEF ClosesAt
  <2> HIDE DEF q
  <2>3. QED
    BY <1>1, <2>1, <2>2 DEF Completes
<1>2. ASSUME Completes(r, << >>, e)
      PROVE  e = r.end /\ e \in 1..Len(r.text)
  <2>1. PICK q \in [1..(Len(<< >>) + 1) -> 1..Len(r.text)] : q[1] = r.end /\ q[Len(<< >>) + 1] = e
    BY <1>2 DEF Completes
  <2>2. QED
    BY <2>1
<1>3. QED
  BY <1>1, <1>2

LEMMA ShorterProperties ==
  ASSUME NEW fs \in Seq(Kinds), fs # << >>
  PROVE  /\ Shorter(fs) \in Seq(Kinds) /\ Len(Shorter(fs)) = Len(fs) - 1
         /\ Len(fs) \in Nat \ {0} /\ fs[Len(fs)] \in Kinds
         /\ \A k \in 1..(Len(fs) - 1) : Shorter(fs)[k] = fs[k]
         /\ Innermost(fs) \in Containers /\ Innermost(fs).close # Comma
<1>1. Len(fs) \in Nat \ {0}
  BY EmptySeq, LenProperties
<1>2. fs[Len(fs)] \in Kinds
  BY <1>1, ElementOfSeq
<1>3. Innermost(fs) \in Containers /\ Innermost(fs).close # Comma
  BY <1>2, MarksOfKind DEF Innermost
<1>4. /\ Shorter(fs) \in Seq(Kinds) /\ Len(Shorter(fs)) = Len(fs) - 1
      /\ \A k \in 1..(Len(fs) - 1) : Shorter(fs)[k] = fs[k]
  <2> DEFINE m == Len(fs) - 1
  <2>1. m \in Nat /\ m <= Len(fs) /\ \A k \in 1..m : fs[k] \in Kinds
    BY <1>1, ElementOfSeq
  <2> HIDE DEF m
  <2>2. /\ SubSeq(fs, 1, m) \in Seq(Kinds) /\ Len(SubSeq(fs, 1, m)) = m
        /\ \A k \in 1..m : SubSeq(fs, 1, m)[k] = fs[k]
    BY <1>1, <2>1, SubSeqProperties
  <2>3. QED
    BY <2>2 DEF m, Shorter
<1>5. QED
  BY <1>1, <1>2, <1>3, <1>4

LEMMA CompletesInside ==
  ASSUME NEW r, Readable(r), NEW fs \in Seq(Kinds), fs # << >>, NEW e
  PROVE  Completes(r, fs, e) <=>
           /\ e \in 1..Len(r.text)
           /\ \E Q \in 1..Len(r.text) :
                /\ r.text[Q] = Innermost(fs).close
                /\ GoesOn(r, Innermost(fs), e, Q, r.depth - Len(fs))
                /\ Completes(r, Shorter(fs), Q)
<1> DEFINE n == Len(fs)
<1>1. /\ n \in Nat /\ n # 0 /\ Len(Shorter(fs)) = n - 1
      /\ \A k \in 1..(n - 1) : Shorter(fs)[k] = fs[k]
  BY ShorterProperties
<1>2. Innermost(fs) = MarksOf(fs[n])
  BY DEF Innermost
<1> HIDE DEF n
<1>3. ASSUME Completes(r, fs, e)
      PROVE  /\ e \in 1..Len(r.text)
             /\ \E Q \in 1..Len(r.text) :
                /\ r.text[Q] = Innermost(fs).close
                /\ GoesOn(r, Innermost(fs), e, Q, r.depth - n)
                /\ Completes(r, Shorter(fs), Q)
  <2>1. PICK q \in [1..(n + 1) -> 1..Len(r.text)] :
          q[1] = r.end /\ q[n + 1] = e /\ ClosesAt(r, fs, q)
    BY <1>3 DEF Completes, n
  <2> DEFINE q2 == [k \in 1..n |-> q[k]]
  <2>2. q2 \in [1..n -> 1..Len(r.text)] /\ \A k \in 1..n : q2[k] = q[k]
    BY <1>1
  <2> HIDE DEF q2
  <2>3. \A k \in 1..(n - 1) : k \in 1..n /\ k + 1 \in 1..n
    BY <1>1
  <2>4. ClosesAt(r, Shorter(fs), q2)
    BY <1>1, <2>1, <2>2, <2>3 DEF ClosesAt, n
  <2>5. n \in 1..n /\ n \in 1..(n + 1) /\ 1 \in 1..n
    BY <1>1
  <2>6. /\ r.text[q[n]] = MarksOf(fs[n]).close
        /\ GoesOn(r, MarksOf(fs[n]), q[n + 1], q[n], r.depth - n)
    BY <2>1, <2>5 DEF ClosesAt, n
  <2>7. Completes(r, Shorter(fs), q[n])
    <3>1. q2[1] = r.end /\ q2[n] = q[n] /\ Len(Shorter(fs)) + 1 = n
      BY <1>1, <2>1, <2>2, <2>5
    <3>2. QED
      BY <2>2, <2>4, <3>1 DEF Completes
  <2>8. n + 1 \in 1..(n + 1)
    BY <1>1
  <2>9. QED
    BY <1>2, <2>1, <2>5, <2>6, <2>7, <2>8
<1>4. ASSUME e \in 1..Len(r.text), NEW Q \in 1..Len(r.text),
             r.text[Q] = Innermost(fs).close,
             GoesOn(r, Innermost(fs), e, Q, r.depth - n),
             Completes(r, Shorter(fs), Q)
      PROVE  Completes(r, fs, e)
  <2>1. PICK q2 \in [1..n -> 1..Len(r.text)] :
          q2[1] = r.end /\ q2[n] = Q /\ ClosesAt(r, Shorter(fs), q2)
    <3>1. Len(Shorter(fs)) + 1 = n
      BY <1>1
    <3>2. QED
      BY <1>4, <3>1 DEF Completes
  <2> DEFINE q == [k \in 1..(n + 1) |-> IF k = n + 1 THEN e ELSE q2[k]]
  <2>2. /\ q \in [1..(n + 1) -> 1..Len(r.text)] /\ q[n + 1] = e
        /\ \A k \in 1..n : q[k] = q2[k]
    BY <1>1, <1>4
  <2> HIDE DEF q
  <2>3. ASSUME NEW k \in 1..n
        PROVE  /\ r.text[q[k]] = MarksOf(fs[k]).close
               /\ GoesOn(r, MarksOf(fs[k]), q[k + 1], q[k], r.depth - k)
    <3>1. CASE k = n
      BY <1>2, <1>4, <2>1, <2>2, <3>1
    <3>2. CASE k # n
      <4>1. k \in 1..(n - 1) /\ k + 1 \in 1..n
        BY <1>1, <3>2
      <4>2. q[k] = q2[k] /\ q[k + 1] = q2[k + 1] /\ Shorter(fs)[k] = fs[k]
        BY <1>1, <2>2, <4>1
      <4>3. QED
        BY <1>1, <2>1, <4>1, <4>2 DEF ClosesAt
    <3>3. QED
      BY <3>1, <3>2
  <2>4. ClosesAt(r, fs, q)
    BY <2>3 DEF ClosesAt, n
  <2>5. 1 \in 1..n
    BY <1>1
  <2>6. QED
    BY <2>1, <2>2, <2>4, <2>5 DEF Completes, n
<1>5. QED
  BY <1>3, <1>4 DEF n

(* A list is an item from which it goes on to the place it closes at.      *)
LEMMA ListIsItems ==
  ASSUME NEW r, Readable(r), NEW l \in Containers, NEW e \in Nat, NEW Q \in 1..Len(r.text), NEW d
  PROVE  IsA(r, l.body, e + 1, Q - 1, d) <=>
           \E j \in 1..Len(r.text) : IsA(r, l.item, e + 1, j, d) /\ GoesOn(r, l, j, Q, d)
<1>0. Len(r.text) \in Nat
  BY DEF Readable
<1>1. IsA(r, l.body, e + 1, Q - 1, d) <=>
           \/ IsA(r, l.item, e + 1, Q - 1, d)
           \/ \E k \in (e + 1 + 1)..(Q - 1 - 1) :
                r.text[k] = Comma /\ IsA(r, l.item, e + 1, k - 1, d) /\ IsA(r, l.body, k + 1, Q - 1, d)
  BY BodyByRule
<1>2. ASSUME IsA(r, l.item, e + 1, Q - 1, d)
      PROVE  \E j \in 1..Len(r.text) : IsA(r, l.item, e + 1, j, d) /\ GoesOn(r, l, j, Q, d)
  <2>1. Q - 1 \in 1..Len(r.text)
    BY <1>2, IsBounds
  <2>2. GoesOn(r, l, Q - 1, Q, d)
    BY <1>0 DEF GoesOn
  <2>3. QED
    BY <1>2, <2>1, <2>2
<1>3. ASSUME NEW k \in (e + 1 + 1)..(Q - 1 - 1), r.text[k] = Comma,
             IsA(r, l.item, e + 1, k - 1, d), IsA(r, l.body, k + 1, Q - 1, d)
      PROVE  \E j \in 1..Len(r.text) : IsA(r, l.item, e + 1, j, d) /\ GoesOn(r, l, j, Q, d)
  <2>1. k - 1 \in 1..Len(r.text)
    BY <1>3, IsBounds
  <2>2. k - 1 + 1 = k /\ k - 1 + 2 = k + 1
    BY <1>0
  <2>3. GoesOn(r, l, k - 1, Q, d)
    BY <1>3, <2>2 DEF GoesOn
  <2>4. QED
    BY <1>3, <2>1, <2>3
<1>4. ASSUME NEW j \in 1..Len(r.text), IsA(r, l.item, e + 1, j, d), GoesOn(r, l, j, Q, d)
      PROVE  \/ IsA(r, l.item, e + 1, Q - 1, d)
             \/ \E k \in (e + 1 + 1)..(Q - 1 - 1) :
                  r.text[k] = Comma /\ IsA(r, l.item, e + 1, k - 1, d) /\ IsA(r, l.body, k + 1, Q - 1, d)
  <2>1. CASE Q = j + 1
    <3>1. Q - 1 = j
      BY <2>1
    <3>2. QED
      BY <1>4, <3>1
  <2>2. CASE r.text[j + 1] = Comma /\ IsA(r, l.body, j + 2, Q - 1, d)
    <3>1. e + 1 <= j /\ j + 2 <= Q - 1
      BY <1>4, <2>2, IsBounds
    <3>2. PICK k \in (e + 1 + 1)..(Q - 1 - 1) : k = j + 1 /\ k - 1 = j /\ k + 1 = j + 2
      BY <1>0, <3>1
    <3>3. r.text[k] = Comma /\ IsA(r, l.item, e + 1, k - 1, d) /\ IsA(r, l.body, k + 1, Q - 1, d)
      BY <1>4, <2>2, <3>2
    <3>4. QED
      BY <3>3
  <2>3. QED
    BY <1>4, <2>1, <2>2 DEF GoesOn
<1>5. QED
  BY <1>1, <1>2, <1>3, <1>4

(* Behind an item: the container closes, or a comma and another item.      *)
LEMMA AfterItem ==
  ASSUME NEW r, Readable(r), NEW fs \in Seq(Kinds), fs # << >>, NEW e \in 1..Len(r.text)
  PROVE  Completes(r, fs, e) <=>
           \/ CloseThen(r, fs, e)
           \/ /\ e + 1 \in 1..Len(r.text) /\ r.text[e + 1] = Comma
              /\ ItemThen(r, Innermost(fs).item, fs, e + 1)
<1> DEFINE l == Innermost(fs)
           d == r.depth - Len(fs)
<1>0. Len(r.text) \in Nat /\ e \in Nat
  BY DEF Readable
<1>1. l \in Containers /\ l.close # Comma
  BY ShorterProperties
<1> HIDE DEF l
<1>2. Completes(r, fs, e) <=>
           \E Q \in 1..Len(r.text) :
              r.text[Q] = l.close /\ GoesOn(r, l, e, Q, d) /\ Completes(r, Shorter(fs), Q)
  BY CompletesInside DEF l
<1>3. \A j \in 1..Len(r.text) :
        Completes(r, fs, j) <=>
           \E Q \in 1..Len(r.text) :
              r.text[Q] = l.close /\ GoesOn(r, l, j, Q, d) /\ Completes(r, Shorter(fs), Q)
  BY CompletesInside DEF l
<1> HIDE DEF d
<1>4. \A Q \in 1..Len(r.text) :
        IsA(r, l.body, e + 2, Q - 1, d) <=>
          \E j \in 1..Len(r.text) : IsA(r, l.item, e + 2, j, d) /\ GoesOn(r, l, j, Q, d)
  <2>1. e + 1 \in Nat /\ e + 1 + 1 = e + 2
    BY <1>0
  <2>2. QED
    BY <1>1, <2>1, ListIsItems
<1>5. CloseThen(r, fs, e) <=>
        \E Q \in 1..Len(r.text) :
           r.text[Q] = l.close /\ Q = e + 1 /\ Completes(r, Shorter(fs), Q)
  BY DEF CloseThen, l
<1>6. ItemThen(r, l.item, fs, e + 1) <=>
        \E j \in 1..Len(r.text) : IsA(r, l.item, e + 2, j, d) /\ Completes(r, fs, j)
  <2>1. e + 1 + 1 = e + 2
    BY <1>0
  <2>2. QED
    BY <2>1 DEF ItemThen, d
<1>7. \A Q : IsA(r, l.body, e + 2, Q - 1, d) => e + 1 \in 1..Len(r.text)
  <2>1. ASSUME NEW Q, IsA(r, l.body, e + 2, Q - 1, d) PROVE e + 1 \in 1..Len(r.text)
    <3>1. e + 2 \in 1..Len(r.text)
      BY <2>1, IsBounds
    <3>2. QED
      BY <1>0, <3>1
  <2>2. QED
    BY <2>1
<1>8. ItemThen(r, l.item, fs, e + 1) <=>
        \E Q \in 1..Len(r.text) :
           /\ r.text[Q] = l.close /\ IsA(r, l.body, e + 2, Q - 1, d)
           /\ Completes(r, Shorter(fs), Q)
  BY <1>3, <1>4, <1>6, Zenon
<1>9. QED
  BY <1>2, <1>5, <1>7, <1>8, Zenon DEF GoesOn, l

(* An array or object has one mark of each kind.                           *)
LEMMA ScalarThen ==
  ASSUME NEW r, Readable(r), NEW fs \in Seq(Kinds), r.depth - Len(fs) \in Nat,
         NEW e \in Nat, e + 1 \in 1..Len(r.text), r.text[e + 1] \in r.scalars
  PROVE  ItemThen(r, "value", fs, e) <=> Completes(r, fs, e + 1)
<1>1. \A c \in Containers : c.open \in Structural
  BY DEF Containers, ArrayMarks, ObjectMarks, Structural
<1>2. \A c \in Containers : r.text[e + 1] # c.open
  BY <1>1 DEF Readable
<1>3. \A j \in 1..Len(r.text) : IsA(r, "value", e + 1, j, r.depth - Len(fs)) <=> e + 1 = j
  BY <1>2, ValueByRule
<1>4. QED
  BY <1>3 DEF ItemThen

LEMMA ContainerThen ==
  ASSUME NEW r, Readable(r), NEW fs \in Seq(Kinds), r.depth - Len(fs) \in Nat, NEW f \in Kinds,
         r.depth > Len(fs), NEW e \in Nat, e + 1 \in 1..Len(r.text),
         r.text[e + 1] = MarksOf(f).open
  PROVE  ItemThen(r, "value", fs, e) <=>
           \/ CloseThen(r, Append(fs, f), e + 1)
           \/ ItemThen(r, MarksOf(f).item, Append(fs, f), e + 1)
<1> DEFINE l == MarksOf(f)
           d == r.depth - Len(fs)
           gs == Append(fs, f)
           d2 == r.depth - Len(gs)
<1>0. Len(r.text) \in Nat /\ Len(fs) \in Nat /\ r.depth \in Nat
  BY DEF Readable
<1>1. /\ gs \in Seq(Kinds) /\ gs # << >> /\ Len(gs) = Len(fs) + 1 /\ gs[Len(gs)] = f
      /\ Shorter(gs) = fs
  <2>1. gs \in Seq(Kinds) /\ Len(gs) = Len(fs) + 1 /\ gs[Len(gs)] = f
        /\ \A k \in 1..Len(fs) : gs[k] = fs[k]
    BY AppendProperties
  <2>2. gs # << >>
    BY <2>1
  <2> HIDE DEF gs
  <2>3. Shorter(gs) \in Seq(Kinds) /\ Len(Shorter(gs)) = Len(fs)
        /\ \A k \in 1..Len(fs) : Shorter(gs)[k] = fs[k]
    <3>1. /\ Shorter(gs) \in Seq(Kinds) /\ Len(Shorter(gs)) = Len(gs) - 1
          /\ \A k \in 1..(Len(gs) - 1) : Shorter(gs)[k] = gs[k]
      BY <2>1, <2>2, ShorterProperties
    <3>2. Len(gs) - 1 = Len(fs)
      BY <1>0, <2>1
    <3>3. QED
      BY <2>1, <3>1, <3>2
  <2>4. Shorter(gs) = fs
    BY <2>3
  <2>5. QED
    BY <2>1, <2>2, <2>4
<1>2. Innermost(gs) = l /\ l \in Containers
  BY <1>1, MarksOfKind DEF Innermost
<1> HIDE DEF l, gs
<1>3. d2 = d - 1 /\ d \in Nat /\ d > 0
  BY <1>0, <1>1
<1> HIDE DEF d2
<1>4. r.text[e + 1] = l.open /\ \A c \in Containers : r.text[e + 1] = c.open => c = l
  BY <1>2, MarksOfKind DEF l
<1>5. r.text[e + 1] \notin r.scalars
  <2>1. l.open \in Structural
    BY <1>2 DEF Containers, ArrayMarks, ObjectMarks, Structural
  <2>2. QED
    BY <1>4, <2>1 DEF Readable
<1>6. \A Q \in 1..Len(r.text) :
        IsA(r, "value", e + 1, Q, d) <=>
          /\ e + 1 < Q /\ r.text[Q] = l.close
          /\ Q = e + 2 \/ IsA(r, l.body, e + 2, Q - 1, d2)
  <2>1. ASSUME NEW Q \in 1..Len(r.text)
        PROVE  IsA(r, "value", e + 1, Q, d) <=>
                 \/ e + 1 = Q /\ r.text[e + 1] \in r.scalars
                 \/ /\ e + 1 < Q /\ d > 0
                    /\ \E c \in Containers :
                         /\ r.text[e + 1] = c.open /\ r.text[Q] = c.close
                         /\ Q = e + 1 + 1 \/ IsA(r, c.body, e + 1 + 1, Q - 1, d - 1)
    BY <1>3, ValueByRule
  <2>2. e + 1 + 1 = e + 2
    OBVIOUS
  <2>3. QED
    BY <1>2, <1>3, <1>4, <1>5, <2>1, <2>2
<1>7. \A Q \in 1..Len(r.text) : IsA(r, l.body, e + 2, Q - 1, d2) => e + 1 < Q
  <2>1. ASSUME NEW Q \in 1..Len(r.text), IsA(r, l.body, e + 2, Q - 1, d2) PROVE e + 1 < Q
    <3>1. e + 2 <= Q - 1
      BY <2>1, IsBounds
    <3>2. QED
      BY <1>0, <3>1
  <2>2. QED
    BY <2>1
<1>8. \A Q \in 1..Len(r.text) :
        IsA(r, l.body, e + 2, Q - 1, d2) <=>
          \E j \in 1..Len(r.text) : IsA(r, l.item, e + 2, j, d2) /\ GoesOn(r, l, j, Q, d2)
  <2>1. e + 1 \in Nat /\ e + 1 + 1 = e + 2
    OBVIOUS
  <2>2. QED
    BY <1>2, <2>1, ListIsItems
<1>9. \A j \in 1..Len(r.text) :
        Completes(r, gs, j) <=>
           \E Q \in 1..Len(r.text) :
              r.text[Q] = l.close /\ GoesOn(r, l, j, Q, d2) /\ Completes(r, fs, Q)
  BY <1>1, <1>2, CompletesInside DEF d2
<1>10. CloseThen(r, gs, e + 1) <=>
         \E Q \in 1..Len(r.text) : Q = e + 2 /\ r.text[Q] = l.close /\ Completes(r, fs, Q)
  <2>1. e + 1 + 1 = e + 2
    OBVIOUS
  <2>2. QED
    BY <1>1, <1>2, <2>1 DEF CloseThen
<1>11. ItemThen(r, l.item, gs, e + 1) <=>
         \E j \in 1..Len(r.text) : IsA(r, l.item, e + 2, j, d2) /\ Completes(r, gs, j)
  <2>1. e + 1 + 1 = e + 2
    OBVIOUS
  <2>2. QED
    BY <2>1 DEF ItemThen, d2
<1>12. ItemThen(r, l.item, gs, e + 1) <=>
         \E Q \in 1..Len(r.text) :
            r.text[Q] = l.close /\ IsA(r, l.body, e + 2, Q - 1, d2) /\ Completes(r, fs, Q)
  BY <1>8, <1>9, <1>11, Zenon
<1>13. ItemThen(r, "value", fs, e) <=>
         \E Q \in 1..Len(r.text) : IsA(r, "value", e + 1, Q, d) /\ Completes(r, fs, Q)
  BY DEF ItemThen
<1>14. \A Q \in 1..Len(r.text) : Q = e + 2 => e + 1 < Q
  OBVIOUS
<1>15. QED
  BY <1>6, <1>7, <1>10, <1>12, <1>13, <1>14, Zenon DEF l, gs

LEMMA NoItemThen ==
  ASSUME NEW r, Readable(r), NEW fs \in Seq(Kinds), NEW e \in Nat,
         \/ e + 1 \notin 1..Len(r.text)
         \/ /\ r.text[e + 1] \notin r.scalars
            /\ r.text[e + 1] \notin {"[", Brace} \/ r.depth <= Len(fs)
  PROVE  ~ ItemThen(r, "value", fs, e)
<1>1. SUFFICES ASSUME NEW j \in 1..Len(r.text), IsA(r, "value", e + 1, j, r.depth - Len(fs))
               PROVE  FALSE
  BY DEF ItemThen
<1>2. e + 1 \in 1..Len(r.text) /\ r.depth - Len(fs) \in Nat
  BY <1>1, IsBounds
<1>3. \/ r.text[e + 1] \in r.scalars
      \/ r.depth - Len(fs) > 0 /\ \E c \in Containers : r.text[e + 1] = c.open
  BY <1>1, <1>2, ValueByRule
<1>4. \A c \in Containers : c.open \in {"[", Brace}
  BY DEF Containers, ArrayMarks, ObjectMarks
<1>5. r.depth - Len(fs) > 0 => ~ (r.depth <= Len(fs))
  BY DEF Readable
<1>6. QED
  BY <1>2, <1>3, <1>4, <1>5, Zenon

(* A member: its key, its colon, its value.                                *)
ColonThen(r, fs, e) ==
  /\ e + 1 \in 1..Len(r.text) /\ r.text[e + 1] = Colon
  /\ ItemThen(r, "value", fs, e + 1)

LEMMA MemberThen ==
  ASSUME NEW r, Readable(r), NEW fs \in Seq(Kinds), NEW e \in Nat
  PROVE  ItemThen(r, "member", fs, e) <=>
           /\ e + 1 \in 1..Len(r.text) /\ r.text[e + 1] \in r.keys
           /\ ColonThen(r, fs, e + 1)
<1>0. Len(r.text) \in Nat
  BY DEF Readable
<1> DEFINE d == r.depth - Len(fs)
<1>1. ASSUME NEW j \in 1..Len(r.text)
      PROVE  IsA(r, "member", e + 1, j, d) <=>
               /\ e + 1 \in 1..Len(r.text) /\ r.text[e + 1] \in r.keys
               /\ e + 1 + 1 \in 1..Len(r.text) /\ r.text[e + 1 + 1] = Colon
               /\ IsA(r, "value", e + 1 + 1 + 1, j, d)
  <2>1. e + 1 \in Nat /\ j \in Nat /\ e + 1 + 2 = e + 1 + 1 + 1 /\ 1 <= e + 1 /\ j <= Len(r.text)
    BY <1>0
  <2>2. IsA(r, "member", e + 1, j, d) <=>
               /\ 1 <= e + 1 /\ e + 1 + 2 <= j /\ j <= Len(r.text)
               /\ r.text[e + 1] \in r.keys /\ r.text[e + 1 + 1] = Colon
               /\ IsA(r, "value", e + 1 + 2, j, d)
    BY <2>1, MemberByRule
  <2>3. IsA(r, "value", e + 1 + 1 + 1, j, d) => e + 1 + 2 <= j
    BY <2>1, IsBounds
  <2>4. e + 1 + 2 <= j => e + 1 \in 1..Len(r.text) /\ e + 1 + 1 \in 1..Len(r.text)
    BY <1>0
  <2> HIDE DEF d
  <2>5. QED
    BY <2>1, <2>2, <2>3, <2>4
<1>2. QED
  BY <1>1, Zenon DEF ItemThen, ColonThen

(* What is due where: the grammar states of a reader.                      *)
Completable(r, due, fs, e) ==
  CASE due = "value"      -> ItemThen(r, "value", fs, e)
    [] due = "firstValue" -> CloseThen(r, fs, e) \/ ItemThen(r, "value", fs, e)
    [] due = "key"        -> ItemThen(r, "member", fs, e)
    [] due = "firstKey"   -> CloseThen(r, fs, e) \/ ItemThen(r, "member", fs, e)
    [] due = "colon"      -> ColonThen(r, fs, e)
    [] due = "next"       -> Completes(r, fs, e)

(* The whole is a value, before anything is read.                          *)
ReadsWhole(r) == IsA(r, "value", 1, r.end, r.depth)

LEMMA WholeIsDue ==
  ASSUME NEW r, Readable(r)
  PROVE  Completable(r, "value", << >>, 0) <=> ReadsWhole(r)
<1>1. Len(<< >>) = 0 /\ r.depth - 0 = r.depth /\ 0 + 1 = 1
  BY DEF Readable
<1>2. Completable(r, "value", << >>, 0) <=>
        \E j \in 1..Len(r.text) : IsA(r, "value", 1, j, r.depth) /\ j = r.end
  BY <1>1, CompletesAtTop DEF Completable, ItemThen
<1>3. ReadsWhole(r) => r.end \in 1..Len(r.text)
  BY IsBounds DEF ReadsWhole
<1>4. QED
  BY <1>2, <1>3 DEF ReadsWhole
=============================================================================
