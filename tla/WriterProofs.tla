------------------------------ MODULE WriterProofs ------------------------------
(***************************************************************************)
(* What Writer promises, for every set of values, however deep and however *)
(* long, and whatever the attributes of the fields are.                    *)
(*                                                                         *)
(* The two texts say the same and the depth of the pretty sink is the      *)
(* nesting.  The compact text decides a comma at expansion where the       *)
(* pretty text asks __first at run time; so the invariant relates the two  *)
(* for each writer under way (Planned).  It also says when a bracket may   *)
(* still be held back: only as long as the innermost writer has written    *)
(* nothing, or a value is about to be written.  That is why separator,     *)
(* which does not flush, never runs with one held back.                    *)
(*                                                                         *)
(* The lines of the pretty text are indented as deep as they are nested:   *)
(* line by line, with the last one as a case of its own (Tidy).            *)
(*                                                                         *)
(* The compact text is JSON in the end.  On the way, there is a place for  *)
(* each writer under way where its bracket stands, what stands behind the  *)
(* bracket parses as its items so far, and the next text is due exactly    *)
(* where the grammar allows it (Shaped).  The grammar itself is reasoned   *)
(* about in GrammarProofs.                                                 *)
(***************************************************************************)
EXTENDS Writer, GrammarProofs, SequenceTheorems, FiniteSetTheorems, TLAPS

(* The marks by name: the SMT translation does not take all of their       *)
(* characters, so that no step of arithmetic or sequences may spell them.  *)
Space == " "
Opening == {"[", Brace}
Closing == {"]", "}"}

Visible == Words \cup Opening \cup Closing \cup {Comma, Colon}
Tokens == Visible \cup P!Layout

LEMMA MarksAreNoLayout ==
  /\ \A b \in Opening : b \notin P!Layout
  /\ \A b \in Closing : b \notin P!Layout
  /\ Comma \notin P!Layout /\ Colon \notin P!Layout
  /\ Brace \in Opening
BY Zenon DEF Opening, Closing, Brace, Comma, Colon, P!Layout

LEMMA VisibleIsNoLayout ==
  /\ \A w \in Visible : w \in Tokens /\ w \notin P!Layout
  /\ \A w \in Words : w \in Visible
BY MarksAreNoLayout, WriterAssumption DEF Visible, Tokens

-----------------------------------------------------------------------------
(* Texts without their layout.                                             *)

LEMMA ShownIsFinite ==
  ASSUME NEW S, NEW out \in Seq(S)
  PROVE  /\ IsFiniteSet(Shown(out))
         /\ Cardinality(Shown(out)) \in Nat
         /\ Shown(out) \in SUBSET (1..Len(out))
         /\ \A i \in Shown(out) : Rank(out, i) \in 1..Cardinality(Shown(out))
<1>1. Shown(out) \in SUBSET (1..Len(out))
  BY DEF Shown
<1>2. IsFiniteSet(1..Len(out))
  BY FS_Interval
<1>3. IsFiniteSet(Shown(out)) /\ Cardinality(Shown(out)) \in Nat
  BY <1>1, <1>2, FS_Subset, FS_CardinalityType
<1>4. ASSUME NEW i \in Shown(out)
      PROVE  Rank(out, i) \in 1..Cardinality(Shown(out))
  <2> DEFINE upTo == {j \in Shown(out) : j <= i}
  <2>1. upTo \in SUBSET Shown(out)
    OBVIOUS
  <2>2. i \in upTo
    BY <1>1, <1>4
  <2>3. IsFiniteSet(upTo) /\ Cardinality(upTo) <= Cardinality(Shown(out))
    BY <1>3, <2>1, FS_Subset
  <2>4. Cardinality(upTo) \in Nat /\ Cardinality(upTo) # 0
    BY <2>2, <2>3, FS_CardinalityType, FS_EmptySet
  <2>5. Rank(out, i) = Cardinality(upTo)
    BY DEF Rank
  <2>6. QED
    BY <1>3, <2>3, <2>4, <2>5
<1>5. QED
  BY <1>1, <1>3, <1>4

(* Layout adds nothing to a text.                                          *)
LEMMA ShowsLayout ==
  ASSUME NEW S, NEW out \in Seq(S), NEW text, Shows(out, text),
         NEW layout \in Seq(P!Layout)
  PROVE  Shows(out \o layout, text)
<1> DEFINE longer == out \o layout
<1>1. /\ DOMAIN longer = 1..(Len(out) + Len(layout))
      /\ \A i \in 1..Len(out) : longer[i] = out[i]
      /\ \A i \in (Len(out) + 1)..(Len(out) + Len(layout)) : longer[i] \in P!Layout
  OBVIOUS
<1> HIDE DEF longer
<1>2. Shown(longer) = Shown(out)
  BY <1>1 DEF Shown
<1>3. \A i \in Shown(out) : longer[i] = out[i]
  BY <1>1, ShownIsFinite
<1>4. \A i : Rank(longer, i) = Rank(out, i)
  BY <1>2 DEF Rank
<1>5. Shows(longer, text)
  BY <1>2, <1>3, <1>4 DEF Shows
<1>6. QED
  BY <1>5 DEF longer

(* A token that is not layout is the next of the text.                     *)
LEMMA ShowsAppend ==
  ASSUME NEW S, NEW out \in Seq(S), NEW text \in Seq(S), Shows(out, text),
         NEW token \in S, token \notin P!Layout
  PROVE  Shows(Append(out, token), Append(text, token))
<1> DEFINE longer == Append(out, token)
           more == Append(text, token)
           new == Len(out) + 1
<1>1. /\ DOMAIN longer = 1..new /\ longer[new] = token
      /\ \A i \in 1..Len(out) : longer[i] = out[i]
  OBVIOUS
<1>2. /\ Len(more) = Len(text) + 1 /\ more[Len(text) + 1] = token
      /\ \A k \in 1..Len(text) : more[k] = text[k]
  OBVIOUS
<1>3. new \in Nat /\ new \notin 1..Len(out) /\ 1..new = (1..Len(out)) \cup {new}
  OBVIOUS
<1> HIDE DEF longer, more
<1>4. Shown(longer) = Shown(out) \cup {new}
  <2>1. \A i : i \in Shown(longer) <=> i \in Shown(out) \/ i = new
    BY <1>1, <1>3 DEF Shown
  <2>2. QED
    BY <2>1
<1>5. Cardinality(Shown(longer)) = Cardinality(Shown(out)) + 1
  <2>1. new \notin Shown(out) /\ IsFiniteSet(Shown(out))
    BY <1>3, ShownIsFinite
  <2>2. Cardinality(Shown(out) \cup {new}) = Cardinality(Shown(out)) + 1
    BY <2>1, FS_AddElement
  <2>3. QED
    BY <1>4, <2>2
<1>6. Len(text) = Cardinality(Shown(out))
  BY DEF Shows
<1>7. ASSUME NEW i \in Shown(out)
      PROVE  more[Rank(longer, i)] = longer[i]
  <2>1. i \in 1..Len(out)
    BY ShownIsFinite
  <2>2. {j \in Shown(longer) : j <= i} = {j \in Shown(out) : j <= i}
    BY <1>4, <2>1
  <2>3. Rank(longer, i) = Rank(out, i)
    BY <2>2 DEF Rank
  <2>4. Rank(out, i) \in 1..Len(text)
    BY <1>6, ShownIsFinite
  <2>5. text[Rank(out, i)] = out[i]
    BY DEF Shows
  <2>6. QED
    BY <1>1, <1>2, <2>1, <2>3, <2>4, <2>5
<1>8. more[Rank(longer, new)] = longer[new]
  <2>1. Shown(out) \in SUBSET (1..Len(out))
    BY ShownIsFinite
  <2>2. {j \in Shown(longer) : j <= new} = Shown(longer)
    BY <1>3, <1>4, <2>1
  <2>3. Rank(longer, new) = Len(text) + 1
    BY <1>5, <1>6, <2>2 DEF Rank
  <2>4. QED
    BY <1>1, <1>2, <2>3
<1>9. Shows(longer, more)
  BY <1>2, <1>4, <1>5, <1>6, <1>7, <1>8 DEF Shows
<1>10. QED
  BY <1>9 DEF longer, more

-----------------------------------------------------------------------------
(* The sink s has written what the compact sink has, text, and n           *)
(* containers are open on it.                                              *)
Opens == {<< >>} \cup {<<b>> : b \in Opening}

Writes(s, text, n) ==
  /\ s.out \in Seq(Tokens) /\ s.depth \in Nat /\ s.pending \in Opens
  /\ text \in Seq(Tokens)
  /\ Shows(s.out \o s.pending, text)
  /\ s.depth + Len(s.pending) = n

LEMMA ShortTexts ==
  ASSUME NEW S, NEW text \in Seq(S), NEW a \in S, NEW b \in S, NEW c \in S
  PROVE  /\ <<a>> \in Seq(S) /\ Len(<<a>>) = 1 /\ Len(<< >>) = 0 /\ <<a>> # << >>
         /\ text \o << >> = text
         /\ text \o <<a>> = Append(text, a)
         /\ text \o <<a>> \in Seq(S)
         /\ text \o <<a, b>> = Append(Append(text, a), b)
         /\ text \o <<a, b, c>> = Append(Append(text, a), b) \o <<c>>
OBVIOUS

LEMMA SinkParts ==
  ASSUME NEW out, NEW depth, NEW pending
  PROVE  /\ P!Sink(out, depth, pending).out = out
         /\ P!Sink(out, depth, pending).depth = depth
         /\ P!Sink(out, depth, pending).pending = pending
BY DEF P!Sink

LEMMA OpensProperties ==
  /\ << >> \in Opens /\ << >> \in Seq(Tokens) /\ Len(<< >>) = 0
  /\ \A o \in Opens : o \in Seq(Tokens) /\ (o # << >> => Len(o) = 1)
<1>1. << >> \in Opens /\ << >> \in Seq(Tokens) /\ Len(<< >>) = 0
  BY DEF Opens
<1>2. ASSUME NEW o \in Opens, o # << >>
      PROVE  o \in Seq(Tokens) /\ Len(o) = 1
  <2>1. PICK b \in Opening : o = <<b>>
    BY <1>2 DEF Opens
  <2>2. b \in Tokens
    BY DEF Visible, Tokens
  <2>3. <<b>> \in Seq(Tokens) /\ Len(<<b>>) = 1
    BY <1>1, <2>2, ShortTexts
  <2>4. QED
    BY <2>1, <2>3
<1>3. QED
  BY <1>1, <1>2

(* What Writes says of a sink with no bracket held back, and when such a   *)
(* sink is one.                                                            *)
LEMMA WritesOf ==
  ASSUME NEW s, NEW text, NEW n \in Nat, Writes(s, text, n), s.pending = << >>
  PROVE  /\ s.out \in Seq(Tokens) /\ text \in Seq(Tokens)
         /\ Shows(s.out, text) /\ s.depth = n
<1>1. s.out \in Seq(Tokens) /\ s.out \o << >> = s.out
  BY ConcatEmptySeq DEF Writes
<1>2. QED
  BY <1>1, OpensProperties DEF Writes

LEMMA WritesWhenFlushed ==
  ASSUME NEW out \in Seq(Tokens), NEW text \in Seq(Tokens), NEW n \in Nat, Shows(out, text)
  PROVE  Writes(P!Sink(out, n, << >>), text, n) /\ P!Sink(out, n, << >>).pending = << >>
<1> DEFINE s == P!Sink(out, n, << >>)
<1>1. s.out = out /\ s.depth = n /\ s.pending = << >>
  BY SinkParts
<1> HIDE DEF s
<1>2. s.out \o s.pending = out
  BY <1>1, ConcatEmptySeq
<1>3. Writes(s, text, n) /\ s.pending = << >>
  BY <1>1, <1>2, OpensProperties DEF Writes
<1>4. QED
  BY <1>3 DEF s

LEMMA NewlineAndIndentEffect ==
  ASSUME NEW out \in Seq(Tokens), NEW depth \in Nat, NEW text \in Seq(Tokens),
         Shows(out, text)
  PROVE  /\ P!NewlineAndIndent(out, depth) \in Seq(Tokens)
         /\ Shows(P!NewlineAndIndent(out, depth), text)
<1> DEFINE indents == [i \in 1..depth |-> "indent"]
           layout == <<"nl">> \o indents
<1>1. indents \in Seq(P!Layout) /\ <<"nl">> \in Seq(P!Layout)
  BY DEF P!Layout
<1>2. indents \in Seq(Tokens) /\ <<"nl">> \in Seq(Tokens)
  BY <1>1 DEF Tokens
<1>3. P!NewlineAndIndent(out, depth) = (out \o <<"nl">>) \o indents
  BY DEF P!NewlineAndIndent
<1> HIDE DEF indents
<1>4. (out \o <<"nl">>) \o indents = out \o layout
  BY <1>2, ConcatAssociative
<1>5. layout \in Seq(P!Layout) /\ layout \in Seq(Tokens)
  BY <1>1, <1>2
<1> HIDE DEF layout
<1>6. Shows(out \o layout, text) /\ out \o layout \in Seq(Tokens)
  BY <1>5, ShowsLayout
<1>7. QED
  BY <1>3, <1>4, <1>6

LEMMA FlushPendingOpenEffect ==
  ASSUME NEW s, NEW text, NEW n \in Nat, Writes(s, text, n)
  PROVE  /\ Writes(P!FlushPendingOpen(s), text, n)
         /\ P!FlushPendingOpen(s).pending = << >>
<1>1. CASE s.pending = << >>
  BY <1>1 DEF P!FlushPendingOpen
<1>2. CASE s.pending # << >>
  <2> DEFINE out == s.out \o s.pending
  <2>1. s.out \in Seq(Tokens) /\ s.pending \in Seq(Tokens) /\ Len(s.pending) = 1
    <3>1. s.out \in Seq(Tokens) /\ s.pending \in Opens
      BY DEF Writes
    <3>2. QED
      BY <1>2, <3>1, OpensProperties
  <2>2. out \in Seq(Tokens) /\ text \in Seq(Tokens) /\ Shows(out, text)
    BY <2>1 DEF Writes
  <2>3. s.depth + 1 = n
    BY <2>1 DEF Writes
  <2>4. P!FlushPendingOpen(s) = P!Sink(P!NewlineAndIndent(out, n), n, << >>)
    BY <1>2, <2>3 DEF P!FlushPendingOpen
  <2> HIDE DEF out
  <2>5. QED
    BY <2>2, <2>4, NewlineAndIndentEffect, WritesWhenFlushed
<1>3. QED
  BY <1>1, <1>2

(* One more visible token.                                                 *)
LEMMA AppendEffect ==
  ASSUME NEW out \in Seq(Tokens), NEW text \in Seq(Tokens), Shows(out, text),
         NEW token \in Visible
  PROVE  /\ Append(out, token) \in Seq(Tokens) /\ Append(text, token) \in Seq(Tokens)
         /\ Shows(Append(out, token), Append(text, token))
<1>1. token \in Tokens /\ token \notin P!Layout
  BY VisibleIsNoLayout
<1>2. QED
  BY <1>1, ShowsAppend

LEMMA WriteRawEffect ==
  ASSUME NEW s, NEW text, NEW n \in Nat, Writes(s, text, n), NEW token \in Visible
  PROVE  /\ Writes(P!WriteRaw(s, token), Append(text, token), n)
         /\ P!WriteRaw(s, token).pending = << >>
<1> DEFINE f == P!FlushPendingOpen(s)
<1>1. Writes(f, text, n) /\ f.pending = << >>
  BY FlushPendingOpenEffect
<1>2. P!WriteRaw(s, token) = P!Sink(Append(f.out, token), f.depth, f.pending)
  BY DEF P!WriteRaw
<1> HIDE DEF f
<1>3. f.out \in Seq(Tokens) /\ text \in Seq(Tokens) /\ Shows(f.out, text) /\ f.depth = n
  BY <1>1, WritesOf
<1>4. /\ Append(f.out, token) \in Seq(Tokens) /\ Append(text, token) \in Seq(Tokens)
      /\ Shows(Append(f.out, token), Append(text, token))
  BY <1>3, AppendEffect
<1>5. P!WriteRaw(s, token) = P!Sink(Append(f.out, token), n, << >>)
  BY <1>1, <1>2, <1>3
<1>6. QED
  BY <1>4, <1>5, WritesWhenFlushed

LEMMA SeparatorEffect ==
  ASSUME NEW s, NEW text, NEW n \in Nat, Writes(s, text, n), s.pending = << >>
  PROVE  /\ Writes(P!Separator(s), Append(text, Comma), n)
         /\ P!Separator(s).pending = << >>
<1> DEFINE out == Append(s.out, Comma)
           more == Append(text, Comma)
<1>1. s.out \in Seq(Tokens) /\ text \in Seq(Tokens) /\ Shows(s.out, text) /\ s.depth = n
  BY WritesOf
<1>2. P!Separator(s) = P!Sink(P!NewlineAndIndent(out, n), n, << >>)
  BY <1>1, Zenon DEF P!Separator, Comma
<1>3. Comma \in Visible
  BY DEF Visible
<1>4. out \in Seq(Tokens) /\ more \in Seq(Tokens) /\ Shows(out, more)
  BY <1>1, <1>3, AppendEffect
<1> HIDE DEF out, more
<1>5. Writes(P!Separator(s), more, n) /\ P!Separator(s).pending = << >>
  BY <1>2, <1>4, NewlineAndIndentEffect, WritesWhenFlushed
<1>6. QED
  BY <1>5 DEF more

LEMMA ObjectKeyEffect ==
  ASSUME NEW s, NEW text, NEW n \in Nat, Writes(s, text, n), NEW key \in Words
  PROVE  /\ Writes(P!ObjectKey(s, key), text \o <<key, Colon>>, n)
         /\ P!ObjectKey(s, key).pending = << >>
<1> DEFINE f == P!FlushPendingOpen(s)
           out == Append(Append(f.out, key), Colon)
           more == Append(Append(text, key), Colon)
<1>1. Writes(f, text, n) /\ f.pending = << >>
  BY FlushPendingOpenEffect
<1>2. P!ObjectKey(s, key) = P!Sink(f.out \o <<key, Colon, Space>>, f.depth, f.pending)
  BY Zenon DEF P!ObjectKey, Colon, Space
<1> HIDE DEF f
<1>3. f.out \in Seq(Tokens) /\ text \in Seq(Tokens) /\ Shows(f.out, text) /\ f.depth = n
  BY <1>1, WritesOf
<1>4. key \in Visible /\ Colon \in Visible
  BY VisibleIsNoLayout DEF Visible
<1>5. out \in Seq(Tokens) /\ more \in Seq(Tokens) /\ Shows(out, more)
  BY <1>3, <1>4, AppendEffect
<1>5a. Space \in P!Layout
  BY Zenon DEF Space, P!Layout
<1>6. key \in Tokens /\ Colon \in Tokens /\ Space \in Tokens
  BY <1>4, <1>5a, VisibleIsNoLayout DEF Tokens
<1>7. text \o <<key, Colon>> = more
  BY <1>3, <1>6, ShortTexts
<1>8. f.out \o <<key, Colon, Space>> = out \o <<Space>>
  <2>1. \A u \in Seq(Tokens) :
          u \o <<key, Colon, Space>> = Append(Append(u, key), Colon) \o <<Space>>
    BY <1>6
  <2>2. QED
    BY <1>3, <2>1
<1> HIDE DEF out, more
<1>9. <<Space>> \in Seq(P!Layout) /\ out \o <<Space>> \in Seq(Tokens)
  <2>1. << >> \in Seq(P!Layout)
    OBVIOUS
  <2>2. QED
    BY <1>5, <1>5a, <1>6, <2>1, ShortTexts
<1>10. Shows(out \o <<Space>>, more)
  BY <1>5, <1>9, ShowsLayout
<1>11. P!ObjectKey(s, key) = P!Sink(out \o <<Space>>, n, << >>)
  BY <1>1, <1>2, <1>3, <1>8
<1>12. QED
  BY <1>5, <1>7, <1>9, <1>10, <1>11, WritesWhenFlushed

LEMMA BeginEffect ==
  ASSUME NEW s, NEW text, NEW n \in Nat, Writes(s, text, n), NEW open \in Opening
  PROVE  Writes(P!Begin(s, open), Append(text, open), n + 1)
<1> DEFINE f == P!FlushPendingOpen(s)
           begun == P!Begin(s, open)
<1>1. Writes(f, text, n) /\ f.pending = << >>
  BY FlushPendingOpenEffect
<1>2. begun = P!Sink(f.out, f.depth, <<open>>)
  BY DEF P!Begin
<1> HIDE DEF f
<1>3. f.out \in Seq(Tokens) /\ text \in Seq(Tokens) /\ Shows(f.out, text) /\ f.depth = n
  BY <1>1, WritesOf
<1>4. open \in Visible /\ open \in Tokens
  BY VisibleIsNoLayout DEF Visible
<1>5. Append(text, open) \in Seq(Tokens) /\ Shows(Append(f.out, open), Append(text, open))
  BY <1>3, <1>4, AppendEffect
<1>6. begun.out = f.out /\ begun.depth = n /\ begun.pending = <<open>>
  BY <1>2, <1>3, SinkParts
<1> HIDE DEF begun
<1>7. begun.out \o begun.pending = Append(f.out, open)
  BY <1>3, <1>4, <1>6, ShortTexts
<1>8. Writes(begun, Append(text, open), n + 1)
  <2>1. begun.pending \in Opens
    BY <1>6 DEF Opens
  <2>2. Len(begun.pending) = 1
    BY <1>4, <1>6, ShortTexts
  <2>3. QED
    BY <1>3, <1>5, <1>6, <1>7, <2>1, <2>2 DEF Writes
<1>9. QED
  BY <1>8 DEF begun

LEMMA EndEffect ==
  ASSUME NEW s, NEW text, NEW n \in Nat, Writes(s, text, n + 1), NEW close \in Closing
  PROVE  /\ Writes(P!End(s, close), Append(text, close), n)
         /\ P!End(s, close).pending = << >>
<1>1. close \in Visible /\ close \in Tokens
  BY VisibleIsNoLayout DEF Visible
<1>2. CASE s.pending # << >>
  <2> DEFINE out == s.out \o s.pending
  <2>1. s.out \in Seq(Tokens) /\ s.pending \in Seq(Tokens) /\ Len(s.pending) = 1
    <3>1. s.out \in Seq(Tokens) /\ s.pending \in Opens
      BY DEF Writes
    <3>2. QED
      BY <1>2, <3>1, OpensProperties
  <2>2. out \in Seq(Tokens) /\ text \in Seq(Tokens) /\ Shows(out, text)
    BY <2>1 DEF Writes
  <2>3. s.depth = n
    BY <2>1 DEF Writes
  <2>4. P!End(s, close) = P!Sink(out \o <<close>>, n, << >>)
    BY <1>2, <2>3 DEF P!End
  <2> HIDE DEF out
  <2>5. out \o <<close>> = Append(out, close)
    BY <1>1, <2>2, ShortTexts
  <2>6. QED
    BY <1>1, <2>2, <2>4, <2>5, AppendEffect, WritesWhenFlushed
<1>3. CASE s.pending = << >>
  <2> DEFINE line == P!NewlineAndIndent(s.out, n)
  <2>1. /\ s.out \in Seq(Tokens) /\ text \in Seq(Tokens)
        /\ Shows(s.out, text) /\ s.depth = n + 1
    BY <1>3, WritesOf
  <2>2. line \in Seq(Tokens) /\ Shows(line, text)
    BY <2>1, NewlineAndIndentEffect
  <2>3. P!End(s, close) = P!Sink(Append(line, close), n, << >>)
    <3>1. s.depth - 1 = n
      BY <2>1
    <3>2. QED
      BY <1>3, <3>1 DEF P!End
  <2> HIDE DEF line
  <2>4. /\ Append(line, close) \in Seq(Tokens) /\ Append(text, close) \in Seq(Tokens)
        /\ Shows(Append(line, close), Append(text, close))
    BY <1>1, <2>1, <2>2, AppendEffect
  <2>5. QED
    BY <2>3, <2>4, WritesWhenFlushed
<1>4. QED
  BY <1>2, <1>3

(* A member, with a comma before it unless it is the first.                *)
LEMMA MemberEffect ==
  ASSUME NEW s, NEW text, NEW n \in Nat, Writes(s, text, n), NEW key \in Words,
         NEW first \in BOOLEAN, first \/ s.pending = << >>
  PROVE  LET next == P!ObjectKey(IF first THEN s ELSE P!Separator(s), key)
         IN  /\ Writes(next, text \o (IF first THEN << >> ELSE <<Comma>>) \o <<key, Colon>>, n)
             /\ next.pending = << >>
<1>1. text \in Seq(Tokens) /\ Comma \in Tokens
  BY VisibleIsNoLayout DEF Writes, Visible
<1>2. text \o << >> = text /\ text \o <<Comma>> = Append(text, Comma)
  BY <1>1, ShortTexts
<1>3. CASE first
  BY <1>2, <1>3, ObjectKeyEffect
<1>4. CASE ~ first
  <2>1. Writes(P!Separator(s), Append(text, Comma), n)
    BY <1>4, SeparatorEffect
  <2>2. QED
    BY <1>2, <1>4, <2>1, ObjectKeyEffect
<1>5. QED
  BY <1>3, <1>4

-----------------------------------------------------------------------------
(* The writers under way.  A struct's plan and its __first agree: with     *)
(* "Always" something has been written, with "Never" nothing has, and only *)
(* with "Runtime" is it open.                                              *)
Commas == {"Never", "Always", "Runtime"}

Planned(comma, first) ==
  /\ comma = "Always" => ~ first
  /\ comma = "Never" => first

ArrayWriters ==
  [style : {"array"}, todo : Seq(Nodes), comma : {"Never"}, first : BOOLEAN, close : Closing]
MapWriters ==
  [style : {"map"}, todo : Seq(Entry), comma : {"Never"}, first : BOOLEAN, close : Closing]
ObjectWriters ==
  {w \in [style : {"object"}, todo : Seq(Field), comma : Commas, first : BOOLEAN,
          close : Closing] : Planned(w.comma, w.first)}
VariantWriters ==
  [style : {"variant"}, todo : {<< >>}, comma : {"Always"}, first : {FALSE}, close : Closing]

Writers == ArrayWriters \cup MapWriters \cup ObjectWriters \cup VariantWriters

Top(writers) == writers[Len(writers)]

Consistent(next, writers, text, s) ==
  /\ next = << >> \/ \E v \in Nodes : next = <<v>>
  /\ writers \in Seq(Writers)
  /\ Writes(s, text, Len(writers))
  /\ s.pending # << >> /\ next = << >> => writers # << >> /\ Top(writers).first

WInv == Consistent(job, stack, plain, pretty)

LEMMA WriterKinds ==
  ASSUME NEW w \in Writers
  PROVE  /\ w.close \in Closing /\ w.first \in BOOLEAN
         /\ w.style = "array" => w.todo \in Seq(Nodes)
         /\ w.style = "map" => w.todo \in Seq(Entry)
         /\ w.style = "object" =>
              w.todo \in Seq(Field) /\ w.comma \in Commas /\ Planned(w.comma, w.first)
BY DEF Writers, ArrayWriters, MapWriters, ObjectWriters, VariantWriters

LEMMA WriterMembers ==
  ASSUME NEW first \in BOOLEAN, NEW close \in Closing
  PROVE  /\ \A todo \in Seq(Nodes) : Under("array", todo, "Never", first, close) \in Writers
         /\ \A todo \in Seq(Entry) : Under("map", todo, "Never", first, close) \in Writers
         /\ \A todo \in Seq(Field), comma \in Commas :
              Planned(comma, first) => Under("object", todo, comma, first, close) \in Writers
         /\ Under("variant", << >>, "Always", FALSE, close) \in Writers
BY DEF Writers, ArrayWriters, MapWriters, ObjectWriters, VariantWriters, Under

LEMMA UnderParts ==
  ASSUME NEW style, NEW todo, NEW comma, NEW first, NEW close
  PROVE  Under(style, todo, comma, first, close).first = first
BY DEF Under

LEMMA Pushed ==
  ASSUME NEW S, NEW s \in Seq(S), NEW w \in S
  PROVE  /\ Append(s, w) \in Seq(S) /\ Append(s, w) # << >>
         /\ Len(Append(s, w)) = Len(s) + 1 /\ Top(Append(s, w)) = w
BY DEF Top

LEMMA Replaced ==
  ASSUME NEW S, NEW s \in Seq(S), s # << >>, NEW w \in S
  PROVE  /\ [s EXCEPT ![Len(s)] = w] \in Seq(S) /\ [s EXCEPT ![Len(s)] = w] # << >>
         /\ Len([s EXCEPT ![Len(s)] = w]) = Len(s) /\ Top([s EXCEPT ![Len(s)] = w]) = w
BY DEF Top

LEMMA Popped ==
  ASSUME NEW S, NEW s \in Seq(S), s # << >>
  PROVE  /\ Len(s) - 1 \in Nat
         /\ SubSeq(s, 1, Len(s) - 1) \in Seq(S)
         /\ Len(SubSeq(s, 1, Len(s) - 1)) = Len(s) - 1
<1>1. Len(s) \in Nat /\ Len(s) # 0
  OBVIOUS
<1> DEFINE n == Len(s) - 1
<1>2. n \in Nat /\ n \in Int /\ 1 \in Int
  BY <1>1
<1>3. \A i \in 1..n : s[i] \in S
  BY <1>1
<1> HIDE DEF n
<1>4. /\ SubSeq(s, 1, n) \in Seq(S)
      /\ Len(SubSeq(s, 1, n)) = IF 1 <= n THEN n - 1 + 1 ELSE 0
  BY <1>2, <1>3, SubSeqProperties
<1>5. Len(SubSeq(s, 1, n)) = n
  BY <1>2, <1>4
<1>6. QED
  BY <1>2, <1>4, <1>5 DEF n

LEMMA NodeKinds ==
  ASSUME NEW v \in Nodes
  PROVE  /\ v.kind = "scalar" => v.text \in Words
         /\ v.kind = "array" => v.items \in Seq(Nodes)
         /\ v.kind = "map" => v.items \in Seq(Entry)
         /\ v.kind = "object" => v.tagged \in BOOLEAN /\ v.fields \in Seq(Field)
         /\ v.kind \in {"external", "adjacent"} => v.value \in Nodes
BY WriterAssumption

-----------------------------------------------------------------------------
(* Each action keeps the invariant.  What it says of the state:            *)
LEMMA Stepping ==
  ASSUME WInv
  PROVE  /\ Writes(pretty, plain, Len(stack)) /\ Len(stack) \in Nat
         /\ stack \in Seq(Writers) /\ plain \in Seq(Tokens)
         /\ job # << >> => job[1] \in Nodes
         /\ stack # << >> => Inner \in Writers /\ Inner = Top(stack)
         /\ job = << >> /\ stack # << >> => Inner.first \/ pretty.pending = << >>
<1>1. /\ Writes(pretty, plain, Len(stack)) /\ stack \in Seq(Writers)
      /\ job = << >> \/ \E v \in Nodes : job = <<v>>
      /\ pretty.pending # << >> /\ job = << >> => stack # << >> /\ Top(stack).first
  BY DEF WInv, Consistent
<1>2. Len(stack) \in Nat /\ plain \in Seq(Tokens)
  BY <1>1 DEF Writes
<1>3. job # << >> => job[1] \in Nodes
  BY <1>1
<1>4. ASSUME stack # << >>
      PROVE  Inner \in Writers /\ Inner = Top(stack)
  <2>1. Inner = Top(stack)
    BY DEF Inner, Top
  <2>2. Len(stack) \in 1..Len(stack)
    BY <1>1, <1>4
  <2>3. QED
    BY <1>1, <2>1, <2>2 DEF Top
<1>5. QED
  BY <1>1, <1>2, <1>3, <1>4

(* A writer pushed, the innermost one replaced, no writer touched.         *)
LEMMA PushKeeps ==
  ASSUME NEW next, NEW writers \in Seq(Writers), NEW w \in Writers, NEW text, NEW s,
         next = << >> \/ \E v \in Nodes : next = <<v>>,
         Writes(s, text, Len(writers) + 1), w.first \/ s.pending = << >>
  PROVE  Consistent(next, Append(writers, w), text, s)
<1>1. /\ Append(writers, w) \in Seq(Writers) /\ Append(writers, w) # << >>
      /\ Len(Append(writers, w)) = Len(writers) + 1 /\ Top(Append(writers, w)) = w
  BY Pushed
<1>2. QED
  BY <1>1, Zenon DEF Consistent

LEMMA ReplaceKeeps ==
  ASSUME NEW next, NEW writers \in Seq(Writers), writers # << >>, NEW w \in Writers,
         NEW text, NEW s, next = << >> \/ \E v \in Nodes : next = <<v>>,
         Writes(s, text, Len(writers)), next # << >> \/ w.first \/ s.pending = << >>
  PROVE  Consistent(next, [writers EXCEPT ![Len(writers)] = w], text, s)
<1>1. /\ [writers EXCEPT ![Len(writers)] = w] \in Seq(Writers)
      /\ [writers EXCEPT ![Len(writers)] = w] # << >>
      /\ Len([writers EXCEPT ![Len(writers)] = w]) = Len(writers)
      /\ Top([writers EXCEPT ![Len(writers)] = w]) = w
  BY Replaced
<1>2. QED
  BY <1>1, Zenon DEF Consistent

LEMMA FlushedKeeps ==
  ASSUME NEW next, NEW writers \in Seq(Writers), NEW text, NEW s,
         next = << >> \/ \E v \in Nodes : next = <<v>>,
         Writes(s, text, Len(writers)), s.pending = << >>
  PROVE  Consistent(next, writers, text, s)
BY DEF Consistent

LEMMA WInvStep == Consistent(job', stack', plain', pretty') => WInv'
BY DEF WInv

LEMMA WriteScalarKeeps == WInv /\ WriteScalar => WInv'
<1> SUFFICES ASSUME WInv, WriteScalar PROVE WInv'
  OBVIOUS
<1>1. /\ job # << >> /\ job[1].kind = "scalar" /\ job' = << >> /\ stack' = stack
      /\ plain' = Append(plain, job[1].text)
      /\ pretty' = P!WriteRaw(pretty, job[1].text)
  BY DEF WriteScalar, Writing
<1>2. job[1].text \in Visible
  BY <1>1, Stepping, NodeKinds, VisibleIsNoLayout
<1>3. Writes(pretty', plain', Len(stack)) /\ pretty'.pending = << >>
  BY <1>1, <1>2, Stepping, WriteRawEffect
<1>4. Consistent(job', stack', plain', pretty')
  BY <1>1, <1>3, Stepping, FlushedKeeps
<1>5. QED
  BY <1>4, WInvStep

LEMMA WriteItemsKeeps == WInv /\ WriteItems => WInv'
<1> SUFFICES ASSUME WInv, WriteItems PROVE WInv'
  OBVIOUS
<1>1. job # << >> /\ job' = << >> /\ job[1].kind \in {"array", "map"}
  BY DEF WriteItems, Writing
<1>2. PICK open \in Opening, close \in Closing :
        /\ plain' = Append(plain, open) /\ pretty' = P!Begin(pretty, open)
        /\ stack' = Append(stack, Under(job[1].kind, job[1].items, "Never", TRUE, close))
  <2>1. CASE job[1].kind = "array"
    BY <1>1, <2>1, Zenon DEF WriteItems, Writing, Opening, Closing
  <2>2. CASE job[1].kind # "array"
    BY <1>1, <2>2, Zenon DEF WriteItems, Writing, Opening, Closing, Brace
  <2>3. QED
    BY <2>1, <2>2
<1> DEFINE w == Under(job[1].kind, job[1].items, "Never", TRUE, close)
<1>3. w \in Writers
  BY <1>1, Stepping, NodeKinds, WriterMembers
<1>4. w.first = TRUE
  BY DEF Under
<1>5. Writes(pretty', plain', Len(stack) + 1)
  BY <1>2, Stepping, BeginEffect
<1> HIDE DEF w
<1>6. Consistent(job', stack', plain', pretty')
  <2>1. stack' = Append(stack, w)
    BY <1>2 DEF w
  <2>2. QED
    BY <1>1, <1>3, <1>4, <1>5, <2>1, Stepping, PushKeeps
<1>7. QED
  BY <1>6, WInvStep

LEMMA FirstAndRest ==
  ASSUME NEW S, NEW todo \in Seq(S), todo # << >>
  PROVE  todo[1] \in S /\ Tail(todo) \in Seq(S)
OBVIOUS

LEMMA NextItemKeeps == WInv /\ NextItem => WInv'
<1> SUFFICES ASSUME WInv, NextItem PROVE WInv'
  OBVIOUS
<1> DEFINE w == Under(Inner.style, Tail(Inner.todo), "Never", FALSE, Inner.close)
<1>1. /\ job = << >> /\ stack # << >> /\ Inner.style = "array" /\ Inner.todo # << >>
      /\ job' = <<Inner.todo[1]>>
      /\ stack' = [stack EXCEPT ![Len(stack)] = w]
  BY DEF NextItem, Todo, Advance
<1>2. /\ plain' = IF Inner.first THEN plain ELSE Append(plain, Comma)
      /\ pretty' = IF Inner.first THEN pretty ELSE P!Separator(pretty)
  BY Zenon DEF NextItem, Comma
<1>3. Inner \in Writers /\ Inner.todo \in Seq(Nodes) /\ Inner.close \in Closing
  BY <1>1, Stepping, WriterKinds
<1>4. Inner.todo[1] \in Nodes /\ Tail(Inner.todo) \in Seq(Nodes)
  BY <1>1, <1>3, FirstAndRest
<1>5. w \in Writers
  BY <1>1, <1>3, <1>4, WriterMembers
<1>6. Writes(pretty', plain', Len(stack))
  <2>1. CASE Inner.first
    BY <1>2, <2>1, Stepping
  <2>2. CASE ~ Inner.first
    <3>1. pretty.pending = << >>
      BY <1>1, <2>2, Stepping
    <3>2. QED
      BY <1>2, <2>2, <3>1, Stepping, SeparatorEffect
  <2>3. QED
    BY <2>1, <2>2
<1> HIDE DEF w
<1>7. job' # << >> /\ \E v \in Nodes : job' = <<v>>
  BY <1>1, <1>4
<1>8. Consistent(job', stack', plain', pretty')
  BY <1>1, <1>5, <1>6, <1>7, Stepping, ReplaceKeeps
<1>9. QED
  BY <1>8, WInvStep

LEMMA NextEntryKeeps == WInv /\ NextEntry => WInv'
<1> SUFFICES ASSUME WInv, NextEntry PROVE WInv'
  OBVIOUS
<1> DEFINE w == Under(Inner.style, Tail(Inner.todo), "Never", FALSE, Inner.close)
           entry == Inner.todo[1]
<1>1. /\ job = << >> /\ stack # << >> /\ Inner.style = "map" /\ Inner.todo # << >>
      /\ job' = <<entry.value>>
      /\ stack' = [stack EXCEPT ![Len(stack)] = w]
  BY DEF NextEntry, Todo, Advance
<1>2. /\ plain' = plain \o (IF Inner.first THEN << >> ELSE <<Comma>>) \o <<entry.key, Colon>>
      /\ pretty' = P!ObjectKey(IF Inner.first THEN pretty ELSE P!Separator(pretty), entry.key)
  BY Zenon DEF NextEntry, Comma, Colon
<1>3. /\ Inner \in Writers /\ Inner.todo \in Seq(Entry) /\ Inner.close \in Closing
      /\ Inner.first \in BOOLEAN
  BY <1>1, Stepping, WriterKinds
<1>4. entry \in Entry /\ Tail(Inner.todo) \in Seq(Entry)
  BY <1>1, <1>3, FirstAndRest
<1>5. entry.key \in Words /\ entry.value \in Nodes
  BY <1>4 DEF Entry, KeyTokens
<1>6. w \in Writers
  BY <1>1, <1>3, <1>4, WriterMembers
<1>7. Writes(pretty', plain', Len(stack)) /\ pretty'.pending = << >>
  <2>1. Inner.first \/ pretty.pending = << >>
    BY <1>1, Stepping
  <2>2. QED
    BY <1>2, <1>3, <1>5, <2>1, Stepping, MemberEffect, Zenon
<1> HIDE DEF w, entry
<1>8. \E v \in Nodes : job' = <<v>>
  BY <1>1, <1>5
<1>9. Consistent(job', stack', plain', pretty')
  BY <1>1, <1>6, <1>7, <1>8, Stepping, ReplaceKeeps
<1>10. QED
  BY <1>9, WInvStep

-----------------------------------------------------------------------------
(* A struct's fields.  The comma as planned is the comma as __first has    *)
(* it, in every action.                                                    *)
LEMMA ObjectWriter ==
  ASSUME WInv, Todo("object")
  PROVE  /\ job = << >> /\ stack # << >> /\ Inner.style = "object"
         /\ Inner.first \in BOOLEAN /\ Inner.close \in Closing
         /\ Inner.comma \in Commas /\ Planned(Inner.comma, Inner.first)
         /\ Inner.todo[1] \in Field /\ Tail(Inner.todo) \in Seq(Field)
         /\ Inner.first \/ pretty.pending = << >>
<1>1. job = << >> /\ stack # << >> /\ Inner.style = "object" /\ Inner.todo # << >>
  BY DEF Todo
<1>2. Inner \in Writers /\ (Inner.first \/ pretty.pending = << >>)
  BY <1>1, Stepping
<1>3. /\ Inner.first \in BOOLEAN /\ Inner.close \in Closing /\ Inner.todo \in Seq(Field)
      /\ Inner.comma \in Commas /\ Planned(Inner.comma, Inner.first)
  BY <1>1, <1>2, WriterKinds
<1>4. Inner.todo[1] \in Field /\ Tail(Inner.todo) \in Seq(Field)
  BY <1>1, <1>3, FirstAndRest
<1>5. QED
  BY <1>1, <1>2, <1>3, <1>4

LEMMA PlannedIsDue ==
  ASSUME WInv, Todo("object")
  PROVE  /\ PlannedLead = ~ Inner.first
         /\ Inner.comma # "Runtime" => (Inner.comma = "Always") = ~ Inner.first
<1>1. /\ Inner.first \in BOOLEAN /\ Inner.comma \in Commas
      /\ Planned(Inner.comma, Inner.first)
  BY ObjectWriter
<1>2. CASE Inner.comma = "Never"
  BY <1>1, <1>2 DEF PlannedLead, Planned
<1>3. CASE Inner.comma = "Always"
  BY <1>1, <1>3 DEF PlannedLead, Planned
<1>4. CASE Inner.comma = "Runtime"
  BY <1>1, <1>4 DEF PlannedLead, Planned
<1>5. QED
  BY <1>1, <1>2, <1>3, <1>4 DEF Commas

(* A field left out.                                                       *)
LEMMA OmittedKeeps ==
  ASSUME WInv, Todo("object"), NEW comma \in Commas, Planned(comma, Inner.first),
         stack' = [stack EXCEPT ![Len(stack)] =
                     Under(Inner.style, Tail(Inner.todo), comma, Inner.first, Inner.close)],
         UNCHANGED <<job, plain, pretty>>
  PROVE  WInv'
<1> DEFINE w == Under(Inner.style, Tail(Inner.todo), comma, Inner.first, Inner.close)
<1>1. w \in Writers
  BY ObjectWriter, WriterMembers
<1>2. w.first = Inner.first
  BY UnderParts
<1>3. stack' = [stack EXCEPT ![Len(stack)] = w]
  OBVIOUS
<1> HIDE DEF w
<1>4. w.first \/ pretty.pending = << >>
  BY <1>2, ObjectWriter
<1>5. stack \in Seq(Writers) /\ stack # << >> /\ job = << >>
  BY ObjectWriter, Stepping
<1>6. Writes(pretty, plain, Len(stack))
  BY Stepping
<1>7. Consistent(job, stack', plain, pretty)
  <2>1. Consistent(job, [stack EXCEPT ![Len(stack)] = w], plain, pretty)
    BY <1>1, <1>4, <1>5, <1>6, ReplaceKeeps
  <2>2. QED
    BY <1>3, <2>1
<1>8. Consistent(job', stack', plain', pretty')
  BY <1>7
<1>9. QED
  BY <1>8, WInvStep

(* A field written.                                                        *)
LEMMA MemberKeeps ==
  ASSUME WInv, Todo("object"), NEW comma \in Commas, Planned(comma, FALSE),
         stack' = [stack EXCEPT ![Len(stack)] =
                     Under(Inner.style, Tail(Inner.todo), comma, FALSE, Inner.close)],
         NEW lead, NEW prettyLead, lead = ~ Inner.first, prettyLead = ~ Inner.first,
         WriteMember(lead, prettyLead)
  PROVE  WInv'
<1> DEFINE w == Under(Inner.style, Tail(Inner.todo), comma, FALSE, Inner.close)
           f == Inner.todo[1]
<1>1. f.key \in Words /\ f.value \in Nodes
  BY ObjectWriter DEF Field, KeyTokens
<1>2. /\ plain' = plain \o (IF Inner.first THEN << >> ELSE <<Comma>>) \o <<f.key, Colon>>
      /\ pretty' = P!ObjectKey(IF Inner.first THEN pretty ELSE P!Separator(pretty), f.key)
      /\ job' = <<f.value>>
  <2>1. CASE Inner.first
    BY <2>1, Zenon DEF WriteMember, Comma, Colon
  <2>2. CASE ~ Inner.first
    BY <2>2, Zenon DEF WriteMember, Comma, Colon
  <2>3. QED
    BY <2>1, <2>2
<1>3. w \in Writers
  BY ObjectWriter, WriterMembers
<1>4. stack' = [stack EXCEPT ![Len(stack)] = w]
  OBVIOUS
<1>5. Writes(pretty', plain', Len(stack)) /\ pretty'.pending = << >>
  BY <1>1, <1>2, ObjectWriter, Stepping, MemberEffect, Zenon
<1> HIDE DEF w, f
<1>6. \E v \in Nodes : job' = <<v>>
  BY <1>1, <1>2
<1>7. stack \in Seq(Writers) /\ stack # << >>
  BY ObjectWriter, Stepping
<1>8. Consistent(job', stack', plain', pretty')
  <2>1. Consistent(job', [stack EXCEPT ![Len(stack)] = w], plain', pretty')
    BY <1>3, <1>5, <1>6, <1>7, ReplaceKeeps
  <2>2. QED
    BY <1>4, <2>1
<1>9. QED
  BY <1>8, WInvStep

LEMMA SkipFieldKeeps == WInv /\ SkipField => WInv'
<1> SUFFICES ASSUME WInv, SkipField PROVE WInv'
  OBVIOUS
<1>1. /\ Todo("object") /\ UNCHANGED <<job, plain, pretty>>
      /\ stack' = [stack EXCEPT ![Len(stack)] =
                     Under(Inner.style, Tail(Inner.todo), Inner.comma, Inner.first, Inner.close)]
  BY DEF SkipField, Advance
<1>2. Inner.comma \in Commas /\ Planned(Inner.comma, Inner.first)
  BY <1>1, ObjectWriter
<1>3. QED
  BY <1>1, <1>2, OmittedKeeps, Zenon

LEMMA ConditionalFieldKeeps == WInv /\ ConditionalField => WInv'
<1> SUFFICES ASSUME WInv, ConditionalField PROVE WInv'
  OBVIOUS
<1>1. Todo("object")
  BY DEF ConditionalField
<1>2. "Runtime" \in Commas /\ \A first : Planned("Runtime", first)
  BY DEF Commas, Planned
<1>3. CASE Inner.todo[1].none
  <2>1. /\ UNCHANGED <<job, plain, pretty>>
        /\ stack' = [stack EXCEPT ![Len(stack)] =
                       Under(Inner.style, Tail(Inner.todo), "Runtime", Inner.first, Inner.close)]
    BY <1>3, Zenon DEF ConditionalField, Advance
  <2>2. QED
    BY <1>1, <1>2, <2>1, OmittedKeeps, Zenon
<1>4. CASE ~ Inner.todo[1].none
  <2>1. /\ WriteMember(PlannedLead, PlannedLead)
        /\ stack' = [stack EXCEPT ![Len(stack)] =
                       Under(Inner.style, Tail(Inner.todo), "Runtime", FALSE, Inner.close)]
    BY <1>4, Zenon DEF ConditionalField, Advance
  <2>2. PlannedLead = ~ Inner.first
    BY <1>1, PlannedIsDue
  <2>3. QED
    BY <1>1, <1>2, <2>1, <2>2, MemberKeeps, Zenon
<1>5. QED
  BY <1>3, <1>4

LEMMA LiteralFieldKeeps == WInv /\ LiteralField => WInv'
<1> SUFFICES ASSUME WInv, LiteralField PROVE WInv'
  OBVIOUS
<1>1. /\ Todo("object") /\ Inner.comma # "Runtime"
      /\ WriteMember(Inner.comma = "Always", ~ Inner.first)
      /\ stack' = [stack EXCEPT ![Len(stack)] =
                     Under(Inner.style, Tail(Inner.todo), "Always", FALSE, Inner.close)]
  BY Zenon DEF LiteralField, Advance
<1>2. "Always" \in Commas /\ Planned("Always", FALSE)
  BY DEF Commas, Planned
<1>3. (Inner.comma = "Always") = ~ Inner.first
  BY <1>1, PlannedIsDue
<1>4. QED
  BY <1>1, <1>2, <1>3, MemberKeeps, Zenon

LEMMA RenamedFieldKeeps == WInv /\ RenamedField => WInv'
<1> SUFFICES ASSUME WInv, RenamedField PROVE WInv'
  OBVIOUS
<1> DEFINE comma == IF Inner.comma = "Runtime" THEN "Runtime" ELSE "Always"
<1>1. /\ Todo("object") /\ WriteMember(PlannedLead, PlannedLead)
      /\ stack' = [stack EXCEPT ![Len(stack)] =
                     Under(Inner.style, Tail(Inner.todo), comma, FALSE, Inner.close)]
  BY Zenon DEF RenamedField, Advance
<1>2. comma \in Commas /\ Planned(comma, FALSE)
  BY DEF Commas, Planned
<1>3. PlannedLead = ~ Inner.first
  BY <1>1, PlannedIsDue
<1> HIDE DEF comma
<1>4. CASE comma = "Runtime"
  BY <1>1, <1>2, <1>3, <1>4, MemberKeeps, Zenon
<1>5. CASE comma = "Always"
  BY <1>1, <1>2, <1>3, <1>5, MemberKeeps, Zenon
<1>6. QED
  BY <1>4, <1>5 DEF comma

-----------------------------------------------------------------------------
LEMMA Names == {TagKey, ContentKey, TagName} \subseteq Words
BY WriterAssumption DEF KeyTokens

LEMMA TagEffect ==
  ASSUME NEW s, NEW text, NEW n \in Nat, Writes(s, text, n)
  PROVE  LET tagged == P!WriteRaw(P!ObjectKey(s, TagKey), TagName)
         IN  /\ Writes(tagged, text \o <<TagKey, Colon, TagName>>, n)
             /\ tagged.pending = << >>
<1> DEFINE keyed == P!ObjectKey(s, TagKey)
           more == text \o <<TagKey, Colon>>
<1>1. Writes(keyed, more, n)
  BY Names, ObjectKeyEffect
<1>2. TagKey \in Tokens /\ Colon \in Tokens /\ TagName \in Tokens /\ TagName \in Visible
  BY Names, VisibleIsNoLayout DEF Visible
<1>3. text \in Seq(Tokens)
  BY DEF Writes
<1>4. Append(more, TagName) = text \o <<TagKey, Colon, TagName>>
  BY <1>2, <1>3
<1> HIDE DEF keyed, more
<1>5. Writes(P!WriteRaw(keyed, TagName), Append(more, TagName), n)
      /\ P!WriteRaw(keyed, TagName).pending = << >>
  BY <1>1, <1>2, WriteRawEffect
<1>6. QED
  BY <1>4, <1>5 DEF keyed

LEMMA WriteObjectKeeps == WInv /\ WriteObject => WInv'
<1> SUFFICES ASSUME WInv, WriteObject PROVE WInv'
  OBVIOUS
<1> DEFINE v == job[1]
           opened == P!Begin(pretty, Brace)
           begun == Append(plain, Brace)
           comma == IF v.tagged THEN "Always" ELSE "Never"
           first == ~ v.tagged
           close == "}"
           w == Under("object", v.fields, comma, first, close)
<1>1. job # << >> /\ v.kind = "object" /\ job' = << >> /\ stack' = Append(stack, w)
  BY Zenon DEF WriteObject, Writing
<1>2. /\ plain' = begun \o (IF v.tagged THEN <<TagKey, Colon, TagName>> ELSE << >>)
      /\ pretty' = IF v.tagged THEN P!WriteRaw(P!ObjectKey(opened, TagKey), TagName)
                   ELSE opened
  BY Zenon DEF WriteObject, Brace, Colon
<1>3. close \in Closing
  BY Zenon DEF Closing
<1> HIDE DEF close
<1>4. v.tagged \in BOOLEAN /\ v.fields \in Seq(Field)
  BY <1>1, Stepping, NodeKinds
<1>5. first \in BOOLEAN /\ comma \in Commas /\ Planned(comma, first)
  BY <1>4 DEF Commas, Planned
<1> HIDE DEF first, comma
<1>6. w \in Writers /\ w.first = first
  <2>1. w \in Writers
    BY <1>3, <1>4, <1>5, WriterMembers
  <2>2. w.first = first
    BY UnderParts
  <2>3. QED
    BY <2>1, <2>2
<1>7. Writes(opened, begun, Len(stack) + 1) /\ Len(stack) + 1 \in Nat
  BY MarksAreNoLayout, Stepping, BeginEffect
<1>8. begun \o << >> = begun
  <2>1. begun \in Seq(Tokens)
    BY <1>7 DEF Writes
  <2>2. QED
    BY <2>1, ConcatEmptySeq
<1> HIDE DEF opened, begun, w
<1>9. Writes(pretty', plain', Len(stack) + 1) /\ (w.first \/ pretty'.pending = << >>)
  <2>1. CASE v.tagged
    <3>1. plain' = begun \o <<TagKey, Colon, TagName>>
      BY <1>2, <2>1
    <3>2. pretty' = P!WriteRaw(P!ObjectKey(opened, TagKey), TagName)
      BY <1>2, <2>1
    <3>3. QED
      BY <1>7, <3>1, <3>2, TagEffect, Zenon
  <2>2. CASE ~ v.tagged
    BY <1>2, <1>6, <1>7, <1>8, <2>2, Zenon DEF first
  <2>3. QED
    BY <2>1, <2>2
<1>10. Consistent(job', stack', plain', pretty')
  BY <1>1, <1>6, <1>9, Stepping, PushKeeps, Zenon
<1>11. QED
  BY <1>10, WInvStep

LEMMA AdjacentLiteral ==
  ASSUME NEW text \in Seq(Tokens)
  PROVE  Append(Append(text, Brace) \o <<TagKey, Colon, TagName>>, Comma) \o <<ContentKey, Colon>>
           = text \o <<Brace, TagKey, Colon, TagName, Comma, ContentKey, Colon>>
<1> DEFINE u == text \o <<Brace, TagKey, Colon, TagName>>
<1>1. /\ Brace \in Tokens /\ Colon \in Tokens /\ Comma \in Tokens
      /\ TagKey \in Tokens /\ TagName \in Tokens /\ ContentKey \in Tokens
  BY Names, MarksAreNoLayout, VisibleIsNoLayout DEF Visible
<1>2. Append(text, Brace) \o <<TagKey, Colon, TagName>> = u
  BY <1>1, SMTT(60)
<1>3. u \in Seq(Tokens)
  BY <1>1, SMTT(60)
<1>4. text \o <<Brace, TagKey, Colon, TagName, Comma, ContentKey, Colon>>
        = u \o <<Comma, ContentKey, Colon>>
  BY <1>1, SMTT(60)
<1> HIDE DEF u
<1>5. Append(u, Comma) \o <<ContentKey, Colon>> = u \o <<Comma, ContentKey, Colon>>
  BY <1>1, <1>3, SMTT(60)
<1>6. QED
  BY <1>2, <1>4, <1>5, Zenon

LEMMA WriteVariantKeeps == WInv /\ WriteVariant => WInv'
<1> SUFFICES ASSUME WInv, WriteVariant PROVE WInv'
  OBVIOUS
<1> DEFINE v == job[1]
           opened == P!Begin(pretty, Brace)
           begun == Append(plain, Brace)
           tagged == P!WriteRaw(P!ObjectKey(opened, TagKey), TagName)
           named == begun \o <<TagKey, Colon, TagName>>
           close == "}"
           w == Under("variant", << >>, "Always", FALSE, close)
           n == Len(stack) + 1
<1>1. /\ job # << >> /\ v.kind \in {"external", "adjacent"}
      /\ job' = <<v.value>> /\ stack' = Append(stack, w)
  BY Zenon DEF WriteVariant, Writing
<1>2. \/ /\ plain' = plain \o <<Brace, TagName, Colon>>
         /\ pretty' = P!ObjectKey(opened, TagName)
      \/ /\ plain' = plain \o <<Brace, TagKey, Colon, TagName, Comma, ContentKey, Colon>>
         /\ pretty' = P!ObjectKey(P!Separator(tagged), ContentKey)
  BY Zenon DEF WriteVariant, Brace, Colon, Comma
<1>3. close \in Closing
  BY Zenon DEF Closing
<1> HIDE DEF close
<1>4. w \in Writers
  BY <1>3, WriterMembers
<1>5. v.value \in Nodes
  BY <1>1, Stepping, NodeKinds
<1>6. Writes(opened, begun, n) /\ n \in Nat
  BY MarksAreNoLayout, Stepping, BeginEffect
<1>7. /\ plain \in Seq(Tokens) /\ Brace \in Tokens /\ Colon \in Tokens /\ Comma \in Tokens
      /\ TagKey \in Tokens /\ TagName \in Tokens /\ ContentKey \in Tokens
  BY Stepping, Names, MarksAreNoLayout, VisibleIsNoLayout DEF Visible
<1>8. /\ begun \o <<TagName, Colon>> = plain \o <<Brace, TagName, Colon>>
      /\ Append(named, Comma) \o <<ContentKey, Colon>>
          = plain \o <<Brace, TagKey, Colon, TagName, Comma, ContentKey, Colon>>
  <2>1. begun \o <<TagName, Colon>> = plain \o <<Brace, TagName, Colon>>
    BY <1>7
  <2>2. Append(named, Comma) \o <<ContentKey, Colon>>
          = plain \o <<Brace, TagKey, Colon, TagName, Comma, ContentKey, Colon>>
    BY <1>7, AdjacentLiteral, Zenon
  <2>3. QED
    BY <2>1, <2>2
<1> HIDE DEF n, opened, begun
<1>9. Writes(tagged, named, n) /\ tagged.pending = << >>
  BY <1>6, TagEffect
<1> HIDE DEF tagged, named
<1>10. Writes(P!Separator(tagged), Append(named, Comma), n)
  BY <1>6, <1>9, SeparatorEffect
<1>11. Writes(pretty', plain', n) /\ pretty'.pending = << >>
  <2>1. /\ Writes(P!ObjectKey(opened, TagName), begun \o <<TagName, Colon>>, n)
        /\ P!ObjectKey(opened, TagName).pending = << >>
    BY <1>6, Names, ObjectKeyEffect
  <2>2. /\ Writes(P!ObjectKey(P!Separator(tagged), ContentKey),
                  Append(named, Comma) \o <<ContentKey, Colon>>, n)
        /\ P!ObjectKey(P!Separator(tagged), ContentKey).pending = << >>
    BY <1>6, <1>10, Names, ObjectKeyEffect
  <2>3. QED
    BY <1>2, <1>8, <2>1, <2>2, Zenon
<1>12. \E u \in Nodes : job' = <<u>>
  BY <1>1, <1>5
<1> HIDE DEF w
<1>13. Consistent(job', stack', plain', pretty')
  BY <1>1, <1>4, <1>11, <1>12, Stepping, PushKeeps, Zenon DEF n
<1>14. QED
  BY <1>13, WInvStep

LEMMA CloseKeeps == WInv /\ Close => WInv'
<1> SUFFICES ASSUME WInv, Close PROVE WInv'
  OBVIOUS
<1>1. /\ job = << >> /\ stack # << >> /\ job' = job
      /\ plain' = Append(plain, Inner.close) /\ pretty' = P!End(pretty, Inner.close)
      /\ stack' = SubSeq(stack, 1, Len(stack) - 1)
  BY DEF Close
<1> DEFINE n == Len(stack) - 1
<1>2. Inner.close \in Closing
  BY <1>1, Stepping, WriterKinds
<1>3. /\ n \in Nat /\ SubSeq(stack, 1, n) \in Seq(Writers)
      /\ Len(SubSeq(stack, 1, n)) = n
  BY <1>1, Stepping, Popped
<1>4. Len(stack) = n + 1
  BY <1>1, Stepping
<1>5. stack' = SubSeq(stack, 1, n)
  BY <1>1
<1> HIDE DEF n
<1>6. Writes(pretty, plain, n + 1)
  BY <1>4, Stepping
<1>7. Writes(pretty', plain', n) /\ pretty'.pending = << >>
  BY <1>1, <1>2, <1>3, <1>6, EndEffect
<1>8. Consistent(job', stack', plain', pretty')
  BY <1>1, <1>3, <1>5, <1>7, FlushedKeeps
<1>9. QED
  BY <1>8, WInvStep

LEMMA WInvInitially == Init => WInv
<1> SUFFICES ASSUME Init PROVE WInv
  OBVIOUS
<1>1. /\ value \in Nodes /\ job = <<value>> /\ stack = << >> /\ plain = << >>
      /\ pretty = P!Sink(<< >>, 0, << >>)
  BY WriterAssumption DEF Init, P!New
<1>2. Shows(<< >>, << >>)
  <2>1. Shown(<< >>) = {}
    BY DEF Shown
  <2>2. QED
    BY <2>1, FS_EmptySet DEF Shows
<1>3. << >> \in Seq(Tokens) /\ << >> \in Seq(Writers) /\ Len(<< >>) = 0
  OBVIOUS
<1>4. Writes(pretty, plain, 0) /\ pretty.pending = << >>
  BY <1>1, <1>2, <1>3, WritesWhenFlushed
<1>5. Consistent(job, stack, plain, pretty)
  BY <1>1, <1>3, <1>4, FlushedKeeps
<1>6. QED
  BY <1>5 DEF WInv

LEMMA WInvKept == WInv /\ [Next]_vars => WInv'
<1> SUFFICES ASSUME WInv, [Next]_vars PROVE WInv'
  OBVIOUS
<1>1. CASE UNCHANGED vars
  BY <1>1 DEF vars, WInv
<1>2. CASE Finished
  BY <1>2 DEF Finished, vars, WInv
<1>3. QED
  BY <1>1, <1>2, WriteScalarKeeps, WriteItemsKeeps, NextItemKeeps, NextEntryKeeps,
     WriteObjectKeeps, SkipFieldKeeps, ConditionalFieldKeeps, LiteralFieldKeeps,
     RenamedFieldKeeps, WriteVariantKeeps, CloseKeeps DEF Next

-----------------------------------------------------------------------------
(* The pretty text is the compact text plus layout, whatever is written.   *)
THEOREM PrettyShowsTheSame == Spec => []SameText
<1>1. WInv => SameText
  BY DEF WInv, Consistent, Writes, SameText
<1>2. QED
  BY WInvInitially, WInvKept, <1>1, PTL DEF Spec

(* The depth of the pretty sink is the nesting, so that end_container,     *)
(* which decrements it without a check, never underflows.                  *)
THEOREM DepthFollowsNesting == Spec => []DepthIsNesting
<1>1. WInv => DepthIsNesting
  BY DEF WInv, Consistent, Writes, DepthIsNesting
<1>2. QED
  BY WInvInitially, WInvKept, <1>1, PTL DEF Spec
-----------------------------------------------------------------------------
(* The depth of a text, one token after the other.                         *)

Among(t, S, i) == {k \in 1..i : t[k] \in S}

LEMMA DepthIs ==
  ASSUME NEW t, NEW i
  PROVE  DepthAt(t, i) = Cardinality(Among(t, Opening, i)) - Cardinality(Among(t, Closing, i))
BY Zenon DEF DepthAt, Among, Opening, Closing, Brace

LEMMA AmongIsFinite ==
  ASSUME NEW t, NEW S, NEW i \in Nat
  PROVE  IsFiniteSet(Among(t, S, i)) /\ Cardinality(Among(t, S, i)) \in Nat
<1>1. IsFiniteSet(1..i) /\ Among(t, S, i) \in SUBSET (1..i)
  BY FS_Interval DEF Among
<1>2. QED
  BY <1>1, FS_Subset, FS_CardinalityType

LEMMA AmongNext ==
  ASSUME NEW t, NEW S, NEW i \in Nat
  PROVE  Cardinality(Among(t, S, i + 1)) =
           Cardinality(Among(t, S, i)) + (IF t[i + 1] \in S THEN 1 ELSE 0)
<1>1. \A k : k \in 1..(i + 1) <=> k \in 1..i \/ k = i + 1
  OBVIOUS
<1>2. i + 1 \notin 1..i
  OBVIOUS
<1>3. CASE t[i + 1] \in S
  <2>1. Among(t, S, i + 1) = Among(t, S, i) \cup {i + 1}
    BY <1>1, <1>3 DEF Among
  <2>2. i + 1 \notin Among(t, S, i)
    BY <1>2 DEF Among
  <2>3. QED
    BY <1>3, <2>1, <2>2, AmongIsFinite, FS_AddElement
<1>4. CASE t[i + 1] \notin S
  <2>1. Among(t, S, i + 1) = Among(t, S, i)
    BY <1>1, <1>4 DEF Among
  <2>2. QED
    BY <1>4, <2>1, AmongIsFinite
<1>5. QED
  BY <1>3, <1>4

LEMMA DepthNext ==
  ASSUME NEW t, NEW i \in Nat
  PROVE  /\ DepthAt(t, i) \in Int
         /\ DepthAt(t, i + 1) = DepthAt(t, i) + (IF t[i + 1] \in Opening THEN 1 ELSE 0)
                                             - (IF t[i + 1] \in Closing THEN 1 ELSE 0)
<1>1. /\ Cardinality(Among(t, Opening, i)) \in Nat
      /\ Cardinality(Among(t, Closing, i)) \in Nat
  BY AmongIsFinite
<1>2. /\ Cardinality(Among(t, Opening, i + 1)) =
           Cardinality(Among(t, Opening, i)) + (IF t[i + 1] \in Opening THEN 1 ELSE 0)
      /\ Cardinality(Among(t, Closing, i + 1)) =
           Cardinality(Among(t, Closing, i)) + (IF t[i + 1] \in Closing THEN 1 ELSE 0)
  BY AmongNext
<1>3. QED
  BY <1>1, <1>2, DepthIs

(* Texts that agree up to i; a stretch without brackets.                   *)
LEMMA DepthAgrees ==
  ASSUME NEW t, NEW u, NEW i, \A k \in 1..i : u[k] = t[k]
  PROVE  DepthAt(u, i) = DepthAt(t, i)
<1>1. Among(u, Opening, i) = Among(t, Opening, i) /\ Among(u, Closing, i) = Among(t, Closing, i)
  BY DEF Among
<1>2. QED
  BY <1>1, DepthIs

LEMMA DepthFlat ==
  ASSUME NEW t, NEW i \in Nat, NEW j \in Nat, i <= j,
         \A k \in (i + 1)..j : t[k] \notin Opening /\ t[k] \notin Closing
  PROVE  DepthAt(t, j) = DepthAt(t, i)
<1>1. \A k : k \in 1..j <=> k \in 1..i \/ k \in (i + 1)..j
  OBVIOUS
<1>2. Among(t, Opening, j) = Among(t, Opening, i) /\ Among(t, Closing, j) = Among(t, Closing, i)
  BY <1>1 DEF Among
<1>3. QED
  BY <1>2, DepthIs

LEMMA BracketsDiffer ==
  /\ \A b \in Opening : b \notin Closing
  /\ \A w \in Words \cup {Comma, Colon} \cup P!Layout : w \notin Opening /\ w \notin Closing
<1>1. \A b \in Opening : b \notin Closing
  BY Zenon DEF Opening, Closing, Brace
<1>2. \A w \in Words : w \notin Opening /\ w \notin Closing
  BY WordsAssumption, Zenon DEF Opening, Closing, Brace
<1>3. \A w \in {Comma, Colon} : w \notin Opening /\ w \notin Closing
  BY Zenon DEF Opening, Closing, Brace, Comma, Colon
<1>4. \A w \in P!Layout : w \notin Opening /\ w \notin Closing
  BY MarksAreNoLayout
<1>5. QED
  BY <1>1, <1>2, <1>3, <1>4

-----------------------------------------------------------------------------
(* Lines.  The line that begins at i is indented by n; if something        *)
(* follows, that is what the indentation is right for.                     *)
Indent(out, i, n) ==
  n \in 0..(Len(out) - i) /\ \A k \in 1..n : out[i + k] = "indent"

Begins(out, i, n, first) ==
  /\ first # "indent"
  /\ n + (IF first \in Closing THEN 1 ELSE 0) = DepthAt(out, i)
  /\ first \in Closing => i > 1 /\ out[i - 1] \notin Opening

Line(out, i) ==
  \E n : /\ Indent(out, i, n)
         /\ IF i + n = Len(out) THEN n = DepthAt(out, i) ELSE Begins(out, i, n, out[i + n + 1])

Lined(out) == \A i \in 1..Len(out) : out[i] = "nl" => Line(out, i)

EndsWith(out, S) == out # << >> /\ out[Len(out)] \in S

(* What a text is followed by may finish its last line.                    *)
LEMMA OldLines ==
  ASSUME NEW out \in Seq(Tokens), Lined(out), NEW longer \in Seq(Tokens),
         Len(longer) > Len(out), \A k \in 1..Len(out) : longer[k] = out[k],
         longer[Len(out) + 1] # "indent",
         longer[Len(out) + 1] \in Closing => EndsWith(out, Opening)
  PROVE  \A i \in 1..Len(out) : longer[i] = "nl" => Line(longer, i)
<1> SUFFICES ASSUME NEW i \in 1..Len(out), longer[i] = "nl"
             PROVE  Line(longer, i)
  OBVIOUS
<1>1. Len(out) \in Nat /\ Len(longer) \in Nat
  OBVIOUS
<1>2. PICK n : /\ Indent(out, i, n)
               /\ IF i + n = Len(out) THEN n = DepthAt(out, i)
                  ELSE Begins(out, i, n, out[i + n + 1])
  BY DEF Lined, Line
<1>3. n \in Nat /\ i + n <= Len(out) /\ n \in 0..(Len(longer) - i) /\ i + n < Len(longer)
  BY <1>1, <1>2 DEF Indent
<1>4. Indent(longer, i, n)
  <2>1. ASSUME NEW k \in 1..n
        PROVE  longer[i + k] = "indent"
    <3>1. i + k \in 1..Len(out)
      BY <1>1, <1>3
    <3>2. longer[i + k] = out[i + k]
      BY <3>1
    <3>3. QED
      BY <1>2, <3>2 DEF Indent
  <2>2. QED
    BY <1>3, <2>1 DEF Indent
<1>5. DepthAt(longer, i) = DepthAt(out, i)
  BY <1>1, DepthAgrees
<1>6. CASE i + n = Len(out)
  <2>1. out[Len(out)] \in {"nl", "indent"}
    <3>1. CASE n = 0
      BY <1>3, <1>6, <3>1
    <3>2. CASE n # 0
      <4>1. n \in 1..n
        BY <1>3, <3>2
      <4>2. QED
        BY <1>2, <1>6, <4>1 DEF Indent
    <3>3. QED
      BY <3>1, <3>2
  <2>2. out[Len(out)] \notin Opening
    BY <2>1, BracketsDiffer DEF P!Layout
  <2>3. longer[i + n + 1] \notin Closing
    BY <1>6, <2>2 DEF EndsWith
  <2>4. n = DepthAt(longer, i)
    BY <1>2, <1>5, <1>6
  <2>5. Begins(longer, i, n, longer[i + n + 1])
    BY <1>3, <1>6, <2>3, <2>4 DEF Begins
  <2>6. QED
    BY <1>3, <1>4, <2>5 DEF Line
<1>7. CASE i + n # Len(out)
  <2>1. i + n + 1 \in 1..Len(out)
    BY <1>1, <1>3, <1>7
  <2>2. longer[i + n + 1] = out[i + n + 1]
    BY <2>1
  <2>3. i > 1 => longer[i - 1] = out[i - 1]
    BY <1>1
  <2>4. Begins(out, i, n, longer[i + n + 1])
    BY <1>2, <1>7, <2>2
  <2>5. Begins(longer, i, n, longer[i + n + 1])
    BY <1>5, <2>3, <2>4 DEF Begins
  <2>6. QED
    BY <1>3, <1>4, <2>5 DEF Line
<1>8. QED
  BY <1>6, <1>7

(* The text out is well laid out, and d deep at its end.                   *)
Laid(out, d) ==
  /\ out \in Seq(Tokens) /\ d \in Nat
  /\ DepthAt(out, Len(out)) = d
  /\ Lined(out)

LEMMA AppendParts ==
  ASSUME NEW out \in Seq(Tokens), NEW token \in Tokens
  PROVE  LET longer == Append(out, token)
         IN  /\ longer \in Seq(Tokens) /\ Len(longer) = Len(out) + 1 /\ Len(out) \in Nat
             /\ longer # << >> /\ longer[Len(longer)] = token
             /\ longer[Len(out) + 1] = token
             /\ \A k \in 1..Len(out) : longer[k] = out[k]
OBVIOUS

LEMMA AppendLined ==
  ASSUME NEW out, NEW d, Laid(out, d), NEW token \in Tokens,
         token # "nl", token # "indent", token \in Closing => EndsWith(out, Opening)
  PROVE  /\ Lined(Append(out, token))
         /\ DepthAt(Append(out, token), Len(Append(out, token))) =
              d + (IF token \in Opening THEN 1 ELSE 0) - (IF token \in Closing THEN 1 ELSE 0)
<1> DEFINE longer == Append(out, token)
<1>1. out \in Seq(Tokens) /\ Lined(out) /\ DepthAt(out, Len(out)) = d
  BY DEF Laid
<1>2. /\ longer \in Seq(Tokens) /\ Len(longer) = Len(out) + 1 /\ Len(out) \in Nat
      /\ longer[Len(out) + 1] = token /\ \A k \in 1..Len(out) : longer[k] = out[k]
  BY <1>1, AppendParts
<1> HIDE DEF longer
<1>3. \A i \in 1..Len(out) : longer[i] = "nl" => Line(longer, i)
  BY <1>1, <1>2, OldLines
<1>4. \A i \in 1..Len(longer) : i \in 1..Len(out) \/ i = Len(out) + 1
  BY <1>2
<1>5. Lined(longer)
  BY <1>2, <1>3, <1>4 DEF Lined
<1>6. DepthAt(longer, Len(out)) = d
  BY <1>1, <1>2, DepthAgrees
<1>7. DepthAt(longer, Len(longer)) =
        d + (IF token \in Opening THEN 1 ELSE 0) - (IF token \in Closing THEN 1 ELSE 0)
  BY <1>2, <1>6, DepthNext
<1>8. QED
  BY <1>5, <1>7 DEF longer
LEMMA NewlineParts ==
  ASSUME NEW out \in Seq(Tokens), NEW d \in Nat
  PROVE  LET l == P!NewlineAndIndent(out, d)
         IN  /\ l \in Seq(Tokens) /\ Len(l) = Len(out) + 1 + d /\ Len(out) \in Nat
             /\ \A k \in 1..Len(out) : l[k] = out[k]
             /\ l[Len(out) + 1] = "nl"
             /\ \A k \in (Len(out) + 2)..(Len(out) + 1 + d) : l[k] = "indent"
<1> DEFINE indents == [i \in 1..d |-> "indent"]
           l       == (out \o <<"nl">>) \o indents
<1>1. "nl" \in Tokens /\ "indent" \in Tokens
  BY DEF Tokens, P!Layout
<1>2. indents \in Seq(Tokens) /\ Len(indents) = d /\ \A i \in 1..d : indents[i] = "indent"
  BY <1>1
<1> HIDE DEF indents
<1>3. l \in Seq(Tokens) /\ Len(l) = Len(out) + 1 + d /\ Len(out) \in Nat
  BY <1>1, <1>2
<1>4. \A k \in 1..Len(out) : l[k] = out[k]
  BY <1>1, <1>2
<1>5. l[Len(out) + 1] = "nl"
  BY <1>1, <1>2
<1>6. ASSUME NEW k \in (Len(out) + 2)..(Len(out) + 1 + d)
      PROVE  l[k] = "indent"
  <2>1. k - (Len(out) + 1) \in 1..d
    BY <1>3
  <2>2. l[k] = indents[k - (Len(out) + 1)]
    BY <1>1, <1>2, <2>1
  <2>3. QED
    BY <1>2, <2>1, <2>2
<1>7. l = P!NewlineAndIndent(out, d)
  BY DEF P!NewlineAndIndent, indents
<1> HIDE DEF l
<1>8. QED
  BY <1>3, <1>4, <1>5, <1>6, <1>7

(* A line begun: all lines before it stand, and its indentation does not   *)
(* change the depth.                                                       *)
LEMMA NewlineKeepsLines ==
  ASSUME NEW out, NEW c, Laid(out, c), NEW d \in Nat,
         NEW longer \in Seq(Tokens), Len(longer) >= Len(out) + 1 + d,
         \A k \in 1..(Len(out) + 1 + d) : longer[k] = P!NewlineAndIndent(out, d)[k]
  PROVE  /\ \A i \in 1..Len(out) : longer[i] = "nl" => Line(longer, i)
         /\ Indent(longer, Len(out) + 1, d)
         /\ \A k \in (Len(out) + 2)..(Len(out) + 1 + d) : longer[k] # "nl"
         /\ DepthAt(longer, Len(out) + 1) = c
         /\ DepthAt(longer, Len(out) + 1 + d) = c
<1> DEFINE l  == P!NewlineAndIndent(out, d)
           at == Len(out) + 1
<1>1. out \in Seq(Tokens) /\ Lined(out) /\ DepthAt(out, Len(out)) = c
  BY DEF Laid
<1>2. /\ Len(out) \in Nat /\ l[at] = "nl"
      /\ \A k \in 1..Len(out) : l[k] = out[k]
      /\ \A k \in (at + 1)..(at + d) : l[k] = "indent"
  <2>1. /\ Len(out) \in Nat /\ l[Len(out) + 1] = "nl"
        /\ \A k \in 1..Len(out) : l[k] = out[k]
        /\ \A k \in (Len(out) + 2)..(Len(out) + 1 + d) : l[k] = "indent"
    BY <1>1, NewlineParts
  <2> HIDE DEF l
  <2>2. at + 1 = Len(out) + 2 /\ at + d = Len(out) + 1 + d
    BY <2>1
  <2>3. QED
    BY <2>1, <2>2
<1> HIDE DEF l
<1>3. \A k \in 1..(at + d) : longer[k] = l[k]
  BY DEF l
<1>4. /\ longer[at] = "nl" /\ \A k \in 1..Len(out) : longer[k] = out[k]
      /\ \A k \in (at + 1)..(at + d) : longer[k] = "indent"
  BY <1>2, <1>3
<1>5. Len(longer) \in Nat /\ Len(longer) > Len(out)
  BY <1>2
<1>6. "nl" \notin Closing /\ "nl" # "indent"
  BY BracketsDiffer DEF P!Layout
<1>7. \A i \in 1..Len(out) : longer[i] = "nl" => Line(longer, i)
  BY <1>1, <1>4, <1>5, <1>6, OldLines
<1>8. Indent(longer, at, d)
  <2>1. d \in 0..(Len(longer) - at)
    BY <1>2, <1>5
  <2>2. \A k \in 1..d : at + k \in (at + 1)..(at + d)
    BY <1>2
  <2>3. QED
    BY <1>4, <2>1, <2>2 DEF Indent
<1>9. \A k \in (Len(out) + 1)..(at + d) : longer[k] \notin Opening /\ longer[k] \notin Closing
  <2>1. \A k \in (Len(out) + 1)..(at + d) : longer[k] \in {"nl", "indent"}
    BY <1>2, <1>4
  <2>2. QED
    BY <2>1, BracketsDiffer DEF P!Layout
<1>10. DepthAt(longer, Len(out)) = c
  BY <1>1, <1>4, DepthAgrees
<1>11. at \in Nat /\ at + d \in Nat /\ Len(out) <= at /\ Len(out) <= at + d /\ at <= at + d
  BY <1>2
<1>12. DepthAt(longer, at + d) = c
  BY <1>2, <1>9, <1>10, <1>11, DepthFlat
<1>13. DepthAt(longer, at) = c
  <2>1. \A k \in (Len(out) + 1)..at : k \in (Len(out) + 1)..(at + d)
    BY <1>2
  <2>2. QED
    BY <1>2, <1>9, <1>10, <1>11, <2>1, DepthFlat
<1>14. \A k \in (at + 1)..(at + d) : longer[k] # "nl"
  BY <1>4
<1>15. QED
  BY <1>2, <1>7, <1>8, <1>12, <1>13, <1>14

LEMMA NewlineLaid ==
  ASSUME NEW out, NEW d, Laid(out, d)
  PROVE  /\ Laid(P!NewlineAndIndent(out, d), d)
         /\ ~ EndsWith(P!NewlineAndIndent(out, d), Opening)
<1> DEFINE l  == P!NewlineAndIndent(out, d)
           at == Len(out) + 1
<1>1. out \in Seq(Tokens) /\ d \in Nat
  BY DEF Laid
<1>2. /\ l \in Seq(Tokens) /\ Len(l) = at + d /\ Len(out) \in Nat /\ l[at] = "nl"
      /\ \A k \in (at + 1)..(at + d) : l[k] = "indent"
  BY <1>1, NewlineParts
<1>3. /\ \A i \in 1..Len(out) : l[i] = "nl" => Line(l, i)
      /\ Indent(l, at, d)
      /\ \A k \in (at + 1)..(at + d) : l[k] # "nl"
      /\ DepthAt(l, at) = d /\ DepthAt(l, at + d) = d
  <2>1. Len(l) >= Len(out) + 1 + d
    BY <1>1, <1>2
  <2>2. QED
    BY <1>1, <1>2, <2>1, NewlineKeepsLines
<1> HIDE DEF l
<1>4. Line(l, at)
  BY <1>2, <1>3 DEF Line
<1>5. Lined(l)
  <2>1. \A i \in 1..Len(l) : i \in 1..Len(out) \/ i = at \/ i \in (at + 1)..(at + d)
    BY <1>1, <1>2
  <2>2. QED
    BY <1>3, <1>4, <2>1 DEF Lined
<1>6. l[Len(l)] \in {"nl", "indent"}
  <2>1. CASE d = 0
    BY <1>2, <2>1
  <2>2. CASE d # 0
    <3>1. at + d \in (at + 1)..(at + d)
      BY <1>1, <1>2, <2>2
    <3>2. QED
      BY <1>2, <3>1
  <2>3. QED
    BY <2>1, <2>2
<1>7. ~ EndsWith(l, Opening)
  BY <1>6, BracketsDiffer DEF EndsWith, P!Layout
<1>8. Laid(l, d)
  BY <1>1, <1>2, <1>3, <1>5 DEF Laid
<1>9. QED
  BY <1>7, <1>8 DEF l

(* A closing bracket on a line of its own, behind something else than its  *)
(* opening one.                                                            *)
LEMMA CloseLaid ==
  ASSUME NEW out, NEW d \in Nat, Laid(out, d + 1), ~ EndsWith(out, Opening),
         NEW close \in Closing
  PROVE  Laid(Append(P!NewlineAndIndent(out, d), close), d)
<1> DEFINE l      == P!NewlineAndIndent(out, d)
           at     == Len(out) + 1
           longer == Append(l, close)
<1>1. out \in Seq(Tokens) /\ DepthAt(out, Len(out)) = d + 1 /\ Lined(out)
  BY DEF Laid
<1>2. close \in Tokens /\ close \notin Opening /\ close \notin P!Layout
  BY BracketsDiffer, MarksAreNoLayout DEF Visible, Tokens
<1>3. l \in Seq(Tokens) /\ Len(l) = at + d /\ Len(out) \in Nat
      /\ \A k \in 1..Len(out) : l[k] = out[k]
  BY <1>1, NewlineParts
<1> HIDE DEF l
<1>4. /\ longer \in Seq(Tokens) /\ Len(longer) = at + d + 1 /\ longer[at + d + 1] = close
      /\ \A k \in 1..(at + d) : longer[k] = l[k]
  BY <1>2, <1>3, AppendParts
<1> HIDE DEF longer
<1>5. /\ \A i \in 1..Len(out) : longer[i] = "nl" => Line(longer, i)
      /\ Indent(longer, at, d)
      /\ \A k \in (at + 1)..(at + d) : longer[k] # "nl"
      /\ DepthAt(longer, at) = d + 1 /\ DepthAt(longer, at + d) = d + 1
  <2>1. Len(longer) >= Len(out) + 1 + d
    BY <1>3, <1>4
  <2>2. \A k \in 1..(Len(out) + 1 + d) : longer[k] = P!NewlineAndIndent(out, d)[k]
    BY <1>4 DEF l
  <2>3. QED
    BY <1>4, <2>1, <2>2, NewlineKeepsLines
<1>6. Len(out) > 0 /\ longer[at - 1] = out[Len(out)] /\ at - 1 = Len(out)
  <2>1. CASE Len(out) = 0
    <3>1. DepthAt(out, 0) = 0
      <4>1. Among(out, Opening, 0) = {} /\ Among(out, Closing, 0) = {}
        BY DEF Among
      <4>2. QED
        BY <4>1, DepthIs, FS_EmptySet
    <3>2. QED
      BY <1>1, <2>1, <3>1
  <2>2. CASE Len(out) # 0
    <3>1. Len(out) \in 1..Len(out) /\ Len(out) \in 1..(at + d) /\ at - 1 = Len(out)
      BY <1>3, <2>2
    <3>2. QED
      BY <1>3, <1>4, <3>1
  <2>3. QED
    BY <2>1, <2>2
<1>7. out[Len(out)] \notin Opening
  BY <1>6 DEF EndsWith
<1>8. Line(longer, at)
  <2>1. at > 1 /\ longer[at - 1] \notin Opening
    BY <1>3, <1>6, <1>7
  <2>2. close # "indent"
    BY <1>2 DEF P!Layout
  <2>3. Begins(longer, at, d, longer[at + d + 1])
    BY <1>4, <1>5, <2>1, <2>2 DEF Begins
  <2>4. at + d # Len(longer)
    BY <1>3, <1>4
  <2>5. QED
    BY <1>5, <2>3, <2>4 DEF Line
<1>9. Lined(longer)
  <2>1. \A i \in 1..Len(longer) :
          i \in 1..Len(out) \/ i = at \/ i \in (at + 1)..(at + d) \/ i = at + d + 1
    BY <1>3, <1>4
  <2>2. longer[at + d + 1] # "nl"
    BY <1>2, <1>4 DEF P!Layout
  <2>3. QED
    BY <1>5, <1>8, <2>1, <2>2 DEF Lined
<1>10. DepthAt(longer, Len(longer)) = d
  <2> DEFINE i == at + d
  <2>1. i \in Nat /\ Len(longer) = i + 1 /\ longer[i + 1] = close /\ DepthAt(longer, i) = d + 1
    BY <1>3, <1>4, <1>5
  <2> HIDE DEF i
  <2>2. DepthAt(longer, i + 1) = (d + 1) + 0 - 1
    BY <1>2, <2>1, DepthNext
  <2>3. QED
    BY <2>1, <2>2
<1>11. Laid(longer, d)
  BY <1>4, <1>9, <1>10 DEF Laid
<1>12. QED
  BY <1>11 DEF longer, l
-----------------------------------------------------------------------------
(* The methods of the sink keep its text laid out, and except for the      *)
(* bracket held back it never ends with an opening one.                    *)
Tidied(out, d) == Laid(out, d) /\ ~ EndsWith(out, Opening)

Tidy(s) == Tidied(s.out, s.depth) /\ s.pending \in Opens

LEMMA TidySink ==
  ASSUME NEW out, NEW d, Tidied(out, d), NEW pending \in Opens
  PROVE  Tidy(P!Sink(out, d, pending)) /\ P!Sink(out, d, pending).pending = pending
BY SinkParts DEF Tidy

Ink == Words \cup {Comma, Colon, Space}

LEMMA InkIsNoBracket ==
  \A token \in Ink :
    /\ token \in Tokens /\ token # "nl" /\ token # "indent"
    /\ token \notin Opening /\ token \notin Closing
<1>1. Space \in P!Layout /\ Space # "nl" /\ Space # "indent"
  BY Zenon DEF Space, P!Layout
<1>2. \A token \in Words \cup {Comma, Colon} : token \in Tokens /\ token \notin P!Layout
  BY VisibleIsNoLayout DEF Visible
<1>3. \A token \in Words \cup {Comma, Colon} : token # "nl" /\ token # "indent"
  BY <1>2 DEF P!Layout
<1>4. QED
  BY <1>1, <1>2, <1>3, BracketsDiffer DEF Ink, Tokens

LEMMA InkTidied ==
  ASSUME NEW out, NEW d, Laid(out, d), NEW token \in Ink
  PROVE  Tidied(Append(out, token), d)
<1>1. out \in Seq(Tokens) /\ d \in Nat
  BY DEF Laid
<1>2. /\ token \in Tokens /\ token # "nl" /\ token # "indent"
      /\ token \notin Opening /\ token \notin Closing
  BY InkIsNoBracket
<1> DEFINE longer == Append(out, token)
<1>3. /\ longer \in Seq(Tokens) /\ longer[Len(longer)] = token
      /\ Lined(longer) /\ DepthAt(longer, Len(longer)) = d
  BY <1>1, <1>2, AppendParts, AppendLined
<1> HIDE DEF longer
<1>4. Tidied(longer, d)
  BY <1>1, <1>2, <1>3 DEF Tidied, Laid, EndsWith
<1>5. QED
  BY <1>4 DEF longer

LEMMA FlushTidy ==
  ASSUME NEW s, Tidy(s)
  PROVE  Tidy(P!FlushPendingOpen(s)) /\ P!FlushPendingOpen(s).pending = << >>
<1>1. CASE s.pending = << >>
  BY <1>1 DEF P!FlushPendingOpen
<1>2. CASE s.pending # << >>
  <2>1. PICK open \in Opening : s.pending = <<open>>
    BY <1>2 DEF Tidy, Opens
  <2> DEFINE out == Append(s.out, open)
             d   == s.depth + 1
  <2>2. s.out \in Seq(Tokens) /\ s.depth \in Nat /\ Laid(s.out, s.depth)
    BY DEF Tidy, Tidied, Laid
  <2>3. open \in Tokens /\ open \notin P!Layout /\ open \notin Closing
    BY MarksAreNoLayout, BracketsDiffer DEF Visible, Tokens
  <2>4. open # "nl" /\ open # "indent"
    BY <2>3 DEF P!Layout
  <2>5. Laid(out, d)
    <3>1. Lined(out) /\ DepthAt(out, Len(out)) = s.depth + 1 - 0 /\ out \in Seq(Tokens)
      BY <2>2, <2>3, <2>4, AppendParts, AppendLined
    <3> HIDE DEF out
    <3>2. QED
      BY <2>2, <3>1 DEF Laid
  <2>6. P!FlushPendingOpen(s) = P!Sink(P!NewlineAndIndent(out, d), d, << >>)
    <3>1. s.out \o s.pending = out
      BY <2>1, <2>2, <2>3, ShortTexts
    <3>2. QED
      BY <1>2, <3>1 DEF P!FlushPendingOpen
  <2> HIDE DEF out, d
  <2>7. QED
    BY <2>5, <2>6, NewlineLaid, TidySink, OpensProperties DEF Tidied
<1>3. QED
  BY <1>1, <1>2

LEMMA WriteRawTidy ==
  ASSUME NEW s, Tidy(s), NEW token \in Words
  PROVE  Tidy(P!WriteRaw(s, token))
<1> DEFINE f == P!FlushPendingOpen(s)
<1>1. Tidy(f)
  BY FlushTidy
<1>2. P!WriteRaw(s, token) = P!Sink(Append(f.out, token), f.depth, f.pending)
  BY DEF P!WriteRaw
<1> HIDE DEF f
<1>3. Tidied(Append(f.out, token), f.depth) /\ f.pending \in Opens
  BY <1>1, InkTidied DEF Ink, Tidy, Tidied
<1>4. QED
  BY <1>2, <1>3, TidySink

LEMMA SeparatorTidy ==
  ASSUME NEW s, Tidy(s)
  PROVE  Tidy(P!Separator(s))
<1> DEFINE out == Append(s.out, Comma)
<1>1. P!Separator(s) = P!Sink(P!NewlineAndIndent(out, s.depth), s.depth, s.pending)
  BY Zenon DEF P!Separator, Comma
<1>2. Laid(out, s.depth) /\ s.pending \in Opens
  BY InkTidied DEF Ink, Tidy, Tidied
<1> HIDE DEF out
<1>3. Tidied(P!NewlineAndIndent(out, s.depth), s.depth)
  BY <1>2, NewlineLaid DEF Tidied
<1>4. QED
  BY <1>1, <1>2, <1>3, TidySink

LEMMA ObjectKeyTidy ==
  ASSUME NEW s, Tidy(s), NEW key \in Words
  PROVE  Tidy(P!ObjectKey(s, key))
<1> DEFINE f   == P!FlushPendingOpen(s)
           out == Append(Append(Append(f.out, key), Colon), Space)
<1>1. Tidy(f)
  BY FlushTidy
<1>2. P!ObjectKey(s, key) = P!Sink(f.out \o <<key, Colon, Space>>, f.depth, f.pending)
  BY Zenon DEF P!ObjectKey, Colon, Space
<1> HIDE DEF f
<1>3. f.out \in Seq(Tokens) /\ key \in Tokens /\ Colon \in Tokens /\ Space \in Tokens
  BY <1>1, InkIsNoBracket DEF Ink, Tidy, Tidied, Laid
<1>4. f.out \o <<key, Colon, Space>> = out
  BY <1>3
<1>5. Tidied(out, f.depth) /\ f.pending \in Opens
  <2>1. Laid(Append(f.out, key), f.depth)
    BY <1>1, InkTidied DEF Ink, Tidy, Tidied
  <2>2. Laid(Append(Append(f.out, key), Colon), f.depth)
    BY <2>1, InkTidied DEF Ink, Tidied
  <2>3. QED
    BY <1>1, <2>2, InkTidied DEF Ink, Tidy
<1> HIDE DEF out
<1>6. QED
  BY <1>2, <1>4, <1>5, TidySink

LEMMA BeginTidy ==
  ASSUME NEW s, Tidy(s), NEW open \in Opening
  PROVE  Tidy(P!Begin(s, open))
<1> DEFINE f == P!FlushPendingOpen(s)
<1>1. Tidy(f)
  BY FlushTidy
<1>2. P!Begin(s, open) = P!Sink(f.out, f.depth, <<open>>)
  BY DEF P!Begin
<1> HIDE DEF f
<1>3. Tidied(f.out, f.depth) /\ <<open>> \in Opens
  BY <1>1 DEF Tidy, Opens
<1>4. QED
  BY <1>2, <1>3, TidySink

LEMMA EndTidy ==
  ASSUME NEW s, Tidy(s), NEW n \in Nat, s.depth + Len(s.pending) = n + 1, NEW close \in Closing
  PROVE  Tidy(P!End(s, close))
<1>1. /\ close \in Tokens /\ close \notin P!Layout /\ close \notin Opening
      /\ close # "nl" /\ close # "indent"
  BY MarksAreNoLayout, BracketsDiffer DEF Visible, Tokens, P!Layout
<1>2. s.out \in Seq(Tokens) /\ s.depth \in Nat /\ Laid(s.out, s.depth) /\ << >> \in Opens
  BY DEF Tidy, Tidied, Laid, Opens
<1>3. CASE s.pending # << >>
  <2>1. PICK open \in Opening : s.pending = <<open>>
    BY <1>3 DEF Tidy, Opens
  <2> DEFINE opened == Append(s.out, open)
             out    == Append(opened, close)
  <2>2. open \in Tokens /\ open \notin P!Layout /\ open \notin Closing
    BY MarksAreNoLayout, BracketsDiffer DEF Visible, Tokens
  <2>3. open # "nl" /\ open # "indent"
    BY <2>2 DEF P!Layout
  <2>4. Laid(opened, s.depth + 1) /\ EndsWith(opened, Opening)
    <3>1. /\ Lined(opened) /\ DepthAt(opened, Len(opened)) = s.depth + 1 - 0
          /\ opened \in Seq(Tokens) /\ opened # << >> /\ opened[Len(opened)] = open
      BY <1>2, <2>2, <2>3, AppendParts, AppendLined
    <3> HIDE DEF opened
    <3>2. QED
      BY <1>2, <3>1 DEF Laid, EndsWith
  <2>5. P!End(s, close) = P!Sink(out, s.depth, << >>)
    <3>1. s.out \o s.pending \o <<close>> = out
      BY <1>1, <1>2, <2>1, <2>2
    <3>2. QED
      BY <1>3, <3>1 DEF P!End
  <2> HIDE DEF opened
  <2>6. Tidied(out, s.depth)
    <3>1. /\ Lined(out) /\ DepthAt(out, Len(out)) = (s.depth + 1) + 0 - 1
          /\ out \in Seq(Tokens) /\ out[Len(out)] = close
      <4>1. opened \in Seq(Tokens)
        BY <2>4 DEF Laid
      <4>2. QED
        BY <1>1, <2>4, <4>1, AppendParts, AppendLined
    <3> HIDE DEF out
    <3>2. QED
      BY <1>1, <1>2, <3>1 DEF Tidied, Laid, EndsWith
  <2> HIDE DEF out
  <2>7. QED
    BY <1>2, <2>5, <2>6, TidySink
<1>4. CASE s.pending = << >>
  <2> DEFINE out == Append(P!NewlineAndIndent(s.out, n), close)
  <2>1. s.depth = n + 1 /\ s.depth - 1 = n
    BY <1>2, <1>4, OpensProperties
  <2>2. P!End(s, close) = P!Sink(out, n, << >>)
    BY <1>4, <2>1 DEF P!End
  <2>3. Laid(out, n)
    BY <2>1, CloseLaid DEF Tidy, Tidied
  <2>4. out[Len(out)] = close
    <3>1. P!NewlineAndIndent(s.out, n) \in Seq(Tokens)
      BY <1>2, NewlineParts
    <3>2. QED
      BY <1>1, <3>1, AppendParts
  <2> HIDE DEF out
  <2>5. Tidied(out, n)
    BY <1>1, <2>3, <2>4 DEF Tidied, EndsWith
  <2>6. QED
    BY <1>2, <2>2, <2>5, TidySink
<1>5. QED
  BY <1>3, <1>4

-----------------------------------------------------------------------------
(* Each action writes to the pretty sink by these methods.                 *)
LEMMA NewTidy == Tidy(P!New)
<1>1. << >> \in Seq(Tokens) /\ Len(<< >>) = 0 /\ << >> \in Opens
  BY OpensProperties
<1>2. DepthAt(<< >>, 0) = 0
  <2>1. Among(<< >>, Opening, 0) = {} /\ Among(<< >>, Closing, 0) = {}
    BY DEF Among
  <2>2. QED
    BY <2>1, DepthIs, FS_EmptySet
<1>3. Tidied(<< >>, 0)
  BY <1>1, <1>2 DEF Tidied, Laid, Lined, EndsWith
<1>4. QED
  BY <1>1, <1>3, TidySink DEF P!New

LEMMA MemberTidy ==
  ASSUME NEW s, Tidy(s), NEW key \in Words, NEW lead
  PROVE  Tidy(P!ObjectKey(IF lead THEN P!Separator(s) ELSE s, key))
BY SeparatorTidy, ObjectKeyTidy

LEMMA WriteMemberTidy ==
  ASSUME WInv, Tidy(pretty), Todo("object"), NEW lead, NEW prettyLead,
         WriteMember(lead, prettyLead)
  PROVE  Tidy(pretty')
<1>1. Inner.todo[1].key \in Words
  BY ObjectWriter DEF Field, KeyTokens
<1>2. pretty' = P!ObjectKey(IF prettyLead THEN P!Separator(pretty) ELSE pretty,
                            Inner.todo[1].key)
  BY Zenon DEF WriteMember
<1>3. QED
  BY <1>1, <1>2, MemberTidy

LEMMA NextTidy ==
  ASSUME WInv, Tidy(pretty), [Next]_vars
  PROVE  Tidy(pretty')
<1>1. CASE UNCHANGED vars
  BY <1>1 DEF vars
<1>2. CASE Finished
  BY <1>2 DEF Finished, vars
<1>3. CASE WriteScalar
  <2>1. job # << >> /\ job[1].kind = "scalar" /\ pretty' = P!WriteRaw(pretty, job[1].text)
    BY <1>3 DEF WriteScalar, Writing
  <2>2. QED
    BY <2>1, Stepping, NodeKinds, WriteRawTidy
<1>4. CASE WriteItems
  <2>1. \E open \in Opening : pretty' = P!Begin(pretty, open)
    BY <1>4, Zenon DEF WriteItems, Writing, Opening, Brace
  <2>2. QED
    BY <2>1, BeginTidy
<1>5. CASE NextItem
  <2>1. pretty' = IF Inner.first THEN pretty ELSE P!Separator(pretty)
    BY <1>5, Zenon DEF NextItem
  <2>2. QED
    BY <2>1, SeparatorTidy
<1>6. CASE NextEntry
  <2> DEFINE key == Inner.todo[1].key
  <2>1. stack # << >> /\ Inner.style = "map" /\ Inner.todo # << >>
    BY <1>6 DEF NextEntry, Todo
  <2>2. Inner.todo \in Seq(Entry)
    BY <2>1, Stepping, WriterKinds
  <2>3. key \in Words
    <3>1. Inner.todo[1] \in Entry
      BY <2>1, <2>2, FirstAndRest
    <3>2. QED
      BY <3>1 DEF Entry, KeyTokens
  <2>4. pretty' = P!ObjectKey(IF Inner.first THEN pretty ELSE P!Separator(pretty), key)
    BY <1>6, Zenon DEF NextEntry
  <2> HIDE DEF key
  <2>5. Tidy(P!ObjectKey(pretty, key)) /\ Tidy(P!ObjectKey(P!Separator(pretty), key))
    BY <2>3, SeparatorTidy, ObjectKeyTidy
  <2>6. QED
    BY <2>4, <2>5
<1>7. CASE WriteObject
  <2> DEFINE opened == P!Begin(pretty, Brace)
  <2>1. pretty' = IF job[1].tagged THEN P!WriteRaw(P!ObjectKey(opened, TagKey), TagName)
                  ELSE opened
    BY <1>7, Zenon DEF WriteObject, Brace
  <2>2. Tidy(opened)
    BY MarksAreNoLayout, BeginTidy
  <2> HIDE DEF opened
  <2>3. Tidy(P!WriteRaw(P!ObjectKey(opened, TagKey), TagName))
    BY <2>2, Names, ObjectKeyTidy, WriteRawTidy
  <2>4. QED
    BY <2>1, <2>2, <2>3
<1>8. CASE SkipField
  BY <1>8 DEF SkipField
<1>9. CASE ConditionalField
  <2>1. Todo("object")
    BY <1>9 DEF ConditionalField
  <2>2. pretty' = pretty \/ WriteMember(PlannedLead, PlannedLead)
    BY <1>9, Zenon DEF ConditionalField
  <2>3. QED
    BY <2>1, <2>2, WriteMemberTidy
<1>10. CASE LiteralField
  <2>1. Todo("object") /\ WriteMember(Inner.comma = "Always", ~ Inner.first)
    BY <1>10, Zenon DEF LiteralField
  <2>2. QED
    BY <2>1, WriteMemberTidy, Zenon
<1>11. CASE RenamedField
  <2>1. Todo("object") /\ WriteMember(PlannedLead, PlannedLead)
    BY <1>11, Zenon DEF RenamedField
  <2>2. QED
    BY <2>1, WriteMemberTidy
<1>12. CASE WriteVariant
  <2> DEFINE opened == P!Begin(pretty, Brace)
             tagged == P!WriteRaw(P!ObjectKey(opened, TagKey), TagName)
  <2>1. \/ pretty' = P!ObjectKey(opened, TagName)
        \/ pretty' = P!ObjectKey(P!Separator(tagged), ContentKey)
    BY <1>12, Zenon DEF WriteVariant, Brace
  <2>2. Tidy(opened)
    BY MarksAreNoLayout, BeginTidy
  <2> HIDE DEF opened
  <2>3. Tidy(tagged) /\ Tidy(P!ObjectKey(opened, TagName))
    BY <2>2, Names, ObjectKeyTidy, WriteRawTidy
  <2> HIDE DEF tagged
  <2>4. Tidy(P!ObjectKey(P!Separator(tagged), ContentKey))
    BY <2>3, Names, SeparatorTidy, ObjectKeyTidy
  <2>5. QED
    BY <2>1, <2>3, <2>4
<1>13. CASE Close
  <2>1. job = << >> /\ stack # << >> /\ pretty' = P!End(pretty, Inner.close)
    BY <1>13 DEF Close
  <2>2. Inner.close \in Closing
    BY <2>1, Stepping, WriterKinds
  <2>3. Len(stack) - 1 \in Nat
    BY <2>1, Stepping, Popped
  <2>4. pretty.depth + Len(pretty.pending) = (Len(stack) - 1) + 1
    BY <2>3, Stepping DEF Writes
  <2>5. QED
    BY <2>1, <2>2, <2>3, <2>4, EndTidy
<1>14. QED
  BY <1>1, <1>2, <1>3, <1>4, <1>5, <1>6, <1>7, <1>8, <1>9, <1>10, <1>11, <1>12, <1>13 DEF Next

(* What LinesAreIndented says of a line, where the text is laid out.       *)
LEMMA TidyIsIndented == Tidy(pretty) => LinesAreIndented
<1> SUFFICES ASSUME Tidy(pretty), NEW i \in Lines
             PROVE  LET n      == Indentation(i)
                        first  == IF i + n < Len(pretty.out) THEN pretty.out[i + n + 1] ELSE "none"
                        closes == first \in Closing
                    IN  /\ n + (IF closes THEN 1 ELSE 0) = DepthAt(pretty.out, i)
                        /\ closes => pretty.out[i - 1] \notin Opening
  BY Zenon DEF LinesAreIndented, Opening, Closing, Brace
<1> DEFINE out   == pretty.out
           Is(n) == /\ \A k \in 1..n : out[i + k] = "indent"
                    /\ i + n < Len(out) => out[i + n + 1] # "indent"
<1>1. out \in Seq(Tokens) /\ Lined(out) /\ i \in 1..Len(out) /\ out[i] = "nl" /\ Len(out) \in Nat
  BY DEF Tidy, Tidied, Laid, Lines
<1> HIDE DEF out
<1>2. PICK n : /\ Indent(out, i, n)
               /\ IF i + n = Len(out) THEN n = DepthAt(out, i)
                  ELSE Begins(out, i, n, out[i + n + 1])
  BY <1>1 DEF Lined, Line
<1>3. n \in 0..(Len(out) - i) /\ Is(n)
  BY <1>1, <1>2 DEF Indent, Begins
<1>4. ASSUME NEW m \in 0..(Len(out) - i), Is(m)
      PROVE  m = n
  <2>1. m \in Nat /\ n \in Nat /\ i + m <= Len(out) /\ i + n <= Len(out)
    BY <1>1, <1>3
  <2>2. CASE m < n
    <3>1. m + 1 \in 1..n /\ i + m < Len(out) /\ i + (m + 1) = i + m + 1
      BY <1>1, <2>1, <2>2
    <3>2. QED
      BY <1>3, <1>4, <3>1
  <2>3. CASE n < m
    <3>1. n + 1 \in 1..m /\ i + n < Len(out) /\ i + (n + 1) = i + n + 1
      BY <1>1, <2>1, <2>3
    <3>2. QED
      BY <1>3, <1>4, <3>1
  <2>4. QED
    BY <2>1, <2>2, <2>3
<1>5. Indentation(i) = n
  <2>1. Indentation(i) = CHOOSE m \in 0..(Len(out) - i) : Is(m)
    BY DEF Indentation, out
  <2> HIDE DEF Is
  <2>2. QED
    BY <1>3, <1>4, <2>1
<1>6. "none" \notin Closing
  BY Zenon DEF Closing
<1>7. CASE i + n = Len(out)
  <2>1. ~ (i + n < Len(out)) /\ n + 0 = DepthAt(out, i)
    BY <1>1, <1>2, <1>3, <1>7
  <2>2. QED
    BY <1>5, <1>6, <2>1 DEF out
<1>8. CASE i + n # Len(out)
  <2>1. i + n < Len(out) /\ Begins(out, i, n, out[i + n + 1])
    BY <1>1, <1>2, <1>3, <1>8
  <2>2. QED
    BY <1>5, <2>1 DEF Begins, out
<1>9. QED
  BY <1>7, <1>8

(* Every line of the pretty text is indented by the containers open at its *)
(* start, whatever is written and however deep it is                       *)
(* (LinesAreIndented).                                                     *)
THEOREM LinesAlwaysIndented == Spec => []LinesAreIndented
<1> DEFINE LInv == WInv /\ Tidy(pretty)
<1>1. Init => LInv
  BY WInvInitially, NewTidy DEF Init
<1>2. LInv /\ [Next]_vars => LInv'
  <2> SUFFICES ASSUME LInv, [Next]_vars PROVE LInv'
    OBVIOUS
  <2>1. WInv'
    BY WInvKept
  <2>2. Tidy(pretty')
    BY NextTidy
  <2>3. Tidy(pretty)' = Tidy(pretty')
    BY DEF Tidy, Tidied, Laid, Lined, Line, Indent, Begins, EndsWith
  <2>4. QED
    BY <2>1, <2>2, <2>3
<1>3. LInv => LinesAreIndented
  BY TidyIsIndented
<1>4. QED
  BY <1>1, <1>2, <1>3, PTL DEF Spec

-----------------------------------------------------------------------------
(* JSON: how long the text is bounds how deep it nests.                    *)
(* The tokens that are scalar values and keys.                             *)
Lexicon == [scalars |-> Words, keys |-> KeyTokens]

(* Whatever the depth allowed is, if the span has room for it.             *)
Parses(t, symbol, i, j) == \A d \in Nat : d >= j - i => Derived(Lexicon, t, <<symbol, i, j, d>>)

LEMMA ParsesByRule ==
  ASSUME NEW t, Len(t) \in Nat, NEW i \in 1..Len(t), NEW j \in 1..Len(t), NEW symbol \in Symbols,
         \A d \in Nat : d >= j - i => Rule(Lexicon, t, Language(Lexicon, t), symbol, i, j, d)
  PROVE  Parses(t, symbol, i, j)
BY LanguageIsClosed DEF Parses

LEMMA InLanguage ==
  ASSUME NEW t, Len(t) \in Nat, NEW symbol \in Symbols, NEW i \in 1..Len(t), NEW j \in 1..Len(t),
         Parses(t, symbol, i, j), NEW d \in Nat, d >= j - i
  PROVE  <<symbol, i, j, d>> \in Language(Lexicon, t)
BY DEF Parses, Language, AllSpans

LEMMA ScalarParses ==
  ASSUME NEW t, Len(t) \in Nat, NEW i \in 1..Len(t), t[i] \in Words
  PROVE  Parses(t, "value", i, i)
BY ParsesByRule DEF Rule, Symbols, Lexicon

LEMMA ContainerParses ==
  ASSUME NEW t, Len(t) \in Nat, NEW i \in 1..Len(t), NEW j \in 1..Len(t), i < j,
         NEW c \in Containers, t[i] = c.open, t[j] = c.close,
         j = i + 1 \/ Parses(t, c.body, i + 1, j - 1)
  PROVE  Parses(t, "value", i, j)
<1>1. ASSUME NEW d \in Nat, d >= j - i
      PROVE  Rule(Lexicon, t, Language(Lexicon, t), "value", i, j, d)
  <2>1. d > 0
    BY <1>1
  <2>2. j = i + 1 \/ <<c.body, i + 1, j - 1, d - 1>> \in Language(Lexicon, t)
    <3>1. SUFFICES ASSUME j # i + 1 PROVE <<c.body, i + 1, j - 1, d - 1>> \in Language(Lexicon, t)
      OBVIOUS
    <3>2. /\ i + 1 \in 1..Len(t) /\ j - 1 \in 1..Len(t) /\ d - 1 \in Nat
          /\ d - 1 >= (j - 1) - (i + 1)
      BY <1>1, <3>1
    <3>3. c.body \in Symbols /\ Parses(t, c.body, i + 1, j - 1)
      BY <3>1, ContainerParts
    <3>4. QED
      BY <3>2, <3>3, InLanguage
  <2>3. QED
    BY <2>1, <2>2, Zenon DEF Rule
<1>2. QED
  BY <1>1, ParsesByRule DEF Symbols

LEMMA ListParses ==
  ASSUME NEW t, Len(t) \in Nat, NEW i \in 1..Len(t), NEW j \in 1..Len(t), NEW l \in Containers,
         Parses(t, l.item, i, j)
  PROVE  Parses(t, l.body, i, j)
<1>1. ASSUME NEW d \in Nat, d >= j - i
      PROVE  Rule(Lexicon, t, Language(Lexicon, t), l.body, i, j, d)
  BY <1>1, ContainerParts, InLanguage DEF Rule
<1>2. QED
  BY <1>1, ContainerParts, ParsesByRule

LEMMA LongerParses ==
  ASSUME NEW t, Len(t) \in Nat, NEW l \in Containers, NEW i \in 1..Len(t), NEW k \in 1..Len(t),
         NEW j \in 1..Len(t), i < k, k < j,
         Parses(t, l.body, i, k - 1), t[k] = Comma, Parses(t, l.item, k + 1, j)
  PROVE  Parses(t, l.body, i, j)
<1>1. ASSUME NEW d \in Nat, d >= j - i
      PROVE  Derived(Lexicon, t, <<l.body, i, k - 1, d>>) /\ Derived(Lexicon, t, <<l.item, k + 1, j, d>>)
  BY <1>1 DEF Parses
<1>2. QED
  BY <1>1, OneMore DEF Parses

LEMMA MemberParses ==
  ASSUME NEW t, Len(t) \in Nat, NEW i \in 1..Len(t), NEW j \in 1..Len(t), i + 2 <= j,
         t[i] \in KeyTokens, t[i + 1] = Colon, Parses(t, "value", i + 2, j)
  PROVE  Parses(t, "member", i, j)
<1>1. ASSUME NEW d \in Nat, d >= j - i
      PROVE  Rule(Lexicon, t, Language(Lexicon, t), "member", i, j, d)
  <2>1. <<"value", i + 2, j, d>> \in Language(Lexicon, t)
    BY <1>1, InLanguage DEF Symbols
  <2>2. QED
    BY <2>1 DEF Rule, Lexicon
<1>2. QED
  BY <1>1, ParsesByRule DEF Symbols

LEMMA ParsesStays ==
  ASSUME NEW t, NEW v, Extends(v, t), NEW symbol, NEW i, NEW j, Parses(t, symbol, i, j)
  PROVE  Parses(v, symbol, i, j)
BY DerivedStays DEF Parses

-----------------------------------------------------------------------------
(* The text as the writers under way leave it.  p[k] is where the bracket  *)
(* of the k-th one stands.                                                 *)
Marks(w) == IF w.style = "array" THEN ArrayMarks ELSE ObjectMarks

(* Behind e an item or a member may begin, respectively a value.           *)
ItemDue(t, w, p, e) ==
  e = p \/ (p + 1 < e /\ t[e] = Comma /\ Parses(t, Marks(w).body, p + 1, e - 1))

Awaits(t, w, p, e) ==
  /\ e \in p..Len(t) /\ ~ w.first
  /\ IF w.style = "array" THEN ItemDue(t, w, p, e)
     ELSE /\ p + 2 <= e /\ t[e - 1] \in KeyTokens /\ t[e] = Colon
          /\ ItemDue(t, w, p, e - 2)

(* What has been written up to the end is all there is, or more may come.  *)
Whole(t, w, p) ==
  IF w.first THEN Len(t) = p ELSE p < Len(t) /\ Parses(t, Marks(w).body, p + 1, Len(t))

Stands(t, w, p, busy) == IF busy THEN Awaits(t, w, p, Len(t)) ELSE Whole(t, w, p)

ValueDue(t, writers, p, k, e) == IF k = 0 THEN e = 0 ELSE Awaits(t, writers[k], p[k], e)

StandsOpen(t, w, i) == i \in 1..Len(t) /\ t[i] = Marks(w).open /\ w.close = Marks(w).close

Levels(t, writers, p) ==
  \A k \in 1..Len(writers) :
    StandsOpen(t, writers[k], p[k]) /\ ValueDue(t, writers, p, k - 1, p[k] - 1)

Settled(t, writers, p) ==
  IF Len(writers) = 0 THEN Len(t) # 0 /\ Parses(t, "value", 1, Len(t))
  ELSE Whole(t, Top(writers), p[Len(writers)])

Shaped(t, writers, p, busy) ==
  /\ Levels(t, writers, p)
  /\ IF busy THEN ValueDue(t, writers, p, Len(writers), Len(t)) ELSE Settled(t, writers, p)

WellFormed(busy, writers, t) == \E p \in [Nat -> Nat] : Shaped(t, writers, p, busy)

LEMMA MarksParts ==
  ASSUME NEW w
  PROVE  /\ Marks(w) \in Containers /\ Marks(w).body \in Symbols
         /\ w.style = "array" => Marks(w).item = "value"
         /\ w.style # "array" => Marks(w).item = "member"
BY ContainerParts DEF Marks, Containers, ArrayMarks, ObjectMarks

LEMMA AwaitsStays ==
  ASSUME NEW t, NEW v, Extends(v, t), NEW w, NEW p \in 1..Len(t), NEW e, Awaits(t, w, p, e)
  PROVE  Awaits(v, w, p, e)
<1>1. Len(t) \in Nat /\ Len(v) \in Nat /\ Len(t) <= Len(v) /\ \A k \in 1..Len(t) : v[k] = t[k]
  BY DEF Extends
<1>2. e \in p..Len(t) /\ e \in p..Len(v) /\ ~ w.first
  BY <1>1 DEF Awaits
<1>3. ASSUME NEW i \in p..Len(t), ItemDue(t, w, p, i)
      PROVE  ItemDue(v, w, p, i)
  BY <1>1, <1>3, ParsesStays DEF ItemDue
<1>4. CASE w.style = "array"
  BY <1>2, <1>3, <1>4 DEF Awaits
<1>5. CASE w.style # "array"
  <2>1. /\ p + 2 <= e /\ t[e - 1] \in KeyTokens /\ t[e] = Colon /\ ItemDue(t, w, p, e - 2)
    BY <1>5 DEF Awaits
  <2>2. e - 2 \in p..Len(t) /\ e - 1 \in 1..Len(t) /\ e \in 1..Len(t)
    BY <1>1, <1>2, <2>1
  <2>3. ItemDue(v, w, p, e - 2) /\ v[e - 1] = t[e - 1] /\ v[e] = t[e]
    BY <1>1, <1>3, <2>1, <2>2
  <2>4. QED
    BY <1>2, <1>5, <2>1, <2>3 DEF Awaits
<1>6. QED
  BY <1>4, <1>5

(* A value written where one is due.                                       *)
LEMMA ValueFillsIn ==
  ASSUME NEW t, Len(t) \in Nat, NEW w, NEW p \in 1..Len(t), NEW e, Awaits(t, w, p, e),
         e < Len(t), Parses(t, "value", e + 1, Len(t))
  PROVE  Whole(t, w, p)
<1> DEFINE n == Len(t)
<1>1. e \in p..n /\ e \in Nat /\ ~ w.first /\ n \in Nat /\ n \in 1..n /\ e + 1 \in 1..n
  BY DEF Awaits
<1>2. ASSUME NEW i \in p..e, ItemDue(t, w, p, i), Parses(t, Marks(w).item, i + 1, n)
      PROVE  Parses(t, Marks(w).body, p + 1, n)
  <2>1. i \in 1..n /\ i < n /\ p + 1 \in 1..n /\ i + 1 \in 1..n
    BY <1>1
  <2>2. CASE i = p
    BY <1>1, <1>2, <2>1, <2>2, MarksParts, ListParses
  <2>3. CASE i # p
    <3>1. p + 1 < i /\ t[i] = Comma /\ Parses(t, Marks(w).body, p + 1, i - 1)
      BY <1>2, <2>3 DEF ItemDue
    <3>2. QED
      BY <1>1, <1>2, <2>1, <3>1, MarksParts, LongerParses
  <2>4. QED
    BY <2>2, <2>3
<1>3. CASE w.style = "array"
  <2>1. ItemDue(t, w, p, e) /\ Marks(w).item = "value"
    BY <1>3, MarksParts DEF Awaits
  <2>2. QED
    BY <1>1, <1>2, <2>1 DEF Whole
<1>4. CASE w.style # "array"
  <2>1. /\ p + 2 <= e /\ t[e - 1] \in KeyTokens /\ t[e] = Colon /\ ItemDue(t, w, p, e - 2)
        /\ Marks(w).item = "member"
    BY <1>4, MarksParts DEF Awaits
  <2> DEFINE i == e - 1
  <2>2. i \in 1..n /\ i + 2 <= n /\ i + 1 = e /\ i + 2 = e + 1 /\ e - 2 \in p..e /\ e - 2 + 1 = i
    BY <1>1, <2>1
  <2> HIDE DEF i
  <2>3. t[i] \in KeyTokens /\ t[i + 1] = Colon /\ Parses(t, "value", i + 2, n)
    BY <2>1, <2>2 DEF i
  <2>4. Parses(t, "member", i, n)
    BY <1>1, <2>2, <2>3, MemberParses
  <2>5. Parses(t, Marks(w).body, p + 1, n)
    BY <1>2, <2>1, <2>2, <2>4
  <2>6. p < n
    BY <1>1, <2>1
  <2>7. QED
    BY <1>1, <2>5, <2>6 DEF Whole
<1>5. QED
  BY <1>3, <1>4

LEMMA LevelsStay ==
  ASSUME NEW t, NEW v, Extends(v, t), NEW writers, Len(writers) \in Nat, NEW p, Levels(t, writers, p)
  PROVE  Levels(v, writers, p)
<1>1. Len(t) \in Nat /\ Len(v) \in Nat /\ Len(t) <= Len(v) /\ \A k \in 1..Len(t) : v[k] = t[k]
  BY DEF Extends
<1>2. ASSUME NEW k \in 1..Len(writers)
      PROVE  /\ StandsOpen(v, writers[k], p[k])
             /\ ValueDue(v, writers, p, k - 1, p[k] - 1)
  <2>1. StandsOpen(t, writers[k], p[k]) /\ ValueDue(t, writers, p, k - 1, p[k] - 1)
    BY <1>2 DEF Levels
  <2>2. StandsOpen(v, writers[k], p[k])
    BY <1>1, <2>1 DEF StandsOpen
  <2>3. CASE k = 1
    BY <2>1, <2>2, <2>3 DEF ValueDue
  <2>4. CASE k # 1
    <3>1. k - 1 \in 1..Len(writers) /\ k - 1 # 0
      BY <2>4
    <3>2. p[k - 1] \in 1..Len(t)
      BY <3>1 DEF Levels, StandsOpen
    <3>3. Awaits(t, writers[k - 1], p[k - 1], p[k] - 1)
      BY <2>1, <3>1 DEF ValueDue
    <3>4. QED
      BY <2>2, <3>1, <3>2, <3>3, AwaitsStays DEF ValueDue
  <2>5. QED
    BY <2>3, <2>4
<1>3. QED
  BY <1>2 DEF Levels

LEMMA DueStays ==
  ASSUME NEW t, NEW v, Extends(v, t), NEW writers, Len(writers) \in Nat, NEW p, Levels(t, writers, p),
         NEW e, ValueDue(t, writers, p, Len(writers), e)
  PROVE  ValueDue(v, writers, p, Len(writers), e)
<1>1. CASE Len(writers) = 0
  BY <1>1 DEF ValueDue
<1>2. CASE Len(writers) # 0
  <2>1. p[Len(writers)] \in 1..Len(t)
    <3>1. Len(writers) \in 1..Len(writers)
      BY <1>2
    <3>2. QED
      BY <3>1 DEF Levels, StandsOpen
  <2>2. QED
    BY <1>2, <2>1, AwaitsStays DEF ValueDue
<1>3. QED
  BY <1>1, <1>2

LEMMA ValueSettles ==
  ASSUME NEW t, Len(t) \in Nat, NEW writers, Len(writers) \in Nat, NEW p, Levels(t, writers, p), NEW e,
         ValueDue(t, writers, p, Len(writers), e), e < Len(t), Parses(t, "value", e + 1, Len(t))
  PROVE  Settled(t, writers, p)
<1>1. CASE Len(writers) = 0
  BY <1>1 DEF ValueDue, Settled
<1>2. CASE Len(writers) # 0
  <2> DEFINE n == Len(writers)
  <2>1. n \in 1..n
    BY <1>2
  <2>2. p[n] \in 1..Len(t)
    BY <2>1 DEF Levels, StandsOpen
  <2>3. Awaits(t, writers[n], p[n], e)
    BY <1>2 DEF ValueDue
  <2>4. Whole(t, writers[n], p[n])
    BY <2>2, <2>3, ValueFillsIn
  <2>5. QED
    BY <1>2, <2>4 DEF Settled, Top
<1>3. QED
  BY <1>1, <1>2

LEMMA OneAbove ==
  ASSUME NEW n \in Nat, NEW m, m = n + 1
  PROVE  /\ m \in Nat /\ m # 0 /\ m - 1 = n /\ m \in 1..m /\ n < m
         /\ \A k \in 1..m : k \in 1..n \/ k = m
         /\ \A k \in 1..n : k \in 1..m /\ k \in Nat /\ k # m /\ k < m
OBVIOUS

LEMMA RoomAbove ==
  ASSUME NEW n \in Nat, NEW m \in Nat, n < m
  PROVE  n + 1 \in Nat /\ n + 1 \in 1..m /\ n + 1 - 1 = n
OBVIOUS

LEMMA OneBelow ==
  ASSUME NEW n \in Nat
  PROVE  \A k \in 1..n : k - 1 = 0 \/ (k - 1 \in 1..n /\ k - 1 # n)
OBVIOUS

LEMMA AppendExtends ==
  ASSUME NEW S, NEW t \in Seq(S), NEW a \in S
  PROVE  /\ Extends(Append(t, a), t) /\ Len(Append(t, a)) = Len(t) + 1
         /\ Append(t, a)[Len(t) + 1] = a
BY DEF Extends

LEMMA ScalarShaped ==
  ASSUME NEW writers \in Seq(Writers), NEW t \in Seq(Tokens), NEW text \in Words,
         WellFormed(TRUE, writers, t)
  PROVE  WellFormed(FALSE, writers, Append(t, text))
<1> DEFINE v == Append(t, text)
<1>1. /\ Extends(v, t) /\ Len(v) = Len(t) + 1 /\ v[Len(v)] = text
      /\ Len(t) \in Nat /\ Len(v) \in Nat /\ Len(writers) \in Nat
  BY VisibleIsNoLayout, AppendExtends
<1>2. PICK p \in [Nat -> Nat] : Shaped(t, writers, p, TRUE)
  BY DEF WellFormed
<1> HIDE DEF v
<1>3. Levels(v, writers, p) /\ ValueDue(v, writers, p, Len(writers), Len(t))
  BY <1>1, <1>2, LevelsStay, DueStays DEF Shaped
<1>4. Parses(v, "value", Len(t) + 1, Len(v))
  <2>1. Len(v) \in 1..Len(v)
    BY <1>1
  <2>2. QED
    BY <1>1, <2>1, ScalarParses
<1>5. Settled(v, writers, p)
  <2>1. Len(t) < Len(v)
    BY <1>1
  <2>2. QED
    BY <1>1, <1>3, <1>4, <2>1, ValueSettles
<1>6. QED
  BY <1>3, <1>5 DEF WellFormed, Shaped, v

LEMMA PopShaped ==
  ASSUME NEW writers \in Seq(Writers), writers # << >>, NEW t \in Seq(Tokens),
         WellFormed(FALSE, writers, t), Top(writers).close \in Closing
  PROVE  WellFormed(FALSE, SubSeq(writers, 1, Len(writers) - 1), Append(t, Top(writers).close))
<1> DEFINE n == Len(writers)
           m == n - 1
           w == Top(writers)
           v == Append(t, w.close)
           rest == SubSeq(writers, 1, m)
<1>1. w.close \in Tokens
  BY DEF Tokens, Visible
<1>2. /\ Extends(v, t) /\ Len(v) = Len(t) + 1 /\ v[Len(v)] = w.close
      /\ Len(t) \in Nat /\ Len(v) \in Nat
  BY <1>1, AppendExtends
<1>3. /\ n \in Nat /\ m \in Nat /\ n = m + 1 /\ Len(rest) = m /\ n \in 1..n /\ n # 0
      /\ \A k \in 1..m : rest[k] = writers[k]
  <2>1. n \in Nat /\ n # 0
    OBVIOUS
  <2>2. m \in Nat /\ Len(rest) = m
    BY Popped
  <2>3. \A k \in 1..m : rest[k] = writers[k]
    BY <2>1, <2>2
  <2>4. QED
    BY <2>1, <2>2, <2>3
<1>4. PICK p \in [Nat -> Nat] : Shaped(t, writers, p, FALSE)
  BY DEF WellFormed
<1>5. Levels(v, writers, p) /\ Whole(t, w, p[n])
  BY <1>2, <1>3, <1>4, LevelsStay DEF Shaped, Settled
<1>6. w = writers[n]
  BY DEF Top
<1> HIDE DEF n, m, v, w, rest
<1>7. StandsOpen(t, w, p[n]) /\ ValueDue(v, writers, p, m, p[n] - 1)
  BY <1>3, <1>4, <1>5, <1>6 DEF Shaped, Levels, n
<1>8. Levels(v, rest, p)
  <2>1. ASSUME NEW k \in 1..m
        PROVE  StandsOpen(v, rest[k], p[k]) /\ ValueDue(v, rest, p, k - 1, p[k] - 1)
    <3>1. StandsOpen(v, writers[k], p[k]) /\ ValueDue(v, writers, p, k - 1, p[k] - 1)
      <4>1. k \in 1..n
        BY <1>3
      <4>2. QED
        BY <1>5, <4>1 DEF Levels, n
    <3>2. k - 1 = 0 \/ k - 1 \in 1..m
      BY <1>3
    <3>3. QED
      BY <1>3, <3>1, <3>2 DEF ValueDue
  <2>2. QED
    BY <1>3, <2>1 DEF Levels
<1>9. ValueDue(v, rest, p, m, p[n] - 1)
  <2>1. m = 0 \/ m \in 1..m
    BY <1>3
  <2>2. QED
    BY <1>3, <1>7, <2>1 DEF ValueDue
<1> DEFINE q == p[n]
<1>10. q \in 1..Len(t) /\ t[q] = Marks(w).open /\ w.close = Marks(w).close
  BY <1>7 DEF StandsOpen
<1> HIDE DEF q
<1>11. Parses(v, "value", q, Len(v))
  <2>1. q \in 1..Len(v) /\ Len(v) \in 1..Len(v) /\ q < Len(v) /\ Len(v) - 1 = Len(t)
    <3>1. Len(v) = Len(t) + 1 /\ Len(t) \in Nat /\ q \in 1..Len(t)
      BY <1>2, <1>10
    <3>2. QED
      BY <3>1, OneAbove, Zenon
  <2>2. v[q] = Marks(w).open /\ v[Len(v)] = Marks(w).close
    BY <1>2, <1>10 DEF Extends
  <2>3. Len(v) = q + 1 \/ Parses(v, Marks(w).body, q + 1, Len(v) - 1)
    <3>1. CASE w.first
      BY <1>2, <1>5, <3>1 DEF Whole, q
    <3>2. CASE ~ w.first
      BY <1>2, <1>5, <2>1, <3>2, ParsesStays DEF Whole, q
    <3>3. QED
      BY <3>1, <3>2
  <2>4. QED
    BY <1>2, <2>1, <2>2, <2>3, MarksParts, ContainerParses
<1>12. Settled(v, rest, p)
  <2>1. q - 1 < Len(v) /\ q - 1 + 1 = q
    BY <1>2, <1>10
  <2>2. ValueDue(v, rest, p, Len(rest), q - 1)
    BY <1>3, <1>9 DEF q
  <2>3. QED
    BY <1>2, <1>3, <1>8, <1>11, <2>1, <2>2, ValueSettles
<1>13. WellFormed(FALSE, rest, v)
  BY <1>8, <1>12 DEF WellFormed, Shaped
<1>14. QED
  BY <1>13 DEF rest, m, n, v, w

LEMMA PushShaped ==
  ASSUME NEW writers \in Seq(Writers), NEW t \in Seq(Tokens), WellFormed(TRUE, writers, t),
         NEW v, Extends(v, t), Len(t) < Len(v), NEW w \in Writers,
         v[Len(t) + 1] = Marks(w).open, w.close = Marks(w).close, NEW busy \in BOOLEAN,
         Stands(v, w, Len(t) + 1, busy)
  PROVE  WellFormed(busy, Append(writers, w), v)
<1> DEFINE n == Len(writers)
           m == n + 1
           all == Append(writers, w)
           q == Len(t) + 1
<1>1. PICK p \in [Nat -> Nat] : Shaped(t, writers, p, TRUE)
  BY DEF WellFormed
<1>2. /\ n \in Nat /\ m \in Nat /\ m # 0 /\ Len(all) = m /\ all[m] = w
      /\ \A k \in 1..n : all[k] = writers[k]
  <2>1. n \in Nat
    BY LenProperties
  <2>2. Len(all) = m /\ all[m] = w /\ \A k \in 1..n : all[k] = writers[k]
    BY AppendProperties
  <2>3. QED
    BY <2>1, <2>2, OneAbove, Zenon
<1>3. q \in Nat /\ q \in 1..Len(v) /\ q - 1 = Len(t) /\ Len(v) \in Nat
  <2>1. Len(t) \in Nat /\ Len(v) \in Nat
    BY DEF Extends
  <2>2. Len(t) + 1 \in 1..Len(v)
    BY <2>1, RoomAbove, Zenon
  <2>3. Len(t) + 1 \in Nat /\ Len(t) + 1 - 1 = Len(t)
    <3>1. \A n1 \in Nat : n1 + 1 \in Nat /\ n1 + 1 - 1 = n1
      OBVIOUS
    <3> HIDE DEF n, m, all, q
    <3>2. QED
      BY <2>1, <3>1
  <2>4. QED
    BY <2>1, <2>2, <2>3
<1> DEFINE r == [p EXCEPT ![m] = q]
<1>4. r \in [Nat -> Nat] /\ r[m] = q /\ \A k \in 1..n : r[k] = p[k]
  <2>1. p \in [Nat -> Nat] /\ \A k \in 1..n : k \in Nat /\ k # m
    BY <1>1, <1>2, OneAbove, Zenon
  <2> HIDE DEF m, q
  <2>2. QED
    BY <1>2, <1>3, <2>1
<1>5. Levels(v, writers, p) /\ ValueDue(v, writers, p, n, Len(t))
  BY <1>1, <1>2, LevelsStay, DueStays DEF Shaped
<1> HIDE DEF m, all, q, r
<1>6. \A e : \A k \in 0..n : ValueDue(v, writers, p, k, e) <=> ValueDue(v, all, r, k, e)
  <2>1. \A k \in 0..n : k = 0 \/ k \in 1..n
    BY <1>2
  <2>2. QED
    BY <1>2, <1>4, <2>1 DEF ValueDue
<1>7. Levels(v, all, r)
  <2>1. ASSUME NEW k \in 1..m
        PROVE  StandsOpen(v, all[k], r[k]) /\ ValueDue(v, all, r, k - 1, r[k] - 1)
    <3>1. CASE k \in 1..n
      <4>1. StandsOpen(v, writers[k], p[k]) /\ ValueDue(v, writers, p, k - 1, p[k] - 1)
        BY <1>5, <3>1 DEF Levels
      <4>2. k - 1 \in 0..n
        BY <1>2, <3>1
      <4>3. QED
        BY <1>2, <1>4, <1>6, <3>1, <4>1, <4>2
    <3>2. CASE k = m
      <4>1. k - 1 = n /\ n \in 0..n
        BY <1>2, <3>2 DEF m
      <4>2. ValueDue(v, all, r, k - 1, r[k] - 1)
        BY <1>3, <1>4, <1>5, <1>6, <3>2, <4>1
      <4>3. StandsOpen(v, all[k], r[k])
        BY <1>2, <1>3, <1>4, <3>2 DEF StandsOpen, q
      <4>4. QED
        BY <4>2, <4>3
    <3>3. QED
      <4>1. k \in 1..n \/ k = m
        BY <1>2, OneAbove, Zenon DEF m
      <4>2. QED
        BY <3>1, <3>2, <4>1
  <2>2. QED
    BY <1>2, <2>1 DEF Levels
<1>8. IF busy THEN ValueDue(v, all, r, m, Len(v)) ELSE Settled(v, all, r)
  BY <1>2, <1>4 DEF ValueDue, Settled, Stands, Top, q
<1>9. Shaped(v, all, r, busy)
  BY <1>2, <1>7, <1>8 DEF Shaped
<1>10. QED
  BY <1>4, <1>9 DEF WellFormed, all

LEMMA ReplaceShaped ==
  ASSUME NEW writers \in Seq(Writers), writers # << >>, NEW t, WellFormed(FALSE, writers, t),
         NEW v, Extends(v, t), NEW w \in Writers,
         w.style = Top(writers).style, w.close = Top(writers).close, NEW busy \in BOOLEAN,
         \A q \in 1..Len(t) : Whole(t, Top(writers), q) => Stands(v, w, q, busy)
  PROVE  WellFormed(busy, [writers EXCEPT ![Len(writers)] = w], v)
<1> DEFINE n == Len(writers)
           all == [writers EXCEPT ![n] = w]
<1>1. PICK p \in [Nat -> Nat] : Shaped(t, writers, p, FALSE)
  BY DEF WellFormed
<1>2. /\ n \in Nat /\ n # 0 /\ n \in 1..n /\ Len(all) = n /\ all[n] = w
      /\ \A k \in 1..n : k # n => all[k] = writers[k]
  OBVIOUS
<1>3. Top(writers) = writers[n] /\ Top(all) = w
  BY <1>2 DEF Top
<1>4. Levels(v, writers, p) /\ Whole(t, Top(writers), p[n]) /\ p[n] \in 1..Len(t)
  BY <1>1, <1>2, <1>3, LevelsStay DEF Shaped, Settled, Levels, StandsOpen
<1> HIDE DEF all
<1>5. Stands(v, w, p[n], busy)
  BY <1>4
<1>6. Levels(v, all, p)
  <2>1. ASSUME NEW k \in 1..n
        PROVE  StandsOpen(v, all[k], p[k]) /\ ValueDue(v, all, p, k - 1, p[k] - 1)
    <3>1. StandsOpen(v, writers[k], p[k]) /\ ValueDue(v, writers, p, k - 1, p[k] - 1)
      BY <1>4 DEF Levels
    <3>2. k - 1 = 0 \/ (k - 1 \in 1..n /\ k - 1 # n)
      BY <1>2, OneBelow, Zenon
    <3>3. ValueDue(v, all, p, k - 1, p[k] - 1)
      BY <1>2, <3>1, <3>2 DEF ValueDue
    <3>4. StandsOpen(v, all[k], p[k])
      <4>1. CASE k = n
        BY <1>2, <1>3, <3>1, <4>1 DEF StandsOpen, Marks
      <4>2. CASE k # n
        BY <1>2, <3>1, <4>2
      <4>3. QED
        BY <4>1, <4>2
    <3>5. QED
      BY <3>3, <3>4
  <2>2. QED
    BY <1>2, <2>1 DEF Levels
<1>7. Shaped(v, all, p, busy)
  BY <1>2, <1>3, <1>5, <1>6 DEF Shaped, ValueDue, Settled, Stands
<1>8. QED
  BY <1>7 DEF WellFormed, all

-----------------------------------------------------------------------------
(* What the actions write.                                                 *)
LEMMA MarksFollowStyle ==
  ASSUME NEW w, NEW top, w.style = top.style
  PROVE  Marks(w) = Marks(top)
BY DEF Marks

Led(t, first) == IF first THEN t ELSE Append(t, Comma)

Keyed(t, key) == t \o <<key, Colon>>

LEMMA Separated ==
  ASSUME NEW t \in Seq(Tokens), NEW top, NEW first \in BOOLEAN, first = top.first,
         NEW w, w.style = top.style, NEW u, u = Led(t, first)
  PROVE  /\ u \in Seq(Tokens) /\ Extends(u, t)
         /\ \A q \in 1..Len(t) : Whole(t, top, q) => q <= Len(u) /\ ItemDue(u, w, q, Len(u))
<1>1. Len(t) \in Nat /\ Comma \in Tokens
  BY DEF Tokens, Visible
<1>2. CASE first
  <2>1. u = t
    BY <1>2 DEF Led
  <2>2. Extends(t, t)
    BY <1>1 DEF Extends
  <2>3. \A q \in 1..Len(t) : Whole(t, top, q) => q = Len(t)
    BY <1>2 DEF Whole
  <2>4. QED
    BY <1>1, <2>1, <2>2, <2>3 DEF ItemDue
<1>3. CASE ~ first
  <2>1. u = Append(t, Comma)
    BY <1>3 DEF Led
  <2>2. u \in Seq(Tokens) /\ Extends(u, t) /\ Len(u) = Len(t) + 1 /\ u[Len(u)] = Comma
    BY <1>1, <2>1, AppendExtends
  <2>3. ASSUME NEW q \in 1..Len(t), Whole(t, top, q)
        PROVE  q <= Len(u) /\ ItemDue(u, w, q, Len(u))
    <3>1. q < Len(t) /\ Parses(t, Marks(w).body, q + 1, Len(t))
      BY <1>3, <2>3, MarksFollowStyle DEF Whole
    <3>2. Parses(u, Marks(w).body, q + 1, Len(t))
      BY <2>2, <3>1, ParsesStays
    <3>3. q + 1 < Len(u) /\ Len(u) - 1 = Len(t) /\ q <= Len(u)
      BY <1>1, <2>2, <3>1
    <3>4. QED
      BY <2>2, <3>2, <3>3 DEF ItemDue
  <2>4. QED
    BY <2>2, <2>3
<1>4. QED
  BY <1>2, <1>3

LEMMA ExtendsOn ==
  ASSUME NEW t, NEW u, NEW v, Extends(u, t), Extends(v, u)
  PROVE  Extends(v, t)
BY DEF Extends

LEMMA KeyWritten ==
  ASSUME NEW u \in Seq(Tokens), NEW key \in KeyTokens, NEW v, v = Keyed(u, key)
  PROVE  /\ Extends(v, u) /\ Len(u) \in Nat /\ Len(v) = Len(u) + 2
         /\ v[Len(u) + 1] = key /\ v[Len(u) + 2] = Colon
<1>1. key \in Tokens /\ Colon \in Tokens
  BY VisibleIsNoLayout DEF KeyTokens, Tokens, Visible
<1>2. QED
  BY <1>1 DEF Extends, Keyed

LEMMA CommaThenKey ==
  ASSUME NEW t \in Seq(Tokens), NEW first \in BOOLEAN, NEW key
  PROVE  t \o (IF first THEN << >> ELSE <<Comma>>) \o <<key, Colon>> = Keyed(Led(t, first), key)
<1>1. CASE first
  BY <1>1, ConcatEmptySeq DEF Keyed, Led
<1>2. CASE ~ first
  <2>1. Comma \in Tokens
    BY DEF Tokens, Visible
  <2>2. Append(t, Comma) = t \o <<Comma>>
    BY <2>1
  <2>3. QED
    BY <1>2, <2>2 DEF Keyed, Led
<1>3. QED
  BY <1>1, <1>2

LEMMA MemberBegun ==
  ASSUME NEW t \in Seq(Tokens), NEW top, NEW first \in BOOLEAN, first = top.first,
         NEW w, w.style = top.style, w.style # "array", ~ w.first,
         NEW key \in KeyTokens, NEW u, u = Led(t, first), NEW v, v = Keyed(u, key)
  PROVE  /\ Extends(v, t)
         /\ \A q \in 1..Len(t) : Whole(t, top, q) => Stands(v, w, q, TRUE)
<1>3. /\ u \in Seq(Tokens) /\ Extends(u, t)
      /\ \A q \in 1..Len(t) : Whole(t, top, q) => q <= Len(u) /\ ItemDue(u, w, q, Len(u))
  BY Separated
<1>4. /\ Extends(v, u) /\ Len(u) \in Nat /\ Len(v) = Len(u) + 2
      /\ v[Len(u) + 1] = key /\ v[Len(u) + 2] = Colon
  BY <1>3, KeyWritten
<1>5. Extends(v, t)
  BY <1>3, <1>4, ExtendsOn
<1>6. ASSUME NEW q \in 1..Len(t), Whole(t, top, q)
      PROVE  Awaits(v, w, q, Len(v))
  <2>1. q <= Len(u) /\ ItemDue(u, w, q, Len(u))
    BY <1>3, <1>6
  <2>2. ItemDue(v, w, q, Len(u))
    <3>1. CASE q = Len(u)
      BY <3>1 DEF ItemDue
    <3>2. CASE q # Len(u)
      <4>1. /\ q + 1 < Len(u) /\ u[Len(u)] = Comma
            /\ Parses(u, Marks(w).body, q + 1, Len(u) - 1)
        BY <2>1, <3>2 DEF ItemDue
      <4>2. v[Len(u)] = u[Len(u)]
        <5>1. Len(u) \in 1..Len(u)
          BY <1>4, <4>1
        <5>2. QED
          BY <1>4, <5>1 DEF Extends
      <4>3. QED
        BY <1>4, <4>1, <4>2, ParsesStays DEF ItemDue
    <3>3. QED
      BY <3>1, <3>2
  <2>3. /\ q + 2 <= Len(v) /\ Len(v) \in q..Len(v) /\ Len(v) - 1 = Len(u) + 1
        /\ Len(v) - 2 = Len(u)
    BY <1>4, <2>1
  <2>4. QED
    BY <1>4, <2>2, <2>3 DEF Awaits
<1>7. QED
  BY <1>5, <1>6 DEF Stands

LEMMA TagParses ==
  ASSUME NEW v, Len(v) \in Nat, NEW q \in Nat, q + 3 <= Len(v), q # 0,
         v[q + 1] \in KeyTokens, v[q + 2] = Colon, v[q + 3] \in Words
  PROVE  Parses(v, "members", q + 1, q + 3)
<1> DEFINE i == q + 1
           j == q + 3
<1>1. i \in 1..Len(v) /\ j \in 1..Len(v) /\ i + 2 = j /\ i + 2 <= j /\ i + 1 = q + 2
  OBVIOUS
<1> HIDE DEF i, j
<1>2. v[i] \in KeyTokens /\ v[i + 1] = Colon /\ v[j] \in Words
  BY <1>1 DEF i, j
<1>3. Parses(v, "value", i + 2, j)
  BY <1>1, <1>2, ScalarParses
<1>4. Parses(v, "member", i, j)
  BY <1>1, <1>2, <1>3, MemberParses
<1>5. ObjectMarks \in Containers /\ ObjectMarks.body = "members" /\ ObjectMarks.item = "member"
  BY DEF Containers, ObjectMarks
<1>6. Parses(v, "members", i, j)
  BY <1>1, <1>4, <1>5, ListParses
<1>7. QED
  BY <1>6 DEF i, j

-----------------------------------------------------------------------------
(* Each action leaves the text well formed.                                *)
Json == WellFormed(job # << >>, stack, plain)

LEMMA UnderShape ==
  ASSUME NEW style, NEW todo, NEW comma, NEW first, NEW close
  PROVE  /\ Under(style, todo, comma, first, close).style = style
         /\ Under(style, todo, comma, first, close).first = first
         /\ Under(style, todo, comma, first, close).close = close
BY DEF Under

LEMMA JsonStep ==
  /\ job' = << >> /\ WellFormed(FALSE, stack', plain') => Json'
  /\ job' # << >> /\ WellFormed(TRUE, stack', plain') => Json'
<1>1. Json' = WellFormed(job' # << >>, stack', plain')
  BY DEF Json
<1>2. QED
  BY <1>1

LEMMA JsonNow ==
  ASSUME Json
  PROVE  /\ job = << >> => WellFormed(FALSE, stack, plain)
         /\ job # << >> => WellFormed(TRUE, stack, plain)
BY DEF Json

LEMMA ScalarJson == WInv /\ Json /\ WriteScalar => Json'
<1> SUFFICES ASSUME WInv, Json, WriteScalar PROVE Json'
  OBVIOUS
<1>1. /\ job # << >> /\ job[1].kind = "scalar" /\ job' = << >> /\ stack' = stack
      /\ plain' = Append(plain, job[1].text)
  BY DEF WriteScalar, Writing
<1>2. /\ job[1].text \in Words /\ stack \in Seq(Writers) /\ plain \in Seq(Tokens)
      /\ WellFormed(TRUE, stack, plain)
  BY <1>1, Stepping, NodeKinds, JsonNow
<1>3. WellFormed(FALSE, stack', plain')
  BY <1>1, <1>2, ScalarShaped
<1>4. QED
  BY <1>1, <1>3, JsonStep

LEMMA ItemsJson == WInv /\ Json /\ WriteItems => Json'
<1> SUFFICES ASSUME WInv, Json, WriteItems PROVE Json'
  OBVIOUS
<1> DEFINE style == job[1].kind
           open == Marks([style |-> style]).open
           close == Marks([style |-> style]).close
           w == Under(style, job[1].items, "Never", TRUE, close)
<1>1. job # << >> /\ job' = << >> /\ style \in {"array", "map"}
  BY DEF WriteItems, Writing
<1>2. plain' = Append(plain, open) /\ stack' = Append(stack, w)
  <2>1. CASE style = "array"
    BY <1>1, <2>1, Zenon DEF WriteItems, Writing, Marks, ArrayMarks
  <2>2. CASE style = "map"
    <3>1. style # "array"
      BY <2>2
    <3>2. QED
      BY <1>1, <2>2, <3>1, Zenon DEF WriteItems, Writing, Marks, ObjectMarks, Brace, EndBrace
  <2>3. QED
    BY <1>1, <2>1, <2>2
<1>3. /\ w.style = style /\ w.first = TRUE /\ w.close = close
      /\ Marks(w).open = open /\ Marks(w).close = close
  <2>1. w.style = style /\ w.first = TRUE /\ w.close = close
    BY DEF Under
  <2>2. \A v : v.style = style => Marks(v) = Marks([style |-> style])
    BY DEF Marks
  <2> HIDE DEF w
  <2>3. QED
    BY <2>1, <2>2
<1>4. open \in Tokens /\ close \in Closing
  BY DEF Marks, ArrayMarks, ObjectMarks, Tokens, Visible, Opening, Closing, EndBrace
<1> HIDE DEF open, close
<1>5. w \in Writers
  BY <1>1, <1>4, Stepping, NodeKinds, WriterMembers
<1>6. stack \in Seq(Writers) /\ plain \in Seq(Tokens) /\ WellFormed(TRUE, stack, plain)
  BY <1>1, Stepping, JsonNow
<1> HIDE DEF style, w
<1>7. /\ Extends(plain', plain) /\ Len(plain') = Len(plain) + 1 /\ plain'[Len(plain) + 1] = open
      /\ Len(plain) \in Nat
  BY <1>2, <1>4, <1>6, AppendExtends
<1>8. Len(plain) < Len(plain') /\ Stands(plain', w, Len(plain) + 1, FALSE)
  BY <1>3, <1>7 DEF Stands, Whole
<1>9. WellFormed(FALSE, Append(stack, w), plain')
  BY <1>3, <1>5, <1>6, <1>7, <1>8, PushShaped
<1>10. QED
  BY <1>1, <1>2, <1>9, JsonStep

LEMMA NextItemJson == WInv /\ Json /\ NextItem => Json'
<1> SUFFICES ASSUME WInv, Json, NextItem PROVE Json'
  OBVIOUS
<1> DEFINE w == Under(Inner.style, Tail(Inner.todo), "Never", FALSE, Inner.close)
<1>1. /\ job = << >> /\ stack # << >> /\ Inner.style = "array" /\ Inner.todo # << >>
      /\ job' # << >>
      /\ stack' = [stack EXCEPT ![Len(stack)] = w]
  BY DEF NextItem, Todo, Advance
<1> DEFINE first == Inner.first
<1>2. plain' = Led(plain, first)
  BY <1>1, Zenon DEF NextItem, Comma, Led
<1>3. /\ Inner \in Writers /\ Inner.todo \in Seq(Nodes) /\ Inner.close \in Closing
      /\ Inner.first \in BOOLEAN /\ Inner = Top(stack)
  BY <1>1, Stepping, WriterKinds
<1>4. Tail(Inner.todo) \in Seq(Nodes)
  BY <1>1, <1>3, FirstAndRest
<1>5. w \in Writers /\ w.style = Inner.style /\ w.first = FALSE /\ w.close = Inner.close
  <2>1. w \in Writers
    BY <1>1, <1>3, <1>4, WriterMembers
  <2>2. QED
    BY <2>1 DEF Under
<1>6. stack \in Seq(Writers) /\ plain \in Seq(Tokens) /\ WellFormed(FALSE, stack, plain)
  BY <1>1, Stepping, JsonNow
<1> HIDE DEF w
<1>7. first \in BOOLEAN /\ first = Inner.first
  BY <1>3
<1> HIDE DEF first
<1>8. /\ Extends(plain', plain) /\ plain' \in Seq(Tokens)
      /\ \A q \in 1..Len(plain) : Whole(plain, Inner, q) =>
           q <= Len(plain') /\ ItemDue(plain', w, q, Len(plain'))
  BY <1>2, <1>5, <1>6, <1>7, Separated
<1>9. \A q \in 1..Len(plain) : Whole(plain, Inner, q) => Stands(plain', w, q, TRUE)
  BY <1>1, <1>5, <1>8 DEF Stands, Awaits
<1>10. WellFormed(TRUE, [stack EXCEPT ![Len(stack)] = w], plain')
  BY <1>1, <1>3, <1>5, <1>6, <1>8, <1>9, ReplaceShaped
<1>11. QED
  BY <1>1, <1>10, JsonStep

(* A member begun, of a map or a struct.                                   *)
LEMMA MemberJson ==
  ASSUME WInv, Json, job = << >>, stack # << >>, job' # << >>, NEW w \in Writers,
         stack' = [stack EXCEPT ![Len(stack)] = w], w.style = Inner.style, w.style # "array",
         w.close = Inner.close, ~ w.first, NEW first \in BOOLEAN, first = Inner.first,
         NEW key \in KeyTokens, NEW u, u = Led(plain, first), plain' = Keyed(u, key)
  PROVE  Json'
<1>1. Inner = Top(stack)
  BY Stepping
<1>2. stack \in Seq(Writers) /\ plain \in Seq(Tokens) /\ WellFormed(FALSE, stack, plain)
  BY Stepping, JsonNow
<1>3. /\ Extends(plain', plain)
      /\ \A q \in 1..Len(plain) : Whole(plain, Inner, q) => Stands(plain', w, q, TRUE)
  BY <1>1, <1>2, MemberBegun
<1>4. WellFormed(TRUE, [stack EXCEPT ![Len(stack)] = w], plain')
  BY <1>1, <1>2, <1>3, ReplaceShaped
<1>5. QED
  BY <1>4, JsonStep

LEMMA NextEntryJson == WInv /\ Json /\ NextEntry => Json'
<1> SUFFICES ASSUME WInv, Json, NextEntry PROVE Json'
  OBVIOUS
<1> DEFINE w == Under(Inner.style, Tail(Inner.todo), "Never", FALSE, Inner.close)
           entry == Inner.todo[1]
<1>1. /\ job = << >> /\ stack # << >> /\ Inner.style = "map" /\ Inner.todo # << >>
      /\ job' # << >>
      /\ stack' = [stack EXCEPT ![Len(stack)] = w]
  BY DEF NextEntry, Todo, Advance
<1> DEFINE first == Inner.first
           key == entry.key
           u == Led(plain, first)
<1>2. plain' = plain \o (IF first THEN << >> ELSE <<Comma>>) \o <<key, Colon>>
  BY Zenon DEF NextEntry, Comma, Colon
<1>3. /\ Inner \in Writers /\ Inner.todo \in Seq(Entry) /\ Inner.close \in Closing
      /\ first \in BOOLEAN /\ plain \in Seq(Tokens)
  BY <1>1, Stepping, WriterKinds
<1>4. entry.key \in KeyTokens /\ Tail(Inner.todo) \in Seq(Entry)
  <2>1. entry \in Entry /\ Tail(Inner.todo) \in Seq(Entry)
    BY <1>1, <1>3, FirstAndRest
  <2>2. QED
    BY <2>1 DEF Entry
<1>5. w \in Writers /\ w.style = Inner.style /\ w.first = FALSE /\ w.close = Inner.close
  <2>1. w \in Writers
    BY <1>1, <1>3, <1>4, WriterMembers
  <2>2. QED
    BY <2>1 DEF Under
<1> HIDE DEF w
<1>6. first = Inner.first /\ u = Led(plain, first) /\ key \in KeyTokens
  BY <1>4
<1> HIDE DEF first, key, entry, u
<1>7. plain' = Keyed(u, key)
  BY <1>2, <1>3, <1>6, CommaThenKey
<1>8. QED
  BY <1>1, <1>3, <1>5, <1>6, <1>7, MemberJson

LEMMA OmittedJson ==
  ASSUME WInv, Json, Todo("object"), NEW comma \in Commas, Planned(comma, Inner.first),
         stack' = [stack EXCEPT ![Len(stack)] =
                     Under(Inner.style, Tail(Inner.todo), comma, Inner.first, Inner.close)],
         UNCHANGED <<job, plain>>
  PROVE  Json'
<1> DEFINE w == Under(Inner.style, Tail(Inner.todo), comma, Inner.first, Inner.close)
<1>1. /\ w \in Writers /\ w.style = Inner.style /\ w.first = Inner.first
      /\ w.close = Inner.close
  <2>1. w \in Writers
    BY ObjectWriter, WriterMembers
  <2>2. QED
    BY <2>1 DEF Under
<1>2. stack' = [stack EXCEPT ![Len(stack)] = w]
  OBVIOUS
<1> HIDE DEF w
<1>3. /\ stack \in Seq(Writers) /\ stack # << >> /\ job = << >> /\ Inner = Top(stack)
      /\ WellFormed(FALSE, stack, plain) /\ plain \in Seq(Tokens)
  BY ObjectWriter, Stepping, JsonNow
<1>4. Extends(plain, plain)
  BY <1>3 DEF Extends
<1>5. \A q \in 1..Len(plain) : Whole(plain, Inner, q) => Stands(plain, w, q, FALSE)
  BY <1>1, MarksFollowStyle DEF Stands, Whole
<1>6. WellFormed(FALSE, [stack EXCEPT ![Len(stack)] = w], plain)
  BY <1>1, <1>3, <1>4, <1>5, ReplaceShaped
<1>7. QED
  BY <1>2, <1>3, <1>6, JsonStep

LEMMA FieldJson ==
  ASSUME WInv, Json, Todo("object"), NEW comma \in Commas, Planned(comma, FALSE),
         stack' = [stack EXCEPT ![Len(stack)] =
                     Under(Inner.style, Tail(Inner.todo), comma, FALSE, Inner.close)],
         NEW lead, NEW prettyLead, lead = ~ Inner.first, WriteMember(lead, prettyLead)
  PROVE  Json'
<1> DEFINE w == Under(Inner.style, Tail(Inner.todo), comma, FALSE, Inner.close)
           key == Inner.todo[1].key
           first == Inner.first
           u == Led(plain, first)
<1>1. key \in KeyTokens
  BY ObjectWriter DEF Field
<1>2. /\ plain' = plain \o (IF first THEN << >> ELSE <<Comma>>) \o <<key, Colon>>
      /\ job' # << >>
  <2>1. CASE first
    BY <2>1, Zenon DEF WriteMember, Comma, Colon
  <2>2. CASE ~ first
    BY <2>2, Zenon DEF WriteMember, Comma, Colon
  <2>3. QED
    BY <2>1, <2>2
<1>3. /\ w \in Writers /\ w.style = Inner.style /\ w.first = FALSE /\ w.close = Inner.close
  <2>1. w \in Writers
    BY ObjectWriter, WriterMembers
  <2>2. QED
    BY <2>1 DEF Under
<1>4. stack' = [stack EXCEPT ![Len(stack)] = w]
  OBVIOUS
<1>5. /\ stack # << >> /\ job = << >> /\ Inner.style = "object" /\ first \in BOOLEAN
      /\ plain \in Seq(Tokens)
  BY ObjectWriter, Stepping
<1>6. first = Inner.first /\ u = Led(plain, first)
  OBVIOUS
<1> HIDE DEF w, key, first, u
<1>7. plain' = Keyed(u, key)
  BY <1>2, <1>5, <1>6, CommaThenKey
<1>8. QED
  BY <1>1, <1>2, <1>3, <1>4, <1>5, <1>6, <1>7, MemberJson

LEMMA FieldsJson ==
  ASSUME WInv, Json, SkipField \/ ConditionalField \/ LiteralField \/ RenamedField
  PROVE  Json'
<1>1. /\ "Runtime" \in Commas /\ \A first : Planned("Runtime", first)
      /\ "Always" \in Commas /\ Planned("Always", FALSE)
  BY DEF Commas, Planned
<1>2. CASE SkipField
  <2>1. /\ Todo("object") /\ UNCHANGED <<job, plain>>
        /\ stack' = [stack EXCEPT ![Len(stack)] =
                       Under(Inner.style, Tail(Inner.todo), Inner.comma, Inner.first, Inner.close)]
    BY <1>2 DEF SkipField, Advance
  <2>2. Inner.comma \in Commas /\ Planned(Inner.comma, Inner.first)
    BY <2>1, ObjectWriter
  <2>3. QED
    BY <2>1, <2>2, OmittedJson, Zenon
<1>3. CASE ConditionalField
  <2>1. Todo("object")
    BY <1>3 DEF ConditionalField
  <2>2. CASE Inner.todo[1].none
    <3>1. /\ UNCHANGED <<job, plain>>
          /\ stack' = [stack EXCEPT ![Len(stack)] =
                         Under(Inner.style, Tail(Inner.todo), "Runtime", Inner.first, Inner.close)]
      BY <1>3, <2>2, Zenon DEF ConditionalField, Advance
    <3>2. QED
      BY <1>1, <2>1, <3>1, OmittedJson, Zenon
  <2>3. CASE ~ Inner.todo[1].none
    <3>1. /\ WriteMember(PlannedLead, PlannedLead)
          /\ stack' = [stack EXCEPT ![Len(stack)] =
                         Under(Inner.style, Tail(Inner.todo), "Runtime", FALSE, Inner.close)]
      BY <1>3, <2>3, Zenon DEF ConditionalField, Advance
    <3>2. PlannedLead = ~ Inner.first
      BY <2>1, PlannedIsDue
    <3>3. QED
      BY <1>1, <2>1, <3>1, <3>2, FieldJson, Zenon
  <2>4. QED
    BY <2>2, <2>3
<1>4. CASE LiteralField
  <2>1. /\ Todo("object") /\ Inner.comma # "Runtime"
        /\ WriteMember(Inner.comma = "Always", ~ Inner.first)
        /\ stack' = [stack EXCEPT ![Len(stack)] =
                       Under(Inner.style, Tail(Inner.todo), "Always", FALSE, Inner.close)]
    BY <1>4, Zenon DEF LiteralField, Advance
  <2>2. (Inner.comma = "Always") = ~ Inner.first
    BY <2>1, PlannedIsDue
  <2>3. QED
    BY <1>1, <2>1, <2>2, FieldJson, Zenon
<1>5. CASE RenamedField
  <2> DEFINE comma == IF Inner.comma = "Runtime" THEN "Runtime" ELSE "Always"
  <2>1. /\ Todo("object") /\ WriteMember(PlannedLead, PlannedLead)
        /\ stack' = [stack EXCEPT ![Len(stack)] =
                       Under(Inner.style, Tail(Inner.todo), comma, FALSE, Inner.close)]
    BY <1>5, Zenon DEF RenamedField, Advance
  <2>2. comma = "Runtime" \/ comma = "Always"
    OBVIOUS
  <2> HIDE DEF comma
  <2>3. comma \in Commas /\ Planned(comma, FALSE)
    BY <1>1, <2>2
  <2>4. PlannedLead = ~ Inner.first
    BY <2>1, PlannedIsDue
  <2>5. QED
    BY <2>1, <2>3, <2>4, FieldJson, Zenon
<1>6. QED
  BY <1>2, <1>3, <1>4, <1>5

LEMMA KeyNames == {TagKey, ContentKey, TagName} \subseteq KeyTokens
BY WriterAssumption

LEMMA PlaceBehind ==
  ASSUME NEW S, NEW t \in Seq(S), NEW q, q = Len(t) + 1
  PROVE  Len(t) \in Nat /\ q \in Nat /\ q # 0 /\ Len(t) < q
OBVIOUS

LEMMA OpenAlone ==
  ASSUME NEW v, NEW w, w.first = TRUE
  PROVE  Whole(v, w, Len(v))
BY DEF Whole

(* An object that starts with its tag.                                     *)
LEMMA TagWhole ==
  ASSUME NEW v, NEW q \in Nat, q # 0, Len(v) = q + 3, NEW w, w.first = FALSE,
         Marks(w).body = "members", v[q + 1] \in KeyTokens, v[q + 2] = Colon, v[q + 3] \in Words
  PROVE  Whole(v, w, q)
<1>1. Len(v) \in Nat /\ q + 3 <= Len(v) /\ q < Len(v)
  OBVIOUS
<1>2. Parses(v, "members", q + 1, q + 3)
  BY <1>1, TagParses
<1>3. QED
  BY <1>1, <1>2 DEF Whole

LEMMA ObjectJson == WInv /\ Json /\ WriteObject => Json'
<1> SUFFICES ASSUME WInv, Json, WriteObject PROVE Json'
  OBVIOUS
<1> DEFINE node == job[1]
           comma == IF node.tagged THEN "Always" ELSE "Never"
           first == ~ node.tagged
           w == Under("object", node.fields, comma, first, EndBrace)
           begun == Append(plain, Brace)
           q == Len(plain) + 1
<1>1. job # << >> /\ node.kind = "object" /\ job' = << >> /\ stack' = Append(stack, w)
  BY Zenon DEF WriteObject, Writing, EndBrace
<1>2. plain' = begun \o (IF node.tagged THEN <<TagKey, Colon, TagName>> ELSE << >>)
  BY Zenon DEF WriteObject, Brace, Colon
<1>3. node.tagged \in BOOLEAN /\ node.fields \in Seq(Field) /\ EndBrace \in Closing
  BY <1>1, Stepping, NodeKinds DEF Closing, EndBrace
<1>4. first \in BOOLEAN /\ comma \in Commas /\ Planned(comma, first)
  BY <1>3 DEF Commas, Planned
<1>5. w.style = "object" /\ w.first = first /\ w.close = EndBrace
  BY DEF Under
<1> HIDE DEF comma
<1>6. w \in Writers
  <2> HIDE DEF first
  <2>1. QED
    BY <1>3, <1>4, WriterMembers
<1>7. Marks(w) = ObjectMarks /\ ObjectMarks.open = Brace /\ ObjectMarks.close = EndBrace
      /\ ObjectMarks.body = "members"
  BY <1>5 DEF Marks, ObjectMarks
<1>8. /\ stack \in Seq(Writers) /\ plain \in Seq(Tokens) /\ WellFormed(TRUE, stack, plain)
      /\ Len(plain) \in Nat /\ q \in Nat /\ q # 0 /\ Len(plain) < q
  <2>1. stack \in Seq(Writers) /\ plain \in Seq(Tokens) /\ WellFormed(TRUE, stack, plain)
    BY <1>1, Stepping, JsonNow
  <2>2. QED
    BY <2>1, PlaceBehind, Zenon
<1>9. Brace \in Tokens /\ Colon \in Tokens /\ TagKey \in Tokens /\ TagName \in Tokens
  BY Names, MarksAreNoLayout, VisibleIsNoLayout DEF Visible
<1>10. begun \in Seq(Tokens) /\ Extends(begun, plain) /\ Len(begun) = q /\ begun[q] = Brace
  BY <1>8, <1>9, AppendExtends
<1> HIDE DEF begun, w
<1>11. /\ Extends(plain', plain) /\ plain'[q] = Brace /\ Len(plain) < Len(plain')
       /\ Whole(plain', w, q)
  <2>1. CASE node.tagged
    <3> DEFINE tag == <<TagKey, Colon, TagName>>
    <3>1. plain' = begun \o tag /\ tag \in Seq(Tokens) /\ Len(tag) = 3
      BY <1>2, <1>9, <2>1
    <3>2. /\ Len(plain') = q + 3 /\ Extends(plain', begun) /\ plain'[q] = Brace
          /\ plain'[q + 1] = TagKey /\ plain'[q + 2] = Colon /\ plain'[q + 3] = TagName
      BY <1>8, <1>10, <3>1 DEF Extends
    <3>3. TagKey \in KeyTokens /\ TagName \in Words
      BY Names, KeyNames
    <3>4. w.first = FALSE
      BY <1>5, <2>1
    <3>5. Whole(plain', w, q)
      BY <1>7, <1>8, <3>2, <3>3, <3>4, TagWhole
    <3>6. Extends(plain', plain)
      BY <1>10, <3>2, ExtendsOn
    <3>7. Len(plain) < Len(plain')
      BY <1>8, <3>2
    <3>8. QED
      BY <3>2, <3>5, <3>6, <3>7
  <2>2. CASE ~ node.tagged
    <3>1. plain' = begun
      BY <1>2, <1>10, <2>2, ConcatEmptySeq
    <3>2. w.first = TRUE
      BY <1>4, <1>5, <2>2
    <3>3. Whole(plain', w, q)
      BY <1>10, <3>1, <3>2, OpenAlone
    <3>4. QED
      BY <1>8, <1>10, <3>1, <3>3
  <2>3. QED
    BY <2>1, <2>2
<1>12. Stands(plain', w, q, FALSE)
  BY <1>11 DEF Stands
<1>13. WellFormed(FALSE, Append(stack, w), plain')
  BY <1>5, <1>6, <1>7, <1>8, <1>11, <1>12, PushShaped
<1>14. QED
  BY <1>1, <1>13, JsonStep

LEMMA VariantJson == WInv /\ Json /\ WriteVariant => Json'
<1> SUFFICES ASSUME WInv, Json, WriteVariant PROVE Json'
  OBVIOUS
<1> DEFINE w == Under("variant", << >>, "Always", FALSE, EndBrace)
           q == Len(plain) + 1
           external == <<Brace, TagName, Colon>>
           adjacent == <<Brace, TagKey, Colon, TagName, Comma, ContentKey, Colon>>
<1>1. job # << >> /\ job' # << >> /\ stack' = Append(stack, w)
  BY Zenon DEF WriteVariant, Writing, EndBrace
<1>2. plain' = plain \o external \/ plain' = plain \o adjacent
  BY Zenon DEF WriteVariant, Brace, Colon, Comma
<1>3. w \in Writers /\ w.style = "variant" /\ w.first = FALSE /\ w.close = EndBrace
  <2>1. EndBrace \in Closing
    BY DEF Closing, EndBrace
  <2>2. w \in Writers
    BY <2>1, WriterMembers
  <2>3. QED
    BY <2>2 DEF Under
<1>4. Marks(w) = ObjectMarks /\ ObjectMarks.open = Brace /\ ObjectMarks.close = EndBrace
      /\ ObjectMarks.body = "members"
  BY <1>3 DEF Marks, ObjectMarks
<1>5. /\ stack \in Seq(Writers) /\ plain \in Seq(Tokens) /\ WellFormed(TRUE, stack, plain)
      /\ Len(plain) \in Nat /\ q \in Nat /\ q # 0 /\ Len(plain) < q
  <2>1. stack \in Seq(Writers) /\ plain \in Seq(Tokens) /\ WellFormed(TRUE, stack, plain)
    BY <1>1, Stepping, JsonNow
  <2>2. QED
    BY <2>1, PlaceBehind, Zenon
<1>6. /\ Brace \in Tokens /\ Colon \in Tokens /\ Comma \in Tokens
      /\ TagKey \in Tokens /\ TagName \in Tokens /\ ContentKey \in Tokens
  BY Names, MarksAreNoLayout, VisibleIsNoLayout DEF Visible
<1> HIDE DEF w
<1>7. /\ Extends(plain', plain) /\ plain'[q] = Brace /\ Len(plain) < Len(plain')
      /\ Awaits(plain', w, q, Len(plain'))
  <2>1. CASE plain' = plain \o external
    <3>1. external \in Seq(Tokens) /\ Len(external) = 3
      BY <1>6
    <3>2. /\ Len(plain') = q + 2 /\ Extends(plain', plain) /\ plain'[q] = Brace
          /\ plain'[q + 1] = TagName /\ plain'[q + 2] = Colon
      BY <1>5, <2>1, <3>1 DEF Extends
    <3>3. ItemDue(plain', w, q, q)
      BY DEF ItemDue
    <3> DEFINE e == Len(plain')
    <3>4. e - 1 = q + 1 /\ e - 2 = q /\ e \in q..e /\ q + 2 <= e /\ Len(plain) < e
      BY <1>5, <3>2
    <3>5. QED
      BY <1>3, <3>2, <3>3, <3>4, KeyNames DEF Awaits
  <2>2. CASE plain' = plain \o adjacent
    <3>1. adjacent \in Seq(Tokens) /\ Len(adjacent) = 7
      BY <1>6
    <3>2. /\ Len(plain') = q + 6 /\ Extends(plain', plain) /\ plain'[q] = Brace
          /\ plain'[q + 1] = TagKey /\ plain'[q + 2] = Colon /\ plain'[q + 3] = TagName
          /\ plain'[q + 4] = Comma /\ plain'[q + 5] = ContentKey /\ plain'[q + 6] = Colon
      BY <1>5, <2>2, <3>1, SMTT(60) DEF Extends
    <3>3. Parses(plain', "members", q + 1, q + 3)
      <4>1. q + 3 <= Len(plain') /\ Len(plain') \in Nat
        BY <1>5, <3>2
      <4>2. TagKey \in KeyTokens /\ TagName \in Words
        BY Names, KeyNames
      <4>3. QED
        BY <1>5, <3>2, <4>1, <4>2, TagParses
    <3>4. ItemDue(plain', w, q, q + 4)
      BY <1>4, <1>5, <3>2, <3>3 DEF ItemDue
    <3> DEFINE e == Len(plain')
    <3>5. e - 1 = q + 5 /\ e - 2 = q + 4 /\ e \in q..e /\ q + 2 <= e /\ Len(plain) < e
      BY <1>5, <3>2
    <3>6. QED
      BY <1>3, <3>2, <3>4, <3>5, KeyNames DEF Awaits
  <2>3. QED
    BY <1>2, <2>1, <2>2
<1>8. Stands(plain', w, q, TRUE)
  BY <1>7 DEF Stands
<1>9. WellFormed(TRUE, Append(stack, w), plain')
  BY <1>3, <1>4, <1>5, <1>7, <1>8, PushShaped
<1>10. QED
  BY <1>1, <1>9, JsonStep

LEMMA CloseJson == WInv /\ Json /\ Close => Json'
<1> SUFFICES ASSUME WInv, Json, Close PROVE Json'
  OBVIOUS
<1>1. /\ job = << >> /\ stack # << >> /\ job' = << >>
      /\ plain' = Append(plain, Inner.close)
      /\ stack' = SubSeq(stack, 1, Len(stack) - 1)
  BY DEF Close
<1>2. Inner = Top(stack) /\ Inner.close \in Closing
  BY <1>1, Stepping, WriterKinds
<1>3. stack \in Seq(Writers) /\ plain \in Seq(Tokens) /\ WellFormed(FALSE, stack, plain)
  BY <1>1, Stepping, JsonNow
<1>4. WellFormed(FALSE, stack', plain')
  BY <1>1, <1>2, <1>3, PopShaped
<1>5. QED
  BY <1>1, <1>4, JsonStep

LEMMA JsonInitially == Init => Json
<1> SUFFICES ASSUME Init PROVE Json
  OBVIOUS
<1>1. job # << >> /\ stack = << >> /\ plain = << >> /\ Len(stack) = 0 /\ Len(plain) = 0
  BY DEF Init
<1>2. PICK p : p \in [Nat -> Nat]
  <2>1. [k \in Nat |-> k] \in [Nat -> Nat]
    OBVIOUS
  <2>2. QED
    BY <2>1
<1>3. Shaped(plain, stack, p, TRUE)
  BY <1>1 DEF Shaped, Levels, ValueDue
<1>4. QED
  BY <1>1, <1>2, <1>3 DEF WellFormed, Json

LEMMA JsonWhenDone == WInv /\ Json => WrittenIsJson
<1> SUFFICES ASSUME WInv, Json, Done
             PROVE  plain # << >> /\ Derives(plain, Words, KeyTokens, Len(plain))
  BY DEF WrittenIsJson
<1>1. job = << >> /\ Len(stack) = 0 /\ plain \in Seq(Tokens)
  BY Stepping DEF Done
<1>2. PICK p \in [Nat -> Nat] : Shaped(plain, stack, p, FALSE)
  BY <1>1, JsonNow DEF WellFormed
<1>3. Len(plain) # 0 /\ Parses(plain, "value", 1, Len(plain)) /\ Len(plain) \in Nat
  BY <1>1, <1>2 DEF Shaped, Settled
<1>4. Derived(Lexicon, plain, <<"value", 1, Len(plain), Len(plain)>>) /\ plain # << >>
  BY <1>3 DEF Parses
<1>5. QED
  BY <1>3, <1>4, DerivedIsDerives DEF Lexicon

(* What is written in the end is one JSON text, whatever the value, its    *)
(* attributes and the fields left out, however deep (WrittenIsJson).       *)
THEOREM WrittenIsAlwaysJson == Spec => []WrittenIsJson
<1> DEFINE GInv == WInv /\ Json
<1>1. Init => GInv
  BY WInvInitially, JsonInitially
<1>2. GInv /\ [Next]_vars => GInv'
  <2> SUFFICES ASSUME GInv, [Next]_vars PROVE GInv'
    OBVIOUS
  <2>1. WInv'
    BY WInvKept
  <2>2. Json'
    <3>1. CASE UNCHANGED vars
      BY <3>1 DEF vars, Json
    <3>2. CASE Finished
      BY <3>2 DEF Finished, vars, Json
    <3>3. QED
      BY <3>1, <3>2, ScalarJson, ItemsJson, NextItemJson, NextEntryJson, ObjectJson, FieldsJson,
         VariantJson, CloseJson DEF Next
  <2>3. QED
    BY <2>1, <2>2
<1>3. GInv => WrittenIsJson
  BY JsonWhenDone
<1>4. QED
  BY <1>1, <1>2, <1>3, PTL DEF Spec
=============================================================================
