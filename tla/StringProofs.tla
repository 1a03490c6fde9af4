------------------------------ MODULE StringProofs ------------------------------
(***************************************************************************)
(* What a string's bytes are handed out as is text, for every input, every *)
(* set of digits and surrogates and every encoding of code points that is  *)
(* text itself.                                                            *)
(***************************************************************************)
EXTENDS StringReader, SequenceTheorems, WellFoundedInduction, TLAPS

-----------------------------------------------------------------------------
(* Bytes. *)

LEMMA ByteKinds ==
  /\ Cont \cap Ascii = {} /\ Leading \cap Ascii = {} /\ Cont \cap Leading = {}
  /\ Plain \subseteq Ascii /\ Range(HexDigits) \subseteq Ascii
  /\ "quote" \in Ascii /\ "backslash" \in Ascii /\ "u" \in Ascii /\ "newline" \in Ascii
  /\ Named \subseteq Ascii
  /\ "eof" \notin Byte
<1>1. Leading = {"lead2", "lead3", "lead4"}
  BY DEF Leading, LeadInfo
<1>2. Named = {"quote", "backslash", "slash", "n"}
  BY DEF Named, NamedEscape
<1>3. /\ Range(HexDigits) \cap {"cont", "contHigh", "lead2", "lead3", "lead4", "bad", "eof"} = {}
      /\ Range(Controls) \cap {"cont", "contHigh", "lead2", "lead3", "lead4", "bad", "eof"} = {}
  BY <1>1, CodecAssumption DEF NonAscii, Cont
<1>4. QED
  BY <1>1, <1>2, <1>3 DEF Ascii, Byte, NonAscii, Cont, Plain, Control

LEMMA LeadKinds ==
  ASSUME NEW b \in Leading
  PROVE  LeadInfo[b].extra \in 1..3 /\ LeadInfo[b].second \subseteq Cont
BY DEF Leading, LeadInfo, Cont

LEMMA ByteAtIs ==
  ASSUME NEW s \in Seq(Byte), NEW k \in Nat
  PROVE  /\ ByteAt(s, k) \in Byte \cup {"eof"}
         /\ ByteAt(s, k) # "eof" => k < Len(s) /\ ByteAt(s, k) = s[k + 1]
         /\ k < Len(s) => ByteAt(s, k) = s[k + 1] /\ ByteAt(s, k) \in Byte
<1>1. Len(s) \in Nat
  BY LenProperties
<1>2. CASE k < Len(s)
  <2>1. k + 1 \in 1..Len(s)
    BY <1>1, <1>2
  <2>2. s[k + 1] \in Byte
    BY <2>1, ElementOfSeq
  <2>3. QED
    BY <1>2, <2>2, ByteKinds DEF ByteAt
<1>3. CASE ~ (k < Len(s))
  BY <1>3 DEF ByteAt
<1>4. QED
  BY <1>2, <1>3

-----------------------------------------------------------------------------
(* A whole character of s at k, and where it ends. *)

CharIs(s, k, e) ==
  \/ ByteAt(s, k) \in Ascii /\ e = k + 1
  \/ CharEnd(s, k).ok /\ e = CharEnd(s, k).end

Follows(s, k, j) ==
  ByteAt(s, j) \in (IF j = k + 1 THEN LeadInfo[ByteAt(s, k)].second ELSE Cont)

LEMMA CharEndIs ==
  ASSUME NEW s, NEW k
  PROVE  LET last == k + LeadInfo[ByteAt(s, k)].extra
         IN  /\ CharEnd(s, k).ok <=>
                  /\ ByteAt(s, k) \in Leading
                  /\ \A j \in (k + 1)..last : Follows(s, k, j)
             /\ CharEnd(s, k).ok => CharEnd(s, k).end = last + 1
<1> DEFINE b == ByteAt(s, k)
           last == k + LeadInfo[b].extra
           wrong == {j \in (k + 1)..last :
                       ByteAt(s, j) \notin (IF j = k + 1 THEN LeadInfo[b].second ELSE Cont)}
<1>1. CASE b \notin Leading
  <2>1. CharEnd(s, k) = [ok |-> FALSE, end |-> k]
    BY <1>1 DEF CharEnd
  <2>2. ~ CharEnd(s, k).ok
    BY <2>1
  <2>3. QED
    BY <1>1, <2>2
<1>2. CASE b \in Leading /\ wrong = {}
  <2>1. CharEnd(s, k) = [ok |-> TRUE, end |-> last + 1]
    BY <1>2 DEF CharEnd
  <2>2. \A j \in (k + 1)..last : Follows(s, k, j)
    BY <1>2, Zenon DEF Follows
  <2>3. CharEnd(s, k).ok /\ CharEnd(s, k).end = last + 1
    BY <2>1
  <2>4. QED
    BY <1>2, <2>2, <2>3
<1>3. CASE b \in Leading /\ wrong # {}
  <2>1. CharEnd(s, k) = [ok |-> FALSE, end |-> Least(wrong)]
    BY <1>3 DEF CharEnd
  <2>2. ~ \A j \in (k + 1)..last : Follows(s, k, j)
    BY <1>3, Zenon DEF Follows
  <2>3. ~ CharEnd(s, k).ok
    BY <2>1
  <2>4. QED
    BY <2>2, <2>3
<1>4. QED
  BY <1>1, <1>2, <1>3

(* A character starts with a byte that continues nothing, all others of it *)
(* continue it, and all are there.                                         *)
LEMMA CharProperties ==
  ASSUME NEW s \in Seq(Byte), NEW k \in Nat, NEW e, CharIs(s, k, e)
  PROVE  /\ e \in Nat /\ k < e /\ e <= Len(s)
         /\ ByteAt(s, k) \notin Cont
         /\ \A j \in (k + 1)..(e - 1) : ByteAt(s, j) \in Cont
<1>0. Len(s) \in Nat
  BY LenProperties
<1>1. CASE ByteAt(s, k) \in Ascii /\ e = k + 1
  BY <1>0, <1>1, ByteKinds, ByteAtIs DEF Ascii
<1>2. CASE CharEnd(s, k).ok /\ e = CharEnd(s, k).end
  <2> DEFINE b == ByteAt(s, k)
             last == k + LeadInfo[b].extra
  <2>1. b \in Leading /\ e = last + 1 /\ \A j \in (k + 1)..last : Follows(s, k, j)
    BY <1>2, CharEndIs
  <2>2. LeadInfo[b].extra \in 1..3 /\ LeadInfo[b].second \subseteq Cont
    BY <2>1, LeadKinds
  <2>3. \A j \in (k + 1)..last : ByteAt(s, j) \in Cont
    BY <2>1, <2>2 DEF Follows
  <2> HIDE DEF b
  <2>4. last \in (k + 1)..last /\ last \in Nat
    BY <2>2
  <2>5. ByteAt(s, last) \in Cont
    BY <2>3, <2>4
  <2>6. ByteAt(s, last) # "eof"
    BY <2>5 DEF Cont
  <2>7. last < Len(s)
    BY <2>4, <2>6, ByteAtIs
  <2>8. b \notin Cont
    BY <2>1, ByteKinds
  <2>9. QED
    BY <1>0, <2>1, <2>2, <2>3, <2>4, <2>7, <2>8 DEF b
<1>3. QED
  BY <1>1, <1>2 DEF CharIs

(* The same bytes are the same character.                                  *)
LEMMA CharMoved ==
  ASSUME NEW s \in Seq(Byte), NEW t \in Seq(Byte), NEW k \in Nat, NEW m \in Nat, NEW e,
         CharIs(s, k, e),
         \A j \in 0..(e - k - 1) : ByteAt(s, k + j) = ByteAt(t, m + j)
  PROVE  CharIs(t, m, m + (e - k))
<1>0. e \in Nat /\ k < e
  BY CharProperties
<1>1. ByteAt(s, k) = ByteAt(t, m)
  <2>1. 0 \in 0..(e - k - 1) /\ k + 0 = k /\ m + 0 = m
    BY <1>0
  <2>2. ByteAt(s, k + 0) = ByteAt(t, m + 0)
    BY <2>1
  <2>3. QED
    BY <2>1, <2>2
<1>2. CASE ByteAt(s, k) \in Ascii /\ e = k + 1
  BY <1>1, <1>2 DEF CharIs
<1>3. CASE CharEnd(s, k).ok /\ e = CharEnd(s, k).end
  <2> DEFINE b == ByteAt(s, k)
             x == LeadInfo[b].extra
  <2>1. b \in Leading /\ e = k + x + 1 /\ \A j \in (k + 1)..(k + x) : Follows(s, k, j)
    BY <1>3, CharEndIs
  <2>2. x \in 1..3
    BY <2>1, LeadKinds
  <2>3. ASSUME NEW j \in (m + 1)..(m + x)
        PROVE  Follows(t, m, j)
    <3> HIDE DEF x
    <3>1. /\ j - m \in 0..(e - k - 1) /\ k + (j - m) \in (k + 1)..(k + x)
          /\ m + (j - m) = j /\ (k + (j - m) = k + 1 <=> j = m + 1)
      BY <1>0, <2>1, <2>2
    <3>2. ByteAt(s, k + (j - m)) = ByteAt(t, j)
      BY <3>1
    <3>3. Follows(s, k, k + (j - m))
      BY <2>1, <3>1
    <3>4. QED
      BY <1>1, <3>1, <3>2, <3>3 DEF Follows
  <2>4. CharEnd(t, m).ok /\ CharEnd(t, m).end = m + x + 1
    BY <1>1, <2>1, <2>3, CharEndIs
  <2> HIDE DEF x
  <2>5. m + x + 1 = m + (e - k)
    BY <2>1, <2>2
  <2>6. QED
    BY <2>4, <2>5 DEF CharIs
<1>4. QED
  BY <1>2, <1>3 DEF CharIs

-----------------------------------------------------------------------------
(* Text. *)

LEMMA TextIs ==
  ASSUME NEW s, NEW a, NEW b
  PROVE  TextBetween(s, a, b) <=>
           /\ a \in Starts(s, a, b)
           /\ \A k \in Starts(s, a, b) \ {b} : \E e \in Starts(s, a, b) : CharIs(s, k, e)
BY Zenon DEF TextBetween, CharIs

LEMMA TextMoved ==
  ASSUME NEW s \in Seq(Byte), NEW t \in Seq(Byte),
         NEW a \in Nat, NEW b \in Nat, a <= b, NEW c \in Nat,
         \A j \in 0..(b - a - 1) : ByteAt(s, a + j) = ByteAt(t, c + j),
         TextBetween(s, a, b)
  PROVE  TextBetween(t, c, c + (b - a))
<1> DEFINE d == c + (b - a)
<1>1. /\ a \in Starts(s, a, b)
      /\ \A k \in Starts(s, a, b) \ {b} : \E e \in Starts(s, a, b) : CharIs(s, k, e)
  BY TextIs
<1>2. ASSUME NEW k \in a..b
      PROVE  k \in Starts(s, a, b) <=> c + (k - a) \in Starts(t, c, d)
  <2>1. CASE k = b
    BY <2>1 DEF Starts
  <2>2. CASE k # b
    <3>1. k - a \in 0..(b - a - 1) /\ a + (k - a) = k /\ c + (k - a) # d /\ c + (k - a) \in c..d
      BY <2>2
    <3>2. ByteAt(s, k) = ByteAt(t, c + (k - a))
      BY <3>1
    <3>3. QED
      BY <2>2, <3>1, <3>2 DEF Starts
  <2>3. QED
    BY <2>1, <2>2
<1>3. c \in Starts(t, c, d)
  <2>1. a \in a..b /\ c + (a - a) = c
    OBVIOUS
  <2>2. QED
    BY <1>1, <1>2, <2>1
<1>4. ASSUME NEW m \in Starts(t, c, d) \ {d}
      PROVE  \E e \in Starts(t, c, d) : CharIs(t, m, e)
  <2>1. m \in Nat /\ m \in c..d /\ m # d
    BY DEF Starts
  <2> DEFINE k == a + (m - c)
  <2>2. k \in a..b /\ k # b /\ c + (k - a) = m /\ k \in Nat
    BY <2>1
  <2>3. k \in Starts(s, a, b) \ {b}
    BY <1>2, <2>2
  <2>4. PICK e \in Starts(s, a, b) : CharIs(s, k, e)
    BY <1>1, <2>3
  <2> HIDE DEF k
  <2>5. e \in a..b /\ k < e
    BY <2>2, <2>4, CharProperties DEF Starts
  <2>6. ASSUME NEW j \in 0..(e - k - 1)
        PROVE  ByteAt(s, k + j) = ByteAt(t, m + j)
    <3>1. (k - a) + j \in 0..(b - a - 1) /\ a + ((k - a) + j) = k + j /\ c + ((k - a) + j) = m + j
      BY <2>2, <2>5
    <3>2. QED
      BY <3>1
  <2>7. CharIs(t, m, m + (e - k))
    BY <2>1, <2>2, <2>4, <2>6, CharMoved
  <2>8. m + (e - k) = c + (e - a)
    BY <2>1, <2>2, <2>5
  <2>9. c + (e - a) \in Starts(t, c, d)
    BY <1>2, <2>4, <2>5
  <2>10. QED
    BY <2>7, <2>8, <2>9
<1>5. QED
  BY <1>3, <1>4, TextIs

(* Two texts next to each other are one.                                   *)
LEMMA TextJoined ==
  ASSUME NEW s \in Seq(Byte), NEW a \in Nat, NEW b \in Nat, NEW c \in Nat,
         TextBetween(s, a, b), TextBetween(s, b, c)
  PROVE  TextBetween(s, a, c)
<1>1. /\ a \in Starts(s, a, b) /\ b \in Starts(s, b, c)
      /\ \A k \in Starts(s, a, b) \ {b} : \E e \in Starts(s, a, b) : CharIs(s, k, e)
      /\ \A k \in Starts(s, b, c) \ {c} : \E e \in Starts(s, b, c) : CharIs(s, k, e)
  BY TextIs
<1>2. a <= b /\ b <= c
  BY <1>1 DEF Starts
<1>3. Starts(s, a, b) \subseteq Starts(s, a, c) /\ Starts(s, b, c) \subseteq Starts(s, a, c)
  BY <1>1, <1>2 DEF Starts
<1>4. \A k \in Starts(s, a, c) \ {c} : k \in Starts(s, a, b) \ {b} \/ k \in Starts(s, b, c) \ {c}
  BY <1>2 DEF Starts
<1>5. \A k \in Starts(s, a, c) \ {c} : \E e \in Starts(s, a, c) : CharIs(s, k, e)
  BY <1>1, <1>3, <1>4
<1>6. QED
  BY <1>1, <1>3, <1>5, TextIs

(* A text cut where characters start is text.                              *)
LEMMA TextCut ==
  ASSUME NEW s \in Seq(Byte), NEW a \in Nat, NEW b \in Nat, TextBetween(s, a, b),
         NEW k \in Starts(s, a, b), NEW m \in Starts(s, a, b), k <= m
  PROVE  TextBetween(s, k, m)
<1>1. \A q \in Starts(s, a, b) \ {b} : \E e \in Starts(s, a, b) : CharIs(s, q, e)
  BY TextIs
<1>2. k \in a..b /\ m \in a..b
  BY DEF Starts
<1>3. k \in Starts(s, k, m)
  BY <1>2 DEF Starts
<1>4. ASSUME NEW q \in Starts(s, k, m) \ {m}
      PROVE  \E e \in Starts(s, k, m) : CharIs(s, q, e)
  <2>1. q \in k..m /\ q # m /\ q \in Nat /\ ByteAt(s, q) \notin Cont
    BY <1>2 DEF Starts
  <2>2. q \in Starts(s, a, b) \ {b}
    BY <1>2, <2>1 DEF Starts
  <2>3. PICK e \in Starts(s, a, b) : CharIs(s, q, e)
    BY <1>1, <2>2
  <2>4. e \in a..b /\ q < e /\ \A j \in (q + 1)..(e - 1) : ByteAt(s, j) \in Cont
    BY <2>1, <2>3, CharProperties DEF Starts
  <2>5. e <= m
    <3> SUFFICES ASSUME ~ (e <= m) PROVE FALSE
      OBVIOUS
    <3>1. m \in (q + 1)..(e - 1) /\ m # b
      BY <1>2, <2>1, <2>4
    <3>2. ByteAt(s, m) \in Cont /\ ByteAt(s, m) \notin Cont
      BY <2>4, <3>1 DEF Starts
    <3>3. QED
      BY <3>2
  <2>6. e \in Starts(s, k, m)
    BY <1>2, <2>1, <2>4, <2>5, <2>3 DEF Starts
  <2>7. QED
    BY <2>3, <2>6
<1>5. QED
  BY <1>3, <1>4, TextIs

(* Behind an ASCII byte of a text, a character starts or the text ends.    *)
LEMMA BehindAscii ==
  ASSUME NEW s \in Seq(Byte), NEW a \in Nat, NEW b \in Nat, TextBetween(s, a, b),
         NEW k \in Starts(s, a, b), k # b, ByteAt(s, k) \in Ascii
  PROVE  k + 1 \in Starts(s, a, b)
<1>1. ByteAt(s, k) \notin Leading
  BY ByteKinds
<1>2. ~ CharEnd(s, k).ok
  BY <1>1, CharEndIs
<1>3. QED
  BY <1>2, Zenon DEF TextBetween

LEMMA AsciiIsText ==
  ASSUME NEW s \in Seq(Byte), NEW a \in Nat, NEW b \in Nat, a <= b,
         \A k \in a..(b - 1) : ByteAt(s, k) \in Ascii
  PROVE  TextBetween(s, a, b)
<1>1. ASSUME NEW k \in a..b PROVE k \in Starts(s, a, b)
  BY ByteKinds DEF Starts
<1>2. ASSUME NEW k \in Starts(s, a, b) \ {b}
      PROVE  \E e \in Starts(s, a, b) : CharIs(s, k, e)
  <2>1. k \in a..(b - 1) /\ k + 1 \in a..b
    BY DEF Starts
  <2>2. CharIs(s, k, k + 1)
    BY <2>1 DEF CharIs
  <2>3. QED
    BY <1>1, <2>1, <2>2
<1>3. QED
  BY <1>1, <1>2, TextIs

LEMMA CharIsText ==
  ASSUME NEW s \in Seq(Byte), NEW k \in Nat, NEW e, CharIs(s, k, e)
  PROVE  e \in Nat /\ TextBetween(s, k, e)
<1>1. /\ e \in Nat /\ k < e
      /\ \A j \in (k + 1)..(e - 1) : ByteAt(s, j) \in Cont
  BY CharProperties
<1>2. ByteAt(s, k) \notin Cont
  BY CharProperties
<1>3. k \in Starts(s, k, e) /\ e \in Starts(s, k, e)
  BY <1>1, <1>2 DEF Starts
<1>4. \A q \in Starts(s, k, e) \ {e} : q = k
  BY <1>1 DEF Starts
<1>5. QED
  BY <1>1, <1>3, <1>4, TextIs

LEMMA EmptyIsText == IsText(<< >>)
BY DEF IsText, TextBetween, Starts

-----------------------------------------------------------------------------
(* Texts as sequences. *)

LEMMA SubSeqIsText ==
  ASSUME NEW s \in Seq(Byte), NEW a \in Nat, NEW b \in Nat, b <= Len(s), TextBetween(s, a, b)
  PROVE  SubSeq(s, a + 1, b) \in Seq(Byte) /\ IsText(SubSeq(s, a + 1, b))
<1> DEFINE t == SubSeq(s, a + 1, b)
<1>0. a <= b /\ Len(s) \in Nat
  BY LenProperties DEF TextBetween, Starts
<1>1. \A m \in (a + 1)..b : s[m] \in Byte
  <2>1. \A m \in (a + 1)..b : m \in 1..Len(s)
    BY <1>0
  <2>2. QED
    BY <2>1, ElementOfSeq
<1>2. /\ t \in Seq(Byte)
      /\ Len(t) = (IF a + 1 <= b THEN b - (a + 1) + 1 ELSE 0)
      /\ \A m \in 1..(b - (a + 1) + 1) : t[m] = s[a + 1 + m - 1]
  BY <1>1, SubSeqProperties
<1> HIDE DEF t
<1>3. Len(t) = b - a
  BY <1>0, <1>2
<1>4. ASSUME NEW j \in 0..(b - a - 1)
      PROVE  ByteAt(s, a + j) = ByteAt(t, 0 + j)
  <2>1. j + 1 \in 1..(b - (a + 1) + 1) /\ a + 1 + (j + 1) - 1 = a + j + 1
    BY <1>0
  <2>2. t[j + 1] = s[a + j + 1]
    BY <1>2, <2>1
  <2>3. j < Len(t) /\ a + j < Len(s) /\ 0 + j = j
    BY <1>0, <1>3
  <2>4. QED
    BY <2>2, <2>3 DEF ByteAt
<1>5. TextBetween(t, 0, 0 + (b - a))
  BY <1>0, <1>2, <1>4, TextMoved
<1>6. 0 + (b - a) = Len(t)
  BY <1>0, <1>3
<1>7. QED
  BY <1>2, <1>5, <1>6 DEF t, IsText

LEMMA ConcatIsText ==
  ASSUME NEW s \in Seq(Byte), NEW t \in Seq(Byte), IsText(s), IsText(t)
  PROVE  s \o t \in Seq(Byte) /\ IsText(s \o t)
<1> DEFINE r == s \o t
<1>1. /\ r \in Seq(Byte) /\ Len(s) \in Nat /\ Len(t) \in Nat
      /\ Len(r) = Len(s) + Len(t)
      /\ \A m \in 1..(Len(s) + Len(t)) :
           r[m] = IF m <= Len(s) THEN s[m] ELSE t[m - Len(s)]
  BY LenProperties, ConcatProperties
<1> HIDE DEF r
<1>2. ASSUME NEW j \in 0..(Len(s) - 0 - 1)
      PROVE  ByteAt(s, 0 + j) = ByteAt(r, 0 + j)
  <2>1. j + 1 \in 1..(Len(s) + Len(t)) /\ j + 1 <= Len(s) /\ j < Len(s) /\ j < Len(r) /\ 0 + j = j
    BY <1>1
  <2>2. r[j + 1] = s[j + 1]
    BY <1>1, <2>1
  <2>3. QED
    BY <2>1, <2>2 DEF ByteAt
<1>3. TextBetween(r, 0, 0 + (Len(s) - 0))
  BY <1>1, <1>2, TextMoved DEF IsText
<1>4. ASSUME NEW j \in 0..(Len(t) - 0 - 1)
      PROVE  ByteAt(t, 0 + j) = ByteAt(r, Len(s) + j)
  <2>1. /\ Len(s) + j + 1 \in 1..(Len(s) + Len(t)) /\ ~ (Len(s) + j + 1 <= Len(s))
        /\ Len(s) + j + 1 - Len(s) = j + 1
        /\ j < Len(t) /\ Len(s) + j < Len(r) /\ 0 + j = j
    BY <1>1
  <2>2. r[Len(s) + j + 1] = t[j + 1]
    BY <1>1, <2>1
  <2>3. QED
    BY <2>1, <2>2 DEF ByteAt
<1>5. TextBetween(r, Len(s), Len(s) + (Len(t) - 0))
  BY <1>1, <1>4, TextMoved DEF IsText
<1>6. 0 + (Len(s) - 0) = Len(s) /\ Len(s) + (Len(t) - 0) = Len(r)
  BY <1>1
<1>7. TextBetween(r, 0, Len(r))
  BY <1>1, <1>3, <1>5, <1>6, TextJoined
<1>8. QED
  BY <1>1, <1>7 DEF r, IsText

-----------------------------------------------------------------------------
(* The ends of runs: the CHOOSE of RunEnd and LiteralEnd has a value.      *)

LEMMA FirstOf ==
  ASSUME NEW k \in Nat, NEW n \in Nat, NEW S \in SUBSET (k..n), n \in S
  PROVE  \E e \in S : \A j \in k..(e - 1) : j \notin S
<1>1. S \subseteq Nat /\ S # {}
  OBVIOUS
<1>2. PICK e \in S : \A y \in S : ~ (<<y, e>> \in OpToRel(<, Nat))
  BY <1>1, NatLessThanWellFounded, WFMin
<1>3. ASSUME NEW j \in k..(e - 1), j \in S
      PROVE  FALSE
  <2>1. j \in Nat /\ e \in Nat /\ j < e
    BY <1>1
  <2>2. <<j, e>> \in OpToRel(<, Nat)
    BY <2>1 DEF OpToRel
  <2>3. QED
    BY <1>2, <1>3, <2>2
<1>4. QED
  BY <1>3

LEMMA RunEndIs ==
  ASSUME source.input \in Seq(Byte), NEW k \in Nat, k <= Len(source.input)
  PROVE  /\ RunEnd(k) \in k..Len(source.input)
         /\ \A j \in k..(RunEnd(k) - 1) : At(j) \in Plain
<1> DEFINE n == Len(source.input)
           S == {e \in k..n : At(e) \notin Plain}
<1>1. n \in Nat
  BY LenProperties
<1>2. At(n) \notin Plain
  BY <1>1, ByteKinds DEF At, ByteAt, Ascii
<1>3. n \in S /\ S \in SUBSET (k..n)
  BY <1>1, <1>2
<1>4. \E e \in S : \A j \in k..(e - 1) : j \notin S
  <2> HIDE DEF n, S
  <2> QED
    BY <1>1, <1>3, FirstOf
<1>5. \E e \in k..n : At(e) \notin Plain /\ \A j \in k..(e - 1) : At(j) \in Plain
  BY <1>1, <1>4
<1>6. QED
  BY <1>5 DEF RunEnd

LEMMA LiteralEndIs ==
  ASSUME raw \in Seq(Byte), NEW k \in 1..Len(raw), raw[k] # "backslash"
  PROVE  /\ LiteralEnd(k) \in (k + 1)..(Len(raw) + 1)
         /\ LiteralEnd(k) > Len(raw) \/ raw[LiteralEnd(k)] = "backslash"
<1> DEFINE n == Len(raw) + 1
           S == {e \in k..n : e > Len(raw) \/ raw[e] = "backslash"}
<1>1. n \in Nat /\ k \in Nat /\ Len(raw) \in Nat
  BY LenProperties
<1>2. n \in S /\ S \in SUBSET (k..n)
  BY <1>1
<1>3. \E e \in S : \A j \in k..(e - 1) : j \notin S
  <2> HIDE DEF n, S
  <2> QED
    BY <1>1, <1>2, FirstOf
<1>4. \E e \in k..n : /\ e > Len(raw) \/ raw[e] = "backslash"
                      /\ \A j \in k..(e - 1) : raw[j] # "backslash"
  BY <1>1, <1>3
<1>5. /\ LiteralEnd(k) \in k..n
      /\ LiteralEnd(k) > Len(raw) \/ raw[LiteralEnd(k)] = "backslash"
  BY <1>4 DEF LiteralEnd
<1>6. QED
  BY <1>1, <1>5

-----------------------------------------------------------------------------
(* Four digits are a code unit. *)

LEMMA HexValueIs ==
  ASSUME NEW b, IsHex(b)
  PROVE  HexValue(b) \in 0..(Radix - 1)
<1>1. \E k \in DOMAIN HexDigits : HexDigits[k] = b
  BY DEF IsHex, Range
<1>2. (CHOOSE k \in DOMAIN HexDigits : HexDigits[k] = b) \in 1..Radix
  BY <1>1, CodecAssumption
<1>3. QED
  BY <1>2, CodecAssumption DEF HexValue

LEMMA OneMoreDigit ==
  ASSUME NEW r \in Nat, NEW p \in Nat, NEW x \in 0..(p - 1), NEW d \in 0..(r - 1)
  PROVE  x * r + d \in 0..(p * r - 1) /\ p * r \in Nat
<1>1. x * r \in Nat /\ p * r \in Nat /\ (p - 1) * r = p * r - r
  OBVIOUS
<1>2. x * r <= (p - 1) * r
  OBVIOUS
<1>3. x * r + d \in Nat
  BY <1>1
<1>4. x * r + d <= p * r - 1
  BY <1>1, <1>2
<1>5. QED
  BY <1>1, <1>3, <1>4

LEMMA Hex4Is ==
  ASSUME NEW s, \A j \in 1..4 : IsHex(s[j])
  PROVE  Hex4(s) \in Units
<1>1. Radix \in Nat /\ \A j \in 1..4 : HexValue(s[j]) \in 0..(Radix - 1)
  BY HexValueIs, CodecAssumption
<1> DEFINE a == HexValue(s[1])
           b == a * Radix + HexValue(s[2])
           c == b * Radix + HexValue(s[3])
           d == c * Radix + HexValue(s[4])
<1>2. a \in 0..(Radix - 1)
  BY <1>1
<1>3. b \in 0..(Radix * Radix - 1) /\ Radix * Radix \in Nat
  BY <1>1, <1>2, OneMoreDigit
<1> HIDE DEF b
<1>4. c \in 0..(Radix * Radix * Radix - 1) /\ Radix * Radix * Radix \in Nat
  BY <1>1, <1>3, OneMoreDigit
<1> HIDE DEF c
<1>5. d \in 0..(Radix * Radix * Radix * Radix - 1)
  BY <1>1, <1>4, OneMoreDigit
<1>6. QED
  BY <1>5 DEF Hex4, Units, b, c

-----------------------------------------------------------------------------
(* What is behind the cursor of the scan is text, and so are the bytes the *)
(* scan took; the decoder stands where a character of them starts.         *)
Input == source.input

SInv ==
  /\ Input \in Seq(Byte)
  /\ out \in Seq(Byte) /\ IsText(out)
  /\ raw \in Seq(Byte) /\ IsText(raw)
  /\ pc = "scan" => offset \in Nat /\ TextBetween(Input, 1, offset) /\ i = 1
  /\ pc = "decode" => i \in Nat /\ i - 1 \in Starts(raw, 0, Len(raw))

LEMMA InitSInv == Init => SInv
<1> SUFFICES ASSUME Init PROVE SInv
  OBVIOUS
<1>1. Input \in Seq(Byte)
  BY SourcesAssumption DEF Init, Input
<1>2. TextBetween(Input, 1, 1)
  BY <1>1, AsciiIsText
<1>3. << >> \in Seq(Byte)
  BY EmptySeq
<1>4. QED
  BY <1>1, <1>2, <1>3, EmptyIsText DEF Init, SInv

(* Every step of the scan that goes on, and every one that gives up.       *)
ScanGoesOn ==
  /\ pc' = "scan" /\ offset' \in Nat /\ TextBetween(Input, offset, offset')
  /\ UNCHANGED <<source, i, raw, out>>
GivesUp == pc' = "done" /\ UNCHANGED <<source, i, raw, out>>

LEMMA GivesUpKeeps ==
  ASSUME SInv, GivesUp
  PROVE  SInv'
BY DEF SInv, GivesUp, Input

LEMMA ScanGoesOnKeeps ==
  ASSUME SInv, pc = "scan", ScanGoesOn
  PROVE  SInv'
<1>1. TextBetween(Input, 1, offset')
  BY TextJoined DEF SInv, ScanGoesOn
<1>2. QED
  BY <1>1 DEF SInv, ScanGoesOn, Input

LEMMA OffsetInside ==
  ASSUME SInv, pc = "scan", At(offset) # "eof"
  PROVE  offset \in Nat /\ offset < Len(Input) /\ Len(Input) \in Nat
BY ByteAtIs, LenProperties DEF SInv, At, Input

LEMMA ScanRunKeeps ==
  ASSUME SInv, ScanRun
  PROVE  SInv'
<1>1. pc = "scan" /\ At(offset) \in Plain /\ offset' = RunEnd(offset)
      /\ pc' = pc /\ UNCHANGED <<source, i, raw, out>>
  BY DEF ScanRun, Scanning, NotClosed, Stay
<1>2. offset \in Nat /\ offset < Len(Input) /\ Len(Input) \in Nat
  <2>1. At(offset) # "eof"
    BY <1>1, ByteKinds DEF Ascii
  <2>2. QED
    BY <1>1, <2>1, OffsetInside
<1>3. /\ RunEnd(offset) \in offset..Len(Input)
      /\ \A j \in offset..(RunEnd(offset) - 1) : At(j) \in Plain
  BY <1>2, RunEndIs DEF SInv, Input
<1>4. \A j \in offset..(offset' - 1) : ByteAt(Input, j) \in Ascii
  BY <1>1, <1>3, ByteKinds DEF At, Input
<1>5. TextBetween(Input, offset, offset')
  BY <1>1, <1>2, <1>3, <1>4, AsciiIsText DEF SInv
<1>6. QED
  BY <1>1, <1>2, <1>3, <1>5, ScanGoesOnKeeps DEF ScanGoesOn

LEMMA ScanUtf8Keeps ==
  ASSUME SInv, ScanUtf8
  PROVE  SInv'
<1> DEFINE char == CharEnd(source.input, offset)
<1>1. pc = "scan" /\ offset' = char.end /\ UNCHANGED <<source, i, raw, out>>
  BY DEF ScanUtf8, Scanning, NotClosed
<1>2. CASE char.ok
  <2>1. pc' = pc
    BY <1>2, Zenon DEF ScanUtf8, Stay
  <2>2. CharIs(Input, offset, offset')
    BY <1>1, <1>2, Zenon DEF CharIs, Input
  <2>3. offset' \in Nat /\ TextBetween(Input, offset, offset')
    BY <1>1, <2>2, CharIsText DEF SInv
  <2>4. QED
    BY <1>1, <2>1, <2>3, ScanGoesOnKeeps DEF ScanGoesOn
<1>3. CASE ~ char.ok
  <2>1. pc' = "done"
    BY <1>3, Zenon DEF ScanUtf8, Return
  <2>2. QED
    BY <1>1, <2>1, GivesUpKeeps DEF GivesUp
<1>4. QED
  BY <1>2, <1>3

LEMMA ScanEscapeKeeps ==
  ASSUME SInv, ScanEscape
  PROVE  SInv'
<1> DEFINE kind == At(offset + 1)
           notHex == {k \in (offset + 2)..(offset + 5) : ~ IsHex(At(k))}
<1>1. pc = "scan" /\ At(offset) = "backslash" /\ UNCHANGED <<source, i, raw, out>>
  BY DEF ScanEscape, Scanning, NotClosed
<1>2. offset \in Nat
  BY <1>1 DEF SInv
<1>3. "u" \notin Named /\ "eof" \notin Named
  BY DEF Named, NamedEscape
<1>4. CASE kind \in Named
  <2>1. offset' = offset + 2 /\ pc' = pc
    BY <1>3, <1>4 DEF ScanEscape, Stay
  <2>2. \A j \in offset..(offset + 2 - 1) : j = offset \/ j = offset + 1
    BY <1>2
  <2>3. \A j \in offset..(offset + 2 - 1) : ByteAt(Input, j) \in Ascii
    BY <1>1, <1>4, <2>2, ByteKinds DEF At, Input
  <2>4. TextBetween(Input, offset, offset + 2)
    BY <1>2, <2>3, AsciiIsText DEF SInv
  <2>5. QED
    BY <1>1, <1>2, <2>1, <2>4, ScanGoesOnKeeps DEF ScanGoesOn
<1>5. CASE kind = "u" /\ notHex = {}
  <2>1. offset' = offset + 6 /\ pc' = pc
    BY <1>3, <1>5 DEF ScanEscape, Stay
  <2>2. \A j \in offset..(offset + 6 - 1) :
          j = offset \/ j = offset + 1 \/ j \in (offset + 2)..(offset + 5)
    BY <1>2
  <2>3. \A j \in (offset + 2)..(offset + 5) : At(j) \in Ascii
    BY <1>5, ByteKinds DEF IsHex
  <2>4. \A j \in offset..(offset + 6 - 1) : ByteAt(Input, j) \in Ascii
    BY <1>1, <1>5, <2>2, <2>3, ByteKinds DEF At, Input
  <2>5. TextBetween(Input, offset, offset + 6)
    BY <1>2, <2>4, AsciiIsText DEF SInv
  <2>6. QED
    BY <1>1, <1>2, <2>1, <2>5, ScanGoesOnKeeps DEF ScanGoesOn
<1>6. CASE kind \notin Named /\ ~ (kind = "u" /\ notHex = {})
  <2>1. pc' = "done"
    BY <1>6 DEF ScanEscape, Return
  <2>2. QED
    BY <1>1, <2>1, GivesUpKeeps DEF GivesUp
<1>7. QED
  BY <1>4, <1>5, <1>6

LEMMA ScanCloseKeeps ==
  ASSUME SInv, ScanClose
  PROVE  SInv'
<1> DEFINE body == SubSeq(source.input, 2, offset)
<1>1. /\ pc = "scan" /\ At(offset) = "quote"
      /\ UNCHANGED <<source, i>> /\ raw' = body /\ out' \in {out, body}
      /\ pc' \in {"check", "decode", "done"}
  BY DEF ScanClose, Scanning, Return
<1>2. offset \in Nat /\ offset < Len(Input)
  BY <1>1, OffsetInside
<1>3. body \in Seq(Byte) /\ IsText(body)
  <2>1. SubSeq(Input, 1 + 1, offset) \in Seq(Byte) /\ IsText(SubSeq(Input, 1 + 1, offset))
    BY <1>1, <1>2, SubSeqIsText DEF SInv
  <2>2. QED
    BY <2>1 DEF Input
<1>4. Starts(body, 0, Len(body)) = Starts(raw, 0, Len(raw))'
  BY <1>1 DEF Starts
<1>5. i \in Nat /\ i - 1 \in Starts(body, 0, Len(body))
  BY <1>1, <1>3 DEF SInv, IsText, TextBetween
<1>6. i' \in Nat /\ i' - 1 \in Starts(raw', 0, Len(raw'))
  BY <1>1, <1>4, <1>5
<1>7. QED
  BY <1>1, <1>3, <1>6 DEF SInv, Input

-----------------------------------------------------------------------------
(* The decoder. *)

(* The text of one piece, and that a character starts behind it.           *)
PieceIsText(piece) ==
  piece.kind = "ok" =>
    /\ piece.text \in Seq(Byte) /\ IsText(piece.text)
    /\ piece.next \in Nat /\ piece.next - 1 \in Starts(raw, 0, Len(raw))

LEMMA RawProperties ==
  ASSUME SInv
  PROVE  /\ raw \in Seq(Byte) /\ Len(raw) \in Nat /\ TextBetween(raw, 0, Len(raw))
         /\ \A k \in 1..Len(raw) : ByteAt(raw, k - 1) = raw[k]
<1>1. raw \in Seq(Byte) /\ Len(raw) \in Nat /\ TextBetween(raw, 0, Len(raw))
  BY LenProperties DEF SInv, IsText
<1>2. \A k \in 1..Len(raw) : k - 1 < Len(raw) /\ k - 1 + 1 = k
  BY <1>1
<1>3. QED
  BY <1>1, <1>2 DEF ByteAt

(* Behind an ASCII byte of raw a character starts.                         *)
LEMMA StartsBehind ==
  ASSUME SInv, NEW k \in 1..Len(raw), raw[k] \in Ascii
  PROVE  k \in Starts(raw, 0, Len(raw))
<1>1. Len(raw) \in Nat /\ ByteAt(raw, k - 1) \in Ascii /\ TextBetween(raw, 0, Len(raw))
  BY RawProperties
<1>2. k - 1 \in 0..Len(raw) /\ k - 1 # Len(raw) /\ k - 1 + 1 = k
  BY <1>1
<1>3. k - 1 \in Starts(raw, 0, Len(raw))
  BY <1>1, <1>2, ByteKinds DEF Starts
<1>4. k - 1 + 1 \in Starts(raw, 0, Len(raw))
  BY <1>1, <1>2, <1>3, BehindAscii DEF SInv
<1>5. QED
  BY <1>2, <1>4

LEMMA LiteralIsText ==
  ASSUME SInv, pc = "decode", i <= Len(raw), raw[i] # "backslash"
  PROVE  PieceIsText(Decoded("ok", SubSeq(raw, i, LiteralEnd(i) - 1), LiteralEnd(i)))
<1> DEFINE e == LiteralEnd(i)
           n == Len(raw)
<1>1. n \in Nat /\ i - 1 \in Starts(raw, 0, n) /\ TextBetween(raw, 0, n)
  BY RawProperties DEF SInv
<1>2. i \in 1..n
  BY <1>1 DEF Starts, SInv
<1>3. e \in (i + 1)..(n + 1) /\ (e > n \/ raw[e] = "backslash")
  BY <1>2, LiteralEndIs DEF SInv
<1> HIDE DEF e
<1>4. e - 1 \in Starts(raw, 0, n)
  <2>1. CASE e > n
    <3>1. e - 1 = n
      BY <1>1, <1>2, <1>3, <2>1
    <3>2. QED
      BY <1>1, <3>1 DEF Starts
  <2>2. CASE e <= n /\ raw[e] = "backslash"
    <3>1. e \in 1..n /\ e - 1 \in 0..n
      BY <1>1, <1>2, <1>3, <2>2
    <3>2. ByteAt(raw, e - 1) = "backslash"
      BY <2>2, <3>1, RawProperties
    <3>3. QED
      BY <3>1, <3>2 DEF Starts, Cont
  <2>3. QED
    BY <1>1, <1>2, <1>3, <2>1, <2>2
<1>5. i - 1 \in Nat /\ e - 1 \in Nat /\ i - 1 <= e - 1 /\ e - 1 <= n /\ i - 1 + 1 = i /\ e \in Nat
  BY <1>1, <1>2, <1>3
<1>6. TextBetween(raw, i - 1, e - 1)
  BY <1>1, <1>4, <1>5, TextCut DEF SInv
<1>7. SubSeq(raw, i, e - 1) \in Seq(Byte) /\ IsText(SubSeq(raw, i, e - 1))
  <2>1. SubSeq(raw, i - 1 + 1, e - 1) \in Seq(Byte) /\ IsText(SubSeq(raw, i - 1 + 1, e - 1))
    BY <1>5, <1>6, SubSeqIsText DEF SInv
  <2>2. QED
    BY <1>5, <2>1
<1>8. QED
  BY <1>4, <1>5, <1>7 DEF PieceIsText, Decoded, e

(* Four hex digits of raw from k on.                                       *)
LEMMA HexOfRaw ==
  ASSUME SInv, NEW k \in Nat, k >= 1, k + 3 <= Len(raw), AllHex(SubSeq(raw, k, k + 3))
  PROVE  Hex4(SubSeq(raw, k, k + 3)) \in Units /\ raw[k + 3] \in Ascii
<1> DEFINE t == SubSeq(raw, k, k + 3)
<1>1. Len(raw) \in Nat /\ \A j \in k..(k + 3) : raw[j] \in Byte
  <2>1. \A j \in k..(k + 3) : j \in 1..Len(raw)
    BY RawProperties
  <2>2. QED
    BY <2>1, RawProperties, ElementOfSeq
<1>2. /\ t \in Seq(Byte)
      /\ Len(t) = (IF k <= k + 3 THEN k + 3 - k + 1 ELSE 0)
      /\ \A j \in 1..(k + 3 - k + 1) : t[j] = raw[k + j - 1]
  BY <1>1, SubSeqProperties
<1> HIDE DEF t
<1>3. Len(t) = 4 /\ t[4] = raw[k + 3] /\ DOMAIN t = 1..4
  <2>1. 4 \in 1..(k + 3 - k + 1) /\ k + 4 - 1 = k + 3
    OBVIOUS
  <2>2. Len(t) = 4
    BY <1>2
  <2>3. QED
    BY <1>2, <2>1, <2>2, LenProperties
<1>4. \A j \in 1..4 : IsHex(t[j])
  BY <1>3 DEF AllHex, t
<1>5. t[4] \in Ascii
  BY <1>4, ByteKinds DEF IsHex
<1>6. QED
  BY <1>3, <1>4, <1>5, Hex4Is DEF t

LEMMA UnicodeEscapeIsText ==
  ASSUME SInv, NEW k \in Nat, k >= 1
  PROVE  PieceIsText(UnicodeEscape(k))
<1> DEFINE whole == k + 4 <= Len(raw) /\ AllHex(SubSeq(raw, k + 1, k + 4))
           unit == Hex4(SubSeq(raw, k + 1, k + 4))
           low == whole /\ unit \in Low
           high == whole /\ unit \in High
           paired == /\ high /\ k + 10 <= Len(raw)
                     /\ raw[k + 5] = "backslash" /\ raw[k + 6] = "u"
           second == SubSeq(raw, k + 7, k + 10)
           closes == paired /\ AllHex(second) /\ Hex4(second) \in Low
<1>1. CASE whole /\ ~ low /\ ~ high
  <2>1. UnicodeEscape(k) = Decoded("ok", Encode[unit], k + 5)
    BY <1>1 DEF UnicodeEscape
  <2>2. unit \in Units /\ raw[k + 4] \in Ascii
    <3>1. k + 1 \in Nat /\ k + 1 >= 1 /\ (k + 1) + 3 = k + 4 /\ k + 4 <= Len(raw)
      BY <1>1
    <3>2. AllHex(SubSeq(raw, k + 1, (k + 1) + 3))
      BY <1>1, <3>1
    <3>3. Hex4(SubSeq(raw, k + 1, (k + 1) + 3)) \in Units /\ raw[(k + 1) + 3] \in Ascii
      BY <3>1, <3>2, HexOfRaw
    <3>4. QED
      BY <3>1, <3>3
  <2>3. unit \in Scalars
    BY <1>1, <2>2 DEF Scalars
  <2>4. k + 4 \in 1..Len(raw)
    BY <1>1, RawProperties
  <2>5. k + 4 \in Starts(raw, 0, Len(raw))
    BY <2>2, <2>4, StartsBehind
  <2>6. k + 5 \in Nat /\ k + 5 - 1 = k + 4
    OBVIOUS
  <2>7. Encode[unit] \in Seq(Byte) /\ IsText(Encode[unit])
    BY <2>3, CodecAssumption
  <2>8. QED
    BY <2>1, <2>5, <2>6, <2>7 DEF PieceIsText, Decoded
<1>2. CASE closes
  <2>1. UnicodeEscape(k) = Decoded("ok", Encode[Combine(unit, Hex4(second))], k + 11)
    <3>1. ~ low
      BY <1>2, CodecAssumption
    <3>2. QED
      BY <1>2, <3>1 DEF UnicodeEscape
  <2>2. raw[k + 10] \in Ascii
    <3>1. k + 7 \in Nat /\ k + 7 >= 1 /\ (k + 7) + 3 = k + 10 /\ k + 10 <= Len(raw)
      BY <1>2
    <3>2. AllHex(SubSeq(raw, k + 7, (k + 7) + 3))
      BY <1>2, <3>1
    <3>3. raw[(k + 7) + 3] \in Ascii
      BY <3>1, <3>2, HexOfRaw
    <3>4. QED
      BY <3>1, <3>3
  <2>3. Combine(unit, Hex4(second)) \in Scalars
    BY <1>2 DEF Scalars
  <2>4. k + 10 \in 1..Len(raw)
    BY <1>2, RawProperties
  <2>5. k + 10 \in Starts(raw, 0, Len(raw))
    BY <2>2, <2>4, StartsBehind
  <2>6. k + 11 \in Nat /\ k + 11 - 1 = k + 10
    OBVIOUS
  <2> HIDE DEF unit, second
  <2>7. /\ Encode[Combine(unit, Hex4(second))] \in Seq(Byte)
        /\ IsText(Encode[Combine(unit, Hex4(second))])
    BY <2>3, CodecAssumption
  <2>8. QED
    BY <2>1, <2>5, <2>6, <2>7 DEF PieceIsText, Decoded
<1>3. CASE ~ (whole /\ ~ low /\ ~ high) /\ ~ closes
  <2>1. UnicodeEscape(k) \in {Invalid("InvalidUnicodeEscape"), Invalid("UnpairedSurrogate")}
    BY <1>3 DEF UnicodeEscape
  <2>2. QED
    BY <2>1 DEF PieceIsText, Invalid, Decoded
<1>4. QED
  BY <1>1, <1>2, <1>3

LEMMA NextPieceIsText ==
  ASSUME SInv, pc = "decode", i <= Len(raw)
  PROVE  PieceIsText(NextPiece)
<1> DEFINE n == Len(raw)
<1>1. n \in Nat /\ i \in 1..n
  BY RawProperties DEF SInv, Starts
<1>2. "u" \notin Named
  BY DEF Named, NamedEscape
<1>3. CASE raw[i] # "backslash"
  <2>1. NextPiece = Decoded("ok", SubSeq(raw, i, LiteralEnd(i) - 1), LiteralEnd(i))
    BY <1>3 DEF NextPiece
  <2>2. QED
    BY <1>1, <1>3, <2>1, LiteralIsText
<1>4. CASE raw[i] = "backslash" /\ i < n /\ raw[i + 1] = "u"
  <2>1. NextPiece = UnicodeEscape(i + 1)
    BY <1>1, <1>2, <1>4 DEF NextPiece
  <2>2. i + 1 \in Nat /\ i + 1 >= 1
    BY <1>1
  <2>3. QED
    BY <2>1, <2>2, UnicodeEscapeIsText
<1>5. CASE raw[i] = "backslash" /\ i < n /\ raw[i + 1] \in Named
  <2> DEFINE c == NamedEscape[raw[i + 1]]
  <2>1. NextPiece = Decoded("ok", <<c>>, i + 2)
    BY <1>1, <1>2, <1>5 DEF NextPiece
  <2>2. c \in Ascii
    <3>1. \A b \in Named : NamedEscape[b] \in {"quote", "backslash", "slash", "newline"}
      BY DEF Named, NamedEscape
    <3>2. "slash" \in Ascii
      BY ByteKinds DEF Plain
    <3>3. QED
      BY <1>5, <3>1, <3>2, ByteKinds
  <2> HIDE DEF c
  <2> DEFINE t == <<c>>
  <2>3. t \in Seq(Byte) /\ Len(t) = 1 /\ t[1] = c
    BY <2>2 DEF Ascii
  <2> HIDE DEF t
  <2>4. \A k \in 0..(1 - 1) : ByteAt(t, k) \in Ascii
    BY <2>2, <2>3 DEF ByteAt
  <2>5. IsText(t)
    <3>1. TextBetween(t, 0, 1)
      BY <2>3, <2>4, AsciiIsText
    <3>2. QED
      BY <2>3, <3>1 DEF IsText
  <2>6. i + 1 \in 1..n /\ i + 2 \in Nat /\ i + 2 - 1 = i + 1
    BY <1>1, <1>5
  <2>7. raw[i + 1] \in Ascii
    BY <1>5, ByteKinds
  <2>8. i + 1 \in Starts(raw, 0, n)
    BY <2>6, <2>7, StartsBehind
  <2>9. NextPiece = Decoded("ok", t, i + 2)
    BY <2>1 DEF t
  <2>10. NextPiece.text = t /\ NextPiece.next = i + 2
    BY <2>9 DEF Decoded
  <2>11. NextPiece.next \in Nat /\ NextPiece.next - 1 = i + 1
    BY <1>1, <2>6, <2>10
  <2>12. NextPiece.next - 1 \in Starts(raw, 0, Len(raw))
    BY <2>8, <2>11
  <2>13. QED
    BY <2>3, <2>5, <2>10, <2>11, <2>12 DEF PieceIsText
<1>6. CASE raw[i] = "backslash" /\ (i = n \/ (raw[i + 1] # "u" /\ raw[i + 1] \notin Named))
  <2>1. NextPiece = Invalid("InvalidEscape")
    BY <1>1, <1>6 DEF NextPiece
  <2>2. QED
    BY <2>1 DEF PieceIsText, Invalid, Decoded
<1>7. QED
  BY <1>1, <1>3, <1>4, <1>5, <1>6

LEMMA DecodeKeeps ==
  ASSUME SInv, Decode
  PROVE  SInv'
<1>1. pc = "decode" /\ i <= Len(raw) /\ UNCHANGED <<source, raw>>
  BY DEF Decode
<1>2. PieceIsText(NextPiece)
  BY <1>1, NextPieceIsText
<1>3. \/ pc' = "done" /\ UNCHANGED <<out, i>>
      \/ /\ NextPiece.kind = "ok" /\ pc' = pc
         /\ out' = out \o NextPiece.text /\ i' = NextPiece.next
  BY DEF Decode, Push, Return, Stay
<1>4. CASE pc' = "done" /\ UNCHANGED <<out, i>>
  BY <1>1, <1>4, GivesUpKeeps DEF GivesUp
<1>5. CASE /\ NextPiece.kind = "ok" /\ pc' = pc
           /\ out' = out \o NextPiece.text /\ i' = NextPiece.next
  <2> DEFINE text == NextPiece.text
             next == NextPiece.next
  <2>1. /\ text \in Seq(Byte) /\ IsText(text)
        /\ next \in Nat /\ next - 1 \in Starts(raw, 0, Len(raw))
    BY <1>2, <1>5 DEF PieceIsText
  <2> HIDE DEF text, next
  <2>2. out' \in Seq(Byte) /\ IsText(out')
    BY <1>5, <2>1, ConcatIsText DEF SInv, text
  <2>3. i' = next /\ Starts(raw', 0, Len(raw')) = Starts(raw, 0, Len(raw))
    BY <1>1, <1>5 DEF next
  <2>4. QED
    BY <1>1, <1>5, <2>1, <2>2, <2>3 DEF SInv, Input
<1>6. QED
  BY <1>3, <1>4, <1>5

LEMMA StepSInv == SInv /\ [Next]_vars => SInv'
<1> SUFFICES ASSUME SInv, [Next]_vars PROVE SInv'
  OBVIOUS
<1>1. CASE ScanRun
  BY <1>1, ScanRunKeeps
<1>2. CASE ScanUtf8
  BY <1>2, ScanUtf8Keeps
<1>3. CASE ScanControl \/ ScanEnd \/ RefuseEscape
  BY <1>3, GivesUpKeeps
     DEF ScanControl, ScanEnd, RefuseEscape, Scanning, NotClosed, Return, GivesUp
<1>4. CASE ScanEscape
  BY <1>4, ScanEscapeKeeps
<1>5. CASE ScanClose
  BY <1>5, ScanCloseKeeps
<1>6. CASE Check
  <2>1. pc = "check" /\ pc' \in {"check", "done"} /\ UNCHANGED <<source, raw, out>>
    BY <1>6 DEF Check, Stay, Return
  <2>2. QED
    BY <2>1 DEF SInv, Input
<1>7. CASE CheckDone \/ DecodeDone
  BY <1>7, GivesUpKeeps DEF CheckDone, DecodeDone, Return, GivesUp
<1>8. CASE Decode
  BY <1>8, DecodeKeeps
<1>9. CASE UNCHANGED vars
  BY <1>9 DEF vars, SInv, Input
<1>10. QED
  BY <1>1, <1>2, <1>3, <1>4, <1>5, <1>6, <1>7, <1>8, <1>9 DEF Next

-----------------------------------------------------------------------------
(* Whatever bytes are read, what is handed out as text without a check is  *)
(* text at every step (decoder.rs:129, lexer.rs:1003, event.rs:100).       *)
THEOREM TextIsAlwaysText == Spec => []OutIsAlwaysText
<1>1. SInv => OutIsAlwaysText
  BY DEF SInv, OutIsAlwaysText
<1>2. QED
  BY InitSInv, StepSInv, <1>1, PTL DEF Spec
=============================================================================
