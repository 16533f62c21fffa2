------------------------ MODULE AnswerStream_proofs ------------------------
(***************************************************************************)
(* Proofs about one streamed answer, for any alphabet, marker, texts,      *)
(* holdback and website: what the client was sent is what is saved, the    *)
(* private marker stays private, shallow rewrites do no harm, only an      *)
(* answer that stands still is saved, and the frames keep their order.     *)
(***************************************************************************)
EXTENDS AnswerStream, SequenceTheorems, FiniteSetTheorems, WellFoundedInduction, TLAPS

(* Least and greatest elements.                                            *)
LEMMA MinExists ==
  ASSUME NEW S \in SUBSET Nat, S # {}
  PROVE  Min(S) \in S /\ \A y \in S : Min(S) <= y
<1> DEFINE R == OpToRel(<, Nat)
<1>1. IsWellFoundedOn(R, Nat)
  BY NatLessThanWellFounded
<1>2. \A j, k \in Nat : <<j, k>> \in R <=> j < k
  BY DEF OpToRel
<1> HIDE DEF R
<1>3. PICK x \in S : \A y \in S : <<y, x>> \notin R
  BY <1>1, WFMin
<1>4. ASSUME NEW y \in S PROVE x <= y
  <2>1. x \in Nat /\ y \in Nat
    OBVIOUS
  <2>2. ~(y < x)
    BY <2>1, <1>2, <1>3
  <2> QED
    BY <2>1, <2>2
<1> QED
  BY <1>4 DEF Min

LEMMA MaxExists ==
  ASSUME NEW n \in Nat, NEW S \in SUBSET (0..n), S # {}
  PROVE  Max(S) \in S /\ \A y \in S : y <= Max(S)
<1> DEFINE T == {k \in Nat : \E x \in S : k = n - x}
<1>1. T \in SUBSET Nat /\ T # {}
  <2>1. PICK x \in S : x \in 0..n
    OBVIOUS
  <2>2. n - x \in T
    BY <2>1
  <2> QED
    BY <2>2
<1>2. PICK k \in T : \A j \in T : k <= j
  BY <1>1, MinExists
<1>3. PICK x \in S : k = n - x
  OBVIOUS
<1>4. ASSUME NEW y \in S PROVE y <= x
  <2>1. n - y \in T
    OBVIOUS
  <2> QED
    BY <2>1, <1>2, <1>3
<1> QED
  BY <1>4 DEF Max
-----------------------------------------------------------------------------
(* Texts, symbol by symbol.                                                *)
LEMMA TextBasics ==
  ASSUME NEW t \in Texts
  PROVE  /\ Len(t) \in Nat /\ (Len(t) = 0 <=> t = <<>>)
         /\ \A i \in 1..Len(t) : t[i] \in Alphabet
         /\ t \o <<>> = t /\ <<>> \o t = t /\ <<>> \in Texts
  BY EmptySeq, LenProperties, ConcatEmptySeq, ElementOfSeq DEF Texts

LEMMA SameText ==
  ASSUME NEW s \in Texts, NEW t \in Texts, Len(s) = Len(t), \A i \in 1..Len(s) : s[i] = t[i]
  PROVE  s = t
  BY SeqEqual DEF Texts

LEMMA Cat ==
  ASSUME NEW s \in Texts, NEW t \in Texts
  PROVE  /\ s \o t \in Texts /\ Len(s \o t) = Len(s) + Len(t)
         /\ \A i \in 1..Len(s) : (s \o t)[i] = s[i]
         /\ \A i \in 1..Len(t) : (s \o t)[Len(s) + i] = t[i]
<1>1. /\ s \o t \in Texts /\ Len(s \o t) = Len(s) + Len(t)
      /\ \A i \in 1 .. Len(s) + Len(t) : (s \o t)[i] = IF i <= Len(s) THEN s[i] ELSE t[i - Len(s)]
  BY ConcatProperties DEF Texts
<1>2. Len(s) \in Nat /\ Len(t) \in Nat
  BY TextBasics
<1> QED
  BY <1>1, <1>2

LEMMA CatCat ==
  ASSUME NEW s \in Texts, NEW t \in Texts, NEW u \in Texts
  PROVE  (s \o t) \o u = s \o (t \o u)
  BY ConcatAssociative DEF Texts

LEMMA Piece ==
  ASSUME NEW t \in Texts, NEW m \in Nat \ {0}, NEW n \in Int, n <= Len(t)
  PROVE  /\ SubSeq(t, m, n) \in Texts
         /\ Len(SubSeq(t, m, n)) = IF m <= n THEN n - m + 1 ELSE 0
         /\ \A i \in 1 .. n - m + 1 : SubSeq(t, m, n)[i] = t[m + i - 1]
<1>1. \A i \in m .. n : t[i] \in Alphabet
  BY TextBasics
<1> QED
  BY <1>1, SubSeqProperties DEF Texts

LEMMA Rest ==
  ASSUME NEW t \in Texts, NEW n \in Nat \ {0}
  PROVE  /\ From(t, n) \in Texts
         /\ Len(From(t, n)) = IF n <= Len(t) THEN Len(t) - n + 1 ELSE 0
         /\ \A i \in 1 .. Len(t) - n + 1 : From(t, n)[i] = t[n + i - 1]
  BY Piece, TextBasics DEF From

LEMMA Prefix ==
  ASSUME NEW s \in Texts, NEW t \in Texts
  PROVE  IsPrefix(s, t) <=> Len(s) <= Len(t) /\ \A i \in 1..Len(s) : s[i] = t[i]
<1>1. Len(s) \in Nat /\ Len(t) \in Nat
  BY TextBasics
<1>2. CASE ~(Len(s) <= Len(t))
  BY <1>2 DEF IsPrefix
<1>3. CASE Len(s) <= Len(t)
  <2> DEFINE a == SubSeq(s, 1, Len(s))
             b == SubSeq(t, 1, Len(s))
  <2>1. a \in Texts /\ Len(a) = Len(s) /\ \A i \in 1..Len(s) : a[i] = s[i]
    BY <1>1, Piece
  <2>2. b \in Texts /\ Len(b) = Len(s) /\ \A i \in 1..Len(s) : b[i] = t[i]
    BY <1>1, <1>3, Piece
  <2> HIDE DEF a, b
  <2>3. a = b <=> \A i \in 1..Len(s) : s[i] = t[i]
    BY <2>1, <2>2, SameText
  <2> QED
    BY <1>3, <2>3 DEF IsPrefix, a, b
<1> QED
  BY <1>2, <1>3

(* A prefix and what is left.                                              *)
LEMMA PrefixAndRest ==
  ASSUME NEW s \in Texts, NEW t \in Texts, IsPrefix(s, t)
  PROVE  s \o From(t, Len(s) + 1) = t /\ From(t, Len(s) + 1) \in Texts
<1> DEFINE r == From(t, Len(s) + 1)
<1>1. Len(s) \in Nat /\ Len(t) \in Nat
  BY TextBasics
<1>2. Len(s) <= Len(t) /\ \A i \in 1..Len(s) : s[i] = t[i]
  BY Prefix
<1>3. r \in Texts /\ Len(r) = Len(t) - Len(s) /\ \A i \in 1..Len(r) : r[i] = t[Len(s) + i]
  <2> DEFINE n == Len(s) + 1
  <2>1. n \in Nat \ {0} /\ r = From(t, n)
    BY <1>1
  <2> HIDE DEF n, r
  <2>2. /\ r \in Texts /\ Len(r) = IF n <= Len(t) THEN Len(t) - n + 1 ELSE 0
        /\ \A i \in 1 .. Len(t) - n + 1 : r[i] = t[n + i - 1]
    BY <2>1, Rest
  <2> USE DEF n
  <2>3. Len(r) = Len(t) - Len(s)
    BY <1>1, <1>2, <2>2
  <2>4. \A i \in 1..Len(r) : r[i] = t[Len(s) + i]
    BY <1>1, <1>2, <2>2, <2>3
  <2> QED
    BY <2>2, <2>3, <2>4
<1> HIDE DEF r
<1>4. /\ s \o r \in Texts /\ Len(s \o r) = Len(t)
      /\ \A i \in 1..Len(s) : (s \o r)[i] = s[i]
      /\ \A i \in 1..Len(r) : (s \o r)[Len(s) + i] = r[i]
  BY <1>1, <1>3, Cat
<1>5. ASSUME NEW i \in 1..Len(t) PROVE (s \o r)[i] = t[i]
  <2>0. i \in Nat /\ 1 <= i /\ i <= Len(t)
    BY <1>1
  <2>1. CASE i <= Len(s)
    BY <2>0, <2>1, <1>1, <1>2, <1>4
  <2>2. CASE ~(i <= Len(s))
    <3>1. i - Len(s) \in 1..Len(r) /\ Len(s) + (i - Len(s)) = i
      BY <2>0, <2>2, <1>1, <1>3
    <3> QED
      BY <3>1, <1>3, <1>4
  <2> QED
    BY <2>1, <2>2
<1>6. s \o r = t
  BY <1>4, <1>5, SameText
<1> QED
  BY <1>3, <1>6 DEF r

(* A text cut in two.                                                      *)
LEMMA CutInTwo ==
  ASSUME NEW t \in Texts, NEW n \in 0..Len(t)
  PROVE  /\ SubSeq(t, 1, n) \in Texts /\ From(t, n + 1) \in Texts
         /\ SubSeq(t, 1, n) \o From(t, n + 1) = t
         /\ Len(SubSeq(t, 1, n)) = n /\ Len(From(t, n + 1)) = Len(t) - n
<1> DEFINE s == SubSeq(t, 1, n)
<1>1. s \in Texts /\ Len(s) = n /\ \A i \in 1..n : s[i] = t[i]
  BY Piece, TextBasics
<1> HIDE DEF s
<1>2. IsPrefix(s, t)
  BY <1>1, Prefix
<1>3. Len(From(t, n + 1)) = Len(t) - n
  <2> DEFINE m == n + 1
  <2>1. m \in Nat \ {0} /\ Len(t) \in Nat
    BY TextBasics
  <2> HIDE DEF m
  <2>2. Len(From(t, m)) = IF m <= Len(t) THEN Len(t) - m + 1 ELSE 0
    BY <2>1, Rest
  <2> QED
    BY <2>1, <2>2 DEF m
<1> QED
  BY <1>1, <1>2, <1>3, PrefixAndRest DEF s

(* s occurs in t before position n + Len(s).                               *)
LEMMA Within ==
  ASSUME NEW t \in Texts, NEW m \in Texts
  PROVE  Includes(t, m) <=>
           \E n \in 1..(Len(t) + 1 - Len(m)) : \A i \in 1..Len(m) : t[n + i - 1] = m[i]
<1>1. Len(m) \in Nat /\ Len(t) \in Nat
  BY TextBasics
<1>2. ASSUME NEW n \in 1..(Len(t) + 1 - Len(m))
      PROVE  SubSeq(t, n, n + Len(m) - 1) = m <=> \A i \in 1..Len(m) : t[n + i - 1] = m[i]
  <2> DEFINE p == SubSeq(t, n, n + Len(m) - 1)
  <2>1. n \in Nat \ {0} /\ n + Len(m) - 1 \in Int /\ n + Len(m) - 1 <= Len(t)
    BY <1>1
  <2>2. p \in Texts /\ Len(p) = Len(m) /\ \A i \in 1..Len(m) : p[i] = t[n + i - 1]
    BY <1>1, <2>1, Piece
  <2> HIDE DEF p
  <2> QED
    BY <2>2, SameText DEF p
<1> QED
  BY <1>2 DEF Includes
(* What occurs in a text occurs in every longer one.                       *)
LEMMA WithinGrows ==
  ASSUME NEW t \in Texts, NEW d \in Texts, NEW m \in Texts, Includes(t, m)
  PROVE  Includes(t \o d, m)
<1>1. Len(m) \in Nat /\ Len(t) \in Nat /\ Len(d) \in Nat
  BY TextBasics
<1>2. /\ t \o d \in Texts /\ Len(t \o d) = Len(t) + Len(d)
      /\ \A i \in 1..Len(t) : (t \o d)[i] = t[i]
  BY Cat
<1>3. PICK n \in 1..(Len(t) + 1 - Len(m)) : \A i \in 1..Len(m) : t[n + i - 1] = m[i]
  BY Within
<1>4. n \in 1..(Len(t \o d) + 1 - Len(m))
  BY <1>1, <1>2
<1>5. ASSUME NEW i \in 1..Len(m) PROVE (t \o d)[n + i - 1] = m[i]
  <2>1. n + i - 1 \in 1..Len(t)
    BY <1>1
  <2> QED
    BY <2>1, <1>2, <1>3
<1> QED
  BY <1>2, <1>4, <1>5, Within

LEMMA Markers == Start \in Texts /\ Len(Start) \in Nat \ {0}
  BY StreamAssumption, TextBasics

-----------------------------------------------------------------------------
(* Trimming.                                                               *)
LEMMA FirstWord ==
  ASSUME NEW t \in Texts, Words(t) # {}
  PROVE  /\ Min(Words(t)) \in 1..Len(t) /\ t[Min(Words(t))] # Space
         /\ \A i \in 1..Len(t) : t[i] # Space => Min(Words(t)) <= i
         /\ TrimStart(t) \in Texts /\ Len(TrimStart(t)) = Len(t) - Min(Words(t)) + 1
         /\ \A i \in 1..Len(TrimStart(t)) : TrimStart(t)[i] = t[Min(Words(t)) + i - 1]
<1> DEFINE k == Min(Words(t))
<1>1. Words(t) \in SUBSET Nat /\ Len(t) \in Nat
  BY TextBasics DEF Words
<1>2. k \in Words(t) /\ \A i \in Words(t) : k <= i
  BY <1>1, MinExists
<1>3. TrimStart(t) = From(t, k)
  BY DEF TrimStart
<1> HIDE DEF k
<1>4. k \in 1..Len(t) /\ t[k] # Space /\ \A i \in 1..Len(t) : t[i] # Space => k <= i
  BY <1>1, <1>2 DEF Words
<1>5. /\ From(t, k) \in Texts /\ Len(From(t, k)) = Len(t) - k + 1
      /\ \A i \in 1..(Len(t) - k + 1) : From(t, k)[i] = t[k + i - 1]
  BY <1>1, <1>4, Rest
<1> QED
  BY <1>3, <1>4, <1>5 DEF k

LEMMA TrimStartText ==
  ASSUME NEW t \in Texts
  PROVE  TrimStart(t) \in Texts /\ (Words(t) = {} => TrimStart(t) = <<>>)
  BY FirstWord, TextBasics DEF TrimStart

LEMMA TrimGrows ==
  ASSUME NEW t \in Texts, NEW d \in Texts, TrimStart(t) # <<>>
  PROVE  TrimStart(t \o d) = TrimStart(t) \o d
<1> DEFINE k == Min(Words(t))
           w == t \o d
           c == TrimStart(t)
<1>1. Words(t) # {} /\ Len(t) \in Nat /\ Len(d) \in Nat
  BY TextBasics, TrimStartText
<1>2. /\ k \in 1..Len(t) /\ t[k] # Space
      /\ \A i \in 1..Len(t) : t[i] # Space => k <= i
      /\ c \in Texts /\ Len(c) = Len(t) - k + 1
      /\ \A i \in 1..Len(c) : c[i] = t[k + i - 1]
  BY <1>1, FirstWord
<1>3. /\ w \in Texts /\ Len(w) = Len(t) + Len(d)
      /\ \A i \in 1..Len(t) : w[i] = t[i]
      /\ \A i \in 1..Len(d) : w[Len(t) + i] = d[i]
  BY Cat
<1> DEFINE j == Min(Words(w))
           v == TrimStart(w)
<1>4. k \in Words(w)
  BY <1>1, <1>2, <1>3 DEF Words
<1>5. /\ j \in 1..Len(w) /\ w[j] # Space
      /\ \A i \in 1..Len(w) : w[i] # Space => j <= i
      /\ v \in Texts /\ Len(v) = Len(w) - j + 1
      /\ \A i \in 1..Len(v) : v[i] = w[j + i - 1]
  BY <1>3, <1>4, FirstWord
<1> HIDE DEF k, w, c, j, v
<1>6. j = k
  <2>1. w[k] # Space /\ k \in 1..Len(w)
    BY <1>1, <1>2, <1>3
  <2>2. j <= k
    BY <1>5, <2>1
  <2>3. j \in 1..Len(t)
    BY <1>1, <1>2, <1>5, <2>2
  <2>4. k <= j
    BY <1>2, <1>3, <1>5, <2>3
  <2> QED
    BY <1>2, <2>2, <2>3, <2>4
<1>7. /\ c \o d \in Texts /\ Len(c \o d) = Len(c) + Len(d)
      /\ \A i \in 1..Len(c) : (c \o d)[i] = c[i]
      /\ \A i \in 1..Len(d) : (c \o d)[Len(c) + i] = d[i]
  BY <1>2, Cat
<1>8. Len(v) = Len(c \o d)
  BY <1>1, <1>2, <1>3, <1>5, <1>6, <1>7
<1>9. ASSUME NEW i \in 1..Len(v) PROVE v[i] = (c \o d)[i]
  <2>1. /\ v[i] = w[k + i - 1] /\ i \in Nat /\ 1 <= i /\ i <= Len(c) + Len(d)
        /\ Len(c) \in Nat /\ k \in Nat
    BY <1>1, <1>2, <1>5, <1>6, <1>7, <1>8
  <2>2. CASE i <= Len(c)
    <3>1. k + i - 1 \in 1..Len(t) /\ i \in 1..Len(c)
      BY <1>1, <1>2, <2>1, <2>2
    <3> QED
      BY <1>2, <1>3, <1>7, <2>1, <3>1
  <2>3. CASE ~(i <= Len(c))
    <3>1. i - Len(c) \in 1..Len(d) /\ Len(c) + (i - Len(c)) = i /\ Len(t) + (i - Len(c)) = k + i - 1
      BY <1>1, <1>2, <2>1, <2>3
    <3> QED
      BY <1>3, <1>7, <2>1, <3>1
  <2> QED
    BY <2>2, <2>3
<1>10. v = c \o d
  BY <1>5, <1>7, <1>8, <1>9, SameText
<1> QED
  BY <1>10 DEF v, c, w

-----------------------------------------------------------------------------
(* Texts that begin with the marker, and texts that never will.            *)
LEMMA OpensGrows ==
  ASSUME NEW t \in Texts, NEW d \in Texts, Opens(t)
  PROVE  Opens(t \o d)
<1> DEFINE c == TrimStart(t)
<1>1. c \in Texts /\ Len(c) \in Nat /\ Len(d) \in Nat /\ Len(Start) \in Nat \ {0}
  BY TrimStartText, TextBasics, Markers
<1>2. Len(Start) <= Len(c) /\ \A i \in 1..Len(Start) : Start[i] = c[i]
  BY <1>1, Prefix, Markers DEF Opens
<1>3. TrimStart(t \o d) = c \o d
  BY <1>1, <1>2, TextBasics, TrimGrows
<1> HIDE DEF c
<1>4. c \o d \in Texts /\ Len(c \o d) = Len(c) + Len(d) /\ \A i \in 1..Len(c) : (c \o d)[i] = c[i]
  BY <1>1, Cat
<1>5. Len(Start) <= Len(c \o d) /\ \A i \in 1..Len(Start) : Start[i] = (c \o d)[i]
  BY <1>1, <1>2, <1>4
<1> QED
  BY <1>3, <1>4, <1>5, Prefix, Markers DEF Opens

LEMMA NeverOpens ==
  ASSUME NEW t \in Texts, NEW d \in Texts, ~Opens(t), ~MayOpen(t)
  PROVE  ~Opens(t \o d) /\ ~MayOpen(t \o d)
<1> DEFINE c == TrimStart(t)
<1>1. c \in Texts /\ Len(c) \in Nat /\ Len(d) \in Nat /\ Len(Start) \in Nat \ {0} /\ Start \in Texts
  BY TrimStartText, TextBasics, Markers
<1>2. c # <<>>
  <2>1. SUFFICES ASSUME c = <<>> PROVE FALSE
    OBVIOUS
  <2>2. Len(c) = 0
    BY <2>1
  <2> HIDE DEF c
  <2>3. IsPrefix(c, Start)
    BY <1>1, <2>2, Prefix
  <2> QED
    BY <2>3 DEF MayOpen, c
<1>3. TrimStart(t \o d) = c \o d
  BY <1>2, TrimGrows
<1>4. ~IsPrefix(Start, c) /\ ~IsPrefix(c, Start)
  BY DEF Opens, MayOpen
<1> HIDE DEF c
<1>5. PICK i \in 1..Len(Start) : i <= Len(c) /\ Start[i] # c[i]
  <2>1. CASE Len(Start) <= Len(c)
    <3>1. ~(\A i \in 1..Len(Start) : Start[i] = c[i])
      BY <1>1, <1>4, <2>1, Prefix
    <3> QED
      BY <1>1, <2>1, <3>1
  <2>2. CASE ~(Len(Start) <= Len(c))
    <3>1. ~(\A i \in 1..Len(c) : c[i] = Start[i]) /\ Len(c) <= Len(Start)
      BY <1>1, <1>4, <2>2, Prefix
    <3> QED
      BY <1>1, <2>2, <3>1
  <2> QED
    BY <2>1, <2>2
<1>6. c \o d \in Texts /\ Len(c \o d) = Len(c) + Len(d) /\ \A n \in 1..Len(c) : (c \o d)[n] = c[n]
  BY <1>1, Cat
<1>7. i <= Len(c \o d) /\ Start[i] # (c \o d)[i]
  BY <1>1, <1>5, <1>6
<1> DEFINE e == c \o d
<1> HIDE DEF e
<1>8. ~IsPrefix(Start, e) /\ ~IsPrefix(e, Start)
  <2>1. e \in Texts /\ i \in 1..Len(e) /\ i \in 1..Len(Start) /\ Start[i] # e[i]
    BY <1>1, <1>5, <1>6, <1>7 DEF e
  <2> QED
    BY <1>1, <2>1, Prefix
<1> QED
  BY <1>3, <1>8 DEF Opens, MayOpen, e

LEMMA OpensWithin ==
  ASSUME NEW t \in Texts, Opens(t)
  PROVE  Includes(t, Start)
<1> DEFINE k == Min(Words(t))
           c == TrimStart(t)
<1>1. c \in Texts /\ Len(Start) \in Nat \ {0} /\ Start \in Texts /\ Len(t) \in Nat
  BY TrimStartText, Markers, TextBasics
<1>2. Len(Start) <= Len(c) /\ \A i \in 1..Len(Start) : Start[i] = c[i]
  BY <1>1, Prefix DEF Opens
<1>3. Words(t) # {}
  BY <1>1, <1>2, TrimStartText, TextBasics
<1>4. k \in 1..Len(t) /\ Len(c) = Len(t) - k + 1 /\ \A i \in 1..Len(c) : c[i] = t[k + i - 1]
  BY <1>3, FirstWord
<1> HIDE DEF k, c
<1>5. k \in 1..(Len(t) + 1 - Len(Start)) /\ \A i \in 1..Len(Start) : t[k + i - 1] = Start[i]
  BY <1>1, <1>2, <1>4
<1> QED
  BY <1>1, <1>5, Within

LEMMA TrimOpens ==
  ASSUME NEW t \in Texts, IsPrefix(Start, Trim(t))
  PROVE  Opens(t)
<1> DEFINE W == Words(t)
           k == Min(W)
           l == Max(W)
           c == TrimStart(t)
           b == Trim(t)
<1>1. Len(Start) \in Nat \ {0} /\ Start \in Texts /\ Len(t) \in Nat
  BY Markers, TextBasics
<1>2. W # {}
  <2>1. SUFFICES ASSUME W = {} PROVE FALSE
    OBVIOUS
  <2>2. b = <<>>
    BY <2>1 DEF Trim
  <2>3. <<>> \in Texts /\ Len(<<>>) = 0
    BY TextBasics
  <2> QED
    BY <1>1, <2>2, <2>3 DEF IsPrefix
<1>3. /\ k \in 1..Len(t) /\ c \in Texts /\ Len(c) = Len(t) - k + 1
      /\ \A i \in 1..Len(c) : c[i] = t[k + i - 1]
  BY <1>2, FirstWord
<1>4. l \in 1..Len(t)
  <2>1. W \in SUBSET (0..Len(t))
    BY <1>1 DEF Words
  <2> HIDE DEF W
  <2>2. l \in W
    BY <1>1, <1>2, <2>1, MaxExists
  <2> QED
    BY <2>2 DEF W, Words
<1>5. b = SubSeq(t, k, l)
  BY <1>2 DEF Trim
<1> HIDE DEF W, k, l, c, b
<1>6. /\ b \in Texts /\ Len(b) = IF k <= l THEN l - k + 1 ELSE 0
      /\ \A i \in 1 .. l - k + 1 : b[i] = t[k + i - 1]
  BY <1>1, <1>3, <1>4, <1>5, Piece
<1>7. Len(Start) <= Len(b) /\ \A i \in 1..Len(Start) : Start[i] = b[i]
  BY <1>1, <1>6, Prefix DEF b
<1>8. Len(Start) <= Len(c) /\ \A i \in 1..Len(Start) : Start[i] = c[i]
  BY <1>1, <1>3, <1>4, <1>6, <1>7
<1>9. IsPrefix(Start, c)
  BY <1>1, <1>3, <1>8, Prefix
<1> QED
  BY <1>9 DEF Opens, c
-----------------------------------------------------------------------------
(* What is held back.                                                      *)

(* The last n symbols of t may be the beginning of the marker.             *)
EndsIn(t, n) ==
  /\ n \in 0..(Len(Start) - 1) /\ n <= Len(t)
  /\ \A i \in 1..n : t[Len(t) - n + i] = Start[i]

(* Of the text e, b is kept: enough of it, if the marker has begun.        *)
HeldBack(e, b) == \A n \in 0..(Len(Start) - 1) : EndsIn(e, n) => n <= Len(b)

LEMMA HeldLongest ==
  ASSUME NEW t \in Texts
  PROVE  /\ Held(t) \in 0..Len(t)
         /\ \A n \in 0..(Len(Start) - 1) : EndsIn(t, n) => n <= Held(t)
<1> DEFINE S == {n \in 0..(Len(Start) - 1) : n <= Len(t) /\ From(t, Len(t) - n + 1) = SubSeq(Start, 1, n)}
<1>1. Len(Start) \in Nat \ {0} /\ Start \in Texts /\ Len(t) \in Nat
  BY Markers, TextBasics
<1>2. ASSUME NEW n \in 0..(Len(Start) - 1), n <= Len(t)
      PROVE  From(t, Len(t) - n + 1) = SubSeq(Start, 1, n) <=> EndsIn(t, n)
  <2> DEFINE m == Len(t) - n + 1
             p == From(t, m)
             q == SubSeq(Start, 1, n)
  <2>1. m \in Nat \ {0} /\ Len(t) - m + 1 = n
    BY <1>1, <1>2
  <2>2. q \in Texts /\ Len(q) = n /\ \A i \in 1..n : q[i] = Start[i]
    BY <1>1, Piece
  <2> HIDE DEF m, q
  <2>3. p \in Texts /\ Len(p) = n /\ \A i \in 1..n : p[i] = t[m + i - 1]
    <3>1. /\ From(t, m) \in Texts /\ Len(From(t, m)) = IF m <= Len(t) THEN Len(t) - m + 1 ELSE 0
          /\ \A i \in 1..(Len(t) - m + 1) : From(t, m)[i] = t[m + i - 1]
      BY <2>1, Rest
    <3>2. n \in Nat /\ m \in Nat /\ (m <= Len(t) \/ n = 0)
      BY <1>1, <2>1
    <3> QED
      BY <2>1, <3>1, <3>2
  <2>4. \A i \in 1..n : m + i - 1 = Len(t) - n + i
    BY <1>1 DEF m
  <2> HIDE DEF p
  <2>5. p = q <=> \A i \in 1..n : t[Len(t) - n + i] = Start[i]
    BY <2>2, <2>3, <2>4, SameText
  <2> QED
    BY <1>2, <2>5 DEF EndsIn, p, q, m
<1>3. EndsIn(t, 0)
  BY <1>1 DEF EndsIn
<1>4. 0 \in S
  BY <1>1, <1>2, <1>3
<1>5. S \in SUBSET (0..(Len(Start) - 1)) /\ \A n \in S : n <= Len(t)
  OBVIOUS
<1>6. \A n \in 0..(Len(Start) - 1) : EndsIn(t, n) => n \in S
  BY <1>2 DEF EndsIn
<1>7. Held(t) = Max(S)
  BY DEF Held
<1> HIDE DEF S
<1>8. Max(S) \in S /\ \A n \in S : n <= Max(S)
  <2>1. Len(Start) - 1 \in Nat /\ S # {}
    BY <1>1, <1>4
  <2> QED
    BY <1>5, <2>1, MaxExists
<1>9. Held(t) \in 0..(Len(Start) - 1) /\ Held(t) <= Len(t)
  BY <1>5, <1>7, <1>8
<1>10. \A n \in 0..(Len(Start) - 1) : EndsIn(t, n) => n <= Held(t)
  BY <1>6, <1>7, <1>8
<1> QED
  BY <1>1, <1>9, <1>10

(* The text grows by d, and all but the held symbols of what is kept goes: *)
(* a marker that comes does so in what is kept.                            *)
LEMMA MarkerComesInside ==
  ASSUME NEW s \in Texts, NEW b \in Texts, NEW d \in Texts,
         HeldBack(s \o b, b), ~Includes(s \o b, Start), ~Includes(b \o d, Start)
  PROVE  ~Includes((s \o b) \o d, Start)
<1> DEFINE e == s \o b
           w == e \o d
           u == b \o d
           L == Len(Start)
<1>1. L \in Nat \ {0} /\ Start \in Texts /\ Len(s) \in Nat /\ Len(b) \in Nat /\ Len(d) \in Nat
  BY Markers, TextBasics
<1>2. e \in Texts /\ Len(e) = Len(s) + Len(b)
  BY Cat
<1> HIDE DEF e
<1>3. w \in Texts /\ Len(w) = Len(e) + Len(d) /\ \A i \in 1..Len(e) : w[i] = e[i]
  BY <1>2, Cat
<1>4. w = s \o u
  BY CatCat DEF e
<1>5. u \in Texts /\ Len(u) = Len(b) + Len(d)
  BY Cat
<1> HIDE DEF u
<1>6. \A i \in 1..Len(u) : w[Len(s) + i] = u[i]
  BY <1>4, <1>5, Cat
<1> HIDE DEF w, L
<1> SUFFICES ASSUME Includes(w, Start) PROVE FALSE
  BY DEF w, e
<1>7. PICK p \in 1..(Len(w) + 1 - L) : \A i \in 1..L : w[p + i - 1] = Start[i]
  BY <1>1, <1>3, Within DEF L
<1>8. p \in Nat /\ 1 <= p /\ p + L <= Len(w) + 1 /\ Len(w) \in Nat /\ Len(e) \in Nat /\ Len(u) \in Nat
  BY <1>1, <1>2, <1>3, <1>5
<1>9. p > Len(s)
  <2>1. SUFFICES ASSUME p <= Len(s) PROVE FALSE
    BY <1>1, <1>8
  <2> DEFINE n == Len(e) - p + 1
  <2>2. n \in Nat /\ n > Len(b) /\ n <= Len(e) /\ Len(e) - n = p - 1
    BY <1>1, <1>2, <1>8, <2>1
  <2>3. CASE n >= L
    <3>1. p \in 1..(Len(e) + 1 - L)
      BY <1>1, <1>8, <2>3
    <3>2. ASSUME NEW i \in 1..L PROVE e[p + i - 1] = Start[i]
      <4>1. p + i - 1 \in 1..Len(e)
        BY <1>1, <1>8, <2>3
      <4> QED
        BY <1>3, <1>7, <4>1
    <3>3. Includes(e, Start)
      BY <1>1, <1>2, <3>1, <3>2, Within DEF L
    <3> QED
      BY <3>3 DEF e
  <2>4. CASE ~(n >= L)
    <3>1. n \in 0..(L - 1)
      BY <1>1, <2>2, <2>4
    <3>2. ASSUME NEW i \in 1..n PROVE e[Len(e) - n + i] = Start[i]
      <4>1. i \in 1..L /\ p + i - 1 \in 1..Len(e) /\ Len(e) - n + i = p + i - 1
        BY <1>1, <1>8, <2>2, <3>1
      <4> QED
        BY <1>3, <1>7, <4>1
    <3> HIDE DEF n
    <3>3. EndsIn(e, n)
      BY <2>2, <3>1, <3>2 DEF EndsIn, L
    <3>4. n <= Len(b)
      BY <3>1, <3>3 DEF HeldBack, e, L
    <3> QED
      BY <1>1, <2>2, <3>4
  <2> QED
    BY <2>3, <2>4
<1> DEFINE q == p - Len(s)
<1>10. q \in 1..(Len(u) + 1 - L) /\ Len(s) + q = p
  BY <1>1, <1>2, <1>3, <1>5, <1>8, <1>9
<1>11. ASSUME NEW i \in 1..L PROVE u[q + i - 1] = Start[i]
  <2>1. q + i - 1 \in 1..Len(u) /\ Len(s) + (q + i - 1) = p + i - 1
    BY <1>1, <1>8, <1>10
  <2> QED
    BY <1>6, <1>7, <2>1
<1> HIDE DEF q
<1>12. Includes(u, Start)
  BY <1>1, <1>5, <1>10, <1>11, Within DEF L
<1> QED
  BY <1>12 DEF u

LEMMA EnoughIsHeld ==
  ASSUME NEW s \in Texts, NEW b \in Texts, NEW d \in Texts, NEW r \in Texts,
         HeldBack(s \o b, b), Len(r) = Held(b \o d)
  PROVE  HeldBack((s \o b) \o d, r)
<1> DEFINE e == s \o b
           w == e \o d
           u == b \o d
           L == Len(Start)
<1>1. L \in Nat \ {0} /\ Start \in Texts /\ Len(s) \in Nat /\ Len(b) \in Nat /\ Len(d) \in Nat
  BY Markers, TextBasics
<1>2. e \in Texts /\ Len(e) = Len(s) + Len(b)
  BY Cat
<1> HIDE DEF e
<1>3. w \in Texts /\ Len(w) = Len(e) + Len(d) /\ \A i \in 1..Len(e) : w[i] = e[i]
  BY <1>2, Cat
<1>4. w = s \o u
  BY CatCat DEF e
<1>5. u \in Texts /\ Len(u) = Len(b) + Len(d)
  BY Cat
<1>6. \A n \in 0..(L - 1) : EndsIn(u, n) => n <= Len(r)
  BY <1>5, HeldLongest
<1> HIDE DEF u
<1>7. \A i \in 1..Len(u) : w[Len(s) + i] = u[i]
  BY <1>4, <1>5, Cat, SMTT(30)
<1> HIDE DEF w
<1> SUFFICES ASSUME NEW n \in 0..(L - 1), EndsIn(w, n)
             PROVE  n <= Len(r)
  BY DEF HeldBack, w, e
<1>8. n <= Len(w) /\ \A i \in 1..n : w[Len(w) - n + i] = Start[i]
  BY DEF EndsIn
<1> HIDE DEF L
<1>9. n <= Len(u)
  <2>1. SUFFICES ASSUME n > Len(d) PROVE n <= Len(u)
    BY <1>1, <1>5
  <2> DEFINE m == n - Len(d)
  <2>2. m \in 0..(L - 1) /\ m <= Len(e) /\ Len(e) - m = Len(w) - n /\ m <= n
    BY <1>1, <1>2, <1>3, <1>8, <2>1
  <2>3. ASSUME NEW i \in 1..m PROVE e[Len(e) - m + i] = Start[i]
    <3>1. i \in 1..n /\ Len(e) - m + i \in 1..Len(e) /\ Len(e) - m + i = Len(w) - n + i
      BY <1>1, <1>2, <2>2
    <3> QED
      BY <1>3, <1>8, <3>1
  <2> HIDE DEF m
  <2>4. EndsIn(e, m)
    BY <2>2, <2>3 DEF EndsIn, L
  <2>5. m <= Len(b)
    BY <2>2, <2>4 DEF HeldBack, e, L
  <2> QED
    BY <1>1, <1>5, <2>2, <2>5 DEF m
<1>10. ASSUME NEW i \in 1..n PROVE u[Len(u) - n + i] = Start[i]
  <2>1. Len(u) - n + i \in 1..Len(u) /\ Len(s) + (Len(u) - n + i) = Len(w) - n + i
    BY <1>1, <1>2, <1>3, <1>5, <1>9
  <2> QED
    BY <1>7, <1>8, <2>1
<1>11. EndsIn(u, n)
  BY <1>9, <1>10 DEF EndsIn, L
<1> QED
  BY <1>6, <1>11
-----------------------------------------------------------------------------
(* The detection buffer.                                                   *)

Classes == {"pending", "text", "tool"}

(* The buffer has been given the text e and has let go of sent.            *)
Detecting(class, buffer, sent, e) ==
  /\ sent \o buffer = e
  /\ ~tools => class = "text" /\ buffer = <<>>
  /\ class = "pending" => sent = <<>>
  /\ class = "tool" => sent = <<>> /\ Opens(e)
  /\ tools /\ class = "text" => ~Opens(e) /\ ~MayOpen(e) /\ ~Includes(e, Start) /\ HeldBack(e, buffer)

LEMMA PushDetects ==
  ASSUME tools \in BOOLEAN, NEW det \in [class : Classes, buffer : Texts],
         NEW sent \in Texts, NEW e \in Texts, NEW d \in Texts,
         Detecting(det.class, det.buffer, sent, e), Push(det, d).ok
  PROVE  /\ Push(det, d).class \in Classes /\ Push(det, d).buffer \in Texts /\ Push(det, d).emit \in Texts
         /\ Detecting(Push(det, d).class, Push(det, d).buffer, sent \o Push(det, d).emit, e \o d)
<1> DEFINE b == det.buffer
           u == b \o d
           cut == Len(u) - Held(u)
           o == Push(det, d)
<1>1. /\ det.class \in Classes /\ b \in Texts /\ u \in Texts /\ sent \o <<>> = sent /\ <<>> \in Texts
      /\ e = sent \o b
  BY Cat, TextBasics DEF Detecting
<1>2. e \o d = sent \o u /\ e \o d \in Texts
  <2>1. (sent \o b) \o d = sent \o (b \o d)
    BY <1>1, CatCat, SMTT(30)
  <2> QED
    BY <1>1, <2>1, Cat
<1>3. CASE ~tools \/ d = <<>>
  <2>1. o = [ok |-> TRUE, class |-> det.class, buffer |-> b, emit |-> d]
    BY <1>3 DEF Push, Detected
  <2>2. CASE d = <<>>
    <3>1. sent \o d = sent /\ e \o d = e
      BY <2>2, TextBasics
    <3>2. o.class = det.class /\ o.buffer = b /\ o.emit = d
      BY <2>1
    <3> HIDE DEF o
    <3> QED
      BY <1>1, <3>1, <3>2, Zenon DEF o
  <2>3. CASE ~tools
    <3>1. det.class = "text" /\ b = <<>> /\ e = sent
      BY <1>1, <2>3 DEF Detecting
    <3>2. (sent \o d) \o b = e \o d
      BY <1>2, <3>1, TextBasics
    <3> QED
      BY <1>1, <2>1, <2>3, <3>1, <3>2 DEF Detecting
  <2> QED
    BY <1>3, <2>2, <2>3
<1>4. CASE ~(~tools \/ d = <<>>) /\ (det.class = "tool" \/ (det.class = "pending" /\ Opens(u)))
  <2>1. o = [ok |-> TRUE, class |-> "tool", buffer |-> u, emit |-> <<>>]
    BY <1>4 DEF Push, Detected
  <2>2. sent = <<>> /\ e = b
    BY <1>1, <1>4, TextBasics DEF Detecting
  <2>3. Opens(e \o d)
    BY <1>1, <1>4, <2>2, OpensGrows DEF Detecting
  <2> QED
    BY <1>1, <1>2, <1>4, <2>1, <2>2, <2>3 DEF Detecting, Classes
<1>5. CASE /\ ~(~tools \/ d = <<>>) /\ ~(det.class = "tool" \/ (det.class = "pending" /\ Opens(u)))
           /\ det.class = "pending" /\ MayOpen(u)
  <2>1. o = [ok |-> TRUE, class |-> "pending", buffer |-> u, emit |-> <<>>]
    BY <1>5 DEF Push, Detected
  <2>2. sent = <<>>
    BY <1>5 DEF Detecting
  <2> QED
    BY <1>1, <1>2, <1>5, <2>1, <2>2 DEF Detecting, Classes
<1>6. CASE /\ ~(~tools \/ d = <<>>) /\ ~(det.class = "tool" \/ (det.class = "pending" /\ Opens(u)))
           /\ ~(det.class = "pending" /\ MayOpen(u))
  <2> DEFINE r == From(u, cut + 1)
             p == SubSeq(u, 1, cut)
  <2>1. ~Includes(u, Start)
    BY <1>6 DEF Push, Undetected
  <2>2. o = [ok |-> TRUE, class |-> "text", buffer |-> r, emit |-> p]
    BY <1>6, <2>1 DEF Push, Detected
  <2>3. cut \in 0..Len(u) /\ Len(u) - cut = Held(u)
    <3>1. Held(u) \in 0..Len(u) /\ Len(u) \in Nat
      BY <1>1, HeldLongest, TextBasics
    <3> HIDE DEF u
    <3> QED
      BY <3>1
  <2>4. p \in Texts /\ r \in Texts /\ p \o r = u /\ Len(r) = Held(u)
    BY <1>1, <2>3, CutInTwo
  <2> HIDE DEF p, r, cut
  <2>5. (sent \o p) \o r = e \o d
    <3>1. (sent \o p) \o r = sent \o (p \o r)
      BY <2>4, CatCat
    <3> QED
      BY <1>2, <2>4, <3>1
  <2>6. det.class \in {"pending", "text"}
    BY <1>1, <1>6 DEF Classes
  <2>7. /\ HeldBack(sent \o b, b) /\ ~Includes(sent \o b, Start)
        /\ ~Opens(e \o d) /\ ~MayOpen(e \o d)
    <3>1. CASE det.class = "text"
      BY <1>1, <1>6, <3>1, NeverOpens DEF Detecting
    <3>2. CASE det.class = "pending"
      <4>1. sent = <<>> /\ e = b /\ e \o d = u /\ sent \o b = b
        BY <1>1, <1>2, <3>2, TextBasics DEF Detecting
      <4>2. ~Includes(b, Start)
        BY <1>1, <2>1, Markers, WithinGrows
      <4>3. HeldBack(b, b)
        BY DEF HeldBack, EndsIn
      <4> QED
        BY <1>6, <3>2, <4>1, <4>2, <4>3
    <3> QED
      BY <2>6, <3>1, <3>2
  <2>8. ~Includes(e \o d, Start) /\ HeldBack(e \o d, r)
    BY <1>1, <2>1, <2>4, <2>7, MarkerComesInside, EnoughIsHeld
  <2>9. sent \o p \in Texts
    BY <2>4, Cat
  <2>10. o.class = "text" /\ o.buffer = r /\ o.emit = p
    BY <2>2
  <2>11. Detecting("text", r, sent \o p, e \o d)
    BY <1>6, <2>5, <2>7, <2>8 DEF Detecting
  <2> HIDE DEF o, u
  <2> QED
    BY <2>4, <2>10, <2>11 DEF Classes, o
<1> QED
  BY <1>3, <1>4, <1>5, <1>6

(* The text e is complete: sent with what the buffer still let go of.      *)
Complete(class, sent, e) ==
  /\ class = "text" => sent = e /\ (tools => ~Opens(e) /\ ~Includes(e, Start))
  /\ class = "tool" => tools /\ sent = <<>> /\ Opens(e)

LEMMA FinishDetects ==
  ASSUME tools \in BOOLEAN, NEW det \in [class : Classes, buffer : Texts],
         NEW sent \in Texts, NEW e \in Texts,
         Detecting(det.class, det.buffer, sent, e), FinishDetection(det).ok
  PROVE  /\ FinishDetection(det).class \in {"text", "tool"}
         /\ FinishDetection(det).buffer \in Texts /\ FinishDetection(det).emit \in Texts
         /\ Complete(FinishDetection(det).class, sent \o FinishDetection(det).emit, e)
<1> DEFINE b == det.buffer
           o == FinishDetection(det)
           pending == det.class = "pending"
<1>1. /\ det.class \in Classes /\ b \in Texts /\ sent \o <<>> = sent /\ <<>> \in Texts
      /\ e = sent \o b
  BY TextBasics DEF Detecting
<1>2. CASE ~tools \/ det.class = "tool"
  <2>1. o = [ok |-> TRUE, class |-> det.class, buffer |-> b, emit |-> <<>>]
    BY <1>2 DEF FinishDetection, Detected
  <2>2. CASE ~tools
    <3>1. det.class = "text" /\ e = sent
      BY <1>1, <2>2 DEF Detecting
    <3> QED
      BY <1>1, <2>1, <2>2, <3>1 DEF Complete
  <2>3. CASE tools /\ det.class = "tool"
    <3>1. sent = <<>> /\ Opens(e)
      BY <2>3 DEF Detecting
    <3> QED
      BY <1>1, <2>1, <2>3, <3>1 DEF Complete
  <2> QED
    BY <1>2, <2>2, <2>3
<1>3. CASE ~(~tools \/ det.class = "tool") /\ pending /\ Opens(b)
  <2>1. o = [ok |-> TRUE, class |-> "tool", buffer |-> b, emit |-> <<>>]
    BY <1>3 DEF FinishDetection, Detected
  <2>2. sent = <<>> /\ e = b
    BY <1>1, <1>3, TextBasics DEF Detecting
  <2> QED
    BY <1>1, <1>3, <2>1, <2>2 DEF Complete
<1>4. CASE ~(~tools \/ det.class = "tool") /\ ~(pending /\ Opens(b))
  <2>1. ~(pending /\ Words(b) # {} /\ MayOpen(b)) /\ ~Includes(b, Start)
    BY <1>4 DEF FinishDetection, Undetected
  <2>2. o = [ok |-> TRUE, class |-> "text", buffer |-> <<>>, emit |-> b]
    BY <1>4, <2>1 DEF FinishDetection, Detected
  <2>3. ~Opens(e) /\ ~Includes(e, Start)
    <3>1. CASE pending
      <4>1. e = b
        BY <1>1, <3>1, TextBasics DEF Detecting
      <4> QED
        BY <1>4, <2>1, <3>1, <4>1
    <3>2. CASE det.class = "text"
      BY <1>4, <3>2 DEF Detecting
    <3> QED
      BY <1>1, <1>4, <3>1, <3>2 DEF Classes
  <2> QED
    BY <1>1, <2>2, <2>3 DEF Complete
<1> QED
  BY <1>2, <1>3, <1>4
-----------------------------------------------------------------------------
(* The stable prefix.                                                      *)
LEMMA PrefixOfPrefix ==
  ASSUME NEW r \in Texts, NEW s \in Texts, NEW t \in Texts, IsPrefix(r, s), IsPrefix(s, t)
  PROVE  IsPrefix(r, t)
<1>1. Len(r) \in Nat /\ Len(s) \in Nat /\ Len(t) \in Nat
  BY TextBasics
<1>2. Len(r) <= Len(s) /\ \A i \in 1..Len(r) : r[i] = s[i]
  BY Prefix
<1>3. Len(s) <= Len(t) /\ \A i \in 1..Len(s) : s[i] = t[i]
  BY Prefix
<1>4. Len(r) <= Len(t) /\ \A i \in 1..Len(r) : r[i] = t[i]
  BY <1>1, <1>2, <1>3
<1> QED
  BY <1>4, Prefix

LEMMA ShorterPrefix ==
  ASSUME NEW r \in Texts, NEW s \in Texts, NEW t \in Texts,
         IsPrefix(r, t), IsPrefix(s, t), Len(r) <= Len(s)
  PROVE  IsPrefix(r, s)
<1>1. Len(r) \in Nat /\ Len(s) \in Nat /\ Len(t) \in Nat
  BY TextBasics
<1>2. \A i \in 1..Len(r) : r[i] = t[i]
  BY Prefix
<1>3. \A i \in 1..Len(s) : s[i] = t[i]
  BY Prefix
<1>4. \A i \in 1..Len(r) : r[i] = s[i]
  BY <1>1, <1>2, <1>3
<1> QED
  BY <1>4, Prefix

LEMMA Beginning ==
  ASSUME NEW t \in Texts, NEW n \in Int, n <= Len(t)
  PROVE  /\ SubSeq(t, 1, n) \in Texts /\ IsPrefix(SubSeq(t, 1, n), t)
         /\ Len(SubSeq(t, 1, n)) = IF 1 <= n THEN n ELSE 0
<1> DEFINE s == SubSeq(t, 1, n)
<1>1. /\ s \in Texts /\ Len(s) = IF 1 <= n THEN n - 1 + 1 ELSE 0
      /\ \A i \in 1 .. n - 1 + 1 : s[i] = t[1 + i - 1]
  BY Piece
<1>2. Len(t) \in Nat
  BY TextBasics
<1> HIDE DEF s
<1>3. Len(s) <= Len(t) /\ \A i \in 1..Len(s) : s[i] = t[i]
  BY <1>1, <1>2
<1>4. IsPrefix(s, t)
  BY <1>1, <1>3, Prefix
<1> QED
  BY <1>1, <1>4 DEF s

LEMMA CommonPrefix ==
  ASSUME NEW S \in SUBSET Texts, NEW t \in S
  PROVE  /\ LongestCommonPrefix(S) \in Texts
         /\ \A s \in S : IsPrefix(LongestCommonPrefix(S), s)
         /\ \A p \in Texts : (\A s \in S : IsPrefix(p, s)) => IsPrefix(p, LongestCommonPrefix(S))
<1> DEFINE C == CommonPrefixes(S)
           K == {n \in Nat : \E p \in C : n = Len(p)}
           lcp == LongestCommonPrefix(S)
<1>1. ASSUME NEW p \in C PROVE p \in Texts /\ \A s \in S : IsPrefix(p, s)
  <2>1. PICK s \in S : p \in Prefixes(s)
    BY DEF CommonPrefixes
  <2>2. PICK n \in 0..Len(s) : p = SubSeq(s, 1, n)
    BY <2>1 DEF Prefixes
  <2>3. s \in Texts /\ Len(s) \in Nat
    BY TextBasics
  <2>4. p \in Texts
    BY <2>2, <2>3, Beginning
  <2> QED
    BY <2>4 DEF CommonPrefixes
<1>2. ASSUME NEW p \in Texts, \A s \in S : IsPrefix(p, s) PROVE p \in C
  <2>1. Len(p) \in 0..Len(t) /\ SubSeq(p, 1, Len(p)) = SubSeq(t, 1, Len(p))
    BY <1>2, TextBasics DEF IsPrefix
  <2>2. SubSeq(p, 1, Len(p)) = p
    BY SubSeqFull DEF Texts
  <2>3. p \in Prefixes(t)
    BY <2>1, <2>2 DEF Prefixes
  <2> QED
    BY <1>2, <2>3 DEF CommonPrefixes
<1>3. <<>> \in C
  <2>1. <<>> \in Texts /\ Len(<<>>) = 0 /\ \A s \in S : Len(s) \in Nat
    BY TextBasics
  <2>2. \A s \in S : IsPrefix(<<>>, s)
    BY <2>1, Prefix
  <2> QED
    BY <1>2, <2>1, <2>2
<1>4. \A p \in C : Len(p) \in 0..Len(t)
  BY <1>1, TextBasics DEF IsPrefix
<1> HIDE DEF C
<1>5. K \in SUBSET (0..Len(t)) /\ Len(t) \in Nat
  BY <1>4, TextBasics
<1>6. Len(<<>>) \in K
  BY <1>3, <1>4
<1> HIDE DEF K
<1>7. PICK n \in K : \A k \in K : k <= n
  BY <1>5, <1>6, MaxExists
<1> USE DEF K
<1>8. PICK q \in C : n = Len(q)
  BY <1>7
<1>9. \A p \in C : Len(p) <= Len(q)
  BY <1>4, <1>7, <1>8
<1>10. lcp \in C /\ \A p \in C : Len(p) <= Len(lcp)
  BY <1>8, <1>9 DEF LongestCommonPrefix, C
<1> HIDE DEF lcp
<1>11. ASSUME NEW p \in Texts, \A s \in S : IsPrefix(p, s) PROVE IsPrefix(p, lcp)
  <2>1. p \in C
    BY <1>2, <1>11
  <2> QED
    BY <1>1, <1>10, <1>11, <2>1, ShorterPrefix
<1> QED
  BY <1>1, <1>10, <1>11 DEF lcp

LEMMA SampledTexts ==
  ASSUME samples \in Seq(Texts), NEW t \in Texts
  PROVE  /\ Sampled(t) \in Seq(Texts) /\ Sampled(t) # <<>> /\ Last(Sampled(t)) = t
         /\ ToSet(Sampled(t)) \in SUBSET Texts /\ t \in ToSet(Sampled(t))
         /\ ToSet(Sampled(t)) \subseteq ToSet(samples) \cup {t}
<1> DEFINE a == Append(samples, t)
           x == Len(samples) + 2 - StableSamples
           k == Max({1, x})
           r == Sampled(t)
<1>1. Len(samples) \in Nat /\ StableSamples \in Nat \ {0} /\ DOMAIN samples = 1..Len(samples)
  BY StreamAssumption, LenProperties
<1>2. x \in Int /\ x <= Len(samples) + 1
  BY <1>1
<1> HIDE DEF x
<1>3. k \in 1..(Len(samples) + 1)
  <2>1. \E m \in {1, x} : \A y \in {1, x} : m >= y
    BY <1>2
  <2>2. k \in {1, x} /\ \A y \in {1, x} : k >= y
    BY <2>1 DEF Max
  <2> QED
    BY <1>1, <1>2, <2>2
<1>4. /\ a \in Seq(Texts) /\ Len(a) = Len(samples) + 1 /\ a[Len(samples) + 1] = t
      /\ \A i \in 1..Len(samples) : a[i] = samples[i]
  BY AppendProperties
<1>5. r = SubSeq(a, k, Len(a))
  BY DEF Sampled, From, x
<1> HIDE DEF a, k, r
<1>6. \A i \in k .. Len(a) : a[i] \in Texts
  BY <1>1, <1>3, <1>4, ElementOfSeq
<1>7. /\ r \in Seq(Texts) /\ Len(r) = Len(a) - k + 1
      /\ \A i \in 1..(Len(a) - k + 1) : r[i] = a[k + i - 1]
  BY <1>1, <1>3, <1>4, <1>5, <1>6, SubSeqProperties
<1>8. Len(r) \in Nat \ {0} /\ k + Len(r) - 1 = Len(samples) + 1 /\ DOMAIN r = 1..Len(r)
  BY <1>1, <1>3, <1>4, <1>7, LenProperties
<1>9. r[Len(r)] = t /\ r # <<>>
  BY <1>4, <1>7, <1>8
<1>10. ASSUME NEW s \in ToSet(r) PROVE s \in Texts /\ s \in ToSet(samples) \cup {t}
  <2>1. PICK i \in 1..Len(r) : s = r[i]
    BY <1>8 DEF ToSet
  <2>2. s \in Texts
    BY <1>7, <2>1, ElementOfSeq
  <2>3. s = a[k + i - 1] /\ k + i - 1 \in 1..(Len(samples) + 1)
    BY <1>1, <1>3, <1>4, <1>7, <1>8, <2>1
  <2>4. CASE k + i - 1 = Len(samples) + 1
    BY <1>4, <2>3, <2>4
  <2>5. CASE k + i - 1 # Len(samples) + 1
    <3>1. k + i - 1 \in 1..Len(samples)
      BY <1>1, <2>3, <2>5
    <3>2. s = samples[k + i - 1]
      BY <1>4, <2>3, <3>1
    <3> QED
      BY <1>1, <2>2, <3>1, <3>2 DEF ToSet
  <2> QED
    BY <2>2, <2>4, <2>5
<1>11. t \in ToSet(r)
  BY <1>8, <1>9 DEF ToSet
<1> QED
  BY <1>7, <1>9, <1>10, <1>11 DEF Last, r

(* What a sample lets go of.                                               *)
LEMMA StableText ==
  ASSUME samples \in Seq(Texts), NEW t \in Texts
  PROVE  /\ Stable(t) \in Texts /\ \A s \in ToSet(Sampled(t)) : IsPrefix(Stable(t), s)
         /\ \A p \in Texts : (\A s \in ToSet(Sampled(t)) : IsPrefix(p, s)) => IsPrefix(p, Stable(t))
         /\ Committable(t) \in Texts /\ IsPrefix(Committable(t), Stable(t))
         /\ Len(Committable(t)) <= Len(t) - Holdback \/ Len(Committable(t)) = 0
<1> DEFINE st == Stable(t)
           n == Len(st) - Holdback
<1>1. /\ st \in Texts /\ \A s \in ToSet(Sampled(t)) : IsPrefix(st, s)
      /\ \A p \in Texts : (\A s \in ToSet(Sampled(t)) : IsPrefix(p, s)) => IsPrefix(p, st)
  BY SampledTexts, CommonPrefix DEF Stable
<1>2. IsPrefix(st, t)
  BY <1>1, SampledTexts
<1> HIDE DEF st
<1>3. Len(st) \in Nat /\ Holdback \in Nat /\ Len(st) <= Len(t) /\ Len(t) \in Nat
  BY <1>1, <1>2, TextBasics, StreamAssumption DEF IsPrefix
<1>4. n \in Int /\ n <= Len(st) /\ n <= Len(t) - Holdback
  BY <1>3
<1>5. Committable(t) = SubSeq(st, 1, n)
  BY DEF Committable, st
<1> HIDE DEF n
<1>6. /\ Committable(t) \in Texts /\ IsPrefix(Committable(t), st)
      /\ Len(Committable(t)) = IF 1 <= n THEN n ELSE 0
  BY <1>1, <1>4, <1>5, Beginning
<1> QED
  BY <1>1, <1>4, <1>6 DEF st
-----------------------------------------------------------------------------
(* The inductive invariant.                                                *)

Listening == {"preparing", "started", "polling", "flushing"}

(* What the client was sent, with the delta that is on its way.            *)
Sent == seen \o delta

Typed ==
  /\ tools \in BOOLEAN /\ deep \in BOOLEAN
  /\ samples \in Seq(Texts) /\ emitted \in Texts /\ calm \in Texts /\ quiet \in Nat
  /\ delta \in Texts /\ seen \in Texts
  /\ waiter \in [stable : Texts, count : Nat]
  /\ detector \in [class : Classes, buffer : Texts]

(* The detector was given what the stable prefix gave out, and the client  *)
(* was sent what the detector let go of.                                   *)
DetectInv ==
  /\ pc \in Listening \cup {"finishing"} => Detecting(detector.class, detector.buffer, Sent, emitted)
  /\ pc = "finishing" => emitted = waiter.stable
  /\ pc \in {"saving", "saved"} =>
       detector.class \in {"text", "tool"} /\ Complete(detector.class, Sent, waiter.stable)
  /\ tools => ~Includes(Sent, Start)

(* The frames of an unfinished answer, and those that carry a delta.       *)
EarlyFrames == {"role", "created", "in_progress", "item", "part", "delta", "error"}

DeltaFrames == {<<"delta">>, <<"part", "delta">>, <<"item", "part", "delta">>}

OutInv ==
  /\ delta # <<>> => outbox \in DeltaFrames /\ pc # "ending"
  /\ pc \in {"preparing", "saved", "done"} => outbox = <<>>
  /\ ~IsAnswer(saved) => outbox \in Seq(EarlyFrames) /\ wire \in Seq(EarlyFrames)

SavedInv ==
  /\ pc = "saved" => IsAnswer(saved)
  /\ pc \notin {"saved", "ending", "done"} => ~IsAnswer(saved)
  /\ IsAnswer(saved) => delta = <<>> /\ seen = saved.text

(* What was given out is a part of what every shallow rewrite leaves.      *)
CalmInv ==
  /\ pc \in Listening /\ ~deep =>
       IsPrefix(emitted, calm) /\ \A s \in ToSet(samples) : IsPrefix(emitted, s)
  /\ failure = "chatgpt_stream_diverged" => deep

(* The completion loop counts no poll that was not seen.                   *)
QuietInv ==
  /\ pc \in {"preparing", "started", "polling"} /\ waiter.count > 0 =>
       samples # <<>> /\ waiter.stable = Last(samples) /\ waiter.count <= quiet
  /\ pc \in {"flushing", "finishing", "saving"} => quiet > StableSamples

IInv == Typed /\ DetectInv /\ OutInv /\ SavedInv /\ CalmInv /\ QuietInv
(* The steps, one lemma for each kind.                                     *)
LEMMA SentText ==
  ASSUME Typed
  PROVE  Sent \in Texts /\ seen \in Texts /\ delta \in Texts /\ waiter.stable \in Texts
         /\ emitted \in Texts /\ (delta = <<>> => Sent = seen)
  BY Cat, TextBasics DEF Typed, Sent

LEMMA SeenHasNoMarker ==
  ASSUME Typed, ~Includes(Sent, Start)
  PROVE  ~Includes(seen, Start)
  BY SentText, Markers, WithinGrows DEF Sent

LEMMA EmptyHasNoMarker == ~Includes(<<>>, Start)
<1>1. <<>> \in Texts /\ Len(<<>>) = 0 /\ Start \in Texts /\ Len(Start) \in Nat \ {0}
  <2>1. <<>> \in Texts
    BY Markers, TextBasics
  <2> QED
    BY <2>1, Markers, TextBasics
<1>2. 1..(Len(<<>>) + 1 - Len(Start)) = {}
  BY <1>1
<1> QED
  BY <1>1, <1>2, Within

LEMMA InitStep == Init => IInv
<1> SUFFICES ASSUME Init PROVE IInv
  OBVIOUS
<1> USE DEF Init
<1>1. <<>> \in Texts /\ <<>> \o <<>> = <<>> /\ Len(<<>>) = 0
  <2>1. <<>> \in Texts
    BY Markers, TextBasics
  <2> QED
    BY <2>1, TextBasics
<1>2. Sent = <<>>
  BY <1>1 DEF Sent
<1>3. Typed
  <2>1. detector \in [class : Classes, buffer : Texts]
    BY <1>1 DEF Classes
  <2>2. samples \in Seq(Texts)
    BY EmptySeq
  <2>3. waiter \in [stable : Texts, count : Nat]
    BY <1>1
  <2> QED
    BY <1>1, <2>1, <2>2, <2>3 DEF Typed
<1>4. DetectInv
  <2>1. Detecting(detector.class, detector.buffer, Sent, emitted)
    BY <1>1, <1>2 DEF Detecting
  <2>2. ~Includes(Sent, Start)
    BY <1>2, EmptyHasNoMarker
  <2> QED
    BY <2>1, <2>2 DEF DetectInv, Listening
<1>5. OutInv
  BY DEF OutInv, NoAnswer, IsAnswer
<1>6. SavedInv
  BY DEF SavedInv, NoAnswer, IsAnswer
<1>7. CalmInv
  <2>1. ToSet(samples) = {}
    BY DEF ToSet
  <2>2. IsPrefix(emitted, calm)
    BY <1>1, Prefix
  <2> QED
    BY <2>1, <2>2 DEF CalmInv
<1>8. QuietInv
  BY DEF QuietInv
<1> QED
  BY <1>3, <1>4, <1>5, <1>6, <1>7, <1>8 DEF IInv

(* An action that ends the turn.                                           *)
LEMMA ThrowStep ==
  ASSUME IInv, NEW code, Throw(code), pc \notin {"saved", "ending", "done"},
         deep' \in BOOLEAN, code = "chatgpt_stream_diverged" => deep'
  PROVE  IInv'
<1> USE DEF Throw, Goes, Forget
<1>1. Typed /\ ~IsAnswer(saved) /\ ~IsAnswer(saved)' /\ seen' = seen /\ tools' = tools
  BY DEF IInv, SavedInv, request, wireVars, IsAnswer
<1>2. <<>> \in Texts /\ delta' = <<>> /\ Sent' = seen
  BY <1>1, SentText, TextBasics DEF Sent
<1>3. Typed'
  BY <1>1, <1>2 DEF Typed, Classes
<1>4. DetectInv'
  <2>1. tools => ~Includes(seen, Start)
    BY <1>1, SeenHasNoMarker DEF IInv, DetectInv
  <2> QED
    BY <1>1, <1>2, <2>1 DEF DetectInv, Listening
<1>5. OutInv'
  <2>1. wire' \in Seq(EarlyFrames)
    BY <1>1 DEF IInv, OutInv, wireVars
  <2>2. <<>> \in Seq(EarlyFrames) /\ <<"error">> \in Seq(EarlyFrames)
    BY EmptySeq DEF EarlyFrames
  <2>3. outbox' \in {<<>>, <<"error">>}
    OBVIOUS
  <2> QED
    BY <1>2, <2>1, <2>2, <2>3 DEF OutInv
<1>6. SavedInv'
  BY <1>1 DEF SavedInv
<1>7. CalmInv'
  BY DEF CalmInv, Listening
<1>8. QuietInv'
  BY DEF QuietInv
<1> QED
  BY <1>3, <1>4, <1>5, <1>6, <1>7, <1>8 DEF IInv

(* An action that moves on, and one that only counts or closes.            *)
LEMMA PlainStep ==
  ASSUME IInv,
         UNCHANGED <<request, samples, emitted, waiter, historyVars, answerVars, wireVars, saved>>,
         \/ pc' = pc
         \/ pc = "started" /\ pc' = "polling"
         \/ pc' = "done" /\ outbox = <<>>,
         failure' \in {failure, "rejected"}
  PROVE  IInv'
<1> USE DEF request, historyVars, answerVars, wireVars
<1>1. Sent' = Sent /\ IsAnswer(saved)' = IsAnswer(saved)
  BY DEF Sent, IsAnswer
<1>2. Typed'
  BY DEF IInv, Typed
<1>3. DetectInv'
  BY <1>1 DEF IInv, DetectInv, Listening, Detecting, Complete
<1>4. OutInv'
  BY <1>1 DEF IInv, OutInv
<1>5. SavedInv'
  BY <1>1 DEF IInv, SavedInv
<1>6. CalmInv'
  BY DEF IInv, CalmInv, Listening
<1>7. QuietInv'
  BY DEF IInv, QuietInv
<1> QED
  BY <1>2, <1>3, <1>4, <1>5, <1>6, <1>7 DEF IInv
LEMMA NoMarkerSent ==
  ASSUME tools \in BOOLEAN, tools, NEW class \in Classes, NEW buffer \in Texts, NEW sent \in Texts, NEW e,
         Detecting(class, buffer, sent, e)
  PROVE  ~Includes(sent, Start)
<1>1. CASE class \in {"pending", "tool"}
  BY <1>1, EmptyHasNoMarker DEF Detecting
<1>2. CASE class = "text"
  <2>1. ~Includes(sent \o buffer, Start)
    BY <1>2 DEF Detecting
  <2> QED
    BY <2>1, Markers, WithinGrows
<1> QED
  BY <1>1, <1>2 DEF Classes

LEMMA DeltaFrameSeq == \A o \in DeltaFrames : o \in Seq(EarlyFrames) /\ o # <<>>
<1>1. <<"delta">> \in Seq(EarlyFrames) /\ <<"delta">> # <<>>
  BY DEF EarlyFrames
<1>2. <<"part", "delta">> \in Seq(EarlyFrames) /\ <<"part", "delta">> # <<>>
  BY DEF EarlyFrames
<1>3. <<"item", "part", "delta">> \in Seq(EarlyFrames) /\ <<"item", "part", "delta">> # <<>>
  BY DEF EarlyFrames
<1> QED
  BY <1>1, <1>2, <1>3 DEF DeltaFrames

(* The sink gets the text d.                                               *)
LEMMA EmitStep ==
  ASSUME IInv, outbox = <<>>, NEW d \in Texts, Emit(d), seen' = seen
  PROVE  /\ delta' = d /\ Sent = seen /\ Sent' = Sent \o d
         /\ delta' # <<>> => outbox' \in DeltaFrames
         /\ outbox' \in Seq(EarlyFrames)
<1>1. delta = <<>>
  BY DeltaFrameSeq DEF IInv, OutInv
<1>2. Sent = seen /\ delta' = d /\ Sent' = Sent \o d
  BY <1>1, SentText DEF IInv, Sent, Emit
<1>3. CASE d = <<>>
  BY <1>2, <1>3, EmptySeq DEF Emit
<1>4. CASE d # <<>>
  <2>1. ItemFrames \in {<<>>, <<"item", "part">>}
    BY DEF ItemFrames
  <2>2. <<>> \o <<"delta">> = <<"delta">>
    OBVIOUS
  <2>3. <<"item", "part">> \o <<"delta">> = <<"item", "part", "delta">>
    <3> DEFINE a == <<"item", "part">>
               b == <<"delta">>
               c == <<"item", "part", "delta">>
    <3>1. a \in Seq(EarlyFrames) /\ Len(a) = 2 /\ a[1] = "item" /\ a[2] = "part"
      BY DEF EarlyFrames
    <3>2. b \in Seq(EarlyFrames) /\ Len(b) = 1 /\ b[1] = "delta"
      BY DEF EarlyFrames
    <3>3. c \in Seq(EarlyFrames) /\ Len(c) = 3 /\ c[1] = "item" /\ c[2] = "part" /\ c[3] = "delta"
      BY DEF EarlyFrames
    <3> HIDE DEF a, b, c
    <3>4. /\ a \o b \in Seq(EarlyFrames) /\ Len(a \o b) = 3
          /\ \A i \in 1..3 : (a \o b)[i] = IF i <= 2 THEN a[i] ELSE b[i - 2]
      BY <3>1, <3>2, ConcatProperties
    <3>5. \A i \in 1..3 : (a \o b)[i] = c[i]
      BY <3>1, <3>2, <3>3, <3>4
    <3>6. a \o b = c
      BY <3>3, <3>4, <3>5, SeqEqual
    <3> QED
      BY <3>6 DEF a, b, c
  <2>4. outbox' = ItemFrames \o <<"delta">>
    BY <1>4 DEF Emit
  <2>5. outbox' \in DeltaFrames
    BY <2>1, <2>2, <2>3, <2>4 DEF DeltaFrames
  <2> QED
    BY <1>2, <2>5, DeltaFrameSeq
<1> QED
  BY <1>2, <1>3, <1>4

(* The detector gets what t has beyond what was given out.                 *)
LEMMA FreshDetects ==
  ASSUME IInv, pc \in Listening, NEW t \in Texts, IsPrefix(emitted, t), Fresh(t).ok
  PROVE  /\ Fresh(t).class \in Classes /\ Fresh(t).buffer \in Texts /\ Fresh(t).emit \in Texts
         /\ Detecting(Fresh(t).class, Fresh(t).buffer, Sent \o Fresh(t).emit, t)
         /\ tools => ~Includes(Sent \o Fresh(t).emit, Start)
<1> DEFINE d == From(t, Len(emitted) + 1)
<1>1. /\ tools \in BOOLEAN /\ detector \in [class : Classes, buffer : Texts]
      /\ Sent \in Texts /\ emitted \in Texts
  BY SentText DEF IInv, Typed
<1>2. d \in Texts /\ emitted \o d = t
  BY <1>1, PrefixAndRest
<1>3. Fresh(t) = Push(detector, d)
  BY DEF Fresh
<1> HIDE DEF d
<1>4. Detecting(detector.class, detector.buffer, Sent, emitted)
  BY DEF IInv, DetectInv
<1>5. /\ Push(detector, d).class \in Classes /\ Push(detector, d).buffer \in Texts
      /\ Push(detector, d).emit \in Texts
      /\ Detecting(Push(detector, d).class, Push(detector, d).buffer,
                   Sent \o Push(detector, d).emit, emitted \o d)
  BY <1>1, <1>2, <1>3, <1>4, PushDetects
<1>6. Sent \o Fresh(t).emit \in Texts
  BY <1>1, <1>3, <1>5, Cat
<1> QED
  BY <1>1, <1>2, <1>3, <1>5, <1>6, NoMarkerSent

(* The texts a poll may show.                                              *)
LEMMA RerenderedTexts ==
  ASSUME samples \in Seq(Texts)
  PROVE  Rerendered \subseteq Texts
<1>1. Shown \in Texts
  <2>1. CASE samples = <<>>
    BY <2>1, Markers, TextBasics DEF Shown, Visible
  <2>2. CASE samples # <<>>
    <3>1. Len(samples) \in 1..Len(samples)
      BY <2>2, EmptySeq, LenProperties
    <3> QED
      BY <2>2, <3>1, ElementOfSeq DEF Shown, Visible, Last
  <2> QED
    BY <2>1, <2>2
<1>2. ASSUME NEW n \in 0..Len(Shown), NEW c \in Chunks PROVE SubSeq(Shown, 1, n) \o c \in Texts
  <2>1. SubSeq(Shown, 1, n) \in Texts
    BY <1>1, Beginning, TextBasics
  <2> QED
    BY <2>1, Cat, StreamAssumption
<1>3. ASSUME NEW t \in Rerendered PROVE t \in Texts
  <2>1. t \in {SubSeq(Shown, 1, n) \o c :
                 n \in {k \in 0..Len(Shown) : k + MaxRewrite >= Len(Shown)}, c \in Chunks}
    BY DEF Rerendered
  <2>2. PICK n \in 0..Len(Shown), c \in Chunks : t = SubSeq(Shown, 1, n) \o c
    BY <2>1
  <2> QED
    BY <1>2, <2>2
<1> QED
  BY <1>3
LEMMA PrefixItself == ASSUME NEW t \in Texts PROVE IsPrefix(t, t)
  BY Prefix, TextBasics

LEMMA CommittedText ==
  ASSUME Typed, NEW t \in Texts
  PROVE  Committed(t) \in Texts /\ IsPrefix(emitted, Committed(t))
         /\ (~Diverged(t) => IsPrefix(Committed(t), t))
<1>1. emitted \in Texts /\ IsPrefix(emitted, emitted) /\ samples \in Seq(Texts)
  BY PrefixItself DEF Typed
<1>2. /\ Committable(t) \in Texts /\ Stable(t) \in Texts /\ IsPrefix(Committable(t), Stable(t))
      /\ IsPrefix(Stable(t), t)
  BY <1>1, StableText, SampledTexts
<1>3. IsPrefix(Committable(t), t)
  BY <1>2, PrefixOfPrefix
<1> QED
  BY <1>1, <1>2, <1>3 DEF Committed, Diverged

LEMMA CalmedText ==
  ASSUME Typed, NEW t \in Texts
  PROVE  /\ Calmed(t) \in Texts
         /\ Len(Calmed(t)) >= Len(calm) /\ Len(Calmed(t)) >= Len(t) - Holdback
         /\ IsPrefix(calm, t) => IsPrefix(Calmed(t), t)
<1> DEFINE n == Len(t) - Holdback
           rest == SubSeq(t, 1, n)
<1>1. calm \in Texts /\ Len(calm) \in Nat /\ Len(t) \in Nat /\ Holdback \in Nat
  BY TextBasics, StreamAssumption DEF Typed
<1>2. n \in Int /\ n <= Len(t)
  BY <1>1
<1>3. Calmed(t) = IF Len(rest) > Len(calm) THEN rest ELSE calm
  BY DEF Calmed
<1> HIDE DEF n
<1>4. rest \in Texts /\ IsPrefix(rest, t) /\ Len(rest) = IF 1 <= n THEN n ELSE 0
  BY <1>2, Beginning
<1> HIDE DEF rest
<1> QED
  BY <1>1, <1>2, <1>3, <1>4 DEF n

(* A text that leaves calm alone neither diverges nor loosens what was     *)
(* given out.                                                              *)
LEMMA ShallowIsSafe ==
  ASSUME IInv, pc \in Listening, NEW t \in Texts, ~Deepened(t)
  PROVE  /\ ~Diverged(t)
         /\ IsPrefix(Committed(t), Calmed(t))
         /\ \A s \in ToSet(Sampled(t)) : IsPrefix(Committed(t), s)
<1>1. /\ emitted \in Texts /\ calm \in Texts /\ samples \in Seq(Texts) /\ Typed
      /\ Committed(t) \in Texts /\ Calmed(t) \in Texts
  BY CommittedText, CalmedText DEF IInv, Typed
<1>2. ~deep /\ IsPrefix(calm, t)
  BY DEF Deepened
<1>3. IsPrefix(emitted, calm) /\ \A s \in ToSet(samples) : IsPrefix(emitted, s)
  BY <1>2 DEF IInv, CalmInv
<1>4. IsPrefix(emitted, t)
  BY <1>1, <1>2, <1>3, PrefixOfPrefix
<1>5. \A s \in ToSet(Sampled(t)) : s \in Texts /\ IsPrefix(emitted, s)
  BY <1>1, <1>3, <1>4, SampledTexts
<1>6. ~Diverged(t)
  <2>1. IsPrefix(emitted, Stable(t))
    BY <1>1, <1>5, StableText
  <2> QED
    BY <1>4, <2>1 DEF Diverged
<1>7. IsPrefix(Calmed(t), t) /\ Len(Calmed(t)) \in Nat /\ Len(calm) \in Nat /\ Len(t) \in Nat
  BY <1>1, <1>2, CalmedText, TextBasics
<1>8. CASE Committed(t) = emitted
  <2>1. Len(emitted) <= Len(Calmed(t))
    <3>1. Len(emitted) <= Len(calm)
      BY <1>3 DEF IsPrefix
    <3>2. Len(calm) <= Len(Calmed(t))
      BY <1>1, <1>7, CalmedText
    <3> QED
      BY <1>1, <1>7, <3>1, <3>2, TextBasics
  <2> QED
    BY <1>1, <1>4, <1>5, <1>6, <1>7, <1>8, <2>1, ShorterPrefix
<1>9. CASE Committed(t) = Committable(t)
  <2>1. /\ Stable(t) \in Texts /\ IsPrefix(Committable(t), Stable(t))
        /\ \A s \in ToSet(Sampled(t)) : IsPrefix(Stable(t), s)
        /\ Len(Committable(t)) <= Len(t) - Holdback \/ Len(Committable(t)) = 0
    BY <1>1, StableText
  <2>2. \A s \in ToSet(Sampled(t)) : IsPrefix(Committed(t), s)
    BY <1>1, <1>5, <1>9, <2>1, PrefixOfPrefix
  <2>3. IsPrefix(Committed(t), t)
    BY <1>1, <2>2, SampledTexts
  <2>4. Len(Committed(t)) <= Len(Calmed(t))
    <3>1. Len(Calmed(t)) >= Len(t) - Holdback /\ Holdback \in Nat
      BY <1>1, CalmedText, StreamAssumption
    <3>2. Len(Committed(t)) \in Nat
      BY <1>1, TextBasics
    <3> QED
      BY <1>7, <1>9, <2>1, <3>1, <3>2
  <2> QED
    BY <1>1, <1>6, <1>7, <2>2, <2>3, <2>4, ShorterPrefix
<1> QED
  BY <1>8, <1>9 DEF Committed
(* The completion loop after a poll.                                       *)
LEMMA WaitedStep ==
  ASSUME IInv, pc = "polling", NEW t \in Texts, NEW marker \in BOOLEAN,
         samples' = Sampled(t), waiter' = Waited(t, marker),
         quiet' = IF ~marker THEN 0 ELSE IF t = Shown THEN quiet + 1 ELSE 1,
         pc' = IF Settled(t, marker) THEN "flushing" ELSE "polling"
  PROVE  /\ waiter' \in [stable : Texts, count : Nat] /\ quiet' \in Nat
         /\ QuietInv'
<1>1. /\ waiter \in [stable : Texts, count : Nat] /\ quiet \in Nat /\ samples \in Seq(Texts)
      /\ StableSamples \in Nat \ {0}
  BY StreamAssumption DEF IInv, Typed
<1>2. waiter.count > 0 => waiter.stable = Shown /\ waiter.count <= quiet
  BY DEF IInv, QuietInv, Shown, Visible
<1>3. samples' # <<>> /\ Last(samples') = t
  BY <1>1, SampledTexts
<1>4. CASE Settled(t, marker)
  <2>1. waiter.count >= StableSamples /\ marker /\ t = waiter.stable
    BY <1>4 DEF Settled, Rereading
  <2>2. quiet' = quiet + 1 /\ quiet' > StableSamples /\ quiet' \in Nat
    BY <1>1, <1>2, <2>1
  <2>3. waiter' = waiter /\ pc' = "flushing"
    BY <1>4 DEF Waited
  <2> QED
    BY <1>1, <2>2, <2>3 DEF QuietInv
<1>5. CASE ~Settled(t, marker) /\ (Rereading \/ ~marker \/ Words(t) = {})
  <2>1. waiter' = [stable |-> t, count |-> 0] /\ pc' = "polling"
    BY <1>5 DEF Waited
  <2>2. quiet' \in Nat
    BY <1>1
  <2> QED
    BY <1>1, <2>1, <2>2 DEF QuietInv
<1>6. CASE ~Settled(t, marker) /\ ~(Rereading \/ ~marker \/ Words(t) = {})
  <2>1. waiter' = [stable |-> t, count |-> IF t = waiter.stable THEN waiter.count + 1 ELSE 1]
    BY <1>6 DEF Waited
  <2>2. pc' = "polling" /\ marker
    BY <1>6
  <2>3. waiter'.stable = t /\ waiter'.count \in Nat
    BY <1>1, <2>1
  <2>4. quiet' \in Nat /\ waiter'.count <= quiet'
    <3>1. CASE t = waiter.stable /\ waiter.count > 0
      BY <1>1, <1>2, <2>1, <2>2, <3>1
    <3>2. CASE ~(t = waiter.stable /\ waiter.count > 0)
      <4>1. waiter'.count = 1
        BY <1>1, <2>1, <3>2
      <4>2. quiet' \in {1, quiet + 1}
        BY <2>2
      <4>3. quiet' \in Nat /\ 1 <= quiet'
        BY <1>1, <4>2
      <4> QED
        BY <4>1, <4>3
    <3> QED
      BY <3>1, <3>2
  <2> QED
    BY <1>1, <1>3, <2>1, <2>2, <2>3, <2>4 DEF QuietInv
<1> QED
  BY <1>4, <1>5, <1>6

LEMMA SeeStep ==
  ASSUME IInv, NEW t \in Rerendered, NEW marker \in BOOLEAN, See(t, marker)
  PROVE  IInv'
<1> DEFINE c == Committed(t)
           o == Fresh(c)
<1>1. t \in Texts
  BY RerenderedTexts DEF IInv, Typed
<1>2. /\ pc = "polling" /\ outbox = <<>> /\ pc' \in {"polling", "flushing"}
      /\ ~Diverged(t) /\ o.ok /\ Detects(o)
      /\ samples' = Sampled(t) /\ emitted' = c /\ waiter' = Waited(t, marker)
      /\ calm' = Calmed(t) /\ deep' = Deepened(t)
      /\ quiet' = IF ~marker THEN 0 ELSE IF t = Shown THEN quiet + 1 ELSE 1
      /\ pc' = IF Settled(t, marker) THEN "flushing" ELSE "polling"
      /\ tools' = tools /\ seen' = seen /\ wire' = wire /\ saved' = saved /\ failure' = failure
  BY DEF See, CanPoll, At, Goes, request, wireVars
<1>3. c \in Texts /\ IsPrefix(emitted, c) /\ Calmed(t) \in Texts
  BY <1>1, CommittedText, CalmedText DEF IInv
<1>4. /\ o.class \in Classes /\ o.buffer \in Texts /\ o.emit \in Texts
      /\ Detecting(o.class, o.buffer, Sent \o o.emit, c)
      /\ tools => ~Includes(Sent \o o.emit, Start)
  BY <1>2, <1>3, FreshDetects DEF Listening
<1>5. waiter' \in [stable : Texts, count : Nat] /\ quiet' \in Nat /\ QuietInv'
  BY <1>1, <1>2, WaitedStep
<1>6. /\ pc = "polling" /\ pc \in Listening /\ ~IsAnswer(saved) /\ ~IsAnswer(saved)'
  BY <1>2 DEF IInv, SavedInv, IsAnswer, Listening
<1>7. ~Deepened(t) =>
        IsPrefix(c, Calmed(t)) /\ \A s \in ToSet(Sampled(t)) : IsPrefix(c, s)
  BY <1>1, <1>6, ShallowIsSafe
<1> HIDE DEF c, o
<1>8. /\ detector' = [class |-> o.class, buffer |-> o.buffer] /\ Emit(o.emit)
  BY <1>2 DEF Detects
<1>9. /\ delta' = o.emit /\ Sent' = Sent \o o.emit
      /\ delta' # <<>> => outbox' \in DeltaFrames
      /\ outbox' \in Seq(EarlyFrames)
  BY <1>2, <1>4, <1>8, EmitStep
<1>10. Typed'
  <2>1. samples' \in Seq(Texts)
    BY <1>1, <1>2, SampledTexts DEF IInv, Typed
  <2>2. deep' \in BOOLEAN
    BY <1>2 DEF Deepened
  <2>3. detector' \in [class : Classes, buffer : Texts]
    BY <1>4, <1>8
  <2> QED
    BY <1>2, <1>3, <1>4, <1>5, <1>9, <2>1, <2>2, <2>3 DEF IInv, Typed
<1>11. DetectInv'
  <2>1. detector'.class = o.class /\ detector'.buffer = o.buffer
    BY <1>8
  <2>2. Detecting(detector.class, detector.buffer, Sent, emitted)'
    BY <1>2, <1>4, <1>9, <2>1 DEF Detecting
  <2>3. (tools => ~Includes(Sent, Start))'
    BY <1>2, <1>4, <1>9
  <2> QED
    BY <1>2, <2>2, <2>3 DEF DetectInv
<1>12. OutInv'
  BY <1>2, <1>6, <1>9 DEF IInv, OutInv
<1>13. SavedInv'
  BY <1>2, <1>6 DEF SavedInv
<1>14. CalmInv'
  BY <1>2, <1>7, <1>6 DEF IInv, CalmInv, Deepened
<1> QED
  BY <1>5, <1>10, <1>11, <1>12, <1>13, <1>14 DEF IInv

LEMMA DivergeStep ==
  ASSUME IInv, NEW t \in Rerendered, Diverge(t)
  PROVE  IInv'
<1>1. t \in Texts
  BY RerenderedTexts DEF IInv, Typed
<1>2. /\ pc = "polling" /\ pc \in Listening /\ Diverged(t) /\ deep' = Deepened(t)
      /\ Throw("chatgpt_stream_diverged")
  BY DEF Diverge, CanPoll, At, Listening
<1>3. Deepened(t)
  BY <1>1, <1>2, ShallowIsSafe
<1>4. deep' \in BOOLEAN /\ deep'
  BY <1>2, <1>3 DEF Deepened
<1> QED
  BY <1>2, <1>4, ThrowStep
LEMMA FlushStep == ASSUME IInv, Flush PROVE IInv'
<1> DEFINE c == waiter.stable
           o == Fresh(c)
<1>1. /\ pc = "flushing" /\ pc \in Listening /\ outbox = <<>> /\ pc' = "finishing"
      /\ IsPrefix(emitted, c) /\ o.ok /\ Detects(o)
      /\ samples' = Sampled(c) /\ emitted' = c /\ waiter' = waiter
      /\ calm' = calm /\ deep' = deep /\ quiet' = quiet
      /\ tools' = tools /\ seen' = seen /\ wire' = wire /\ saved' = saved /\ failure' = failure
  BY DEF Flush, At, Goes, request, wireVars, historyVars, Listening
<1>2. c \in Texts
  BY SentText DEF IInv
<1>3. /\ o.class \in Classes /\ o.buffer \in Texts /\ o.emit \in Texts
      /\ Detecting(o.class, o.buffer, Sent \o o.emit, c)
      /\ tools => ~Includes(Sent \o o.emit, Start)
  BY <1>1, <1>2, FreshDetects
<1>4. ~IsAnswer(saved) /\ ~IsAnswer(saved)'
  BY <1>1 DEF IInv, SavedInv, IsAnswer
<1> HIDE DEF o
<1>5. /\ detector' = [class |-> o.class, buffer |-> o.buffer] /\ Emit(o.emit)
  BY <1>1 DEF Detects
<1>6. /\ delta' = o.emit /\ Sent' = Sent \o o.emit
      /\ delta' # <<>> => outbox' \in DeltaFrames
      /\ outbox' \in Seq(EarlyFrames)
  BY <1>1, <1>3, <1>5, EmitStep
<1>7. Typed'
  <2>1. samples' \in Seq(Texts)
    BY <1>1, <1>2, SampledTexts DEF IInv, Typed
  <2>2. detector' \in [class : Classes, buffer : Texts]
    BY <1>3, <1>5
  <2> QED
    BY <1>1, <1>2, <1>3, <1>6, <2>1, <2>2 DEF IInv, Typed
<1>8. DetectInv'
  <2>1. detector'.class = o.class /\ detector'.buffer = o.buffer
    BY <1>5
  <2>2. Detecting(detector.class, detector.buffer, Sent, emitted)'
    BY <1>1, <1>3, <1>6, <2>1 DEF Detecting
  <2>3. (tools => ~Includes(Sent, Start))'
    BY <1>1, <1>3, <1>6
  <2> QED
    BY <1>1, <2>2, <2>3 DEF DetectInv
<1>9. OutInv'
  BY <1>1, <1>4, <1>6 DEF IInv, OutInv
<1>10. SavedInv'
  BY <1>1, <1>4 DEF SavedInv
<1>11. CalmInv'
  BY <1>1 DEF IInv, CalmInv, Listening
<1>12. QuietInv'
  BY <1>1 DEF IInv, QuietInv
<1> QED
  BY <1>7, <1>8, <1>9, <1>10, <1>11, <1>12 DEF IInv

LEMMA FinishStep == ASSUME IInv, Finish PROVE IInv'
<1> DEFINE c == waiter.stable
           o == FinishDetection(detector)
<1>1. /\ pc = "finishing" /\ outbox = <<>> /\ pc' = "saving" /\ o.ok /\ Detects(o)
      /\ samples' = samples /\ emitted' = emitted /\ waiter' = waiter
      /\ calm' = calm /\ deep' = deep /\ quiet' = quiet
      /\ tools' = tools /\ seen' = seen /\ wire' = wire /\ saved' = saved /\ failure' = failure
  BY DEF Finish, At, Goes, request, wireVars, historyVars, loopVars
<1>2. /\ c \in Texts /\ Sent \in Texts /\ tools \in BOOLEAN /\ detector \in [class : Classes, buffer : Texts]
      /\ Detecting(detector.class, detector.buffer, Sent, c)
  BY <1>1, SentText DEF IInv, DetectInv, Typed
<1>3. /\ o.class \in {"text", "tool"} /\ o.buffer \in Texts /\ o.emit \in Texts
      /\ Complete(o.class, Sent \o o.emit, c)
  BY <1>1, <1>2, FinishDetects
<1>4. ~IsAnswer(saved) /\ ~IsAnswer(saved)'
  BY <1>1 DEF IInv, SavedInv, IsAnswer
<1> HIDE DEF o
<1>5. /\ detector' = [class |-> o.class, buffer |-> o.buffer] /\ Emit(o.emit)
  BY <1>1 DEF Detects
<1>6. /\ delta' = o.emit /\ Sent' = Sent \o o.emit
      /\ delta' # <<>> => outbox' \in DeltaFrames
      /\ outbox' \in Seq(EarlyFrames)
  BY <1>1, <1>3, <1>5, EmitStep
<1>7. Typed'
  <2>1. detector' \in [class : Classes, buffer : Texts]
    BY <1>3, <1>5 DEF Classes
  <2> QED
    BY <1>1, <1>2, <1>3, <1>6, <2>1 DEF IInv, Typed
<1>8. DetectInv'
  <2>1. detector'.class = o.class
    BY <1>5
  <2>2. Complete(detector.class, Sent, waiter.stable)'
    BY <1>1, <1>3, <1>6, <2>1 DEF Complete
  <2>3. (tools => ~Includes(Sent, Start))'
    BY <1>1, <1>3, <1>6, EmptyHasNoMarker DEF Complete
  <2> QED
    BY <1>1, <1>3, <2>1, <2>2, <2>3 DEF DetectInv, Listening
<1>9. OutInv'
  BY <1>1, <1>4, <1>6 DEF IInv, OutInv
<1>10. SavedInv'
  BY <1>1, <1>4 DEF SavedInv
<1>11. CalmInv'
  BY <1>1 DEF IInv, CalmInv, Listening
<1>12. QuietInv'
  BY <1>1 DEF IInv, QuietInv
<1> QED
  BY <1>7, <1>8, <1>9, <1>10, <1>11, <1>12 DEF IInv

(* What the parser makes of a complete text is what the client was sent.   *)
LEMMA ParseAgrees ==
  ASSUME NEW class \in {"text", "tool"}, NEW sent \in Texts, NEW t \in Texts, NEW choice,
         tools \in BOOLEAN, Complete(class, sent, t), IsAnswer(Parse(t, choice))
  PROVE  Parse(t, choice).text = sent
<1> DEFINE p == Parse(t, choice)
           marked == Includes(t, Start) \/ Includes(t, End)
<1>1. CASE ~tools \/ (~marked /\ choice # "required")
  <2>1. p.text = t
    BY <1>1 DEF Parse, TextAnswer
  <2>2. class = "text"
    <3>1. class = "tool" => tools /\ Includes(t, Start)
      BY OpensWithin DEF Complete
    <3> QED
      BY <1>1, <3>1
  <2> QED
    BY <2>1, <2>2 DEF Complete
<1>2. CASE ~(~tools \/ (~marked /\ choice # "required"))
  <2>1. IsPrefix(Start, Trim(t)) /\ p.text = <<>>
    BY <1>2 DEF Parse, IsAnswer, NoAnswer, ToolAnswer
  <2>2. Opens(t)
    BY <2>1, TrimOpens
  <2>3. class = "tool" /\ sent = <<>>
    BY <1>2, <2>2 DEF Complete
  <2> QED
    BY <2>1, <2>3
<1> QED
  BY <1>1, <1>2

LEMMA SaveStep == ASSUME IInv, Save PROVE IInv'
<1>1. PICK choice : IsAnswer(Parse(waiter.stable, choice)) /\ saved' = Parse(waiter.stable, choice)
  BY DEF Save
<1>2. /\ pc = "saving" /\ pc' = "saved" /\ outbox = <<>> /\ outbox' = <<>>
      /\ samples' = samples /\ emitted' = emitted /\ waiter' = waiter /\ detector' = detector
      /\ calm' = calm /\ deep' = deep /\ quiet' = quiet /\ delta' = delta
      /\ tools' = tools /\ seen' = seen /\ wire' = wire /\ failure' = failure
  BY DEF Save, At, Goes, request, wireVars, historyVars, loopVars, answerVars
<1>3. delta = <<>>
  BY <1>2, DeltaFrameSeq DEF IInv, OutInv
<1>4. /\ Sent = seen /\ Sent' = Sent /\ Sent \in Texts /\ waiter.stable \in Texts /\ tools \in BOOLEAN
      /\ detector.class \in {"text", "tool"} /\ Complete(detector.class, Sent, waiter.stable)
  BY <1>2, <1>3, SentText DEF IInv, DetectInv, Sent, Typed
<1>5. IsAnswer(saved') /\ saved'.text = seen
  BY <1>1, <1>4, ParseAgrees
<1>6. Typed'
  BY <1>2 DEF IInv, Typed
<1>7. DetectInv'
  BY <1>2, <1>4 DEF IInv, DetectInv, Listening, Complete
<1>8. OutInv'
  BY <1>2, <1>3, <1>5 DEF OutInv, IsAnswer
<1>9. SavedInv'
  BY <1>2, <1>3, <1>5 DEF SavedInv, IsAnswer
<1>10. CalmInv'
  BY <1>2 DEF IInv, CalmInv, Listening
<1>11. QuietInv'
  BY <1>2 DEF QuietInv
<1> QED
  BY <1>6, <1>7, <1>8, <1>9, <1>10, <1>11 DEF IInv
LEMMA PrepareStep == ASSUME IInv, Prepare PROVE IInv'
<1>1. /\ pc = "preparing" /\ pc' = "started" /\ outbox' = StartedFrames /\ outbox = <<>>
      /\ samples' = samples /\ emitted' = emitted /\ waiter' = waiter /\ detector' = detector
      /\ calm' = calm /\ deep' = deep /\ quiet' = quiet /\ delta' = delta /\ saved' = saved
      /\ tools' = tools /\ seen' = seen /\ wire' = wire /\ failure' = failure
  BY DEF Prepare, Goes, request, wireVars, historyVars, loopVars, IInv, OutInv
<1>2. delta = <<>> /\ Sent' = Sent
  BY <1>1, DeltaFrameSeq DEF IInv, OutInv, Sent
<1>3. ~IsAnswer(saved) /\ ~IsAnswer(saved)'
  BY <1>1 DEF IInv, SavedInv, IsAnswer
<1>4. outbox' \in Seq(EarlyFrames)
  <2>1. <<"role">> \in Seq(EarlyFrames) /\ <<"created", "in_progress">> \in Seq(EarlyFrames)
    BY DEF EarlyFrames
  <2> QED
    BY <1>1, <2>1 DEF StartedFrames
<1>5. Typed'
  BY <1>1 DEF IInv, Typed
<1>6. DetectInv'
  BY <1>1, <1>2 DEF IInv, DetectInv, Listening, Detecting
<1>7. OutInv'
  BY <1>1, <1>2, <1>3, <1>4 DEF IInv, OutInv
<1>8. SavedInv'
  BY <1>1, <1>3 DEF SavedInv
<1>9. CalmInv'
  BY <1>1 DEF IInv, CalmInv, Listening
<1>10. QuietInv'
  BY <1>1 DEF IInv, QuietInv
<1> QED
  BY <1>5, <1>6, <1>7, <1>8, <1>9, <1>10 DEF IInv

LEMMA AnnounceStep == ASSUME IInv, Announce PROVE IInv'
<1>1. /\ pc = "saved" /\ pc' = "ending" /\ samples' = <<>> /\ emitted' = <<>> /\ calm' = <<>>
      /\ quiet' = 0 /\ waiter' = [stable |-> <<>>, count |-> 0] /\ delta' = <<>>
      /\ detector' = [class |-> "text", buffer |-> <<>>] /\ deep' = deep /\ saved' = saved
      /\ tools' = tools /\ seen' = seen /\ wire' = wire /\ failure' = failure
  BY DEF Announce, At, Goes, Forget, request, wireVars
<1>2. /\ delta = <<>> /\ Sent' = Sent /\ seen = saved.text /\ IsAnswer(saved) /\ IsAnswer(saved)'
      /\ <<>> \in Texts
  BY <1>1, Markers, TextBasics DEF IInv, SavedInv, Sent, IsAnswer
<1>3. Typed'
  <2>1. waiter' \in [stable : Texts, count : Nat] /\ detector' \in [class : Classes, buffer : Texts]
    BY <1>1, <1>2 DEF Classes
  <2>2. samples' \in Seq(Texts)
    BY <1>1, EmptySeq
  <2> QED
    BY <1>1, <1>2, <2>1, <2>2 DEF IInv, Typed
<1>4. DetectInv'
  BY <1>1, <1>2 DEF IInv, DetectInv, Listening
<1>5. OutInv'
  BY <1>1, <1>2 DEF OutInv
<1>6. SavedInv'
  BY <1>1, <1>2 DEF SavedInv
<1>7. CalmInv'
  BY <1>1 DEF IInv, CalmInv, Listening
<1>8. QuietInv'
  BY <1>1 DEF QuietInv
<1> QED
  BY <1>3, <1>4, <1>5, <1>6, <1>7, <1>8 DEF IInv

(* What is left of the frames that carry a delta.                          *)
LEMMA DeltaFramesLeft ==
  ASSUME NEW o \in DeltaFrames
  PROVE  Head(o) = "delta" \/ (Head(o) # "delta" /\ Tail(o) \in DeltaFrames)
<1>1. Head(<<"delta">>) = "delta"
  OBVIOUS
<1>2. Head(<<"part", "delta">>) = "part" /\ Tail(<<"part", "delta">>) = <<"delta">>
  OBVIOUS
<1>3. /\ Head(<<"item", "part", "delta">>) = "item"
      /\ Tail(<<"item", "part", "delta">>) = <<"part", "delta">>
  OBVIOUS
<1> QED
  BY <1>1, <1>2, <1>3 DEF DeltaFrames

LEMMA WriteStep == ASSUME IInv, Write PROVE IInv'
<1>1. /\ outbox # <<>> /\ outbox' = Tail(outbox) /\ wire' = Append(wire, Head(outbox)) /\ pc' = pc
      /\ samples' = samples /\ emitted' = emitted /\ waiter' = waiter /\ detector' = detector
      /\ calm' = calm /\ deep' = deep /\ quiet' = quiet /\ saved' = saved
      /\ tools' = tools /\ failure' = failure
      /\ IF Head(outbox) = "delta" THEN seen' = seen \o delta /\ delta' = <<>>
         ELSE seen' = seen /\ delta' = delta
  BY DEF Write, request, historyVars, loopVars
<1>2. /\ seen \in Texts /\ delta \in Texts /\ <<>> \in Texts /\ seen \o delta \in Texts
      /\ (seen \o delta) \o <<>> = seen \o delta
  BY SentText, Cat, TextBasics DEF IInv
<1>3. Sent' = Sent /\ seen' \in Texts /\ delta' \in Texts
  BY <1>1, <1>2 DEF Sent
<1>4. IsAnswer(saved)' = IsAnswer(saved)
  BY <1>1 DEF IsAnswer
<1>5. Typed'
  BY <1>1, <1>3 DEF IInv, Typed
<1>6. DetectInv'
  BY <1>1, <1>3 DEF IInv, DetectInv, Listening, Detecting, Complete
<1>7. OutInv'
  <2>1. delta' # <<>> => outbox' \in DeltaFrames /\ pc' # "ending"
    <3>1. delta' # <<>> => delta' = delta /\ Head(outbox) # "delta"
      BY <1>1
    <3> QED
      BY <1>1, <3>1, DeltaFramesLeft DEF IInv, OutInv
  <2>2. ~IsAnswer(saved) => outbox' \in Seq(EarlyFrames) /\ wire' \in Seq(EarlyFrames)
    <3> SUFFICES ASSUME ~IsAnswer(saved)
                 PROVE  outbox' \in Seq(EarlyFrames) /\ wire' \in Seq(EarlyFrames)
      OBVIOUS
    <3>1. outbox \in Seq(EarlyFrames) /\ wire \in Seq(EarlyFrames)
      BY DEF IInv, OutInv
    <3>2. Head(outbox) \in EarlyFrames /\ Tail(outbox) \in Seq(EarlyFrames)
      BY <1>1, <3>1, HeadTailProperties
    <3> QED
      BY <1>1, <3>1, <3>2, AppendProperties
  <2> QED
    BY <1>1, <1>4, <2>1, <2>2 DEF IInv, OutInv
<1>8. SavedInv'
  <2>1. IsAnswer(saved) => delta' = <<>> /\ seen' = seen
    BY <1>1, <1>2, TextBasics DEF IInv, SavedInv
  <2> QED
    BY <1>1, <1>4, <2>1 DEF IInv, SavedInv
<1>9. CalmInv'
  BY <1>1 DEF IInv, CalmInv
<1>10. QuietInv'
  BY <1>1 DEF IInv, QuietInv
<1> QED
  BY <1>5, <1>6, <1>7, <1>8, <1>9, <1>10 DEF IInv

LEMMA WriteFailsStep == ASSUME IInv, WriteFails PROVE IInv'
<1>1. outbox # <<>> /\ pc \notin {"saved", "done"}
  BY DEF WriteFails, IInv, OutInv
<1>2. CASE pc # "ending"
  <2>1. Throw("stream_aborted") /\ deep' \in BOOLEAN
    BY <1>2 DEF WriteFails, IInv, Typed
  <2> QED
    BY <1>1, <1>2, <2>1, ThrowStep
<1>3. CASE pc = "ending"
  <2>1. /\ outbox' = <<>> /\ pc' = "ending"
        /\ samples' = samples /\ emitted' = emitted /\ waiter' = waiter /\ detector' = detector
        /\ calm' = calm /\ deep' = deep /\ quiet' = quiet /\ delta' = delta /\ saved' = saved
        /\ tools' = tools /\ seen' = seen /\ wire' = wire /\ failure' = failure
    BY <1>3 DEF WriteFails, request, wireVars, historyVars, loopVars
  <2>2. Sent' = Sent /\ IsAnswer(saved)' = IsAnswer(saved) /\ delta = <<>>
    BY <1>3, <2>1 DEF Sent, IsAnswer, IInv, OutInv
  <2>3. Typed'
    BY <2>1 DEF IInv, Typed
  <2>4. DetectInv'
    BY <2>1, <2>2 DEF IInv, DetectInv, Listening
  <2>5. OutInv'
    BY <2>1, <2>2, EmptySeq DEF IInv, OutInv
  <2>6. SavedInv'
    BY <2>1, <2>2 DEF IInv, SavedInv
  <2>7. CalmInv'
    BY <2>1 DEF IInv, CalmInv, Listening
  <2>8. QuietInv'
    BY <2>1 DEF QuietInv
  <2> QED
    BY <2>3, <2>4, <2>5, <2>6, <2>7, <2>8 DEF IInv
<1> QED
  BY <1>2, <1>3
LEMMA NextStep == ASSUME IInv, [Next]_vars PROVE IInv'
<1> USE DEF At, request, connection, loopVars, historyVars, answerVars, wireVars
<1>1. deep \in BOOLEAN
  BY DEF IInv, Typed
<1>2. ASSUME NEW code, Throw(code), deep' = deep, code # "chatgpt_stream_diverged",
             pc \in {"started", "polling", "flushing", "finishing", "saving"}
      PROVE  IInv'
  BY <1>1, <1>2, ThrowStep
<1>3. CASE PollNext
  <2>1. CASE SeeNothing
    BY <2>1, PlainStep DEF SeeNothing
  <2>2. CASE Vanish
    BY <1>2, <2>2 DEF Vanish, CanPoll
  <2>3. CASE \E t \in Rerendered : Diverge(t)
    BY <2>3, DivergeStep
  <2>4. CASE \E t \in Rerendered : SeeMarker(t)
    BY <1>2, <2>4 DEF SeeMarker, CanPoll
  <2>5. CASE \E t \in Rerendered, marker \in BOOLEAN : See(t, marker)
    BY <2>5, SeeStep
  <2> QED
    BY <1>3, <2>1, <2>2, <2>3, <2>4, <2>5 DEF PollNext
<1>4. CASE Proceed
  <2>1. CASE EndResponse
    BY <2>1, PlainStep DEF EndResponse, Goes
  <2>2. CASE PrepareFails
    <3>1. outbox = <<>>
      BY <2>2 DEF PrepareFails, IInv, OutInv
    <3> QED
      BY <2>2, <3>1, PlainStep DEF PrepareFails, Goes
  <2>3. CASE StartText
    BY <2>3, PlainStep DEF StartText, Goes
  <2>4. CASE Abort
    BY <1>2, <2>4 DEF Abort
  <2>5. CASE Interrupt
    BY <1>2, <2>5 DEF Interrupt
  <2>6. CASE FlushFails
    BY <1>2, <2>6 DEF FlushFails
  <2>7. CASE FinishFails
    BY <1>2, <2>7 DEF FinishFails
  <2>8. CASE SaveFails
    BY <1>2, <2>8 DEF SaveFails
  <2>9. CASE Write \/ WriteFails
    BY <2>9, WriteStep, WriteFailsStep
  <2>10. CASE Prepare \/ Flush \/ Finish \/ Save \/ Announce
    BY <2>10, PrepareStep, FlushStep, FinishStep, SaveStep, AnnounceStep
  <2> QED
    BY <1>4, <2>1, <2>2, <2>3, <2>4, <2>5, <2>6, <2>7, <2>8, <2>9, <2>10 DEF Proceed
<1>5. CASE ClientCloses
  BY <1>5, PlainStep DEF ClientCloses
<1>6. CASE UNCHANGED vars
  BY <1>6, PlainStep DEF vars
<1> QED
  BY <1>3, <1>4, <1>5, <1>6 DEF Next

LEMMA AlwaysIInv == Spec => []IInv
<1>1. Init => IInv
  BY InitStep
<1>2. IInv /\ [Next]_vars => IInv'
  BY NextStep
<1> QED
  BY <1>1, <1>2, PTL DEF Spec

-----------------------------------------------------------------------------
(* The order of the frames.                                                *)

(* Before and WireFollowsProtocol, of any sequence of frames.              *)
Ahead(s, n, kind) == Cardinality({m \in 1..(n - 1) : s[m] = kind})
Total(s, kind)    == Ahead(s, Len(s) + 1, kind)

Fits(s, n) ==
  LET open == Ahead(s, n, "item") - Ahead(s, n, "item_done") IN
  /\ s[n] = "item" => open = 0
  /\ s[n] \in {"part", "call_delta", "call_done", "text_done", "item_done"} => open = 1
  /\ s[n] = "delta" /\ api = "responses" =>
       open = 1 /\ Ahead(s, n, "part") = 1 /\ Ahead(s, n, "text_done") = 0
  /\ s[n] = "completed" => open = 0 /\ Ahead(s, n, "item") > 0
  /\ s[n] = "finish" => Ahead(s, n, "calls") = 0 \/ Ahead(s, n, "delta") = 0

Unended(s) == \A n \in 1..Len(s) : s[n] \notin Terminal
Follows(s) ==
  /\ \A n \in 1..Len(s) : Fits(s, n)
  /\ \A n \in 1..Len(s) : s[n] \in Terminal => n = Len(s)

(* A sequence that can go on, and one that may have ended.                 *)
Growing(s) == s \in Seq(FrameKinds) /\ Follows(s) /\ Unended(s)
Ordered(s) == s \in Seq(FrameKinds) /\ Follows(s)

(* The frame f may come next.                                              *)
Admits(s, f) ==
  LET open == Total(s, "item") - Total(s, "item_done") IN
  /\ f = "item" => open = 0
  /\ f \in {"part", "call_delta", "call_done", "text_done", "item_done"} => open = 1
  /\ f = "delta" /\ api = "responses" => open = 1 /\ Total(s, "part") = 1 /\ Total(s, "text_done") = 0
  /\ f = "completed" => open = 0 /\ Total(s, "item") > 0
  /\ f = "finish" => Total(s, "calls") = 0 \/ Total(s, "delta") = 0

Counted(t, s, f) == \A kind : Total(t, kind) = Total(s, kind) + (IF f = kind THEN 1 ELSE 0)

LEMMA AheadSame ==
  ASSUME NEW s, NEW t, NEW n \in Nat, \A m \in 1..(n - 1) : t[m] = s[m]
  PROVE  \A kind : Ahead(t, n, kind) = Ahead(s, n, kind)
<1> SUFFICES ASSUME NEW kind PROVE Ahead(t, n, kind) = Ahead(s, n, kind)
  OBVIOUS
<1>1. {m \in 1..(n - 1) : t[m] = kind} = {m \in 1..(n - 1) : s[m] = kind}
  OBVIOUS
<1> QED
  BY <1>1 DEF Ahead

LEMMA AheadNat ==
  ASSUME NEW s, NEW n \in Nat, NEW kind
  PROVE  Ahead(s, n, kind) \in Nat /\ IsFiniteSet({m \in 1..(n - 1) : s[m] = kind})
<1> DEFINE T == {m \in 1..(n - 1) : s[m] = kind}
<1>1. IsFiniteSet(1..(n - 1)) /\ T \subseteq 1..(n - 1)
  BY FS_Interval
<1>2. IsFiniteSet(T)
  BY <1>1, FS_Subset
<1>3. Cardinality(T) \in Nat
  BY <1>2, FS_CardinalityType
<1> QED
  BY <1>2, <1>3 DEF Ahead

LEMMA AheadNext ==
  ASSUME NEW s, NEW n \in Nat \ {0}, NEW kind
  PROVE  Ahead(s, n + 1, kind) = Ahead(s, n, kind) + (IF s[n] = kind THEN 1 ELSE 0)
<1> DEFINE T == {m \in 1..(n - 1) : s[m] = kind}
           U == {m \in 1..((n + 1) - 1) : s[m] = kind}
<1>1. /\ IsFiniteSet(T) /\ Cardinality(T) \in Nat
      /\ Ahead(s, n, kind) = Cardinality(T) /\ Ahead(s, n + 1, kind) = Cardinality(U)
  <2>1. Ahead(s, n, kind) = Cardinality(T) /\ Ahead(s, n + 1, kind) = Cardinality(U)
    BY DEF Ahead
  <2>2. n \in Nat
    OBVIOUS
  <2> QED
    BY <2>1, <2>2, AheadNat
<1>2. CASE s[n] = kind
  <2>1. U = T \cup {n} /\ n \notin T
    BY <1>2
  <2>2. Cardinality(U) = Cardinality(T) + 1
    BY <1>1, <2>1, FS_AddElement
  <2> HIDE DEF T, U
  <2> QED
    BY <1>1, <1>2, <2>2
<1>3. CASE s[n] # kind
  <2>1. U = T
    BY <1>3
  <2> HIDE DEF T, U
  <2> QED
    BY <1>1, <1>3, <2>1
<1> QED
  BY <1>2, <1>3

LEMMA TotalNat ==
  ASSUME NEW S, NEW s \in Seq(S), NEW kind
  PROVE  Total(s, kind) \in Nat
<1>1. Len(s) + 1 \in Nat
  BY LenProperties
<1> QED
  BY <1>1, AheadNat DEF Total

LEMMA TotalNone ==
  ASSUME NEW S, NEW s \in Seq(S), NEW kind, \A n \in 1..Len(s) : s[n] # kind
  PROVE  Total(s, kind) = 0
<1>1. Len(s) \in Nat
  BY LenProperties
<1>2. {m \in 1..((Len(s) + 1) - 1) : s[m] = kind} = {}
  BY <1>1
<1> QED
  BY <1>2, FS_EmptySet DEF Total, Ahead

(* The beginning of an ordered sequence is ordered.                        *)
LEMMA SameFits ==
  ASSUME NEW s, NEW t, NEW n \in Nat \ {0}, \A m \in 1..n : t[m] = s[m]
  PROVE  Fits(t, n) <=> Fits(s, n)
<1>1. \A m \in 1..(n - 1) : t[m] = s[m]
  OBVIOUS
<1>2. \A kind : Ahead(t, n, kind) = Ahead(s, n, kind)
  BY <1>1, AheadSame
<1>3. t[n] = s[n]
  OBVIOUS
<1> QED
  BY <1>2, <1>3 DEF Fits

LEMMA OrderedPrefix ==
  ASSUME NEW s \in Seq(FrameKinds), NEW t \in Seq(FrameKinds), Ordered(s \o t)
  PROVE  Ordered(s)
<1> DEFINE u == s \o t
<1>1. /\ Len(s) \in Nat /\ Len(t) \in Nat /\ u \in Seq(FrameKinds) /\ Len(u) = Len(s) + Len(t)
      /\ \A n \in 1..Len(s) : u[n] = s[n]
  BY LenProperties, ConcatProperties
<1> HIDE DEF u
<1>2. ASSUME NEW n \in 1..Len(s) PROVE Fits(s, n) /\ (s[n] \in Terminal => n = Len(s))
  <2>1. n \in Nat \ {0} /\ n \in 1..Len(u) /\ \A m \in 1..n : u[m] = s[m]
    BY <1>1
  <2>2. Fits(u, n) /\ (u[n] \in Terminal => n = Len(u))
    BY <2>1 DEF Ordered, Follows, u
  <2>3. Fits(s, n)
    BY <2>1, <2>2, SameFits
  <2>4. s[n] \in Terminal => n = Len(s)
    BY <1>1, <2>1, <2>2
  <2> QED
    BY <2>3, <2>4
<1> QED
  BY <1>2 DEF Ordered, Follows

LEMMA AppendFrame ==
  ASSUME NEW s, Growing(s), NEW f \in FrameKinds, Admits(s, f)
  PROVE  /\ Ordered(Append(s, f)) /\ Counted(Append(s, f), s, f)
         /\ f \notin Terminal => Growing(Append(s, f))
<1> DEFINE t == Append(s, f)
           k == Len(s) + 1
<1>1. /\ s \in Seq(FrameKinds) /\ Len(s) \in Nat /\ t \in Seq(FrameKinds) /\ Len(t) = k
      /\ t[k] = f /\ \A n \in 1..Len(s) : t[n] = s[n]
  BY LenProperties, AppendProperties DEF Growing
<1>2. k \in Nat \ {0} /\ \A n \in 1..(k - 1) : t[n] = s[n]
  BY <1>1
<1> HIDE DEF t
<1>3. \A kind : Ahead(t, k, kind) = Total(s, kind)
  BY <1>2, AheadSame DEF Total
<1>4. Counted(t, s, f)
  <2> SUFFICES ASSUME NEW kind
               PROVE  Total(t, kind) = Total(s, kind) + (IF f = kind THEN 1 ELSE 0)
    BY DEF Counted
  <2>1. Ahead(t, k + 1, kind) = Ahead(t, k, kind) + (IF t[k] = kind THEN 1 ELSE 0)
    BY <1>2, AheadNext
  <2> QED
    BY <1>1, <1>3, <2>1 DEF Total
<1>5. Fits(t, k)
  BY <1>1, <1>3 DEF Fits, Admits
<1>6. ASSUME NEW n \in 1..Len(s) PROVE Fits(t, n)
  <2>1. n \in Nat \ {0} /\ \A m \in 1..n : t[m] = s[m]
    BY <1>1
  <2>2. Fits(s, n)
    BY DEF Growing, Follows
  <2> QED
    BY <2>1, <2>2, SameFits
<1>7. \A n \in 1..Len(t) : n \in 1..Len(s) \/ n = k
  BY <1>1
<1>8. \A n \in 1..Len(t) : Fits(t, n)
  BY <1>5, <1>6, <1>7
<1>9. \A n \in 1..Len(t) : t[n] \in Terminal => n = Len(t) /\ f \in Terminal
  BY <1>1, <1>7 DEF Growing, Unended
<1>10. Ordered(t)
  BY <1>1, <1>8, <1>9 DEF Ordered, Follows
<1>11. f \notin Terminal => Growing(t)
  BY <1>1, <1>8, <1>9 DEF Growing, Follows, Unended
<1> QED
  BY <1>4, <1>10, <1>11 DEF t

(* Concatenations, one frame at a time.                                    *)
LEMMA ConcatAppend ==
  ASSUME NEW s \in Seq(FrameKinds), NEW t \in Seq(FrameKinds), NEW f \in FrameKinds
  PROVE  s \o Append(t, f) = Append(s \o t, f)
<1> DEFINE u == s \o Append(t, f)
           v == Append(s \o t, f)
<1>1. /\ Len(s) \in Nat /\ Len(t) \in Nat /\ Append(t, f) \in Seq(FrameKinds)
      /\ Len(Append(t, f)) = Len(t) + 1 /\ Append(t, f)[Len(t) + 1] = f
      /\ \A i \in 1..Len(t) : Append(t, f)[i] = t[i]
  BY LenProperties, AppendProperties
<1>2. /\ s \o t \in Seq(FrameKinds) /\ Len(s \o t) = Len(s) + Len(t)
      /\ \A i \in 1..(Len(s) + Len(t)) :
           (s \o t)[i] = IF i <= Len(s) THEN s[i] ELSE t[i - Len(s)]
  BY ConcatProperties
<1>3. /\ u \in Seq(FrameKinds) /\ Len(u) = Len(s) + Len(t) + 1
      /\ \A i \in 1..(Len(s) + Len(t) + 1) :
           u[i] = IF i <= Len(s) THEN s[i] ELSE Append(t, f)[i - Len(s)]
  BY <1>1, ConcatProperties
<1>4. /\ v \in Seq(FrameKinds) /\ Len(v) = Len(s) + Len(t) + 1
      /\ v[Len(s) + Len(t) + 1] = f
      /\ \A i \in 1..(Len(s) + Len(t)) : v[i] = (s \o t)[i]
  BY <1>1, <1>2, AppendProperties
<1> HIDE DEF u, v
<1>5. \A i \in 1..(Len(s) + Len(t) + 1) : u[i] = v[i]
  <2> TAKE i \in 1..(Len(s) + Len(t) + 1)
  <2>1. CASE i = Len(s) + Len(t) + 1
    <3>1. u[i] = Append(t, f)[i - Len(s)] /\ i - Len(s) = Len(t) + 1
      BY <1>1, <1>3, <2>1
    <3> QED
      BY <1>1, <1>4, <2>1, <3>1
  <2>2. CASE i # Len(s) + Len(t) + 1
    <3>1. i \in 1..(Len(s) + Len(t))
      BY <1>1, <2>2
    <3>2. CASE i <= Len(s)
      BY <1>2, <1>3, <1>4, <3>1, <3>2
    <3>3. CASE ~(i <= Len(s))
      <4>1. i - Len(s) \in 1..Len(t)
        BY <1>1, <3>1, <3>3
      <4> QED
        BY <1>1, <1>2, <1>3, <1>4, <3>1, <3>3, <4>1
    <3> QED
      BY <3>2, <3>3
  <2> QED
    BY <2>1, <2>2
<1>6. u = v
  BY <1>3, <1>4, <1>5, SeqEqual
<1> QED
  BY <1>6 DEF u, v

LEMMA AppendToOne ==
  ASSUME NEW a \in FrameKinds, NEW b \in FrameKinds
  PROVE  Append(<<a>>, b) = <<a, b>>
<1>1. ASSUME NEW t \in Seq(FrameKinds), Len(t) = 1, t[1] = a,
             NEW u \in Seq(FrameKinds), Len(u) = 2, u[1] = a, u[2] = b
      PROVE  Append(t, b) = u
  <2>1. /\ Append(t, b) \in Seq(FrameKinds) /\ Len(Append(t, b)) = Len(t) + 1
        /\ \A i \in 1..Len(t) : Append(t, b)[i] = t[i]
        /\ Append(t, b)[Len(t) + 1] = b
    BY AppendProperties
  <2>2. Len(Append(t, b)) = 2 /\ Append(t, b)[1] = a /\ Append(t, b)[2] = b
    BY <1>1, <2>1
  <2>3. \A i \in 1..Len(Append(t, b)) : Append(t, b)[i] = u[i]
    <3>1. \A i \in 1..2 : i = 1 \/ i = 2
      OBVIOUS
    <3> QED
      BY <1>1, <2>2, <3>1
  <2> QED
    BY <1>1, <2>1, <2>2, <2>3, SeqEqual
<1>2. <<a>> \in Seq(FrameKinds) /\ Len(<<a>>) = 1 /\ <<a>>[1] = a
  OBVIOUS
<1>3. <<a, b>> \in Seq(FrameKinds) /\ Len(<<a, b>>) = 2 /\ <<a, b>>[1] = a /\ <<a, b>>[2] = b
  OBVIOUS
<1> QED
  BY <1>1, <1>2, <1>3

LEMMA TwoAndTwo ==
  ASSUME NEW a \in FrameKinds, NEW b \in FrameKinds, NEW c \in FrameKinds, NEW d \in FrameKinds
  PROVE  <<a, b>> \o <<c, d>> = <<a, b, c, d>>
<1>1. ASSUME NEW t \in Seq(FrameKinds), Len(t) = 2, t[1] = a, t[2] = b,
             NEW r \in Seq(FrameKinds), Len(r) = 2, r[1] = c, r[2] = d,
             NEW u \in Seq(FrameKinds), Len(u) = 4, u[1] = a, u[2] = b, u[3] = c, u[4] = d
      PROVE  t \o r = u
  <2>1. /\ t \o r \in Seq(FrameKinds) /\ Len(t \o r) = Len(t) + Len(r)
        /\ \A i \in 1..(Len(t) + Len(r)) :
             (t \o r)[i] = IF i <= Len(t) THEN t[i] ELSE r[i - Len(t)]
    BY ConcatProperties
  <2>2. /\ Len(t \o r) = 4 /\ (t \o r)[1] = a /\ (t \o r)[2] = b
        /\ (t \o r)[3] = c /\ (t \o r)[4] = d
    BY <1>1, <2>1
  <2>3. \A i \in 1..Len(t \o r) : (t \o r)[i] = u[i]
    <3>1. \A i \in 1..4 : i = 1 \/ i = 2 \/ i = 3 \/ i = 4
      OBVIOUS
    <3> QED
      BY <1>1, <2>2, <3>1
  <2> QED
    BY <1>1, <2>1, <2>2, <2>3, SeqEqual
<1>2. /\ <<a, b>> \in Seq(FrameKinds) /\ Len(<<a, b>>) = 2 /\ <<a, b>>[1] = a /\ <<a, b>>[2] = b
      /\ <<c, d>> \in Seq(FrameKinds) /\ Len(<<c, d>>) = 2 /\ <<c, d>>[1] = c /\ <<c, d>>[2] = d
  OBVIOUS
<1>3. /\ <<a, b, c, d>> \in Seq(FrameKinds) /\ Len(<<a, b, c, d>>) = 4
      /\ <<a, b, c, d>>[1] = a /\ <<a, b, c, d>>[2] = b
      /\ <<a, b, c, d>>[3] = c /\ <<a, b, c, d>>[4] = d
  OBVIOUS
<1> QED
  BY <1>1, <1>2, <1>3

LEMMA FirstAndRest ==
  ASSUME NEW o \in Seq(FrameKinds), o # <<>>
  PROVE  <<Head(o)>> \o Tail(o) = o
<1>1. ASSUME NEW t \in Seq(FrameKinds), Len(t) = 1, t[1] = Head(o) PROVE t \o Tail(o) = o
  <2>1. /\ Len(o) \in Nat \ {0} /\ Head(o) = o[1] /\ Tail(o) \in Seq(FrameKinds)
        /\ Len(Tail(o)) = Len(o) - 1 /\ \A i \in 1..Len(Tail(o)) : Tail(o)[i] = o[i + 1]
    BY LenProperties, EmptySeq, HeadTailProperties
  <2> DEFINE r == Tail(o)
  <2> HIDE DEF r
  <2>2. /\ t \o r \in Seq(FrameKinds) /\ Len(t \o r) = Len(t) + Len(r)
        /\ \A i \in 1..(Len(t) + Len(r)) : (t \o r)[i] = IF i <= Len(t) THEN t[i] ELSE r[i - Len(t)]
    BY <2>1, ConcatProperties DEF r
  <2>3. Len(t \o r) = Len(o)
    BY <1>1, <2>1, <2>2 DEF r
  <2>4. ASSUME NEW i \in 1..Len(o) PROVE (t \o r)[i] = o[i]
    <3>1. CASE i = 1
      BY <1>1, <2>1, <2>2, <2>3, <3>1
    <3>2. CASE i # 1
      <4>1. i - 1 \in 1..Len(r) /\ (i - 1) + 1 = i /\ ~(i <= 1)
        BY <2>1, <3>2 DEF r
      <4>2. r[i - 1] = o[i]
        BY <2>1, <4>1 DEF r
      <4> QED
        BY <1>1, <2>1, <2>2, <2>3, <4>1, <4>2
    <3> QED
      BY <3>1, <3>2
  <2>5. t \o r = o
    BY <2>2, <2>3, <2>4, SeqEqual
  <2> QED
    BY <2>5 DEF r
<1>2. Head(o) \in FrameKinds
  BY HeadTailProperties
<1>3. <<Head(o)>> \in Seq(FrameKinds) /\ Len(<<Head(o)>>) = 1 /\ <<Head(o)>>[1] = Head(o)
  BY <1>2
<1> QED
  BY <1>1, <1>3

LEMMA Singles ==
  ASSUME NEW s \in Seq(FrameKinds)
  PROVE  /\ s \o <<>> = s /\ <<>> \in Seq(FrameKinds)
         /\ \A a \in FrameKinds : s \o <<a>> = Append(s, a) /\ <<a>> \in Seq(FrameKinds)
         /\ \A a, b \in FrameKinds :
              s \o <<a, b>> = Append(Append(s, a), b) /\ <<a, b>> \in Seq(FrameKinds)
<1>1. <<>> \in Seq(FrameKinds) /\ s \o <<>> = s
  BY EmptySeq, ConcatEmptySeq
<1>2. ASSUME NEW a \in FrameKinds PROVE s \o <<a>> = Append(s, a) /\ <<a>> \in Seq(FrameKinds)
  <2>1. Append(<<>>, a) = <<a>>
    OBVIOUS
  <2>2. s \o Append(<<>>, a) = Append(s \o <<>>, a) /\ Append(<<>>, a) \in Seq(FrameKinds)
    BY <1>1, ConcatAppend, AppendProperties
  <2>3. s \o Append(<<>>, a) = Append(s, a)
    BY <1>1, <2>2
  <2> QED
    BY <2>1, <2>2, <2>3, Zenon
<1>3. ASSUME NEW a \in FrameKinds, NEW b \in FrameKinds
      PROVE  s \o <<a, b>> = Append(Append(s, a), b) /\ <<a, b>> \in Seq(FrameKinds)
  <2>1. Append(<<a>>, b) = <<a, b>>
    BY AppendToOne
  <2>2. s \o Append(<<a>>, b) = Append(s \o <<a>>, b) /\ Append(<<a>>, b) \in Seq(FrameKinds)
    BY <1>2, ConcatAppend, AppendProperties
  <2> QED
    BY <1>2, <2>1, <2>2
<1> QED
  BY <1>1, <1>2, <1>3

(* The frames of any number of tool calls.                                 *)
LEMMA CallsNext ==
  ASSUME NEW i \in Nat
  PROVE  LET T(n) == [m \in 1..(4 * n) |-> CallFrames[((m - 1) % 4) + 1]] IN
         /\ T(i) \in Seq(FrameKinds)
         /\ T(i + 1) = Append(Append(Append(Append(T(i), "item"), "call_delta"), "call_done"),
                              "item_done")
<1> DEFINE T(n) == [m \in 1..(4 * n) |-> CallFrames[((m - 1) % 4) + 1]]
           a == Append(T(i), "item")
           b == Append(a, "call_delta")
           c == Append(b, "call_done")
           d == Append(c, "item_done")
<1>1. /\ CallFrames[1] = "item" /\ CallFrames[2] = "call_delta"
      /\ CallFrames[3] = "call_done" /\ CallFrames[4] = "item_done"
  BY DEF CallFrames
<1>2. /\ "item" \in FrameKinds /\ "call_delta" \in FrameKinds
      /\ "call_done" \in FrameKinds /\ "item_done" \in FrameKinds
  BY DEF FrameKinds
<1>3. \A k \in Nat \ {0} : ((k - 1) % 4) + 1 \in {1, 2, 3, 4}
  OBVIOUS
<1>4. ASSUME NEW n \in Nat
      PROVE  /\ T(n) \in Seq(FrameKinds) /\ Len(T(n)) = 4 * n
             /\ \A m \in 1..(4 * n) : T(n)[m] = CallFrames[((m - 1) % 4) + 1]
  <2>1. \A m \in 1..(4 * n) : CallFrames[((m - 1) % 4) + 1] \in FrameKinds
    BY <1>1, <1>2, <1>3
  <2>2. 4 * n \in Nat
    OBVIOUS
  <2> QED
    BY <2>1, <2>2, IsASeq
<1>5. /\ i + 1 \in Nat /\ 4 * (i + 1) = 4 * i + 4 /\ 4 * i \in Nat
      /\ ((4 * i + 1) - 1) % 4 = 0 /\ ((4 * i + 2) - 1) % 4 = 1
      /\ ((4 * i + 3) - 1) % 4 = 2 /\ ((4 * i + 4) - 1) % 4 = 3
  OBVIOUS
<1> DEFINE t == T(i)
           u == T(i + 1)
           n == 4 * i
<1>6. /\ t \in Seq(FrameKinds) /\ Len(t) = n /\ n \in Nat
      /\ u \in Seq(FrameKinds) /\ Len(u) = n + 4
      /\ \A m \in 1..n : u[m] = t[m]
      /\ u[n + 1] = "item" /\ u[n + 2] = "call_delta"
      /\ u[n + 3] = "call_done" /\ u[n + 4] = "item_done"
  <2>1. t \in Seq(FrameKinds) /\ Len(t) = n /\ \A m \in 1..n : t[m] = CallFrames[((m - 1) % 4) + 1]
    BY <1>4
  <2>2. /\ u \in Seq(FrameKinds) /\ Len(u) = n + 4
        /\ \A m \in 1..(n + 4) : u[m] = CallFrames[((m - 1) % 4) + 1]
    BY <1>4, <1>5
  <2> HIDE DEF t, u
  <2>3. \A m \in 1..n : m \in 1..(n + 4)
    BY <1>5
  <2>4. n + 1 \in 1..(n + 4) /\ n + 2 \in 1..(n + 4) /\ n + 3 \in 1..(n + 4) /\ n + 4 \in 1..(n + 4)
    BY <1>5
  <2>5. \A m \in 1..n : u[m] = t[m]
    BY <2>1, <2>2, <2>3
  <2>6. /\ u[n + 1] = CallFrames[1] /\ u[n + 2] = CallFrames[2]
        /\ u[n + 3] = CallFrames[3] /\ u[n + 4] = CallFrames[4]
    BY <1>5, <2>2, <2>4
  <2> QED
    BY <1>1, <1>5, <2>1, <2>2, <2>5, <2>6
<1> HIDE DEF T, t, u, n
<1>7. ASSUME NEW A, A = Append(t, "item"), NEW B, B = Append(A, "call_delta"),
             NEW C, C = Append(B, "call_done"), NEW D, D = Append(C, "item_done")
      PROVE  u = D
  <2>1. /\ A \in Seq(FrameKinds) /\ Len(A) = n + 1 /\ A[n + 1] = "item"
        /\ \A m \in 1..n : A[m] = t[m]
    BY <1>2, <1>6, <1>7, AppendProperties, SMTT(30)
  <2>2. /\ B \in Seq(FrameKinds) /\ Len(B) = n + 2 /\ B[n + 2] = "call_delta"
        /\ \A m \in 1..(n + 1) : B[m] = A[m]
    BY <1>2, <1>6, <1>7, <2>1, AppendProperties
  <2>3. /\ C \in Seq(FrameKinds) /\ Len(C) = n + 3 /\ C[n + 3] = "call_done"
        /\ \A m \in 1..(n + 2) : C[m] = B[m]
    BY <1>2, <1>6, <1>7, <2>2, AppendProperties
  <2>4. /\ D \in Seq(FrameKinds) /\ Len(D) = n + 4 /\ D[n + 4] = "item_done"
        /\ \A m \in 1..(n + 3) : D[m] = C[m]
    BY <1>2, <1>6, <1>7, <2>3, AppendProperties
  <2>5. \A m \in 1..(n + 4) : u[m] = D[m]
    <3> TAKE m \in 1..(n + 4)
    <3>1. m \in 1..n \/ m = n + 1 \/ m = n + 2 \/ m = n + 3 \/ m = n + 4
      BY <1>6
    <3>2. CASE m \in 1..n
      <4>1. m \in 1..(n + 1) /\ m \in 1..(n + 2) /\ m \in 1..(n + 3)
        BY <1>6, <3>2
      <4> QED
        BY <1>6, <2>1, <2>2, <2>3, <2>4, <3>2, <4>1
    <3>3. CASE m = n + 1
      <4>1. m \in 1..(n + 1) /\ m \in 1..(n + 2) /\ m \in 1..(n + 3)
        BY <1>6, <3>3
      <4> QED
        BY <1>6, <2>1, <2>2, <2>3, <2>4, <3>3, <4>1
    <3>4. CASE m = n + 2
      <4>1. m \in 1..(n + 2) /\ m \in 1..(n + 3)
        BY <1>6, <3>4
      <4> QED
        BY <1>6, <2>2, <2>3, <2>4, <3>4, <4>1
    <3>5. CASE m = n + 3
      <4>1. m \in 1..(n + 3)
        BY <1>6, <3>5
      <4> QED
        BY <1>6, <2>3, <2>4, <3>5, <4>1
    <3>6. CASE m = n + 4
      BY <1>6, <2>4, <3>6
    <3> QED
      BY <3>1, <3>2, <3>3, <3>4, <3>5, <3>6
  <2> QED
    BY <1>6, <2>4, <2>5, SeqEqual
<1>8. u = Append(Append(Append(Append(t, "item"), "call_delta"), "call_done"), "item_done")
  BY <1>7
<1> QED
  BY <1>6, <1>8 DEF T, t, u

LEMMA OneFrame ==
  ASSUME NEW s, Growing(s), NEW f \in FrameKinds \ Terminal, Admits(s, f),
         NEW t, t = Append(s, f)
  PROVE  Growing(t) /\ Counted(t, s, f)
<1>1. f \in FrameKinds /\ f \notin Terminal
  OBVIOUS
<1>2. Counted(Append(s, f), s, f) /\ (f \notin Terminal => Growing(Append(s, f)))
  BY <1>1, AppendFrame
<1> QED
  BY <1>1, <1>2

LEMMA CallFollows ==
  ASSUME NEW s, Growing(s), NEW i \in Nat, Total(s, "item") = i, Total(s, "item_done") = i
  PROVE  LET t == Append(Append(Append(Append(s, "item"), "call_delta"), "call_done"),
                         "item_done") IN
         Growing(t) /\ Total(t, "item") = i + 1 /\ Total(t, "item_done") = i + 1
<1>1. /\ "item" \in FrameKinds \ Terminal /\ "call_delta" \in FrameKinds \ Terminal
      /\ "call_done" \in FrameKinds \ Terminal /\ "item_done" \in FrameKinds \ Terminal
  BY DEF FrameKinds, Terminal
<1>2. ASSUME NEW a, a = Append(s, "item"), NEW b, b = Append(a, "call_delta"),
             NEW c, c = Append(b, "call_done"), NEW d, d = Append(c, "item_done")
      PROVE  Growing(d) /\ Total(d, "item") = i + 1 /\ Total(d, "item_done") = i + 1
  <2>1. Growing(a) /\ Total(a, "item") = i + 1 /\ Total(a, "item_done") = i
    <3>1. Admits(s, "item")
      BY DEF Admits
    <3>2. Growing(a) /\ Counted(a, s, "item")
      BY <1>1, <1>2, <3>1, OneFrame
    <3> QED
      BY <3>2 DEF Counted
  <2>2. Growing(b) /\ Total(b, "item") = i + 1 /\ Total(b, "item_done") = i
    <3>1. Admits(a, "call_delta")
      BY <2>1 DEF Admits
    <3>2. Growing(b) /\ Counted(b, a, "call_delta")
      BY <1>1, <1>2, <2>1, <3>1, OneFrame
    <3> QED
      BY <2>1, <3>2 DEF Counted
  <2>3. Growing(c) /\ Total(c, "item") = i + 1 /\ Total(c, "item_done") = i
    <3>1. Admits(b, "call_done")
      BY <2>2 DEF Admits
    <3>2. Growing(c) /\ Counted(c, b, "call_done")
      BY <1>1, <1>2, <2>2, <3>1, OneFrame
    <3> QED
      BY <2>2, <3>2 DEF Counted
  <2>4. Growing(d) /\ Total(d, "item") = i + 1 /\ Total(d, "item_done") = i + 1
    <3>1. Admits(c, "item_done")
      BY <2>3 DEF Admits
    <3>2. Growing(d) /\ Counted(d, c, "item_done")
      BY <1>1, <1>2, <2>3, <3>1, OneFrame
    <3> QED
      BY <2>3, <3>2 DEF Counted
  <2> QED
    BY <2>4
<1> QED
  BY <1>2

LEMMA CallsFollow ==
  ASSUME NEW s, Growing(s), api # "chat", Total(s, "item") = 0, Total(s, "item_done") = 0,
         NEW n \in Nat \ {0}
  PROVE  /\ ToolFrames(n) \in Seq(FrameKinds) /\ Growing(s \o ToolFrames(n))
         /\ Total(s \o ToolFrames(n), "item") = n /\ Total(s \o ToolFrames(n), "item_done") = n
<1> DEFINE T(i) == [m \in 1..(4 * i) |-> CallFrames[((m - 1) % 4) + 1]]
           Fine(i) == /\ Growing(s \o T(i))
                      /\ Total(s \o T(i), "item") = i /\ Total(s \o T(i), "item_done") = i
<1>1. s \in Seq(FrameKinds)
  BY DEF Growing
<1>2. \A i \in Nat :
        /\ T(i) \in Seq(FrameKinds)
        /\ T(i + 1) = Append(Append(Append(Append(T(i), "item"), "call_delta"), "call_done"),
                             "item_done")
  BY CallsNext
<1>3. T(0) = <<>>
  OBVIOUS
<1> HIDE DEF T
<1>4. Fine(0)
  BY <1>1, <1>3, Singles
<1>5. ASSUME NEW i \in Nat, Fine(i) PROVE Fine(i + 1)
  <2> DEFINE a == Append(T(i), "item")
             b == Append(a, "call_delta")
             c == Append(b, "call_done")
             d == Append(c, "item_done")
             u == s \o T(i)
             ud == Append(Append(Append(Append(u, "item"), "call_delta"), "call_done"), "item_done")
  <2>1. /\ "item" \in FrameKinds \ Terminal /\ "call_delta" \in FrameKinds \ Terminal
        /\ "call_done" \in FrameKinds \ Terminal /\ "item_done" \in FrameKinds \ Terminal
    BY DEF FrameKinds, Terminal
  <2>2. /\ T(i) \in Seq(FrameKinds) /\ a \in Seq(FrameKinds) /\ b \in Seq(FrameKinds)
        /\ c \in Seq(FrameKinds) /\ d = T(i + 1)
    <3>1. T(i) \in Seq(FrameKinds) /\ d = T(i + 1)
      BY <1>2
    <3>2. a \in Seq(FrameKinds)
      BY <2>1, <3>1, AppendProperties
    <3>3. b \in Seq(FrameKinds)
      BY <2>1, <3>2, AppendProperties
    <3>4. c \in Seq(FrameKinds)
      BY <2>1, <3>3, AppendProperties
    <3> QED
      BY <3>1, <3>2, <3>3, <3>4
  <2>3. s \o T(i + 1) = ud
    <3>1. s \o a = Append(s \o T(i), "item")
      BY <1>1, <2>1, <2>2, ConcatAppend
    <3>2. s \o b = Append(s \o a, "call_delta")
      BY <1>1, <2>1, <2>2, ConcatAppend
    <3>3. s \o c = Append(s \o b, "call_done")
      BY <1>1, <2>1, <2>2, ConcatAppend
    <3>4. s \o d = Append(s \o c, "item_done")
      BY <1>1, <2>1, <2>2, ConcatAppend
    <3> QED
      BY <2>2, <3>1, <3>2, <3>3, <3>4
  <2>4. Growing(u) /\ Total(u, "item") = i /\ Total(u, "item_done") = i
    BY <1>5
  <2>5. Growing(ud) /\ Total(ud, "item") = i + 1 /\ Total(ud, "item_done") = i + 1
    <3> HIDE DEF u
    <3> QED
      BY <2>4, CallFollows
  <2> QED
    BY <2>3, <2>5
<1> HIDE DEF Fine
<1>6. Fine(n)
  <2> DEFINE bad == {i \in Nat : ~Fine(i)}
  <2>1. ASSUME bad # {} PROVE FALSE
    <3>1. PICK k \in bad : \A j \in bad : k <= j
      <4>1. bad \in SUBSET Nat
        OBVIOUS
      <4> QED
        BY <2>1, <4>1, MinExists
    <3>2. k \in Nat /\ ~Fine(k) /\ k # 0
      BY <1>4
    <3>3. k - 1 \in Nat /\ (k - 1) + 1 = k /\ ~(k <= k - 1)
      BY <3>2
    <3>4. Fine(k - 1)
      BY <3>1, <3>3
    <3> QED
      BY <1>5, <3>2, <3>3, <3>4
  <2> QED
    BY <2>1
<1>7. ToolFrames(n) = T(n)
  BY DEF ToolFrames, T
<1> QED
  BY <1>2, <1>6, <1>7 DEF Fine

(* What is on the wire and on its way to it, while the answer can go on:   *)
(* the Responses item is open when the encoder says so, and when there is  *)
(* one, or any delta, the client has some text.                            *)
Sheet == wire \o outbox

Started(s) ==
  /\ Growing(s)
  /\ Total(s, "item") = IF item THEN 1 ELSE 0
  /\ Total(s, "part") = IF item THEN 1 ELSE 0
  /\ Total(s, "item_done") = 0 /\ Total(s, "text_done") = 0 /\ Total(s, "calls") = 0
  /\ item \/ Total(s, "delta") > 0 => Sent # <<>>

SavedShape ==
  \/ saved.type \in {"none", "text"} /\ saved.calls = 0
  \/ saved.type = "tool_calls" /\ saved.text = <<>> /\ saved.calls \in Nat \ {0}

WireInv ==
  /\ api \in {"chat", "responses"} /\ item \in BOOLEAN /\ (api = "chat" => ~item)
  /\ wire \in Seq(FrameKinds) /\ outbox \in Seq(FrameKinds)
  /\ Ordered(Sheet)
  /\ pc \notin {"ending", "done"} => Started(Sheet)
  /\ SavedShape

LEMMA SheetPrefix ==
  ASSUME WireInv
  PROVE  /\ Ordered(wire)
         /\ pc \notin {"ending", "done"} => Growing(wire)
         /\ outbox = <<>> => Sheet = wire
<1>1. Ordered(wire)
  BY OrderedPrefix DEF WireInv, Sheet
<1>2. ASSUME Growing(Sheet) PROVE Growing(wire)
  <2>1. /\ Len(wire) \in Nat /\ Len(outbox) \in Nat /\ Len(Sheet) = Len(wire) + Len(outbox)
        /\ \A n \in 1..Len(wire) : Sheet[n] = wire[n] /\ n \in 1..Len(Sheet)
    BY LenProperties, ConcatProperties DEF WireInv, Sheet
  <2>2. Unended(wire)
    BY <1>2, <2>1 DEF Growing, Unended
  <2> QED
    BY <1>1, <2>2 DEF Growing, Ordered
<1>3. outbox = <<>> => Sheet = wire
  BY Singles DEF WireInv, Sheet
<1> QED
  BY <1>1, <1>2, <1>3 DEF WireInv, Started

LEMMA SheetNext ==
  ASSUME NEW t, t = Sheet', api' = api
  PROVE  /\ Ordered(Sheet)' <=> Ordered(t)
         /\ Growing(Sheet)' <=> Growing(t)
         /\ \A kind : Total(Sheet, kind)' = Total(t, kind)
<1>1. \A n, kind : Ahead(Sheet, n, kind)' = Ahead(t, n, kind)
  BY DEF Ahead
<1>2. \A n : Fits(Sheet, n)' <=> Fits(t, n)
  BY <1>1 DEF Fits
<1>3. Terminal' = Terminal /\ FrameKinds' = FrameKinds
  BY DEF Terminal, FrameKinds
<1>4. (Follows(Sheet)' <=> Follows(t)) /\ (Unended(Sheet)' <=> Unended(t))
  BY <1>2, <1>3 DEF Follows, Unended
<1> QED
  BY <1>1, <1>3, <1>4 DEF Ordered, Growing, Total

(* Steps that send nothing new, and frames that are written.               *)
LEMMA NothingSent ==
  ASSUME WireInv, UNCHANGED <<api, item>>,
         wire' \in Seq(FrameKinds), outbox' \in Seq(FrameKinds), Sheet' = Sheet, Sent' = Sent,
         pc \in {"ending", "done"} => pc' \in {"ending", "done"}, SavedShape'
  PROVE  WireInv'
<1>1. api' = api /\ item' = item
  OBVIOUS
<1>2. Ordered(Sheet)' <=> Ordered(Sheet)
  BY <1>1 DEF Ordered, Follows, Fits, Ahead, Terminal, FrameKinds
<1>3. pc' \notin {"ending", "done"} => Started(Sheet)'
  <2>1. Started(Sheet)' <=> Started(Sheet)
    BY <1>1 DEF Started, Growing, Unended, Follows, Fits, Total, Ahead, Terminal, FrameKinds
  <2> QED
    BY <2>1 DEF WireInv
<1> QED
  BY <1>1, <1>2, <1>3 DEF WireInv

(* A turn that ends early: the error, or nothing more.                     *)
LEMMA ThrowSends ==
  ASSUME WireInv, NEW code, Throw(code), pc \notin {"ending", "done"}
  PROVE  WireInv'
<1>1. /\ api' = api /\ item' = FALSE /\ wire' = wire /\ saved' = saved /\ pc' = "ending"
      /\ outbox' \in {<<>>, <<"error">>}
  BY DEF Throw, Forget, Goes, request, wireVars
<1>2. Growing(wire) /\ Ordered(wire) /\ wire \in Seq(FrameKinds)
  BY SheetPrefix DEF WireInv
<1>3. "error" \in FrameKinds
  BY DEF FrameKinds, Terminal
<1>4. /\ wire \o <<>> = wire /\ <<>> \in Seq(FrameKinds)
      /\ wire \o <<"error">> = Append(wire, "error") /\ <<"error">> \in Seq(FrameKinds)
  BY <1>2, <1>3, Singles
<1>5. Ordered(Append(wire, "error"))
  <2>1. Admits(wire, "error")
    BY DEF Admits
  <2> QED
    BY <1>2, <1>3, <2>1, AppendFrame
<1>6. Ordered(wire \o <<>>) /\ Ordered(wire \o <<"error">>)
  BY <1>2, <1>4, <1>5
<1>7. \A o \in {<<>>, <<"error">>} : Ordered(wire \o o) /\ o \in Seq(FrameKinds)
  BY <1>4, <1>6
<1>8. outbox' \in Seq(FrameKinds) /\ Ordered(wire \o outbox')
  BY <1>1, <1>7
<1>9. Ordered(Sheet)'
  <2>1. Sheet' = wire \o outbox'
    BY <1>1 DEF Sheet
  <2> QED
    BY <1>1, <1>8, <2>1, SheetNext
<1>10. SavedShape'
  BY <1>1 DEF WireInv, SavedShape
<1> QED
  BY <1>1, <1>8, <1>9, <1>10 DEF WireInv

(* A text for the client: the item is opened first when it has to be.      *)
LEMMA DeltaFits ==
  ASSUME NEW s, Growing(s), Total(s, "item_done") = 0, Total(s, "text_done") = 0,
         Total(s, "calls") = 0, NEW n \in {0, 1}, Total(s, "item") = n, Total(s, "part") = n,
         api = "responses" => n = 1
  PROVE  LET t == Append(s, "delta") IN
         /\ Growing(t) /\ Total(t, "item") = n /\ Total(t, "part") = n
         /\ Total(t, "item_done") = 0 /\ Total(t, "text_done") = 0 /\ Total(t, "calls") = 0
<1> DEFINE t == Append(s, "delta")
<1>1. "delta" \in FrameKinds \ Terminal
  BY DEF FrameKinds, Terminal
<1>2. Admits(s, "delta")
  BY DEF Admits
<1>3. Growing(t) /\ Counted(t, s, "delta")
  BY <1>1, <1>2, OneFrame
<1> QED
  BY <1>3 DEF Counted

LEMMA ItemFits ==
  ASSUME NEW s, Growing(s), Total(s, "item_done") = 0, Total(s, "text_done") = 0,
         Total(s, "calls") = 0, Total(s, "item") = 0, Total(s, "part") = 0
  PROVE  LET t == Append(Append(s, "item"), "part") IN
         /\ Growing(t) /\ Total(t, "item") = 1 /\ Total(t, "part") = 1
         /\ Total(t, "item_done") = 0 /\ Total(t, "text_done") = 0 /\ Total(t, "calls") = 0
<1>1. "item" \in FrameKinds \ Terminal /\ "part" \in FrameKinds \ Terminal
  BY DEF FrameKinds, Terminal
<1>2. ASSUME NEW a, a = Append(s, "item"), NEW t, t = Append(a, "part")
      PROVE  /\ Growing(t) /\ Total(t, "item") = 1 /\ Total(t, "part") = 1
             /\ Total(t, "item_done") = 0 /\ Total(t, "text_done") = 0 /\ Total(t, "calls") = 0
  <2>1. Growing(a) /\ Counted(a, s, "item")
    <3>1. Admits(s, "item")
      BY DEF Admits
    <3> QED
      BY <1>1, <1>2, <3>1, OneFrame
  <2>2. /\ Total(a, "item") = 1 /\ Total(a, "part") = 0
        /\ Total(a, "item_done") = 0 /\ Total(a, "text_done") = 0 /\ Total(a, "calls") = 0
    BY <2>1 DEF Counted
  <2>3. Growing(t) /\ Counted(t, a, "part")
    <3>1. Admits(a, "part")
      BY <2>2 DEF Admits
    <3> QED
      BY <1>1, <1>2, <2>1, <3>1, OneFrame
  <2> QED
    BY <2>2, <2>3 DEF Counted
<1> QED
  BY <1>2

LEMMA EmitSends ==
  ASSUME IInv, IInv', WireInv, outbox = <<>>, NEW d, Emit(d), seen' = seen, wire' = wire,
         api' = api, saved' = saved, pc \notin {"ending", "done"}
  PROVE  WireInv'
<1>1. Sheet = wire /\ Growing(wire) /\ wire \in Seq(FrameKinds)
  BY SheetPrefix DEF WireInv
<1>2. delta' = d /\ d \in Texts /\ seen \in Texts /\ delta = <<>> /\ Sent = seen /\ Sent' = seen \o d
  <2>1. delta = <<>>
    BY DeltaFrameSeq DEF IInv, OutInv
  <2> QED
    BY <2>1, TextBasics DEF IInv, Typed, Emit, Sent
<1>3. SavedShape'
  BY DEF WireInv, SavedShape
<1>4. CASE d = <<>>
  <2>1. outbox' = outbox /\ item' = item /\ Sheet' = Sheet /\ Sent' = Sent
    BY <1>2, <1>4, TextBasics DEF Emit, Sheet
  <2> QED
    BY <1>3, <2>1, NothingSent DEF WireInv
<1>5. CASE d # <<>>
  <2>1. outbox' = ItemFrames \o <<"delta">> /\ item' = (api = "responses")
    BY <1>5 DEF Emit
  <2>2. Sent' # <<>>
    <3>1. Len(seen) \in Nat /\ Len(d) \in Nat /\ Len(d) # 0 /\ Len(seen \o d) = Len(seen) + Len(d)
      BY <1>2, <1>5, TextBasics, Cat
    <3>2. seen \o d # <<>>
      <4>1. Len(seen \o d) # 0
        BY <3>1
      <4> QED
        BY <4>1
    <3> QED
      BY <1>2, <3>2
  <2>3. /\ Total(wire, "item") = (IF item THEN 1 ELSE 0) /\ Total(wire, "part") = (IF item THEN 1 ELSE 0)
        /\ Total(wire, "item_done") = 0 /\ Total(wire, "text_done") = 0 /\ Total(wire, "calls") = 0
        /\ api \in {"chat", "responses"} /\ item \in BOOLEAN /\ (api = "chat" => ~item)
    BY <1>1 DEF WireInv, Started
  <2>4. /\ "delta" \in FrameKinds /\ "item" \in FrameKinds /\ "part" \in FrameKinds
    BY DEF FrameKinds
  <2>5. ASSUME NEW t, t = wire \o outbox', outbox' \in Seq(FrameKinds), Growing(t),
               Total(t, "item") = IF item' THEN 1 ELSE 0, Total(t, "part") = IF item' THEN 1 ELSE 0,
               Total(t, "item_done") = 0, Total(t, "text_done") = 0, Total(t, "calls") = 0
        PROVE  WireInv'
    <3>1. t = Sheet'
      BY <2>5 DEF Sheet
    <3>2. Ordered(Sheet)' /\ Started(Sheet)'
      <4>1. Ordered(t)
        BY <2>5 DEF Growing, Ordered
      <4> QED
        BY <2>2, <2>5, <3>1, <4>1, SheetNext DEF Started
    <3> QED
      BY <1>1, <1>3, <2>1, <2>3, <2>5, <3>2 DEF WireInv
  <2>6. CASE api = "chat" \/ item
    <3>1. outbox' = <<"delta">>
      <4>1. ItemFrames = <<>>
        BY <2>6 DEF ItemFrames
      <4> QED
        BY <2>1, <4>1
    <3>2. outbox' \in Seq(FrameKinds) /\ wire \o outbox' = Append(wire, "delta")
      BY <1>1, <2>4, <3>1, Singles
    <3>3. item' = item
      BY <2>1, <2>3, <2>6
    <3>4. CASE item
      BY <1>1, <2>3, <2>5, <3>2, <3>3, <3>4, DeltaFits
    <3>5. CASE ~item
      BY <1>1, <2>3, <2>5, <2>6, <3>2, <3>3, <3>5, DeltaFits
    <3> QED
      BY <2>3, <3>4, <3>5
  <2>7. CASE ~(api = "chat" \/ item)
    <3>1. item' = TRUE /\ api = "responses"
      BY <2>1, <2>3, <2>7
    <3> DEFINE u == Append(Append(wire, "item"), "part")
    <3>2. outbox' \in Seq(FrameKinds) /\ wire \o outbox' = Append(u, "delta")
      <4>1. ItemFrames = <<"item", "part">>
        BY <2>7 DEF ItemFrames
      <4>2. <<"item", "part">> \in Seq(FrameKinds) /\ wire \o <<"item", "part">> = u
        BY <1>1, <2>4, Singles
      <4>3. outbox' = Append(<<"item", "part">>, "delta")
        <5>1. <<"item", "part">> \o <<"delta">> = Append(<<"item", "part">>, "delta")
          BY <2>4, <4>2, Singles
        <5> QED
          BY <2>1, <4>1, <5>1
      <4>4. outbox' \in Seq(FrameKinds)
        BY <2>4, <4>2, <4>3, AppendProperties
      <4>5. wire \o Append(<<"item", "part">>, "delta") = Append(wire \o <<"item", "part">>, "delta")
        BY <1>1, <2>4, <4>2, ConcatAppend
      <4> QED
        BY <4>2, <4>3, <4>4, <4>5
    <3>3. /\ Growing(u) /\ Total(u, "item") = 1 /\ Total(u, "part") = 1
          /\ Total(u, "item_done") = 0 /\ Total(u, "text_done") = 0 /\ Total(u, "calls") = 0
      BY <1>1, <2>3, <2>7, ItemFits
    <3> HIDE DEF u
    <3> QED
      BY <2>5, <3>1, <3>2, <3>3, DeltaFits
  <2> QED
    BY <2>6, <2>7
<1> QED
  BY <1>4, <1>5

(* The first frames of the response.                                       *)
LEMMA PrepareSends ==
  ASSUME IInv, WireInv, Prepare
  PROVE  WireInv'
<1>1. /\ pc = "preparing" /\ outbox = <<>> /\ outbox' = StartedFrames /\ api' = api
      /\ item' = item /\ delta' = delta /\ wire' = wire /\ seen' = seen /\ saved' = saved
      /\ Sent' = Sent
  BY DEF Prepare, IInv, OutInv, request, wireVars, Sent
<1>2. /\ Sheet = wire /\ Growing(wire) /\ wire \in Seq(FrameKinds) /\ Started(wire)
  BY <1>1, SheetPrefix DEF WireInv
<1>3. /\ "role" \in FrameKinds \ Terminal /\ "created" \in FrameKinds \ Terminal
      /\ "in_progress" \in FrameKinds \ Terminal
  BY DEF FrameKinds, Terminal
<1>4. ASSUME NEW s, Started(s), NEW f \in {"role", "created", "in_progress"}
      PROVE  Started(Append(s, f))
  <2>1. Admits(s, f) /\ f \in FrameKinds \ Terminal
    BY <1>3, <1>4 DEF Admits
  <2>2. Growing(Append(s, f)) /\ Counted(Append(s, f), s, f)
    BY <1>4, <2>1, OneFrame DEF Started
  <2>3. \A kind \in {"item", "part", "item_done", "text_done", "calls", "delta"} :
          Total(Append(s, f), kind) = Total(s, kind)
    <3>1. \A kind \in {"item", "part", "item_done", "text_done", "calls", "delta"} :
            Total(s, kind) \in Nat /\ f # kind
      BY <1>4, TotalNat DEF Started, Growing
    <3> QED
      BY <2>2, <3>1 DEF Counted
  <2> QED
    BY <1>4, <2>2, <2>3 DEF Started
<1>5. /\ Started(Append(wire, "role"))
      /\ Started(Append(Append(wire, "created"), "in_progress"))
  BY <1>2, <1>4
<1>6. /\ wire \o <<"role">> = Append(wire, "role") /\ <<"role">> \in Seq(FrameKinds)
      /\ wire \o <<"created", "in_progress">> = Append(Append(wire, "created"), "in_progress")
      /\ <<"created", "in_progress">> \in Seq(FrameKinds)
  BY <1>2, <1>3, Singles
<1>7. \A o \in {<<"role">>, <<"created", "in_progress">>} :
        Started(wire \o o) /\ o \in Seq(FrameKinds)
  BY <1>5, <1>6
<1>8. outbox' \in Seq(FrameKinds) /\ Started(wire \o outbox')
  <2>1. outbox' \in {<<"role">>, <<"created", "in_progress">>}
    BY <1>1 DEF StartedFrames
  <2> QED
    BY <1>7, <2>1
<1>9. Ordered(Sheet)' /\ Started(Sheet)'
  <2>1. Sheet' = wire \o outbox'
    BY <1>1 DEF Sheet
  <2>2. Growing(wire \o outbox') /\ Ordered(wire \o outbox')
    BY <1>8 DEF Started, Growing, Ordered
  <2>3. Ordered(Sheet)' /\ Growing(Sheet)' /\ \A kind : Total(Sheet, kind)' = Total(wire \o outbox', kind)
    BY <1>1, <2>1, <2>2, SheetNext
  <2> QED
    BY <1>1, <1>8, <2>3 DEF Started
<1>10. SavedShape'
  BY <1>1 DEF WireInv, SavedShape
<1> QED
  BY <1>1, <1>8, <1>9, <1>10 DEF WireInv

(* The frames that end a successful response.                              *)
LEMMA ChatEnds ==
  ASSUME NEW s, Growing(s), Total(s, "calls") = 0 \/ Total(s, "delta") = 0
  PROVE  Ordered(s \o <<"finish", "[DONE]">>) /\ <<"finish", "[DONE]">> \in Seq(FrameKinds)
<1>1. "finish" \in FrameKinds \ Terminal /\ "[DONE]" \in FrameKinds
  BY DEF FrameKinds, Terminal
<1>2. ASSUME NEW t, t = Append(s, "finish") PROVE Ordered(Append(t, "[DONE]"))
  <2>1. Admits(s, "finish")
    BY DEF Admits
  <2>2. Growing(t)
    BY <1>1, <1>2, <2>1, OneFrame
  <2>3. Admits(t, "[DONE]")
    BY DEF Admits
  <2> QED
    BY <1>1, <2>2, <2>3, AppendFrame
<1>3. s \in Seq(FrameKinds)
  BY DEF Growing
<1>4. /\ s \o <<"finish", "[DONE]">> = Append(Append(s, "finish"), "[DONE]")
      /\ <<"finish", "[DONE]">> \in Seq(FrameKinds)
  BY <1>1, <1>3, Singles
<1> QED
  BY <1>2, <1>4

LEMMA Completes ==
  ASSUME NEW s, Growing(s), Total(s, "item") > 0, Total(s, "item") = Total(s, "item_done")
  PROVE  Ordered(s \o <<"completed">>) /\ <<"completed">> \in Seq(FrameKinds)
<1>1. s \in Seq(FrameKinds) /\ "completed" \in FrameKinds
  BY DEF Growing, FrameKinds, Terminal
<1>2. Total(s, "item") \in Nat /\ Total(s, "item_done") \in Nat
  BY <1>1, TotalNat
<1>3. Admits(s, "completed")
  BY <1>2 DEF Admits
<1>4. Ordered(Append(s, "completed"))
  BY <1>1, <1>3, AppendFrame
<1> QED
  BY <1>1, <1>4, Singles

LEMMA TextEnds ==
  ASSUME NEW s, Growing(s), Total(s, "item") = 1, Total(s, "item_done") = 0
  PROVE  /\ Ordered(s \o <<"text_done", "part_done", "item_done", "completed">>)
         /\ <<"text_done", "part_done", "item_done", "completed">> \in Seq(FrameKinds)
<1>1. /\ "text_done" \in FrameKinds \ Terminal /\ "part_done" \in FrameKinds \ Terminal
      /\ "item_done" \in FrameKinds \ Terminal /\ "completed" \in FrameKinds
  BY DEF FrameKinds, Terminal
<1>2. s \in Seq(FrameKinds)
  BY DEF Growing
<1>3. ASSUME NEW a, a = Append(s, "text_done"), NEW b, b = Append(a, "part_done"),
             NEW c, c = Append(b, "item_done")
      PROVE  Ordered(c \o <<"completed">>)
  <2>1. Growing(a) /\ Counted(a, s, "text_done")
    <3>1. Admits(s, "text_done")
      BY DEF Admits
    <3> QED
      BY <1>1, <1>3, <3>1, OneFrame
  <2>2. Total(a, "item") = 1 /\ Total(a, "item_done") = 0
    BY <2>1 DEF Counted
  <2>3. Growing(b) /\ Counted(b, a, "part_done")
    <3>1. Admits(a, "part_done")
      BY DEF Admits
    <3> QED
      BY <1>1, <1>3, <2>1, <3>1, OneFrame
  <2>4. Total(b, "item") = 1 /\ Total(b, "item_done") = 0
    BY <2>2, <2>3 DEF Counted
  <2>5. Growing(c) /\ Counted(c, b, "item_done")
    <3>1. Admits(b, "item_done")
      BY <2>4 DEF Admits
    <3> QED
      BY <1>1, <1>3, <2>3, <3>1, OneFrame
  <2>6. Total(c, "item") = 1 /\ Total(c, "item_done") = 1
    BY <2>4, <2>5 DEF Counted
  <2> QED
    BY <2>5, <2>6, Completes
<1>4. /\ <<"text_done", "part_done", "item_done", "completed">> \in Seq(FrameKinds)
      /\ s \o <<"text_done", "part_done", "item_done", "completed">>
           = Append(Append(Append(s, "text_done"), "part_done"), "item_done") \o <<"completed">>
  <2> DEFINE l == <<"text_done", "part_done">>
             r == <<"item_done", "completed">>
             t == Append(Append(s, "text_done"), "part_done")
  <2>1. l \in Seq(FrameKinds) /\ r \in Seq(FrameKinds) /\ s \o l = t
    BY <1>1, <1>2, Singles
  <2>2. t \in Seq(FrameKinds)
    <3>1. Append(s, "text_done") \in Seq(FrameKinds)
      BY <1>1, <1>2, AppendProperties
    <3> QED
      BY <1>1, <3>1, AppendProperties
  <2>3. t \o r = Append(t, "item_done") \o <<"completed">>
    <3>1. t \o r = Append(Append(t, "item_done"), "completed")
      BY <1>1, <2>2, Singles
    <3>2. Append(t, "item_done") \in Seq(FrameKinds)
      BY <1>1, <2>2, AppendProperties
    <3> QED
      BY <1>1, <3>1, <3>2, Singles
  <2>4. l \o r = <<"text_done", "part_done", "item_done", "completed">>
    BY <1>1, TwoAndTwo
  <2>5. (s \o l) \o r = s \o (l \o r) /\ l \o r \in Seq(FrameKinds)
    BY <1>2, <2>1, ConcatAssociative, ConcatProperties
  <2> QED
    BY <2>1, <2>3, <2>4, <2>5
<1> QED
  BY <1>3, <1>4

(* The two last events.  An answer of tool calls was never begun as text.  *)
LEMMA AnnounceSends ==
  ASSUME IInv, WireInv, Announce
  PROVE  WireInv'
<1>1. /\ pc = "saved" /\ outbox = <<>> /\ api' = api /\ item' = FALSE /\ wire' = wire
      /\ saved' = saved /\ pc' = "ending"
      /\ outbox' = (IF saved.calls > 0 THEN ToolFrames(saved.calls) ELSE <<>>) \o CompletedFrames(saved)
  BY DEF Announce, At, Goes, Forget, request, wireVars
<1>2. /\ Growing(wire) /\ wire \in Seq(FrameKinds) /\ Started(wire)
      /\ api \in {"chat", "responses"} /\ item \in BOOLEAN /\ (api = "chat" => ~item)
  BY <1>1, SheetPrefix DEF WireInv
<1>3. /\ Total(wire, "item") = (IF item THEN 1 ELSE 0) /\ Total(wire, "part") = (IF item THEN 1 ELSE 0)
      /\ Total(wire, "item_done") = 0 /\ Total(wire, "text_done") = 0 /\ Total(wire, "calls") = 0
      /\ Total(wire, "delta") \in Nat
      /\ item \/ Total(wire, "delta") > 0 => Sent # <<>>
  BY <1>2, TotalNat DEF Started
<1>4. saved.type # "none" /\ Sent = saved.text
  <2>1. IsAnswer(saved) /\ seen = saved.text /\ delta = <<>> /\ seen \in Texts
    BY <1>1 DEF IInv, SavedInv, Typed
  <2> QED
    BY <2>1, TextBasics DEF Sent, IsAnswer
<1>5. ASSUME outbox' \in Seq(FrameKinds), Ordered(wire \o outbox') PROVE WireInv'
  <2>1. Sheet' = wire \o outbox'
    BY <1>1 DEF Sheet
  <2>2. Ordered(Sheet)'
    BY <1>1, <1>5, <2>1, SheetNext
  <2>3. SavedShape'
    BY <1>1 DEF WireInv, SavedShape
  <2> QED
    BY <1>1, <1>2, <1>5, <2>2, <2>3 DEF WireInv
<1>6. ASSUME NEW t \in Seq(FrameKinds), NEW r \in Seq(FrameKinds), outbox' = t \o r,
             Ordered((wire \o t) \o r)
      PROVE  WireInv'
  <2>1. (wire \o t) \o r = wire \o (t \o r) /\ t \o r \in Seq(FrameKinds)
    BY <1>2, <1>6, ConcatAssociative, ConcatProperties
  <2> QED
    BY <1>5, <1>6, <2>1
<1>7. CASE saved.calls = 0
  <2>1. saved.type = "text"
    BY <1>4, <1>7 DEF WireInv, SavedShape
  <2>2. outbox' = <<>> \o CompletedFrames(saved) /\ <<>> \in Seq(FrameKinds) /\ wire \o <<>> = wire
    BY <1>1, <1>2, <1>7, Singles
  <2>3. CASE api = "chat"
    <3>1. CompletedFrames(saved) = <<"finish", "[DONE]">>
      BY <2>3 DEF CompletedFrames
    <3>2. /\ Ordered(wire \o <<"finish", "[DONE]">>)
          /\ <<"finish", "[DONE]">> \in Seq(FrameKinds)
      BY <1>2, <1>3, ChatEnds
    <3> QED
      BY <1>6, <2>2, <3>1, <3>2
  <2>4. CASE api = "responses" /\ item
    <3> DEFINE e == <<"text_done", "part_done", "item_done", "completed">>
    <3>1. CompletedFrames(saved) = <<>> \o e
      BY <2>1, <2>4 DEF CompletedFrames, ItemFrames
    <3>2. Ordered(wire \o e) /\ e \in Seq(FrameKinds)
      BY <1>2, <1>3, <2>4, TextEnds
    <3> HIDE DEF e
    <3>3. <<>> \o e = e
      BY <3>2, ConcatEmptySeq
    <3> QED
      BY <1>6, <2>2, <3>1, <3>2, <3>3
  <2>5. CASE api = "responses" /\ ~item
    <3> DEFINE e == <<"text_done", "part_done", "item_done", "completed">>
               b == <<"item", "part">>
               u == Append(Append(wire, "item"), "part")
    <3>1. CompletedFrames(saved) = b \o e
      BY <2>1, <2>5 DEF CompletedFrames, ItemFrames
    <3>2. b \in Seq(FrameKinds) /\ wire \o b = u
      <4>1. "item" \in FrameKinds /\ "part" \in FrameKinds
        BY DEF FrameKinds
      <4> QED
        BY <1>2, <4>1, Singles
    <3>3. Growing(u) /\ Total(u, "item") = 1 /\ Total(u, "item_done") = 0
      BY <1>2, <1>3, <2>5, ItemFits
    <3> HIDE DEF u
    <3>4. Ordered(u \o e) /\ e \in Seq(FrameKinds)
      BY <3>3, TextEnds
    <3> HIDE DEF b, e
    <3>5. outbox' = b \o e
      <4>1. b \o e \in Seq(FrameKinds)
        BY <3>2, <3>4, ConcatProperties
      <4>2. <<>> \o (b \o e) = b \o e
        BY <4>1, ConcatEmptySeq
      <4> QED
        BY <2>2, <3>1, <4>2
    <3> QED
      BY <1>6, <3>2, <3>4, <3>5
  <2> QED
    BY <1>2, <2>3, <2>4, <2>5
<1>8. CASE saved.calls # 0
  <2>1. /\ saved.type = "tool_calls" /\ saved.text = <<>> /\ saved.calls \in Nat /\ saved.calls > 0
    BY <1>4, <1>8 DEF WireInv, SavedShape
  <2>2. ~item /\ Total(wire, "delta") = 0
    BY <1>3, <1>4, <2>1
  <2>3. outbox' = ToolFrames(saved.calls) \o CompletedFrames(saved)
    BY <1>1, <2>1
  <2>4. CASE api = "chat"
    <3> DEFINE u == Append(wire, "calls")
    <3>1. ToolFrames(saved.calls) = <<"calls">> /\ CompletedFrames(saved) = <<"finish", "[DONE]">>
      BY <2>4 DEF ToolFrames, CompletedFrames
    <3>2. "calls" \in FrameKinds \ Terminal
      BY DEF FrameKinds, Terminal
    <3>3. Growing(u) /\ Total(u, "delta") = 0
      <4>1. Admits(wire, "calls")
        BY DEF Admits
      <4>2. Growing(u) /\ Counted(u, wire, "calls")
        BY <1>2, <3>2, <4>1, OneFrame
      <4> QED
        BY <2>2, <4>2 DEF Counted
    <3>4. wire \o <<"calls">> = u /\ <<"calls">> \in Seq(FrameKinds)
      BY <1>2, <3>2, Singles
    <3> HIDE DEF u
    <3>5. /\ Ordered(u \o <<"finish", "[DONE]">>)
          /\ <<"finish", "[DONE]">> \in Seq(FrameKinds)
      BY <3>3, ChatEnds
    <3> QED
      BY <1>6, <2>3, <3>1, <3>4, <3>5
  <2>5. CASE api = "responses"
    <3> DEFINE t == ToolFrames(saved.calls)
    <3>1. /\ t \in Seq(FrameKinds) /\ Growing(wire \o t)
          /\ Total(wire \o t, "item") = saved.calls /\ Total(wire \o t, "item_done") = saved.calls
      BY <1>2, <1>3, <2>1, <2>2, <2>5, CallsFollow
    <3>2. CompletedFrames(saved) = <<"completed">>
      BY <2>1, <2>5 DEF CompletedFrames
    <3> HIDE DEF t
    <3> DEFINE u == wire \o t
    <3> HIDE DEF u
    <3>3. Ordered(u \o <<"completed">>) /\ <<"completed">> \in Seq(FrameKinds)
      BY <2>1, <3>1, Completes DEF u
    <3> QED
      BY <1>6, <2>3, <3>1, <3>2, <3>3 DEF t, u
  <2> QED
    BY <1>2, <2>4, <2>5
<1> QED
  BY <1>7, <1>8

(* A frame moves from the outbox to the wire.                              *)
LEMMA WriteSends ==
  ASSUME IInv, WireInv, Write
  PROVE  WireInv'
<1>1. /\ outbox # <<>> /\ outbox' = Tail(outbox) /\ wire' = Append(wire, Head(outbox))
      /\ api' = api /\ item' = item /\ pc' = pc /\ saved' = saved
      /\ IF Head(outbox) = "delta" THEN seen' = seen \o delta /\ delta' = <<>>
         ELSE seen' = seen /\ delta' = delta
  BY DEF Write, request
<1>2. wire \in Seq(FrameKinds) /\ outbox \in Seq(FrameKinds)
  BY DEF WireInv
<1>3. Head(outbox) \in FrameKinds /\ Tail(outbox) \in Seq(FrameKinds)
  BY <1>1, <1>2, HeadTailProperties
<1>4. Append(wire, Head(outbox)) \o Tail(outbox) = wire \o outbox
  <2>1. wire \o <<Head(outbox)>> = Append(wire, Head(outbox)) /\ <<Head(outbox)>> \in Seq(FrameKinds)
    BY <1>2, <1>3, Singles
  <2>2. (wire \o <<Head(outbox)>>) \o Tail(outbox) = wire \o (<<Head(outbox)>> \o Tail(outbox))
    BY <1>2, <1>3, <2>1, ConcatAssociative
  <2>3. <<Head(outbox)>> \o Tail(outbox) = outbox
    BY <1>1, <1>2, FirstAndRest
  <2> QED
    BY <2>1, <2>2, <2>3
<1>5. Sheet' = Sheet
  BY <1>1, <1>4 DEF Sheet
<1>6. Sent' = Sent
  <2>1. seen \o delta \in Texts /\ (seen \o delta) \o <<>> = seen \o delta
    BY Cat, TextBasics DEF IInv, Typed
  <2> QED
    BY <1>1, <2>1 DEF Sent
<1>7. SavedShape'
  BY <1>1 DEF WireInv, SavedShape
<1>8. wire' \in Seq(FrameKinds) /\ outbox' \in Seq(FrameKinds)
  BY <1>1, <1>2, <1>3, AppendProperties
<1> QED
  BY <1>1, <1>5, <1>6, <1>7, <1>8, NothingSent

LEMMA WriteFailsSends ==
  ASSUME IInv, WireInv, WriteFails
  PROVE  WireInv'
<1>1. outbox # <<>> /\ pc \notin {"saved", "done"}
  BY DEF WriteFails, IInv, OutInv
<1>2. CASE pc # "ending"
  BY <1>1, <1>2, ThrowSends DEF WriteFails
<1>3. CASE pc = "ending"
  <2>1. /\ outbox' = <<>> /\ wire' = wire /\ api' = api /\ item' = item /\ pc' = pc /\ saved' = saved
    BY <1>3 DEF WriteFails, request, wireVars
  <2>2. Ordered(wire) /\ wire \in Seq(FrameKinds) /\ wire \o <<>> = wire /\ <<>> \in Seq(FrameKinds)
    BY SheetPrefix, Singles DEF WireInv
  <2>3. Sheet' = wire
    BY <2>1, <2>2 DEF Sheet
  <2>4. Ordered(Sheet)'
    BY <2>1, <2>2, <2>3, SheetNext
  <2>5. SavedShape'
    BY <2>1 DEF WireInv, SavedShape
  <2> QED
    BY <1>3, <2>1, <2>2, <2>4, <2>5 DEF WireInv
<1> QED
  BY <1>2, <1>3

LEMMA SaveSends ==
  ASSUME IInv, WireInv, Save
  PROVE  WireInv'
<1>1. PICK choice : IsAnswer(Parse(waiter.stable, choice)) /\ saved' = Parse(waiter.stable, choice)
  BY DEF Save
<1>2. /\ pc = "saving" /\ pc' = "saved" /\ UNCHANGED <<api, item, wire, outbox, seen, delta>>
  BY DEF Save, At, Goes, request, answerVars, wireVars
<1>3. SavedShape'
  <2> DEFINE t == waiter.stable
             body == Trim(t)
             payload == Trim(SubSeq(body, Len(Start) + 1, Len(body) - Len(End)))
  <2>1. \/ saved' = TextAnswer(t)
        \/ payload \in Requests /\ saved' = ToolAnswer(Len(payload))
    BY <1>1 DEF Parse, IsAnswer, NoAnswer
  <2>2. CASE saved' = TextAnswer(t)
    BY <2>2 DEF TextAnswer, SavedShape
  <2>3. CASE payload \in Requests /\ saved' = ToolAnswer(Len(payload))
    <3> HIDE DEF payload
    <3>1. payload \in Texts /\ payload # <<>>
      BY <2>3, StreamAssumption
    <3>2. Len(payload) \in Nat \ {0}
      BY <3>1, TextBasics
    <3> QED
      BY <2>3, <3>2 DEF ToolAnswer, SavedShape
  <2> QED
    BY <2>1, <2>2, <2>3
<1>4. Sheet' = Sheet /\ Sent' = Sent
  BY <1>2 DEF Sheet, Sent
<1> QED
  BY <1>2, <1>3, <1>4, NothingSent DEF WireInv

LEMMA InitSends == Init => WireInv
<1> SUFFICES ASSUME Init PROVE WireInv
  OBVIOUS
<1>1. <<>> \in Seq(FrameKinds) /\ <<>> \o <<>> = <<>>
  BY Singles
<1>2. Sheet = <<>> /\ wire = <<>> /\ outbox = <<>> /\ item = FALSE /\ Len(<<>>) = 0
  BY <1>1 DEF Init, Sheet
<1>3. ASSUME NEW kind PROVE Total(<<>>, kind) = 0
  <2>1. ASSUME NEW s \in Seq(FrameKinds), Len(s) = 0 PROVE Total(s, kind) = 0
    <3>1. \A n \in 1..Len(s) : s[n] # kind
      BY <2>1
    <3> QED
      BY <3>1, TotalNone
  <2> QED
    BY <1>1, <1>2, <2>1
<1>4. Growing(<<>>) /\ Ordered(<<>>)
  BY <1>1, <1>2 DEF Growing, Ordered, Follows, Unended
<1>5. Started(<<>>)
  BY <1>2, <1>3, <1>4 DEF Started
<1>6. SavedShape
  BY DEF Init, NoAnswer, SavedShape
<1> QED
  BY <1>1, <1>2, <1>4, <1>5, <1>6 DEF Init, WireInv

LEMMA QuietSends ==
  ASSUME WireInv, UNCHANGED <<api, answerVars, wireVars, saved>>,
         pc' = pc \/ pc' \in {"ending", "done"} \/ pc \notin {"ending", "done"}
  PROVE  WireInv'
<1>1. /\ UNCHANGED <<api, item, wire, outbox, seen, delta, saved>>
  BY DEF answerVars, wireVars
<1>2. Sheet' = Sheet /\ Sent' = Sent
  BY <1>1 DEF Sheet, Sent
<1>3. SavedShape'
  BY <1>1 DEF WireInv, SavedShape
<1> QED
  BY <1>1, <1>2, <1>3, NothingSent DEF WireInv

LEMMA WireStep ==
  ASSUME IInv, IInv', WireInv, [Next]_vars
  PROVE  WireInv'
<1> USE DEF At, request
<1>1. ASSUME NEW code, Throw(code), pc \in {"started", "polling", "flushing", "finishing", "saving"}
      PROVE  WireInv'
  BY <1>1, ThrowSends
<1>2. ASSUME NEW outcome, Detects(outcome), outbox = <<>>,
             UNCHANGED <<seen, wire, api, saved>>, pc \notin {"ending", "done"}
      PROVE  WireInv'
  BY <1>2, EmitSends DEF Detects
<1>3. CASE PollNext
  <2>1. CASE SeeNothing
    BY <2>1, QuietSends DEF SeeNothing
  <2>2. CASE Vanish
    BY <1>1, <2>2 DEF Vanish, CanPoll
  <2>3. CASE \E t \in Rerendered : Diverge(t)
    BY <1>1, <2>3 DEF Diverge, CanPoll
  <2>4. CASE \E t \in Rerendered : SeeMarker(t)
    BY <1>1, <2>4 DEF SeeMarker, CanPoll
  <2>5. CASE \E t \in Rerendered, marker \in BOOLEAN : See(t, marker)
    <3>1. PICK t \in Rerendered, marker \in BOOLEAN : See(t, marker)
      BY <2>5
    <3>2. /\ Detects(Fresh(Committed(t))) /\ outbox = <<>> /\ pc = "polling"
          /\ UNCHANGED <<seen, wire, api, saved>>
      BY <3>1 DEF See, CanPoll, wireVars
    <3> QED
      BY <1>2, <3>2
  <2> QED
    BY <1>3, <2>1, <2>2, <2>3, <2>4, <2>5 DEF PollNext
<1>4. CASE Proceed
  <2>1. CASE EndResponse
    BY <2>1, QuietSends DEF EndResponse, Goes
  <2>2. CASE PrepareFails
    BY <2>2, QuietSends DEF PrepareFails, Goes
  <2>3. CASE StartText
    BY <2>3, QuietSends DEF StartText, Goes
  <2>4. CASE Abort \/ Interrupt
    BY <1>1, <2>4 DEF Abort, Interrupt
  <2>5. CASE FlushFails \/ FinishFails \/ SaveFails
    BY <1>1, <2>5 DEF FlushFails, FinishFails, SaveFails
  <2>6. CASE Flush
    <3>1. /\ Detects(Fresh(waiter.stable)) /\ outbox = <<>> /\ pc = "flushing"
          /\ UNCHANGED <<seen, wire, api, saved>>
      BY <2>6 DEF Flush, wireVars
    <3> QED
      BY <1>2, <3>1
  <2>7. CASE Finish
    <3>1. /\ Detects(FinishDetection(detector)) /\ outbox = <<>> /\ pc = "finishing"
          /\ UNCHANGED <<seen, wire, api, saved>>
      BY <2>7 DEF Finish, wireVars
    <3> QED
      BY <1>2, <3>1
  <2>8. CASE Write \/ WriteFails
    BY <2>8, WriteSends, WriteFailsSends
  <2>9. CASE Prepare \/ Save \/ Announce
    BY <2>9, PrepareSends, SaveSends, AnnounceSends
  <2> QED
    BY <1>4, <2>1, <2>2, <2>3, <2>4, <2>5, <2>6, <2>7, <2>8, <2>9 DEF Proceed
<1>5. CASE ClientCloses
  BY <1>5, QuietSends DEF ClientCloses
<1>6. CASE UNCHANGED vars
  BY <1>6, QuietSends DEF vars
<1> QED
  BY <1>3, <1>4, <1>5, <1>6 DEF Next

LEMMA AlwaysWire == Spec => []WireInv
<1>1. Init => WireInv
  BY InitSends
<1>2. IInv /\ IInv' /\ WireInv /\ [Next]_vars => WireInv'
  BY WireStep
<1> QED
  BY <1>1, <1>2, AlwaysIInv, PTL DEF Spec

-----------------------------------------------------------------------------
(* The theorems.                                                           *)

(* However a text is cut by the three mechanisms that hold it back, what   *)
(* the client was sent is the text that is saved, for any alphabet, marker *)
(* and holdback.                                                           *)
THEOREM SavedSeen == Spec => []SavedIsSeen
<1>1. IInv => SavedIsSeen
  <2> SUFFICES ASSUME IInv PROVE SavedIsSeen
    OBVIOUS
  <2>1. ToSet(wire) \cap {"finish", "completed"} # {} => IsAnswer(saved)
    <3> SUFFICES ASSUME ~IsAnswer(saved), NEW k \in ToSet(wire), k \in {"finish", "completed"}
                 PROVE  FALSE
      OBVIOUS
    <3>1. wire \in Seq(EarlyFrames)
      BY DEF IInv, OutInv
    <3>2. PICK i \in 1..Len(wire) : k = wire[i]
      BY <3>1, LenProperties DEF ToSet
    <3>3. k \in EarlyFrames
      BY <3>1, <3>2, ElementOfSeq
    <3> QED
      BY <3>3 DEF EarlyFrames
  <2> QED
    BY <2>1 DEF IInv, SavedInv, SavedIsSeen
<1> QED
  BY <1>1, AlwaysIInv, PTL

(* The private start marker never reaches a client that uses tools,        *)
(* wherever the polls and the deltas cut the text.                         *)
THEOREM MarkerHidden == Spec => []PrivateMarkerHidden
<1>1. IInv => PrivateMarkerHidden
  BY SeenHasNoMarker DEF IInv, DetectInv, PrivateMarkerHidden
<1> QED
  BY <1>1, AlwaysIInv, PTL

(* The stream breaks for rewrites beyond the holdback only.                *)
THEOREM ShallowSurvives == Spec => []ShallowRewritesSurvive
<1>1. IInv => ShallowRewritesSurvive
  BY DEF IInv, CalmInv, ShallowRewritesSurvive
<1> QED
  BY <1>1, AlwaysIInv, PTL

(* Only an answer that stood still in StableSamples polls and in the       *)
(* reread gets as far as being saved.                                      *)
THEOREM QuietBeforeSaved == Spec => []SavedWhenQuiet
<1>1. IInv => SavedWhenQuiet
  BY DEF IInv, QuietInv, SavedWhenQuiet
<1> QED
  BY <1>1, AlwaysIInv, PTL

(* Whenever the client leaves, and however the turn ends: the frames that  *)
(* were written keep to the event protocol of their API.                   *)
THEOREM FramesInOrder == Spec => []WireFollowsProtocol
<1>1. WireInv => WireFollowsProtocol
  <2> SUFFICES ASSUME WireInv PROVE WireFollowsProtocol
    OBVIOUS
  <2>1. Ordered(wire)
    BY SheetPrefix
  <2>2. \A n, kind : Before(n, kind) = Ahead(wire, n, kind)
    BY DEF Before, Ahead
  <2> QED
    BY <2>1, <2>2 DEF Ordered, Follows, Fits, WireFollowsProtocol
<1> QED
  BY <1>1, AlwaysWire, PTL
=============================================================================
