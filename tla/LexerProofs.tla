----------------------------- MODULE LexerProofs -----------------------------
(***************************************************************************)
(* What the lexer makes of a text, and that a query is understood as it is *)
(* written: the theorems of Analyzer, for any queries and any limits.      *)
(*                                                                         *)
(* A text is read word by word: each of the replacements of                *)
(* make_tokens_explicit is followed from the end of the text to its        *)
(* beginning, so that what is in front of a text is read without it.  Then *)
(* what clients write is read part by part, by induction on the number of  *)
(* parts, and the tokens go through the automata (AnalyzerProofs).         *)
(***************************************************************************)
EXTENDS AnalyzerProofs, SequenceTheorems

\* Induction over the numbers, for a set that holds 0 and with n also n + 1.
LEMMA EveryNumber ==
    ASSUME NEW S, 0 \in S, \A n \in Nat : n \in S => n + 1 \in S
    PROVE  Nat \subseteq S
<1> DEFINE R == Nat \ S
<1> SUFFICES ASSUME R # {} PROVE FALSE
    OBVIOUS
<1>1. PICK m \in R : \A k \in R : m <= k
  <2>1. R \in SUBSET Nat
      OBVIOUS
  <2> HIDE DEF R
  <2> QED
      BY <2>1, Least
<1>2. m # 0 /\ m - 1 \in Nat /\ m - 1 < m /\ (m - 1) + 1 = m
    OBVIOUS
<1>3. m - 1 \in R
    BY <1>2
<1> QED
    BY <1>1, <1>2, <1>3

\* f[i] is what the first i of the n parts are together.
Adds(f, q, n, T) == /\ f \in [0 .. n -> Seq(T)]
                    /\ f[0] = <<>>
                    /\ \A i \in 1 .. n : f[i] = f[i - 1] \o q[i]

\* FlattenSeq adds up the parts, from the first to the last.
LEMMA FlattenSum ==
    ASSUME NEW T, NEW n \in Nat, NEW q \in [1 .. n -> Seq(T)]
    PROVE  \E f : Adds(f, q, n, T) /\ FlattenSeq(q) = f[n]
<1> DEFINE Sums(f, m) == f[0] = <<>> /\ \A i \in 1 .. m : i <= n => f[i] = f[i - 1] \o q[i]
           S == {m \in Nat : \E f \in [0 .. m -> Seq(T)] : Sums(f, m)}
<1>1. 0 \in S
  <2>1. Sums([i \in 0 .. 0 |-> <<>>], 0)
      OBVIOUS
  <2>2. [i \in 0 .. 0 |-> <<>>] \in [0 .. 0 -> Seq(T)]
      BY EmptySeq
  <2> QED
      BY <2>1, <2>2
<1>2. ASSUME NEW m \in Nat, m \in S PROVE m + 1 \in S
  <2>1. PICK f \in [0 .. m -> Seq(T)] : Sums(f, m)
      BY <1>2
  <2> DEFINE g == [i \in 0 .. m + 1 |-> IF i <= m THEN f[i]
                                        ELSE IF i <= n THEN f[m] \o q[i] ELSE <<>>]
  <2>2. g \in [0 .. m + 1 -> Seq(T)]
    <3> SUFFICES ASSUME NEW i \in 0 .. m + 1 PROVE g[i] \in Seq(T)
        OBVIOUS
    <3>1. CASE i <= m
        BY <3>1
    <3>2. CASE ~(i <= m) /\ i <= n
      <4>1. q[i] \in Seq(T) /\ f[m] \in Seq(T)
          BY <3>2
      <4> QED
          BY <3>2, <4>1, ConcatProperties
    <3>3. CASE ~(i <= m) /\ ~(i <= n)
        BY <3>3, EmptySeq
    <3> QED
        BY <3>1, <3>2, <3>3
  <2>3. g[0] = <<>>
      BY <2>1
  <2>4. ASSUME NEW i \in 1 .. m + 1, i <= n PROVE g[i] = g[i - 1] \o q[i]
    <3>1. CASE i <= m
      <4>1. i \in 0 .. m + 1 /\ i - 1 \in 0 .. m + 1 /\ i - 1 <= m /\ i \in 1 .. m
          BY <3>1
      <4>2. g[i] = f[i] /\ g[i - 1] = f[i - 1]
          BY <3>1, <4>1
      <4>3. f[i] = f[i - 1] \o q[i]
          BY <2>1, <2>4, <4>1
      <4> QED
          BY <4>2, <4>3
    <3>2. CASE ~(i <= m)
      <4>1. i = m + 1 /\ i - 1 = m /\ i \in 0 .. m + 1 /\ m \in 0 .. m + 1
          BY <3>2
      <4>2. g[m + 1] = f[m] \o q[m + 1]
          BY <2>4, <3>2, <4>1
      <4>3. g[m] = f[m]
          BY <4>1
      <4> QED
          BY <4>1, <4>2, <4>3
    <3> QED
        BY <3>1, <3>2
  <2>5. Sums(g, m + 1)
      BY <2>3, <2>4
  <2> HIDE DEF g
  <2>6. m + 1 \in Nat
      OBVIOUS
  <2> QED
      BY <2>2, <2>5, <2>6
<1>3. n \in S
  <2> HIDE DEF S
  <2> QED
      BY <1>1, <1>2, EveryNumber
<1>4. PICK f \in [0 .. n -> Seq(T)] : Sums(f, n)
    BY <1>3, Zenon
<1>5. f[0] = <<>> /\ \A i \in 1 .. n : f[i] = f[i - 1] \o q[i]
  <2>1. \A i \in 1 .. n : i <= n
      OBVIOUS
  <2> QED
      BY <1>4, <2>1
<1>0. n # 0 => f[1] = q[1]
  <2> SUFFICES ASSUME n # 0 PROVE f[1] = q[1]
      OBVIOUS
  <2>1. 1 \in 1 .. n /\ 1 - 1 = 0
      OBVIOUS
  <2>2. f[1] = f[0] \o q[1]
      BY <1>5, <2>1
  <2>3. q[1] \in Seq(T)
      BY <2>1
  <2> QED
      BY <1>5, <2>2, <2>3, ConcatEmptySeq
<1>6. DOMAIN q = 1 .. n /\ Len(q) = n
  <2>1. q \in Seq(Seq(T))
      BY SeqDef
  <2> QED
      BY <2>1, LenProperties
<1>7. CASE n = 0
  <2>1. q = <<>>
      BY <1>7
  <2>2. FlattenSeq(q) = <<>>
      BY <1>6, <1>7, <2>1 DEF FlattenSeq
  <2> QED
      BY <1>5, <1>7, <2>2 DEF Adds
<1>8. CASE n # 0
  <2> DEFINE Eq(w) == w = [i \in 1 .. n |-> IF i = 1 THEN q[i] ELSE w[i - 1] \o q[i]]
             W == [i \in 1 .. n |-> f[i]]
  <2>1. FlattenSeq(q) = (CHOOSE w : Eq(w))[n]
      BY <1>6, <1>8 DEF FlattenSeq
  <2>2. Eq(W)
    <3> SUFFICES ASSUME NEW i \in 1 .. n
                 PROVE  W[i] = IF i = 1 THEN q[i] ELSE W[i - 1] \o q[i]
        OBVIOUS
    <3>1. CASE i = 1
        BY <1>8, <1>0, <3>1
    <3>2. CASE i # 1
      <4>1. i - 1 \in 1 .. n
          BY <3>2
      <4> QED
          BY <1>5, <3>2, <4>1
    <3> QED
        BY <3>1, <3>2
  <2>3. ASSUME NEW w, Eq(w) PROVE w[n] = f[n]
    <3> DEFINE P == {m \in Nat : m + 1 <= n => w[m + 1] = f[m + 1]}
    <3>0. \A i \in 1 .. n : w[i] = IF i = 1 THEN q[i] ELSE w[i - 1] \o q[i]
        BY <2>3
    <3>1. 0 \in P
      <4>1. 1 \in 1 .. n
          BY <1>8
      <4>2. w[1] = q[1]
          BY <3>0, <4>1
      <4> QED
          BY <1>8, <1>0, <4>2
    <3>2. ASSUME NEW m \in Nat, m \in P PROVE m + 1 \in P
      <4> SUFFICES ASSUME m + 1 + 1 <= n PROVE w[m + 1 + 1] = f[m + 1 + 1]
          OBVIOUS
      <4>1. m + 2 \in 1 .. n /\ m + 2 # 1 /\ (m + 2) - 1 = m + 1
          OBVIOUS
      <4>2. w[m + 2] = w[m + 1] \o q[m + 2] /\ f[m + 2] = f[m + 1] \o q[m + 2]
          BY <1>5, <3>0, <4>1
      <4>3. m + 1 <= n /\ m + 1 + 1 = m + 2
          OBVIOUS
      <4> QED
          BY <3>2, <4>1, <4>2, <4>3
    <3>3. n - 1 \in P
      <4>1. n - 1 \in Nat
          BY <1>8
      <4> HIDE DEF P
      <4> QED
          BY <3>1, <3>2, <4>1, EveryNumber
    <3> QED
        BY <3>3
  <2> HIDE DEF Eq, W
  <2>4. FlattenSeq(q) = f[n]
      BY <2>1, <2>2, <2>3
  <2> QED
      BY <1>5, <2>4 DEF Adds
<1> QED
    BY <1>7, <1>8

\* Concatenation of texts.
LEMMA Concat ==
    ASSUME NEW T
    PROVE  /\ <<>> \in Seq(T)
           /\ \A a, b \in Seq(T) : a \o b \in Seq(T) /\ Len(a \o b) = Len(a) + Len(b)
           /\ \A a \in Seq(T) : <<>> \o a = a /\ a \o <<>> = a /\ Len(a) \in Nat
           /\ \A a, b, c \in Seq(T) : (a \o b) \o c = a \o (b \o c)
<1>1. \A a, b \in Seq(T) : a \o b \in Seq(T) /\ Len(a \o b) = Len(a) + Len(b)
    BY ConcatProperties
<1>2. \A a \in Seq(T) : <<>> \o a = a /\ a \o <<>> = a /\ Len(a) \in Nat
    BY ConcatEmptySeq, LenProperties
<1>3. \A a, b, c \in Seq(T) : (a \o b) \o c = a \o (b \o c)
    BY ConcatAssociative
<1>4. <<>> \in Seq(T)
    BY EmptySeq
<1> QED
    BY <1>1, <1>2, <1>3, <1>4

\* A sequence of parts is a function from its places to parts.
LEMMA PartsOf ==
    ASSUME NEW T, NEW q \in Seq(Seq(T))
    PROVE  Len(q) \in Nat /\ q \in [1 .. Len(q) -> Seq(T)]
BY LenProperties

LEMMA FlattenOne ==
    ASSUME NEW T, NEW e \in Seq(T)
    PROVE  FlattenSeq(<<>>) = <<>> /\ FlattenSeq(<<e>>) = e
<1>1. FlattenSeq(<<>>) = <<>>
    BY DEF FlattenSeq
<1>2. <<e>> \in [1 .. 1 -> Seq(T)] /\ 1 \in Nat
    OBVIOUS
<1>3. PICK f : Adds(f, <<e>>, 1, T) /\ FlattenSeq(<<e>>) = f[1]
    BY <1>2, FlattenSum
<1>4. f[1] = f[1 - 1] \o <<e>>[1] /\ 1 - 1 = 0 /\ <<e>>[1] = e
    BY <1>3 DEF Adds
<1> QED
    BY <1>1, <1>3, <1>4, ConcatEmptySeq DEF Adds

\* The parts of a text make a text, and the parts of two texts the two texts.
LEMMA FlattenConcat ==
    ASSUME NEW T, NEW p \in Seq(Seq(T)), NEW q \in Seq(Seq(T))
    PROVE  /\ FlattenSeq(p) \in Seq(T)
           /\ FlattenSeq(p \o q) = FlattenSeq(p) \o FlattenSeq(q)
<1> DEFINE n == Len(p)
           m == Len(q)
           r == p \o q
<1>1. n \in Nat /\ m \in Nat /\ p \in [1 .. n -> Seq(T)] /\ q \in [1 .. m -> Seq(T)]
    BY PartsOf
<1>2. /\ r \in Seq(Seq(T)) /\ Len(r) = n + m
      /\ \A i \in 1 .. n : r[i] = p[i]
      /\ \A i \in 1 .. m : r[n + i] = q[i]
  <2>1. /\ r \in Seq(Seq(T)) /\ Len(r) = n + m
        /\ \A i \in 1 .. n + m : r[i] = IF i <= n THEN p[i] ELSE q[i - n]
      BY ConcatProperties
  <2>2. ASSUME NEW i \in 1 .. n PROVE r[i] = p[i]
    <3>1. i \in 1 .. n + m /\ i <= n
        BY <1>1
    <3> QED
        BY <2>1, <3>1
  <2>3. ASSUME NEW i \in 1 .. m PROVE r[n + i] = q[i]
    <3>1. n + i \in 1 .. n + m /\ ~(n + i <= n) /\ (n + i) - n = i
        BY <1>1
    <3> QED
        BY <2>1, <3>1
  <2> QED
      BY <2>1, <2>2, <2>3
<1>3. r \in [1 .. n + m -> Seq(T)] /\ n + m \in Nat
    BY <1>1, <1>2, PartsOf
<1> HIDE DEF n, m, r
<1>4. PICK f : Adds(f, p, n, T) /\ FlattenSeq(p) = f[n]
    BY <1>1, FlattenSum
<1>5. PICK g : Adds(g, q, m, T) /\ FlattenSeq(q) = g[m]
    BY <1>1, FlattenSum
<1>6. PICK h : Adds(h, r, n + m, T) /\ FlattenSeq(r) = h[n + m]
    BY <1>3, FlattenSum
<1>7. h[n] = f[n]
  <2> DEFINE S == {k \in Nat : k <= n => h[k] = f[k]}
  <2>1. 0 \in S
      BY <1>4, <1>6 DEF Adds
  <2>2. ASSUME NEW k \in Nat, k \in S PROVE k + 1 \in S
    <3> SUFFICES ASSUME k + 1 <= n PROVE h[k + 1] = f[k + 1]
        OBVIOUS
    <3>1. k + 1 \in 1 .. n /\ k + 1 \in 1 .. n + m /\ (k + 1) - 1 = k /\ k <= n
        BY <1>1
    <3>2. h[k + 1] = h[k] \o r[k + 1] /\ f[k + 1] = f[k] \o p[k + 1] /\ r[k + 1] = p[k + 1]
        BY <1>2, <1>4, <1>6, <3>1 DEF Adds
    <3> QED
        BY <2>2, <3>1, <3>2
  <2> HIDE DEF S
  <2>3. n \in S
      BY <1>1, <2>1, <2>2, EveryNumber
  <2> QED
      BY <1>1, <2>3 DEF S
<1>8. h[n + m] = f[n] \o g[m]
  <2> DEFINE R(k) == k <= m => h[n + k] = f[n] \o g[k]
         S == {k \in Nat : R(k)}
  <2>0. f[n] \in Seq(T) /\ n + 0 = n
      BY <1>1, <1>4 DEF Adds
  <2>1. 0 \in S
      BY <1>5, <1>7, <2>0, ConcatEmptySeq DEF Adds
  <2>2. ASSUME NEW k \in Nat, k \in S PROVE k + 1 \in S
    <3> HIDE DEF R
    <3> SUFFICES R(k + 1)
        OBVIOUS
    <3>0. R(k)
        BY <2>2
    <3> USE DEF R
    <3> SUFFICES ASSUME k + 1 <= m PROVE h[n + (k + 1)] = f[n] \o g[k + 1]
        OBVIOUS
    <3>1. /\ k + 1 \in 1 .. m /\ n + (k + 1) \in 1 .. n + m /\ (n + (k + 1)) - 1 = n + k
          /\ (k + 1) - 1 = k /\ k <= m /\ k \in 0 .. m
        BY <1>1
    <3>2. /\ h[n + (k + 1)] = h[n + k] \o r[n + (k + 1)] /\ r[n + (k + 1)] = q[k + 1]
          /\ g[k + 1] = g[k] \o q[k + 1]
          /\ h[n + k] = f[n] \o g[k]
        BY <1>2, <1>5, <1>6, <3>0, <3>1 DEF Adds
    <3>3. g[k] \in Seq(T) /\ q[k + 1] \in Seq(T)
        BY <1>1, <1>5, <3>1 DEF Adds
    <3>4. (f[n] \o g[k]) \o q[k + 1] = f[n] \o (g[k] \o q[k + 1])
      <4>1. \A a, b, c \in Seq(T) : (a \o b) \o c = a \o (b \o c)
          BY Concat, ZenonT(40)
      <4> QED
          BY <2>0, <3>3, <4>1, Zenon
    <3> QED
        BY <3>2, <3>4
  <2> HIDE DEF S, R
  <2>3. m \in S
      BY <1>1, <2>1, <2>2, EveryNumber
  <2> USE DEF S
  <2>4. R(m)
      BY <2>3
  <2>5. m <= m
      BY <1>1
  <2> QED
      BY <2>4, <2>5, Zenon DEF R
<1>9. f[n] \in Seq(T)
    BY <1>1, <1>4 DEF Adds
<1> QED
    BY <1>4, <1>5, <1>6, <1>8, <1>9 DEF r

\* The first part comes first.
LEMMA FlattenFirst ==
    ASSUME NEW T, NEW e \in Seq(T), NEW q \in Seq(Seq(T))
    PROVE  FlattenSeq(<<e>> \o q) = e \o FlattenSeq(q)
<1>1. <<e>> \in Seq(Seq(T))
    OBVIOUS
<1>2. FlattenSeq(<<e>> \o q) = FlattenSeq(<<e>>) \o FlattenSeq(q)
    BY <1>1, FlattenConcat, Zenon
<1>3. FlattenSeq(<<e>>) = e
    BY FlattenOne
<1> QED
    BY <1>2, <1>3

\* A match of c, two blanks and = at place i; the matches taken are those that
\* do not begin with the end of one taken before; Kept drops their blanks.
MatchAt(text, c, i) ==
    /\ i + 3 <= Len(text)
    /\ text[i] = Sign(c) /\ text[i + 1] = Blank /\ text[i + 2] = Blank /\ text[i + 3] = Sign("=")

AreTaken(taken, text, c) ==
    /\ taken \in [DOMAIN text -> BOOLEAN]
    /\ \A i \in DOMAIN text : taken[i] <=> MatchAt(text, c, i) /\ (i > 3 => ~taken[i - 3])

Kept(text, taken) ==
    [i \in DOMAIN text |-> IF \E k \in {i - 2, i - 1} \cap DOMAIN text : taken[k] THEN <<>>
                                                                            ELSE <<text[i]>>]

LEMMA MatchIs ==
    ASSUME NEW T, NEW text \in Seq(T), NEW c, NEW i \in DOMAIN text
    PROVE  MatchAt(text, c, i) <=>
               /\ i + 3 <= Len(text)
               /\ SubSeq(text, i, i + 3) = <<Sign(c), Blank, Blank, Sign("=")>>
<1>1. i \in 1 .. Len(text) /\ Len(text) \in Nat
    BY LenProperties
<1> SUFFICES ASSUME i + 3 <= Len(text)
             PROVE  (/\ text[i] = Sign(c) /\ text[i + 1] = Blank /\ text[i + 2] = Blank
                     /\ text[i + 3] = Sign("="))
                    <=> SubSeq(text, i, i + 3) = <<Sign(c), Blank, Blank, Sign("=")>>
    BY DEF MatchAt
<1>2. PICK s : s = SubSeq(text, i, i + 3)
    OBVIOUS
<1>3. /\ s = [k \in 1 .. 4 |-> text[i + k - 1]]
  <2>1. SubSeq(text, i, i + 3) = [k \in 1 .. i + 3 - i + 1 |-> text[i + k - 1]]
      BY <1>1
  <2>2. i + 3 - i + 1 = 4
      BY <1>1
  <2> QED
      BY <1>2, <2>1, <2>2
<1>4. s[1] = text[i] /\ s[2] = text[i + 1] /\ s[3] = text[i + 2] /\ s[4] = text[i + 3]
  <2>1. s[1] = text[i + 1 - 1] /\ s[2] = text[i + 2 - 1] /\ s[3] = text[i + 3 - 1]
        /\ s[4] = text[i + 4 - 1]
      BY <1>3
  <2>2. i + 1 - 1 = i /\ i + 2 - 1 = i + 1 /\ i + 3 - 1 = i + 2 /\ i + 4 - 1 = i + 3
      BY <1>1
  <2> QED
      BY <2>1, <2>2
<1>5. s = <<s[1], s[2], s[3], s[4]>>
    BY <1>3
<1>6. ASSUME s = <<Sign(c), Blank, Blank, Sign("=")>>
      PROVE  s[1] = Sign(c) /\ s[2] = Blank /\ s[3] = Blank /\ s[4] = Sign("=")
    BY <1>6
<1>7. ASSUME s[1] = Sign(c), s[2] = Blank, s[3] = Blank, s[4] = Sign("=")
      PROVE  s = <<Sign(c), Blank, Blank, Sign("=")>>
    BY <1>5, <1>7
<1> QED
    BY <1>2, <1>4, <1>6, <1>7

\* The recursion of Rejoined takes such matches, and what it returns is a text.
LEMMA RejoinedKeeps ==
    ASSUME NEW T, NEW text \in Seq(T), NEW c
    PROVE  \E taken : AreTaken(taken, text, c) /\ Rejoined(text, c) = FlattenSeq(Kept(text, taken))
<1> DEFINE n == Len(text)
           Grown(g, m) == /\ g \in [1 .. m -> BOOLEAN]
                          /\ \A i \in 1 .. m : g[i] <=> MatchAt(text, c, i) /\ (i > 3 => ~g[i - 3])
           S == {m \in Nat : \E g : Grown(g, m)}
           isMatch(i) == /\ i + 3 <= Len(text)
                         /\ SubSeq(text, i, i + 3) = <<Sign(c), Blank, Blank, Sign("=")>>
           Eq(g) == g = [i \in DOMAIN text |-> isMatch(i) /\ (i > 3 => ~g[i - 3])]
<1>1. n \in Nat /\ DOMAIN text = 1 .. n
    BY LenProperties
<1>2. 0 \in S
  <2>1. Grown(<<>>, 0)
      OBVIOUS
  <2> QED
      BY <2>1
<1>3. ASSUME NEW m \in Nat, m \in S PROVE m + 1 \in S
  <2>1. PICK g : Grown(g, m)
      BY <1>3
  <2> DEFINE new == MatchAt(text, c, m + 1) /\ (m + 1 > 3 => ~g[m + 1 - 3])
             h == [i \in 1 .. m + 1 |-> IF i <= m THEN g[i] ELSE new]
  <2>2. h \in [1 .. m + 1 -> BOOLEAN]
    <3>1. new \in BOOLEAN
        OBVIOUS
    <3>2. \A i \in 1 .. m + 1 : i <= m => g[i] \in BOOLEAN
        BY <2>1
    <3> HIDE DEF new
    <3> QED
        BY <3>1, <3>2
  <2>3. ASSUME NEW i \in 1 .. m + 1
        PROVE  h[i] <=> MatchAt(text, c, i) /\ (i > 3 => ~h[i - 3])
    <3>1. i > 3 => i - 3 \in 1 .. m /\ h[i - 3] = g[i - 3]
        OBVIOUS
    <3>2. CASE i <= m
      <4>1. h[i] = g[i] /\ i \in 1 .. m
          BY <3>2
      <4>2. g[i] <=> MatchAt(text, c, i) /\ (i > 3 => ~g[i - 3])
          BY <2>1, <4>1
      <4> HIDE DEF h
      <4> QED
          BY <3>1, <4>1, <4>2
    <3>3. CASE ~(i <= m)
      <4>1. i = m + 1
          BY <3>3
      <4>2. h[i] = new
          BY <3>3
      <4>3. new <=> MatchAt(text, c, i) /\ (i > 3 => ~g[i - 3])
          BY <4>1
      <4> HIDE DEF h, new
      <4> QED
          BY <3>1, <4>2, <4>3
    <3> QED
        BY <3>2, <3>3
  <2>4. Grown(h, m + 1)
      BY <2>2, <2>3
  <2> HIDE DEF Grown, h
  <2>5. m + 1 \in Nat
      OBVIOUS
  <2> QED
      BY <2>4, <2>5
<1>4. n \in S
  <2> HIDE DEF S
  <2> QED
      BY <1>1, <1>2, <1>3, EveryNumber
<1>5. PICK g : Grown(g, n)
    BY <1>4, Zenon
<1>6. Eq(g)
  <2>1. ASSUME NEW i \in DOMAIN text
        PROVE  g[i] = (isMatch(i) /\ (i > 3 => ~g[i - 3]))
    <3>1. g[i] \in BOOLEAN /\ (g[i] <=> MatchAt(text, c, i) /\ (i > 3 => ~g[i - 3]))
        BY <1>1, <1>5
    <3>2. MatchAt(text, c, i) <=> isMatch(i)
        BY MatchIs
    <3> HIDE DEF isMatch
    <3> QED
        BY <3>1, <3>2, Zenon
  <2>2. g = [i \in DOMAIN text |-> g[i]]
      BY <1>1, <1>5
  <2> HIDE DEF isMatch
  <2> QED
      BY <2>1, <2>2, Zenon
<1>7. PICK taken : taken = CHOOSE t : Eq(t)
    OBVIOUS
<1>8. Eq(taken)
  <2> HIDE DEF Eq
  <2> QED
      BY <1>6, <1>7
<1>9. AreTaken(taken, text, c)
  <2>1. ASSUME NEW i \in DOMAIN text
        PROVE  taken[i] <=> MatchAt(text, c, i) /\ (i > 3 => ~taken[i - 3])
    <3>1. taken[i] = (isMatch(i) /\ (i > 3 => ~taken[i - 3]))
      <4> HIDE DEF isMatch
      <4> QED
          BY <1>8, Zenon
    <3>2. MatchAt(text, c, i) <=> isMatch(i)
        BY MatchIs
    <3> HIDE DEF isMatch
    <3> QED
        BY <3>1, <3>2, Zenon
  <2>2. taken \in [DOMAIN text -> BOOLEAN]
    <3> DEFINE value(i) == isMatch(i) /\ (i > 3 => ~taken[i - 3])
    <3>1. \A i \in DOMAIN text : value(i) \in BOOLEAN
        OBVIOUS
    <3>2. taken = [i \in DOMAIN text |-> value(i)]
        BY <1>8, Zenon
    <3> HIDE DEF value
    <3> QED
        BY <3>1, <3>2, Zenon
  <2> QED
      BY <2>1, <2>2 DEF AreTaken
<1>10. Rejoined(text, c) = FlattenSeq(Kept(text, taken))
    BY <1>7, Zenon DEF Rejoined, Kept
<1> QED
    BY <1>9, <1>10

\* The pieces of two texts one after the other.
LEMMA PiecesOf ==
    ASSUME NEW T, NEW a \in Seq(T), NEW b \in Seq(T)
    PROVE  /\ Len(a) \in Nat /\ Len(b) \in Nat
           /\ DOMAIN a = 1 .. Len(a) /\ DOMAIN b = 1 .. Len(b)
           /\ a \o b \in Seq(T)
           /\ Len(a \o b) = Len(a) + Len(b)
           /\ DOMAIN (a \o b) = 1 .. Len(a) + Len(b)
           /\ \A i \in 1 .. Len(a) : (a \o b)[i] = a[i]
           /\ \A i \in 1 .. Len(b) : (a \o b)[Len(a) + i] = b[i]
<1>1. Len(a) \in Nat /\ Len(b) \in Nat /\ DOMAIN a = 1 .. Len(a) /\ DOMAIN b = 1 .. Len(b)
    BY LenProperties
<1>2. /\ a \o b \in Seq(T)
      /\ Len(a \o b) = Len(a) + Len(b)
      /\ \A i \in 1 .. Len(a) + Len(b) : (a \o b)[i] = IF i <= Len(a) THEN a[i] ELSE b[i - Len(a)]
    BY ConcatProperties
<1>3. DOMAIN (a \o b) = 1 .. Len(a) + Len(b)
    BY <1>2, LenProperties
<1>4. ASSUME NEW i \in 1 .. Len(a) PROVE (a \o b)[i] = a[i]
  <2>1. i \in 1 .. Len(a) + Len(b) /\ i <= Len(a)
      BY <1>1
  <2> QED
      BY <1>2, <2>1
<1>5. ASSUME NEW i \in 1 .. Len(b) PROVE (a \o b)[Len(a) + i] = b[i]
  <2>1. Len(a) + i \in 1 .. Len(a) + Len(b) /\ ~(Len(a) + i <= Len(a)) /\ (Len(a) + i) - Len(a) = i
      BY <1>1
  <2> QED
      BY <1>2, <2>1
<1> QED
    BY <1>1, <1>2, <1>3, <1>4, <1>5

\* The parts that Kept leaves are texts.
LEMMA KeptParts ==
    ASSUME NEW T, NEW text \in Seq(T), NEW taken
    PROVE  /\ Kept(text, taken) \in Seq(Seq(T))
           /\ Len(Kept(text, taken)) = Len(text)
<1>1. Len(text) \in Nat /\ DOMAIN text = 1 .. Len(text) /\ \A i \in 1 .. Len(text) : text[i] \in T
    BY LenProperties
<1>2. \A i \in 1 .. Len(text) : <<>> \in Seq(T) /\ <<text[i]>> \in Seq(T)
    BY <1>1
<1>3. Kept(text, taken) \in [1 .. Len(text) -> Seq(T)]
    BY <1>1, <1>2 DEF Kept
<1>4. Kept(text, taken) \in Seq(Seq(T))
    BY <1>1, <1>3, SeqDef
<1> QED
    BY <1>1, <1>3, <1>4, LenProperties

\* Two texts are rejoined apart from each other if no match is taken that
\* begins in the first one and ends in the second.
LEMMA RejoinedApart ==
    ASSUME NEW T, NEW a \in Seq(T), NEW b \in Seq(T), NEW c,
           \A taken : AreTaken(taken, a \o b, c)
               => \A i \in 1 .. Len(a) : i + 3 > Len(a) => ~taken[i]
    PROVE  /\ Rejoined(a, c) \in Seq(T)
           /\ Rejoined(a \o b, c) = Rejoined(a, c) \o Rejoined(b, c)
<1> DEFINE n == Len(a)
           m == Len(b)
           ab == a \o b
<1>1. /\ n \in Nat /\ m \in Nat
      /\ DOMAIN a = 1 .. n /\ DOMAIN b = 1 .. m
      /\ ab \in Seq(T) /\ Len(ab) = n + m /\ DOMAIN ab = 1 .. n + m
      /\ \A i \in 1 .. n : ab[i] = a[i]
      /\ \A i \in 1 .. m : ab[n + i] = b[i]
    BY PiecesOf
<1>2. PICK t : AreTaken(t, ab, c) /\ Rejoined(ab, c) = FlattenSeq(Kept(ab, t))
    BY <1>1, RejoinedKeeps
<1>3. PICK ta : AreTaken(ta, a, c) /\ Rejoined(a, c) = FlattenSeq(Kept(a, ta))
    BY RejoinedKeeps
<1>4. PICK tb : AreTaken(tb, b, c) /\ Rejoined(b, c) = FlattenSeq(Kept(b, tb))
    BY RejoinedKeeps
<1>5. \A i \in 1 .. n : i + 3 > n => ~t[i]
    BY <1>2
<1> HIDE DEF n, m, ab
<1>6. ASSUME NEW i \in 1 .. n PROVE MatchAt(a, c, i) <=> i + 3 <= n /\ MatchAt(ab, c, i)
  <2>1. CASE i + 3 <= n
    <3>1. i + 1 \in 1 .. n /\ i + 2 \in 1 .. n /\ i + 3 \in 1 .. n /\ i + 3 <= n + m
        BY <1>1, <2>1
    <3>2. ab[i] = a[i] /\ ab[i + 1] = a[i + 1] /\ ab[i + 2] = a[i + 2] /\ ab[i + 3] = a[i + 3]
        BY <1>1, <3>1
    <3> QED
        BY <1>1, <2>1, <3>1, <3>2 DEF MatchAt, n
  <2>2. CASE ~(i + 3 <= n)
      BY <2>2 DEF MatchAt, n
  <2> QED
      BY <2>1, <2>2
<1>7. ASSUME NEW i \in 1 .. m PROVE MatchAt(b, c, i) <=> MatchAt(ab, c, n + i)
  <2>1. CASE i + 3 <= m
    <3>1. i + 1 \in 1 .. m /\ i + 2 \in 1 .. m /\ i + 3 \in 1 .. m
        BY <1>1, <2>1
    <3>2. /\ ab[n + i] = b[i] /\ ab[n + (i + 1)] = b[i + 1] /\ ab[n + (i + 2)] = b[i + 2]
          /\ ab[n + (i + 3)] = b[i + 3]
        BY <1>1, <3>1
    <3>3. n + (i + 1) = n + i + 1 /\ n + (i + 2) = n + i + 2 /\ n + (i + 3) = n + i + 3
          /\ n + i + 3 <= n + m
        BY <1>1, <2>1
    <3> QED
        BY <1>1, <2>1, <3>2, <3>3 DEF MatchAt, m
  <2>2. CASE ~(i + 3 <= m)
    <3>1. ~(n + i + 3 <= n + m)
        BY <1>1, <2>2
    <3> QED
        BY <1>1, <2>2, <3>1 DEF MatchAt, m
  <2> QED
      BY <2>1, <2>2
<1>8. /\ \A i \in 1 .. n : t[i] \in BOOLEAN /\ ta[i] \in BOOLEAN
      /\ \A i \in 1 .. n : t[i] <=> MatchAt(ab, c, i) /\ (i > 3 => ~t[i - 3])
      /\ \A i \in 1 .. n : ta[i] <=> MatchAt(a, c, i) /\ (i > 3 => ~ta[i - 3])
  <2>1. \A i \in 1 .. n : i \in DOMAIN ab /\ i \in DOMAIN a
      BY <1>1
  <2> QED
      BY <1>2, <1>3, <2>1 DEF AreTaken
<1>9. /\ \A i \in 1 .. m : t[n + i] \in BOOLEAN /\ tb[i] \in BOOLEAN
      /\ \A i \in 1 .. m : t[n + i] <=> MatchAt(ab, c, n + i) /\ (n + i > 3 => ~t[n + i - 3])
      /\ \A i \in 1 .. m : tb[i] <=> MatchAt(b, c, i) /\ (i > 3 => ~tb[i - 3])
  <2> SUFFICES ASSUME NEW i \in 1 .. m
               PROVE  /\ t[n + i] \in BOOLEAN /\ tb[i] \in BOOLEAN
                      /\ t[n + i] <=> MatchAt(ab, c, n + i) /\ (n + i > 3 => ~t[n + i - 3])
                      /\ tb[i] <=> MatchAt(b, c, i) /\ (i > 3 => ~tb[i - 3])
      OBVIOUS
  <2>1. n + i \in DOMAIN ab /\ i \in DOMAIN b
      BY <1>1
  <2>2. t[n + i] \in BOOLEAN /\ (t[n + i] <=> MatchAt(ab, c, n + i) /\ (n + i > 3 => ~t[n + i - 3]))
    <3>1. PICK j \in DOMAIN ab : j = n + i
        BY <2>1
    <3>3. j - 3 = n + i - 3 /\ j - 2 = n + i - 2 /\ j - 1 = n + i - 1 /\ (j > 3 <=> n + i > 3)
        BY <1>1, <3>1
    <3>2. t[j] \in BOOLEAN /\ (t[j] <=> MatchAt(ab, c, j) /\ (j > 3 => ~t[j - 3]))
        BY <1>2, <3>1 DEF AreTaken
    <3>4. t[n + i] \in BOOLEAN /\ (t[n + i] <=> MatchAt(ab, c, n + i) /\ (j > 3 => ~t[j - 3]))
        BY <3>1, <3>2
    <3> QED
        BY <3>3, <3>4
  <2>3. tb[i] \in BOOLEAN /\ (tb[i] <=> MatchAt(b, c, i) /\ (i > 3 => ~tb[i - 3]))
      BY <1>4, <2>1 DEF AreTaken
  <2> QED
      BY <2>2, <2>3
<1>10. \A i \in 1 .. n : t[i] <=> ta[i]
  <2> DEFINE Same(k) == \A i \in 1 .. n : i <= k => (t[i] <=> ta[i])
             S == {k \in Nat : Same(k)}
  <2>1. Same(0)
      BY <1>1
  <2>2. ASSUME NEW k \in Nat, Same(k) PROVE Same(k + 1)
    <3> SUFFICES ASSUME NEW i \in 1 .. n, i <= k + 1 PROVE t[i] <=> ta[i]
        OBVIOUS
    <3>1. i > 3 => i - 3 \in 1 .. n /\ i - 3 <= k
        BY <1>1
    <3>2. i > 3 => (t[i - 3] <=> ta[i - 3])
        BY <2>2, <3>1
    <3>3. t[i] <=> MatchAt(ab, c, i) /\ (i > 3 => ~t[i - 3])
        BY <1>8
    <3>4. ta[i] <=> MatchAt(a, c, i) /\ (i > 3 => ~ta[i - 3])
        BY <1>8
    <3>5. i + 3 <= n \/ ~t[i]
        BY <1>1, <1>5
    <3> QED
        BY <1>6, <3>2, <3>3, <3>4, <3>5
  <2> HIDE DEF Same
  <2>3. 0 \in S /\ \A k \in Nat : k \in S => k + 1 \in S
      BY <2>1, <2>2
  <2> HIDE DEF S
  <2>4. n \in S
      BY <1>1, <2>3, EveryNumber
  <2> USE DEF S, Same
  <2> QED
      BY <1>1, <2>4
<1>11. \A i \in 1 .. m : t[n + i] <=> tb[i]
  <2> DEFINE Same(k) == \A i \in 1 .. m : i <= k => (t[n + i] <=> tb[i])
             S == {k \in Nat : Same(k)}
  <2>1. Same(0)
      BY <1>1
  <2>2. ASSUME NEW k \in Nat, Same(k) PROVE Same(k + 1)
    <3> SUFFICES ASSUME NEW i \in 1 .. m, i <= k + 1 PROVE t[n + i] <=> tb[i]
        OBVIOUS
    <3>1. i > 3 => i - 3 \in 1 .. m /\ i - 3 <= k /\ n + (i - 3) = n + i - 3
        BY <1>1
    <3>2. i > 3 => (t[n + i - 3] <=> tb[i - 3])
        BY <2>2, <3>1
    <3>3. t[n + i] <=> MatchAt(ab, c, n + i) /\ (n + i > 3 => ~t[n + i - 3])
        BY <1>9
    <3>4. tb[i] <=> MatchAt(b, c, i) /\ (i > 3 => ~tb[i - 3])
        BY <1>9
    <3>5. n + i > 3 /\ ~(i > 3) => ~t[n + i - 3]
      <4>1. n + i > 3 /\ ~(i > 3) => n + i - 3 \in 1 .. n /\ (n + i - 3) + 3 > n
          BY <1>1
      <4> QED
          BY <1>5, <4>1
    <3>6. i > 3 => n + i > 3
        BY <1>1
    <3> QED
        BY <1>7, <3>2, <3>3, <3>4, <3>5, <3>6
  <2> HIDE DEF Same
  <2>3. 0 \in S /\ \A k \in Nat : k \in S => k + 1 \in S
      BY <2>1, <2>2
  <2> HIDE DEF S
  <2>4. m \in S
      BY <1>1, <2>3, EveryNumber
  <2> USE DEF S, Same
  <2> QED
      BY <1>1, <2>4
<1>12. /\ Kept(a, ta) \in Seq(Seq(T)) /\ Kept(b, tb) \in Seq(Seq(T)) /\ Kept(ab, t) \in Seq(Seq(T))
       /\ Len(Kept(a, ta)) = n /\ Len(Kept(b, tb)) = m /\ Len(Kept(ab, t)) = n + m
    BY <1>1, KeptParts DEF n, m
<1>13. ASSUME NEW i \in 1 .. n PROVE Kept(ab, t)[i] = Kept(a, ta)[i]
  <2>1. i \in DOMAIN ab /\ i \in DOMAIN a /\ ab[i] = a[i]
      BY <1>1
  <2>2. \A k \in {i - 2, i - 1} : /\ k \in DOMAIN ab <=> k \in DOMAIN a
                                  /\ k \in DOMAIN a => k \in 1 .. n
      BY <1>1
  <2>3. (\E k \in {i - 2, i - 1} \cap DOMAIN ab : t[k])
        <=> (\E k \in {i - 2, i - 1} \cap DOMAIN a : ta[k])
      BY <1>10, <2>2
  <2> QED
      BY <2>1, <2>3 DEF Kept
<1>14. ASSUME NEW i \in 1 .. m PROVE Kept(ab, t)[n + i] = Kept(b, tb)[i]
  <2>1. n + i \in DOMAIN ab /\ i \in DOMAIN b /\ ab[n + i] = b[i]
      BY <1>1
  <2>2. ASSUME NEW k \in {n + i - 2, n + i - 1} \cap DOMAIN ab, t[k]
        PROVE  k - n \in {i - 2, i - 1} \cap DOMAIN b /\ tb[k - n]
    <3>1. k \in 1 .. n + m /\ k \in Int /\ (k = n + i - 2 \/ k = n + i - 1)
        BY <1>1, <2>2
    <3>2. ~(k \in 1 .. n /\ k + 3 > n)
        BY <1>5, <2>2
    <3>3. k - n \in 1 .. m /\ n + (k - n) = k /\ (k - n = i - 2 \/ k - n = i - 1)
        BY <1>1, <3>1, <3>2
    <3>4. tb[k - n]
        BY <1>11, <2>2, <3>3
    <3> QED
        BY <1>1, <3>3, <3>4
  <2>3. ASSUME NEW k \in {i - 2, i - 1} \cap DOMAIN b, tb[k]
        PROVE  n + k \in {n + i - 2, n + i - 1} \cap DOMAIN ab /\ t[n + k]
    <3>1. k \in 1 .. m /\ (k = i - 2 \/ k = i - 1)
        BY <1>1, <2>3
    <3>2. n + k \in 1 .. n + m /\ (n + k = n + i - 2 \/ n + k = n + i - 1)
        BY <1>1, <3>1
    <3>3. t[n + k]
        BY <1>11, <2>3, <3>1
    <3> QED
        BY <1>1, <3>2, <3>3
  <2>4. (\E k \in {n + i - 2, n + i - 1} \cap DOMAIN ab : t[k])
        <=> (\E k \in {i - 2, i - 1} \cap DOMAIN b : tb[k])
    <3> HIDE DEF ab
    <3> QED
        BY <2>2, <2>3
  <2>5. Kept(ab, t)[n + i] = IF \E k \in {n + i - 2, n + i - 1} \cap DOMAIN ab : t[k] THEN <<>>
                                                                                  ELSE <<ab[n + i]>>
    <3>1. PICK j \in DOMAIN ab : j = n + i
        BY <2>1
    <3>3. j - 3 = n + i - 3 /\ j - 2 = n + i - 2 /\ j - 1 = n + i - 1 /\ (j > 3 <=> n + i > 3)
        BY <1>1, <3>1
    <3>2. Kept(ab, t)[j] = IF \E k \in {j - 2, j - 1} \cap DOMAIN ab : t[k] THEN <<>> ELSE <<ab[j]>>
        BY <3>1 DEF Kept
    <3> QED
        BY <3>1, <3>2, <3>3
  <2>6. Kept(b, tb)[i] = IF \E k \in {i - 2, i - 1} \cap DOMAIN b : tb[k] THEN <<>> ELSE <<b[i]>>
      BY <2>1 DEF Kept
  <2> QED
      BY <2>1, <2>4, <2>5, <2>6
<1>15. Kept(ab, t) = Kept(a, ta) \o Kept(b, tb)
  <2> DEFINE p == Kept(a, ta)
             q == Kept(b, tb)
             r == Kept(ab, t)
  <2>1. /\ p \o q \in Seq(Seq(T)) /\ Len(p \o q) = n + m
        /\ \A i \in 1 .. n : (p \o q)[i] = p[i]
        /\ \A i \in 1 .. m : (p \o q)[n + i] = q[i]
    <3>1. p \in Seq(Seq(T)) /\ q \in Seq(Seq(T)) /\ Len(p) = n /\ Len(q) = m
        BY <1>12
    <3>2. PICK U : U = Seq(T)
        OBVIOUS
    <3> HIDE DEF p, q
    <3>3. p \in Seq(U) /\ q \in Seq(U)
        BY <3>1, <3>2
    <3>4. /\ p \o q \in Seq(U) /\ Len(p \o q) = Len(p) + Len(q)
          /\ \A i \in 1 .. Len(p) : (p \o q)[i] = p[i]
          /\ \A i \in 1 .. Len(q) : (p \o q)[Len(p) + i] = q[i]
        BY <3>3, PiecesOf
    <3> QED
        BY <3>1, <3>2, <3>4
  <2>2. r \in Seq(Seq(T)) /\ Len(r) = n + m
      BY <1>12
  <2>3. ASSUME NEW i \in 1 .. n + m PROVE r[i] = (p \o q)[i]
    <3>1. CASE i <= n
      <4>1. i \in 1 .. n
          BY <1>1, <3>1
      <4> QED
          BY <1>13, <2>1, <4>1
    <3>2. CASE ~(i <= n)
      <4>1. i - n \in 1 .. m /\ n + (i - n) = i
          BY <1>1, <3>2
      <4>2. r[n + (i - n)] = q[i - n] /\ (p \o q)[n + (i - n)] = q[i - n]
          BY <1>14, <2>1, <4>1
      <4> QED
          BY <4>1, <4>2
    <3> QED
        BY <3>1, <3>2
  <2> HIDE DEF p, q, r
  <2>4. r = p \o q
      BY <2>1, <2>2, <2>3, SeqEqual
  <2> QED
      BY <2>4 DEF p, q, r
<1>16. FlattenSeq(Kept(ab, t)) = FlattenSeq(Kept(a, ta)) \o FlattenSeq(Kept(b, tb))
    BY <1>12, <1>15, FlattenConcat
<1>17. FlattenSeq(Kept(a, ta)) \in Seq(T)
    BY <1>12, FlattenConcat
<1> QED
    BY <1>2, <1>3, <1>4, <1>16, <1>17 DEF ab

\* The pieces of a text, each a part of its own, are the text.
LEMMA FlattenSingles ==
    ASSUME NEW T, NEW text \in Seq(T)
    PROVE  FlattenSeq([i \in DOMAIN text |-> <<text[i]>>]) = text
<1> DEFINE n == Len(text)
           q == [i \in DOMAIN text |-> <<text[i]>>]
<1>1. n \in Nat /\ DOMAIN text = 1 .. n /\ \A i \in 1 .. n : text[i] \in T
    BY LenProperties
<1>2. q \in [1 .. n -> Seq(T)] /\ \A i \in 1 .. n : q[i] = <<text[i]>>
    BY <1>1
<1> HIDE DEF n, q
<1>3. PICK f : Adds(f, q, n, T) /\ FlattenSeq(q) = f[n]
    BY <1>1, <1>2, FlattenSum
<1> DEFINE R(k) == k <= n => f[k] = SubSeq(text, 1, k)
           S == {k \in Nat : R(k)}
<1>4. R(0)
    BY <1>3 DEF Adds
<1>5. ASSUME NEW k \in Nat, R(k) PROVE R(k + 1)
  <2> SUFFICES ASSUME k + 1 <= n PROVE f[k + 1] = SubSeq(text, 1, k + 1)
      OBVIOUS
  <2>1. k + 1 \in 1 .. n /\ (k + 1) - 1 = k /\ k <= n /\ 1 \in 1 .. n
      BY <1>1
  <2>2. f[k + 1] = f[k] \o <<text[k + 1]>> /\ f[k] = SubSeq(text, 1, k)
      BY <1>2, <1>3, <1>5, <2>1 DEF Adds
  <2>3. SubSeq(text, 1, k + 1) = SubSeq(text, 1, k) \o <<text[k + 1]>>
    <3>1. 1 \in 1 .. Len(text) /\ k + 1 \in 1 .. Len(text)
        BY <2>1 DEF n
    <3>2. SubSeq(text, 1, k + 1) = SubSeq(text, 1, (k + 1) - 1) \o <<text[k + 1]>>
        BY <3>1, SubSeqRecursiveSecond
    <3> QED
        BY <2>1, <3>2
  <2> QED
      BY <2>2, <2>3
<1> HIDE DEF R
<1>6. 0 \in S /\ \A k \in Nat : k \in S => k + 1 \in S
    BY <1>4, <1>5
<1> HIDE DEF S
<1>7. n \in S
    BY <1>1, <1>6, EveryNumber
<1>8. R(n)
    BY <1>7 DEF S
<1>9. n <= n
    BY <1>1
<1>10. f[n] = SubSeq(text, 1, n)
    BY <1>8, <1>9, Zenon DEF R
<1>11. SubSeq(text, 1, n) = text
    BY SubSeqFull DEF n
<1> QED
    BY <1>3, <1>10, <1>11 DEF q

\* The text where a match of c is taken nowhere stays as it is.
LEMMA NothingJoins ==
    ASSUME NEW T, NEW text \in Seq(T), NEW c, \A i \in DOMAIN text : ~MatchAt(text, c, i)
    PROVE  Rejoined(text, c) = text
<1>1. PICK taken : AreTaken(taken, text, c) /\ Rejoined(text, c) = FlattenSeq(Kept(text, taken))
    BY RejoinedKeeps
<1>2. \A i \in DOMAIN text : ~taken[i]
    BY <1>1 DEF AreTaken
<1>3. Kept(text, taken) = [i \in DOMAIN text |-> <<text[i]>>]
    BY <1>2 DEF Kept
<1> QED
    BY <1>1, <1>3, FlattenSingles

\* Short texts, piece by piece.
Four(u, v, w, z) == <<u>> \o (<<v>> \o (<<w>> \o <<z>>)) = <<u, v, w, z>>

LEMMA Tuples ==
    ASSUME NEW u, NEW v, NEW w, NEW z
    PROVE  /\ <<w>> \o <<z>> = <<w, z>>
           /\ <<v>> \o <<w, z>> = <<v, w, z>>
           /\ <<u>> \o <<v, w, z>> = <<u, v, w, z>>
           /\ Four(u, v, w, z)
<1> DEFINE T == {u, v, w, z}
<1>1. /\ <<u>> \in Seq(T) /\ <<v>> \in Seq(T) /\ <<w>> \in Seq(T) /\ <<z>> \in Seq(T)
      /\ <<w, z>> \in Seq(T) /\ <<v, w, z>> \in Seq(T) /\ <<u, v, w, z>> \in Seq(T)
    OBVIOUS
<1>2. /\ Len(<<u>>) = 1 /\ Len(<<v>>) = 1 /\ Len(<<w>>) = 1 /\ Len(<<z>>) = 1
      /\ Len(<<w, z>>) = 2 /\ Len(<<v, w, z>>) = 3 /\ Len(<<u, v, w, z>>) = 4
    OBVIOUS
<1>3. <<w>> \o <<z>> = <<w, z>>
  <2>1. PICK p, q, s : p = <<w>> /\ q = <<z>> /\ s = <<w, z>>
      OBVIOUS
  <2>2. /\ p \in Seq(T) /\ q \in Seq(T) /\ s \in Seq(T)
        /\ Len(p) = 1 /\ Len(q) = 1 /\ Len(s) = 2
      BY <1>1, <1>2, <2>1
  <2>3. /\ p[1] = w /\ q[1] = z
        /\ s[1] = w /\ s[2] = z
      BY <2>1
  <2>4. /\ p \o q \in Seq(T) /\ Len(p \o q) = 2
        /\ \A i \in 1 .. 2 : (p \o q)[i] = IF i <= 1 THEN p[i] ELSE q[i - 1]
    <3>1. p \o q \in Seq(T) /\ Len(p \o q) = Len(p) + Len(q)
        BY <2>2, ConcatProperties
    <3>2. \A i \in 1 .. Len(p) + Len(q) : (p \o q)[i] = IF i <= Len(p) THEN p[i] ELSE q[i - Len(p)]
      <4> HIDE DEF T
      <4> QED
          BY <2>2, ConcatProperties
    <3> QED
        BY <2>2, <3>1, <3>2
  <2>5. \A i \in 1 .. 2 : i = 1 \/ i = 2
      OBVIOUS
  <2>6. \A i \in 1 .. 2 : (p \o q)[i] = s[i]
      BY <2>3, <2>4, <2>5
  <2> QED
      BY <2>1, <2>2, <2>4, <2>6, SeqEqual, ZenonT(40)
<1>4. <<v>> \o <<w, z>> = <<v, w, z>>
  <2>1. PICK p, q, s : p = <<v>> /\ q = <<w, z>> /\ s = <<v, w, z>>
      OBVIOUS
  <2>2. /\ p \in Seq(T) /\ q \in Seq(T) /\ s \in Seq(T)
        /\ Len(p) = 1 /\ Len(q) = 2 /\ Len(s) = 3
      BY <1>1, <1>2, <2>1
  <2>3. /\ p[1] = v /\ q[1] = w /\ q[2] = z
        /\ s[1] = v /\ s[2] = w /\ s[3] = z
      BY <2>1
  <2>4. /\ p \o q \in Seq(T) /\ Len(p \o q) = 3
        /\ \A i \in 1 .. 3 : (p \o q)[i] = IF i <= 1 THEN p[i] ELSE q[i - 1]
    <3>1. p \o q \in Seq(T) /\ Len(p \o q) = Len(p) + Len(q)
        BY <2>2, ConcatProperties
    <3>2. \A i \in 1 .. Len(p) + Len(q) : (p \o q)[i] = IF i <= Len(p) THEN p[i] ELSE q[i - Len(p)]
      <4> HIDE DEF T
      <4> QED
          BY <2>2, ConcatProperties
    <3> QED
        BY <2>2, <3>1, <3>2
  <2>5. \A i \in 1 .. 3 : i = 1 \/ i = 2 \/ i = 3
      OBVIOUS
  <2>6. \A i \in 1 .. 3 : (p \o q)[i] = s[i]
      BY <2>3, <2>4, <2>5
  <2> QED
      BY <2>1, <2>2, <2>4, <2>6, SeqEqual
<1>5. <<u>> \o <<v, w, z>> = <<u, v, w, z>>
  <2>1. PICK p, q, s : p = <<u>> /\ q = <<v, w, z>> /\ s = <<u, v, w, z>>
      OBVIOUS
  <2>2. /\ p \in Seq(T) /\ q \in Seq(T) /\ s \in Seq(T)
        /\ Len(p) = 1 /\ Len(q) = 3 /\ Len(s) = 4
      BY <1>1, <1>2, <2>1
  <2>3. /\ p[1] = u /\ q[1] = v /\ q[2] = w /\ q[3] = z
        /\ s[1] = u /\ s[2] = v /\ s[3] = w /\ s[4] = z
      BY <2>1
  <2>4. /\ p \o q \in Seq(T) /\ Len(p \o q) = 4
        /\ \A i \in 1 .. 4 : (p \o q)[i] = IF i <= 1 THEN p[i] ELSE q[i - 1]
    <3>1. p \o q \in Seq(T) /\ Len(p \o q) = Len(p) + Len(q)
        BY <2>2, ConcatProperties
    <3>2. \A i \in 1 .. Len(p) + Len(q) : (p \o q)[i] = IF i <= Len(p) THEN p[i] ELSE q[i - Len(p)]
      <4> HIDE DEF T
      <4> QED
          BY <2>2, ConcatProperties
    <3> QED
        BY <2>2, <3>1, <3>2
  <2>5. \A i \in 1 .. 4 : i = 1 \/ i = 2 \/ i = 3 \/ i = 4
      OBVIOUS
  <2>6. \A i \in 1 .. 4 : (p \o q)[i] = s[i]
      BY <2>3, <2>4, <2>5, SMTT(40)
  <2> QED
      BY <2>1, <2>2, <2>4, <2>6, SeqEqual
<1> QED
    BY <1>3, <1>4, <1>5 DEF Four

\* c, two blanks and = are rejoined.
LEMMA OneJoins ==
    ASSUME NEW c
    PROVE  Rejoined(<<Sign(c), Blank, Blank, Sign("=")>>, c) = <<Sign(c), Sign("=")>>
<1> DEFINE text == <<Sign(c), Blank, Blank, Sign("=")>>
           T == {Sign(c), Blank, Sign("=")}
<1>1. text \in Seq(T) /\ Len(text) = 4 /\ DOMAIN text = 1 .. 4
      /\ text[1] = Sign(c) /\ text[2] = Blank /\ text[3] = Blank /\ text[4] = Sign("=")
    OBVIOUS
<1>2. PICK taken : AreTaken(taken, text, c) /\ Rejoined(text, c) = FlattenSeq(Kept(text, taken))
    BY <1>1, RejoinedKeeps
<1>3. taken[1] /\ ~taken[2] /\ ~taken[3] /\ ~taken[4]
  <2>1. MatchAt(text, c, 1) /\ ~MatchAt(text, c, 2) /\ ~MatchAt(text, c, 3) /\ ~MatchAt(text, c, 4)
      BY <1>1 DEF MatchAt
  <2> HIDE DEF text
  <2> QED
      BY <1>1, <1>2, <2>1 DEF AreTaken
<1>4. Kept(text, taken) = <<<<text[1]>>, <<>>, <<>>, <<text[4]>>>>
  <2> HIDE DEF text
  <2>1. Kept(text, taken)[1] = <<text[1]>>
      BY <1>1 DEF Kept
  <2>2. Kept(text, taken)[2] = <<>>
    <3>1. 1 \in {2 - 2, 2 - 1} \cap DOMAIN text
        BY <1>1
    <3>2. Kept(text, taken)[2] = IF \E k \in {2 - 2, 2 - 1} \cap DOMAIN text : taken[k]
                                 THEN <<>> ELSE <<text[2]>>
      <4>1. PICK j \in DOMAIN text : j = 2
          BY <1>1
      <4>2. Kept(text, taken)[j] = IF \E k \in {j - 2, j - 1} \cap DOMAIN text : taken[k]
                                   THEN <<>> ELSE <<text[j]>>
          BY <4>1 DEF Kept
      <4> QED
          BY <4>1, <4>2
    <3> QED
        BY <1>3, <3>1, <3>2, Zenon
  <2>3. Kept(text, taken)[3] = <<>>
    <3>1. 1 \in {3 - 2, 3 - 1} \cap DOMAIN text
        BY <1>1
    <3>2. Kept(text, taken)[3] = IF \E k \in {3 - 2, 3 - 1} \cap DOMAIN text : taken[k]
                                 THEN <<>> ELSE <<text[3]>>
      <4>1. PICK j \in DOMAIN text : j = 3
          BY <1>1
      <4>2. Kept(text, taken)[j] = IF \E k \in {j - 2, j - 1} \cap DOMAIN text : taken[k]
                                   THEN <<>> ELSE <<text[j]>>
          BY <4>1 DEF Kept
      <4> QED
          BY <4>1, <4>2
    <3> QED
        BY <1>3, <3>1, <3>2, Zenon
  <2>4. Kept(text, taken)[4] = <<text[4]>>
      BY <1>1, <1>3 DEF Kept
  <2>5. PICK k : k = Kept(text, taken)
      OBVIOUS
  <2>6. k = [i \in 1 .. 4 |-> k[i]]
      BY <1>1, <2>5 DEF Kept
  <2>7. k = <<k[1], k[2], k[3], k[4]>>
      BY <2>6
  <2> QED
      BY <2>1, <2>2, <2>3, <2>4, <2>5, <2>7
<1>5. PICK x, y : x = <<text[1]>> /\ y = <<text[4]>> /\ x \in Seq(T) /\ y \in Seq(T)
  <2>1. Sign(c) \in T /\ Sign("=") \in T
      OBVIOUS
  <2> HIDE DEF T, text
  <2>2. <<text[1]>> \in Seq(T) /\ <<text[4]>> \in Seq(T)
      BY <1>1, <2>1
  <2> QED
      BY <2>2
<1>6. /\ <<>> \in Seq(T) /\ <<y>> \in Seq(Seq(T)) /\ <<<<>>, y>> \in Seq(Seq(T))
      /\ <<<<>>, <<>>, y>> \in Seq(Seq(T))
    BY <1>5
<1>7. /\ <<x>> \o <<<<>>, <<>>, y>> = <<x, <<>>, <<>>, y>>
      /\ <<<<>>>> \o <<<<>>, y>> = <<<<>>, <<>>, y>>
      /\ <<<<>>>> \o <<y>> = <<<<>>, y>>
    BY Tuples
<1> HIDE DEF T, text
<1>8. FlattenSeq(<<<<>>, y>>) = y
  <2>1. FlattenSeq(<<<<>>, y>>) = <<>> \o FlattenSeq(<<y>>)
      BY <1>6, <1>7, FlattenFirst
  <2> QED
      BY <1>5, <2>1, FlattenOne, Concat
<1>9. FlattenSeq(<<<<>>, <<>>, y>>) = y
  <2>1. FlattenSeq(<<<<>>, <<>>, y>>) = <<>> \o FlattenSeq(<<<<>>, y>>)
      BY <1>6, <1>7, FlattenFirst
  <2> QED
      BY <1>5, <1>8, <2>1, Concat
<1>10. FlattenSeq(<<x, <<>>, <<>>, y>>) = x \o y
  <2>1. FlattenSeq(<<x>> \o <<<<>>, <<>>, y>>) = x \o FlattenSeq(<<<<>>, <<>>, y>>)
      BY <1>5, <1>6, FlattenFirst
  <2> QED
      BY <1>7, <1>9, <2>1
<1>11. x \o y = <<Sign(c), Sign("=")>>
  <2>1. x = <<Sign(c)>> /\ y = <<Sign("=")>>
      BY <1>1, <1>5
  <2> QED
      BY <2>1, Tuples
<1> QED
    BY <1>2, <1>4, <1>5, <1>10, <1>11 DEF text

\* Spaced adds up the pieces of a text.
Pieces(x) == IF x \in Signs THEN <<Blank, x, Blank>> ELSE <<x>>

\* Spaced works piece by piece, so that texts may be joined before or after it.
LEMMA SpacedIs ==
    ASSUME NEW T, Blank \in T
    PROVE  /\ Spaced(<<>>) = <<>>
           /\ \A x \in T : Spaced(<<x>>) = Pieces(x)
           /\ \A a, b \in Seq(T) :
                  Spaced(a) \in Seq(T) /\ Spaced(a \o b) = Spaced(a) \o Spaced(b)
<1> DEFINE Parts(text) == [i \in DOMAIN text |-> Pieces(text[i])]
<1>1. \A text : Spaced(text) = FlattenSeq(Parts(text))
    BY DEF Spaced, Pieces
<1>2. \A x \in T : Pieces(x) \in Seq(T)
    BY DEF Pieces
<1>3. ASSUME NEW a \in Seq(T) PROVE Parts(a) \in Seq(Seq(T)) /\ Len(Parts(a)) = Len(a)
  <2>1. Len(a) \in Nat /\ DOMAIN a = 1 .. Len(a) /\ \A i \in 1 .. Len(a) : a[i] \in T
      BY LenProperties
  <2>2. Parts(a) \in [1 .. Len(a) -> Seq(T)]
      BY <1>2, <2>1
  <2>3. Parts(a) \in Seq(Seq(T))
      BY <2>1, <2>2, SeqDef
  <2> QED
      BY <2>1, <2>2, <2>3, LenProperties
<1>4. ASSUME NEW a \in Seq(T), NEW b \in Seq(T) PROVE Parts(a \o b) = Parts(a) \o Parts(b)
  <2>1. /\ Len(a) \in Nat /\ Len(b) \in Nat
        /\ DOMAIN a = 1 .. Len(a) /\ DOMAIN b = 1 .. Len(b)
        /\ a \o b \in Seq(T)
        /\ Len(a \o b) = Len(a) + Len(b)
        /\ DOMAIN (a \o b) = 1 .. Len(a) + Len(b)
        /\ \A i \in 1 .. Len(a) : (a \o b)[i] = a[i]
        /\ \A i \in 1 .. Len(b) : (a \o b)[Len(a) + i] = b[i]
      BY PiecesOf
  <2>2. PICK U : U = Seq(T)
      OBVIOUS
  <2>3. PICK p, q, r : p = Parts(a) /\ q = Parts(b) /\ r = Parts(a \o b)
      OBVIOUS
  <2>4. /\ p \in Seq(U) /\ q \in Seq(U) /\ r \in Seq(U)
        /\ Len(p) = Len(a) /\ Len(q) = Len(b) /\ Len(r) = Len(a) + Len(b)
      BY <1>3, <2>1, <2>2, <2>3
  <2>5. /\ p \o q \in Seq(U) /\ Len(p \o q) = Len(p) + Len(q)
        /\ \A i \in 1 .. Len(p) : (p \o q)[i] = p[i]
        /\ \A i \in 1 .. Len(q) : (p \o q)[Len(p) + i] = q[i]
      BY <2>4, PiecesOf
  <2>6. ASSUME NEW i \in 1 .. Len(r) PROVE r[i] = (p \o q)[i]
    <3>1. CASE i <= Len(a)
      <4>1. i \in 1 .. Len(a) /\ i \in DOMAIN (a \o b) /\ i \in DOMAIN a /\ i \in 1 .. Len(p)
          BY <2>1, <2>4, <3>1
      <4>2. r[i] = Pieces((a \o b)[i]) /\ p[i] = Pieces(a[i])
          BY <2>3, <4>1
      <4> QED
          BY <2>1, <2>5, <4>1, <4>2
    <3>2. CASE ~(i <= Len(a))
      <4>1. PICK j \in 1 .. Len(b) : i = Len(a) + j
        <5>1. i - Len(a) \in 1 .. Len(b) /\ i = Len(a) + (i - Len(a))
            BY <2>1, <2>4, <3>2
        <5> QED
            BY <5>1
      <4>2. i \in DOMAIN (a \o b) /\ j \in DOMAIN b /\ j \in 1 .. Len(q)
          BY <2>1, <2>4, <4>1
      <4>3. r[i] = Pieces((a \o b)[i]) /\ q[j] = Pieces(b[j])
          BY <2>3, <4>2
      <4>4. (a \o b)[i] = b[j] /\ (p \o q)[i] = q[j]
          BY <2>1, <2>4, <2>5, <4>1, <4>2
      <4> QED
          BY <4>3, <4>4
    <3> QED
        BY <3>1, <3>2
  <2>7. r = p \o q
      BY <2>4, <2>5, <2>6, SeqEqual
  <2> QED
      BY <2>3, <2>7
<1>5. ASSUME NEW a \in Seq(T), NEW b \in Seq(T)
      PROVE  Spaced(a) \in Seq(T) /\ Spaced(a \o b) = Spaced(a) \o Spaced(b)
  <2>1. Parts(a) \in Seq(Seq(T)) /\ Parts(b) \in Seq(Seq(T)) /\ Parts(a \o b) = Parts(a) \o Parts(b)
      BY <1>3, <1>4
  <2> HIDE DEF Parts
  <2> QED
      BY <1>1, <2>1, FlattenConcat
<1>6. ASSUME NEW x \in T PROVE Spaced(<<x>>) = Pieces(x)
  <2>1. Parts(<<x>>) = <<Pieces(x)>>
      OBVIOUS
  <2>2. Pieces(x) \in Seq(T)
      BY <1>2
  <2> HIDE DEF Parts
  <2> QED
      BY <1>1, <2>1, <2>2, FlattenOne
<1>7. Spaced(<<>>) = <<>>
  <2>1. Parts(<<>>) = <<>>
      OBVIOUS
  <2> HIDE DEF Parts
  <2> QED
      BY <1>1, <2>1 DEF FlattenSeq
<1> QED
    BY <1>5, <1>6, <1>7

\* The signs that operators are made of.
Ops == {"=", "!", "<", ">"}

\* What comes after a blank that follows a sign: it begins with no sign, and
\* with no = that the sign is rejoined with.
Safe(r) == r # <<>> => r[1] \notin Signs
NoEqual(r) == ~(Len(r) >= 2 /\ r[1] = Blank /\ r[2] = Sign("="))

LEMMA SignsDiffer ==
    /\ Blank \notin Signs
    /\ \A c : Sign(c) # Blank
    /\ \A c, d : Sign(c) = Sign(d) => c = d
    /\ \A c \in Ops : Sign(c) \in Signs
    /\ Tab \notin Signs /\ Tab # Blank
BY DEF Blank, Tab, Sign, Signs, Ops

\* The first piece stays the first.
LEMMA FirstStays ==
    ASSUME NEW T, NEW text \in Seq(T), text # <<>>, NEW c
    PROVE  \E rest \in Seq(T) : Rejoined(text, c) = <<text[1]>> \o rest
<1>1. Len(text) \in Nat /\ Len(text) >= 1 /\ DOMAIN text = 1 .. Len(text) /\ 1 \in DOMAIN text
  <2>1. Len(text) \in Nat \ {0}
      BY EmptySeq
  <2> QED
      BY <2>1, LenProperties
<1>2. PICK taken : AreTaken(taken, text, c) /\ Rejoined(text, c) = FlattenSeq(Kept(text, taken))
    BY RejoinedKeeps
<1>3. PICK U : U = Seq(T)
    OBVIOUS
<1>4. PICK k : k = Kept(text, taken)
    OBVIOUS
<1>5. k \in Seq(U) /\ Len(k) = Len(text)
    BY <1>3, <1>4, KeptParts
<1>6. k[1] = <<text[1]>>
  <2>1. ~\E j \in {1 - 2, 1 - 1} \cap DOMAIN text : taken[j]
      BY <1>1
  <2>2. PICK i \in DOMAIN text : i = 1
      BY <1>1
  <2>3. k[i] = IF \E j \in {i - 2, i - 1} \cap DOMAIN text : taken[j] THEN <<>> ELSE <<text[i]>>
      BY <1>4 DEF Kept
  <2> QED
      BY <2>1, <2>2, <2>3
<1>7. k = <<k[1]>> \o SubSeq(k, 2, Len(k)) /\ SubSeq(k, 2, Len(k)) \in Seq(U)
  <2>1. 1 \in 1 .. Len(k) /\ Len(k) \in 1 .. Len(k)
      BY <1>1, <1>5
  <2>2. SubSeq(k, 1, Len(k)) = <<k[1]>> \o SubSeq(k, 1 + 1, Len(k))
      BY <1>5, <2>1, SubSeqRecursiveFirst
  <2>3. SubSeq(k, 1, Len(k)) = k
      BY <1>5, SubSeqFull
  <2>4. SubSeq(k, 2, Len(k)) \in Seq(U)
    <3>1. \A i \in 2 .. Len(k) : k[i] \in U
      <4>1. \A i \in 2 .. Len(k) : i \in 1 .. Len(k)
          BY <2>1
      <4> QED
          BY <1>5, <4>1, ElementOfSeq
    <3>2. 2 \in Int /\ Len(k) \in Int
        BY <1>1, <1>5
    <3> QED
        BY <3>1, <3>2, SubSeqProperties
  <2> QED
      BY <2>2, <2>3, <2>4
<1>8. PICK e, q : e = k[1] /\ q = SubSeq(k, 2, Len(k))
    OBVIOUS
<1>9. e \in Seq(T) /\ q \in Seq(Seq(T))
  <2>1. k[1] \in U
      BY <1>1, <1>5, ElementOfSeq
  <2> QED
      BY <1>3, <1>7, <1>8, <2>1
<1>10. FlattenSeq(<<e>> \o q) = e \o FlattenSeq(q)
    BY <1>9, FlattenFirst
<1>11. FlattenSeq(q) \in Seq(T)
    BY <1>9, FlattenConcat
<1> QED
    BY <1>2, <1>4, <1>6, <1>7, <1>8, <1>10, <1>11

\* A text that ends with no sign, and with no sign and a blank that a match
\* across begins with, is rejoined apart from what comes after it.
LEMMA OnePass ==
    ASSUME NEW T, NEW a \in Seq(T), NEW r \in Seq(T), NEW c \in Ops, Safe(r),
           a # <<>> => a[Len(a)] \notin Signs,
           Len(a) >= 2 /\ a[Len(a) - 1] = Sign(c) => NoEqual(r)
    PROVE  /\ Rejoined(a, c) \in Seq(T)
           /\ Rejoined(a \o r, c) = Rejoined(a, c) \o Rejoined(r, c)
<1> DEFINE n == Len(a)
           m == Len(r)
           ar == a \o r
<1>1. /\ n \in Nat /\ m \in Nat
      /\ DOMAIN ar = 1 .. n + m /\ Len(ar) = n + m
      /\ \A i \in 1 .. n : ar[i] = a[i]
      /\ \A i \in 1 .. m : ar[n + i] = r[i]
    BY PiecesOf
<1>2. (n >= 1 => a[n] \notin Signs) /\ (m >= 1 => r[1] \notin Signs)
  <2>1. n >= 1 => a # <<>>
      BY EmptySeq
  <2>2. m >= 1 => r # <<>>
      BY EmptySeq
  <2> QED
      BY <2>1, <2>2 DEF Safe
<1>3. Sign(c) \in Signs /\ Sign("=") \in Signs
    BY SignsDiffer DEF Ops
<1>4. n >= 2 /\ m >= 2 /\ r[1] = Blank /\ r[2] = Sign("=") => a[n - 1] # Sign(c)
    BY <1>1 DEF NoEqual
<1> HIDE DEF n, m, ar
<1>5. ASSUME NEW i \in 1 .. n, i + 3 > n PROVE ~MatchAt(ar, c, i)
  <2> SUFFICES ASSUME MatchAt(ar, c, i) PROVE FALSE
      OBVIOUS
  <2>1. /\ i + 3 <= n + m
        /\ ar[i] = Sign(c) /\ ar[i + 1] = Blank /\ ar[i + 2] = Blank /\ ar[i + 3] = Sign("=")
      BY <1>1 DEF MatchAt
  <2>2. ar[i] = a[i]
      BY <1>1
  <2>3. i = n \/ i = n - 1 \/ i = n - 2
      BY <1>1, <1>5
  <2>4. CASE i = n
      BY <1>2, <1>3, <2>1, <2>2, <2>4
  <2>5. CASE i = n - 1
    <3>1. n >= 2 /\ m >= 2 /\ i + 2 = n + 1 /\ i + 3 = n + 2 /\ 1 \in 1 .. m /\ 2 \in 1 .. m
        BY <1>1, <2>1, <2>5
    <3>2. ar[n + 1] = r[1] /\ ar[n + 2] = r[2]
        BY <1>1, <3>1
    <3> QED
        BY <1>4, <2>1, <2>2, <2>5, <3>1, <3>2
  <2>6. CASE i = n - 2
    <3>1. m >= 1 /\ i + 3 = n + 1 /\ 1 \in 1 .. m
        BY <1>1, <2>1, <2>6
    <3>2. ar[n + 1] = r[1]
        BY <1>1, <3>1
    <3> QED
        BY <1>2, <1>3, <2>1, <3>1, <3>2
  <2> QED
      BY <2>3, <2>4, <2>5, <2>6
<1>6. \A taken : AreTaken(taken, ar, c) => \A i \in 1 .. n : i + 3 > n => ~taken[i]
  <2>1. \A i \in 1 .. n : i \in DOMAIN ar
      BY <1>1
  <2> QED
      BY <1>5, <2>1 DEF AreTaken
<1> QED
    BY <1>6, RejoinedApart DEF n, ar

LEMMA EmptyStays == \A c : Rejoined(<<>>, c) = <<>>
<1>1. <<>> \in Seq({}) /\ DOMAIN <<>> = {}
    OBVIOUS
<1> QED
    BY <1>1, NothingJoins

\* What is safe stays so.
LEMMA StaysSafe ==
    ASSUME NEW T, NEW r \in Seq(T), NEW c \in Ops, Safe(r)
    PROVE  /\ Rejoined(r, c) \in Seq(T)
           /\ r = <<>> => Rejoined(r, c) = <<>>
           /\ r # <<>> => Rejoined(r, c) # <<>> /\ Rejoined(r, c)[1] = r[1]
           /\ Safe(Rejoined(r, c))
           /\ NoEqual(r) => NoEqual(Rejoined(r, c))
<1>1. CASE r = <<>>
  <2>1. Rejoined(r, c) = r
      BY <1>1, EmptyStays
  <2> QED
      BY <1>1, <2>1
<1>2. CASE r # <<>>
  <2>1. r[1] \notin Signs
      BY <1>2 DEF Safe
  <2> DEFINE n == Len(r)
             rest == SubSeq(r, 2, n)
  <2>2. n \in Nat /\ n >= 1 /\ 1 \in 1 .. n /\ n \in 1 .. n
    <3>1. n \in Nat \ {0}
        BY <1>2, EmptySeq
    <3> QED
        BY <3>1
  <2>3. r = <<r[1]>> \o rest
    <3>1. SubSeq(r, 1, n) = <<r[1]>> \o SubSeq(r, 1 + 1, n)
        BY <2>2, SubSeqRecursiveFirst
    <3> QED
        BY <3>1, SubSeqFull
  <2>4. rest \in Seq(T) /\ Len(rest) = n - 1 /\ (n >= 2 => rest[1] = r[2])
    <3>1. \A i \in 2 .. n : r[i] \in T
      <4>1. \A i \in 2 .. n : i \in 1 .. n
          BY <2>2
      <4> QED
          BY <4>1, ElementOfSeq
    <3>2. /\ rest \in Seq(T)
          /\ Len(rest) = IF 2 <= n THEN n - 2 + 1 ELSE 0
          /\ \A i \in 1 .. n - 2 + 1 : rest[i] = r[2 + i - 1]
        BY <2>2, <3>1, SubSeqProperties
    <3>3. n >= 2 => 1 \in 1 .. n - 2 + 1 /\ 2 + 1 - 1 = 2
        BY <2>2
    <3>4. n >= 2 => rest[1] = r[2 + 1 - 1]
        BY <3>2, <3>3
    <3>5. 2 + 1 - 1 = 2
        OBVIOUS
    <3>6. n >= 2 => rest[1] = r[2]
        BY <3>4, <3>5
    <3>7. Len(rest) = n - 1
      <4> HIDE DEF rest, n
      <4> QED
          BY <2>2, <3>2
    <3> QED
        BY <3>2, <3>6, <3>7
  <2>5. PICK x, q : x = r[1] /\ q = rest
      OBVIOUS
  <2>6. x \in T /\ <<x>> \in Seq(T) /\ q \in Seq(T) /\ r = <<x>> \o q
    <3>1. x \in T
        BY <2>2, <2>5, ElementOfSeq
    <3> QED
        BY <2>3, <2>4, <2>5, <3>1
  <2>7. /\ Rejoined(<<x>>, c) \in Seq(T)
        /\ Rejoined(r, c) = Rejoined(<<x>>, c) \o Rejoined(q, c)
    <3>1. ASSUME NEW taken, AreTaken(taken, <<x>> \o q, c), NEW i \in 1 .. Len(<<x>>)
          PROVE  ~taken[i]
      <4>1. i = 1 /\ 1 \in DOMAIN r
          BY <2>2, LenProperties
      <4>2. ~MatchAt(r, c, 1)
          BY <2>1, SignsDiffer DEF MatchAt
      <4> QED
          BY <2>6, <3>1, <4>1, <4>2 DEF AreTaken
    <3>2. \A taken : AreTaken(taken, <<x>> \o q, c)
              => \A i \in 1 .. Len(<<x>>) : i + 3 > Len(<<x>>) => ~taken[i]
        BY <3>1
    <3>3. PICK a : a = <<x>>
        OBVIOUS
    <3>4. a \in Seq(T) /\ q \in Seq(T) /\ r = a \o q
        BY <2>6, <3>3
    <3>5. \A taken : AreTaken(taken, a \o q, c) => \A i \in 1 .. Len(a) : i + 3 > Len(a) => ~taken[i]
        BY <3>2, <3>3
    <3>6. Rejoined(a, c) \in Seq(T) /\ Rejoined(a \o q, c) = Rejoined(a, c) \o Rejoined(q, c)
        BY <3>4, <3>5, RejoinedApart
    <3> QED
        BY <3>3, <3>4, <3>6
  <2>8. Rejoined(<<x>>, c) = <<x>>
    <3>1. \A i \in DOMAIN <<x>> : ~MatchAt(<<x>>, c, i)
        BY DEF MatchAt
    <3> QED
        BY <2>6, <3>1, NothingJoins
  <2>9. Rejoined(q, c) \in Seq(T) /\ (q = <<>> => Rejoined(q, c) = <<>>)
        /\ (q # <<>> => Rejoined(q, c) # <<>> /\ Rejoined(q, c)[1] = q[1])
    <3>1. CASE q = <<>>
      <4>1. Rejoined(q, c) = q
          BY <3>1, EmptyStays
      <4> QED
          BY <2>6, <3>1, <4>1
    <3>2. CASE q # <<>>
      <4>1. PICK s \in Seq(T) : Rejoined(q, c) = <<q[1]>> \o s
          BY <2>6, <3>2, FirstStays, ZenonT(40)
      <4>2. q[1] \in T /\ <<q[1]>> \in Seq(T)
          BY <2>6, <3>2, EmptySeq, ElementOfSeq
      <4>3. /\ <<q[1]>> \o s \in Seq(T) /\ Len(<<q[1]>> \o s) = 1 + Len(s)
            /\ (<<q[1]>> \o s)[1] = <<q[1]>>[1]
          BY <4>2, PiecesOf
      <4>4. Len(s) \in Nat
          BY LenProperties
      <4>5. <<q[1]>> \o s # <<>>
          BY <4>3, <4>4, EmptySeq
      <4> QED
          BY <3>2, <4>1, <4>3, <4>5
    <3> QED
        BY <3>1, <3>2
  <2>10. PICK p : p = Rejoined(q, c)
      OBVIOUS
  <2>11. /\ Rejoined(r, c) = <<x>> \o p /\ <<x>> \o p \in Seq(T)
         /\ Len(<<x>> \o p) = 1 + Len(p) /\ (<<x>> \o p)[1] = x /\ Len(p) \in Nat
         /\ Len(p) >= 1 => (<<x>> \o p)[2] = p[1]
    <3>1. p \in Seq(T) /\ Len(<<x>>) = 1 /\ <<x>>[1] = x /\ 1 \in 1 .. Len(<<x>>)
        BY <2>9, <2>10
    <3>2. /\ Len(p) \in Nat
          /\ <<x>> \o p \in Seq(T)
          /\ Len(<<x>> \o p) = Len(<<x>>) + Len(p)
          /\ \A i \in 1 .. Len(<<x>>) : (<<x>> \o p)[i] = <<x>>[i]
          /\ \A i \in 1 .. Len(p) : (<<x>> \o p)[Len(<<x>>) + i] = p[i]
        BY <2>6, <3>1, PiecesOf
    <3>3. Len(p) >= 1 => (<<x>> \o p)[Len(<<x>>) + 1] = p[1]
        BY <3>2
    <3>4. Len(<<x>>) + 1 = 2 /\ Len(<<x>>) + Len(p) = 1 + Len(p)
        BY <3>1, <3>2
    <3> QED
        BY <2>7, <2>8, <2>10, <3>1, <3>2, <3>3, <3>4
  <2>12. Rejoined(r, c) # <<>> /\ Rejoined(r, c)[1] = r[1]
      BY <2>5, <2>11, EmptySeq
  <2>13. Safe(Rejoined(r, c))
      BY <2>1, <2>12 DEF Safe
  <2>14. ASSUME NoEqual(r) PROVE NoEqual(Rejoined(r, c))
    <3> SUFFICES ASSUME Len(Rejoined(r, c)) >= 2, x = Blank, p[1] = Sign("=") PROVE FALSE
        BY <2>11 DEF NoEqual
    <3>1. Len(p) >= 1
        BY <2>11
    <3>2. q # <<>>
        BY <2>9, <2>10, <3>1
    <3>3. p[1] = q[1]
        BY <2>9, <2>10, <3>2
    <3>4. n >= 2
      <4>1. Len(q) # 0
          BY <2>6, <3>2, EmptySeq
      <4> QED
          BY <2>2, <2>4, <2>5, <4>1
    <3>5. q[1] = r[2]
        BY <2>4, <2>5, <3>4
    <3> QED
        BY <2>5, <2>14, <3>3, <3>4, <3>5 DEF NoEqual
  <2> QED
      BY <1>2, <2>11, <2>12, <2>13, <2>14
<1> QED
    BY <1>1, <1>2

\* A text with a first piece, and what its first pieces are.
LEMMA Fronted ==
    ASSUME NEW T, NEW x \in T, NEW rest \in Seq(T)
    PROVE  /\ <<x>> \in Seq(T)
           /\ <<x>> \o rest \in Seq(T) /\ <<x>> \o rest # <<>>
           /\ Len(rest) \in Nat /\ Len(<<x>> \o rest) = 1 + Len(rest)
           /\ (<<x>> \o rest)[1] = x
           /\ rest # <<>> <=> Len(rest) >= 1
           /\ rest # <<>> => (<<x>> \o rest)[2] = rest[1]
<1>1. <<x>> \in Seq(T) /\ Len(<<x>>) = 1 /\ <<x>>[1] = x /\ 1 \in 1 .. Len(<<x>>)
    OBVIOUS
<1>2. /\ Len(rest) \in Nat
      /\ <<x>> \o rest \in Seq(T)
      /\ Len(<<x>> \o rest) = Len(<<x>>) + Len(rest)
      /\ \A i \in 1 .. Len(<<x>>) : (<<x>> \o rest)[i] = <<x>>[i]
      /\ \A i \in 1 .. Len(rest) : (<<x>> \o rest)[Len(<<x>>) + i] = rest[i]
    BY <1>1, PiecesOf
<1>3. rest # <<>> <=> Len(rest) >= 1
    BY <1>2, EmptySeq
<1>4. Len(rest) >= 1 => (<<x>> \o rest)[Len(<<x>>) + 1] = rest[1]
    BY <1>2
<1>5. Len(<<x>>) + 1 = 2 /\ Len(<<x>>) + Len(rest) = 1 + Len(rest)
    BY <1>1, <1>2
<1>6. <<x>> \o rest # <<>>
    BY <1>2, <1>5, EmptySeq
<1> QED
    BY <1>1, <1>2, <1>3, <1>4, <1>5, <1>6

LEMMA FirstAndRest ==
    ASSUME NEW T, NEW text \in Seq(T), text # <<>>
    PROVE  \E x \in T : \E rest \in Seq(T) : text = <<x>> \o rest /\ x = text[1]
<1>1. Len(text) \in Nat \ {0}
    BY EmptySeq
<1>2. 1 \in 1 .. Len(text) /\ Len(text) \in 1 .. Len(text)
    BY <1>1
<1>3. SubSeq(text, 1, Len(text)) = <<text[1]>> \o SubSeq(text, 1 + 1, Len(text))
    BY <1>2, SubSeqRecursiveFirst
<1>4. SubSeq(text, 1, Len(text)) = text
    BY SubSeqFull
<1>5. SubSeq(text, 2, Len(text)) \in Seq(T)
  <2>1. \A i \in 2 .. Len(text) : text[i] \in T
    <3>1. \A i \in 2 .. Len(text) : i \in 1 .. Len(text)
        BY <1>1
    <3> QED
        BY <3>1, ElementOfSeq
  <2>2. 2 \in Int /\ Len(text) \in Int
      BY <1>1
  <2> QED
      BY <2>1, <2>2, SubSeqProperties
<1>6. text[1] \in T
    BY <1>2, ElementOfSeq
<1>7. 1 + 1 = 2
    OBVIOUS
<1>8. text = <<text[1]>> \o SubSeq(text, 2, Len(text))
    BY <1>3, <1>4, <1>7
<1> QED
    BY <1>5, <1>6, <1>8

\* The four passes of make_tokens_explicit.
LEMMA ExplicitIs ==
    ASSUME NEW text
    PROVE  make_tokens_explicit(text)
               = Rejoined(Rejoined(Rejoined(Rejoined(Spaced(text), "="), "!"), "<"), ">")
<1> DEFINE After(texts, c) == {Rejoined(t, c) : t \in texts}
<1>1. ASSUME NEW t, NEW c PROVE After({t}, c) = {Rejoined(t, c)}
    OBVIOUS
<1>2. make_tokens_explicit(text)
          = CHOOSE t \in After(After(After(After({Spaced(text)}, "="), "!"), "<"), ">") : TRUE
    BY DEF make_tokens_explicit
<1> HIDE DEF After
<1>3. After(After(After(After({Spaced(text)}, "="), "!"), "<"), ">")
          = {Rejoined(Rejoined(Rejoined(Rejoined(Spaced(text), "="), "!"), "<"), ">")}
    BY <1>1
<1> QED
    BY <1>2, <1>3

\* How the text begins whose signs are set apart.
LEMMA SpacedBegins ==
    ASSUME NEW T, Blank \in T, NEW r \in Seq(T)
    PROVE  /\ Spaced(r) \in Seq(T)
           /\ r = <<>> => Spaced(r) = <<>>
           /\ r # <<>> => Spaced(r) # <<>> /\ Spaced(r)[1] = IF r[1] \in Signs THEN Blank ELSE r[1]
           /\ Safe(Spaced(r))
           /\ (r # <<>> /\ r[1] = Sign("=")) \/ NoEqual(Spaced(r))
<1>1. Spaced(r) \in Seq(T)
    BY SpacedIs
<1>2. CASE r = <<>>
  <2>1. Spaced(r) = <<>> /\ Len(<<>>) = 0
      BY <1>2, SpacedIs
  <2> QED
      BY <1>1, <1>2, <2>1 DEF Safe, NoEqual
<1>3. CASE r # <<>>
  <2>1. PICK x \in T, rest \in Seq(T) : r = <<x>> \o rest /\ x = r[1]
      BY <1>3, FirstAndRest
  <2>2. PICK s : s = Spaced(rest) /\ s \in Seq(T)
      BY SpacedIs
  <2>3. Spaced(r) = Pieces(x) \o s
    <3>1. <<x>> \in Seq(T)
        OBVIOUS
    <3>2. Spaced(<<x>> \o rest) = Spaced(<<x>>) \o Spaced(rest)
        BY <3>1, SpacedIs
    <3>3. Spaced(<<x>>) = Pieces(x)
        BY SpacedIs
    <3> QED
        BY <2>1, <2>2, <3>2, <3>3
  <2>4. CASE x \in Signs
    <3>1. PICK y : y = <<x, Blank>> \o s
        OBVIOUS
    <3>2. y \in Seq(T) /\ Spaced(r) = <<Blank>> \o y
      <4>1. <<x, Blank>> \in Seq(T) /\ <<Blank>> \in Seq(T)
          OBVIOUS
      <4>2. Pieces(x) = <<Blank>> \o <<x, Blank>>
          BY <2>4, Tuples DEF Pieces
      <4>3. (<<Blank>> \o <<x, Blank>>) \o s = <<Blank>> \o y
          BY <2>2, <3>1, <4>1, Concat
      <4>4. y \in Seq(T)
          BY <2>2, <3>1, <4>1, Concat
      <4> QED
          BY <2>3, <4>2, <4>3, <4>4
    <3>3. y # <<>> /\ y[1] = x
      <4>1. <<Blank>> \in Seq(T) /\ <<x>> \in Seq(T) /\ <<x, Blank>> = <<x>> \o <<Blank>>
          BY Tuples
      <4>2. <<Blank>> \o s \in Seq(T) /\ y = <<x>> \o (<<Blank>> \o s)
          BY <2>2, <3>1, <4>1, Concat
      <4> QED
          BY <4>2, Fronted
    <3>4. Spaced(r) # <<>> /\ Spaced(r)[1] = Blank /\ Spaced(r)[2] = x
        BY <3>2, <3>3, Fronted
    <3> QED
        BY <1>1, <1>3, <2>1, <2>4, <3>4, SignsDiffer DEF Safe, NoEqual
  <2>5. CASE x \notin Signs
    <3>1. Spaced(r) = <<x>> \o s
        BY <2>3, <2>5 DEF Pieces
    <3>2. /\ Spaced(r) # <<>> /\ Spaced(r)[1] = x
          /\ Len(s) \in Nat /\ Len(Spaced(r)) = 1 + Len(s)
          /\ s # <<>> <=> Len(s) >= 1
          /\ s # <<>> => Spaced(r)[2] = s[1]
        BY <2>2, <3>1, Fronted
    <3>3. s # <<>> => s[1] # Sign("=")
      <4> SUFFICES ASSUME s # <<>> PROVE s[1] # Sign("=")
          OBVIOUS
      <4>1. rest # <<>>
          BY <2>2, SpacedIs
      <4>2. PICK z \in T, more \in Seq(T) : rest = <<z>> \o more
          BY <4>1, FirstAndRest
      <4>3. s = Pieces(z) \o Spaced(more) /\ Spaced(more) \in Seq(T)
        <5>1. <<z>> \in Seq(T)
            OBVIOUS
        <5>2. Spaced(<<z>> \o more) = Spaced(<<z>>) \o Spaced(more) /\ Spaced(more) \in Seq(T)
            BY <5>1, SpacedIs
        <5>3. Spaced(<<z>>) = Pieces(z)
            BY SpacedIs
        <5> QED
            BY <2>2, <4>2, <5>2, <5>3
      <4>4. CASE z \in Signs
        <5>1. <<z, Blank>> \in Seq(T) /\ <<Blank>> \in Seq(T)
            OBVIOUS
        <5>2. Pieces(z) = <<Blank>> \o <<z, Blank>>
            BY <4>4, Tuples DEF Pieces
        <5>3. (<<Blank>> \o <<z, Blank>>) \o Spaced(more) = <<Blank>> \o (<<z, Blank>> \o Spaced(more))
            BY <4>3, <5>1, Concat
        <5>4. <<z, Blank>> \o Spaced(more) \in Seq(T)
            BY <4>3, <5>1, Concat
        <5>5. s[1] = Blank
            BY <4>3, <5>2, <5>3, <5>4, Fronted
        <5> QED
            BY <5>5, SignsDiffer
      <4>5. CASE z \notin Signs
        <5>1. s[1] = z
            BY <4>3, <4>5, Fronted DEF Pieces
        <5> QED
            BY <4>5, <5>1, SignsDiffer DEF Ops
      <4> QED
          BY <4>4, <4>5
    <3>4. NoEqual(Spaced(r))
        BY <3>2, <3>3 DEF NoEqual
    <3> QED
        BY <1>1, <1>3, <2>1, <2>5, <3>2, <3>4 DEF Safe
  <2> QED
      BY <2>4, <2>5
<1> QED
    BY <1>2, <1>3

\* What each of the passes makes of a text.
Passes(r, r0, r1, r2, r3, r4) ==
    /\ r0 = Spaced(r)
    /\ r1 = Rejoined(r0, "=")
    /\ r2 = Rejoined(r1, "!")
    /\ r3 = Rejoined(r2, "<")
    /\ r4 = Rejoined(r3, ">")

\* The passes keep to the pieces of the text and to how it begins.
LEMMA PassesKeep ==
    ASSUME NEW T, Blank \in T, NEW r \in Seq(T), NEW r0, NEW r1, NEW r2, NEW r3, NEW r4,
           Passes(r, r0, r1, r2, r3, r4)
    PROVE  /\ make_tokens_explicit(r) = r4
           /\ r0 \in Seq(T) /\ r1 \in Seq(T) /\ r2 \in Seq(T) /\ r3 \in Seq(T) /\ r4 \in Seq(T)
           /\ Safe(r0) /\ Safe(r1) /\ Safe(r2) /\ Safe(r3)
           /\ \/ r # <<>> /\ r[1] = Sign("=")
              \/ NoEqual(r0) /\ NoEqual(r1) /\ NoEqual(r2) /\ NoEqual(r3)
           /\ r = <<>> => r4 = <<>>
           /\ r # <<>> => r4 # <<>> /\ r4[1] = IF r[1] \in Signs THEN Blank ELSE r[1]
<1>0. {"=", "!", "<", ">"} = Ops
    BY DEF Ops
<1>1. /\ r0 \in Seq(T) /\ Safe(r0) /\ ((r # <<>> /\ r[1] = Sign("=")) \/ NoEqual(r0))
      /\ r = <<>> => r0 = <<>>
      /\ r # <<>> => r0 # <<>> /\ r0[1] = IF r[1] \in Signs THEN Blank ELSE r[1]
    BY SpacedBegins DEF Passes
<1>2. /\ r1 \in Seq(T) /\ Safe(r1) /\ (NoEqual(r0) => NoEqual(r1))
      /\ r0 = <<>> => r1 = <<>>
      /\ r0 # <<>> => r1 # <<>> /\ r1[1] = r0[1]
    BY <1>0, <1>1, StaysSafe DEF Passes
<1>3. /\ r2 \in Seq(T) /\ Safe(r2) /\ (NoEqual(r1) => NoEqual(r2))
      /\ r1 = <<>> => r2 = <<>>
      /\ r1 # <<>> => r2 # <<>> /\ r2[1] = r1[1]
    BY <1>0, <1>2, StaysSafe DEF Passes
<1>4. /\ r3 \in Seq(T) /\ Safe(r3) /\ (NoEqual(r2) => NoEqual(r3))
      /\ r2 = <<>> => r3 = <<>>
      /\ r2 # <<>> => r3 # <<>> /\ r3[1] = r2[1]
    BY <1>0, <1>3, StaysSafe DEF Passes
<1>5. /\ r4 \in Seq(T)
      /\ r3 = <<>> => r4 = <<>>
      /\ r3 # <<>> => r4 # <<>> /\ r4[1] = r3[1]
    BY <1>0, <1>4, StaysSafe DEF Passes
<1>6. make_tokens_explicit(r) = r4
    BY ExplicitIs DEF Passes
<1> QED
    BY <1>1, <1>2, <1>3, <1>4, <1>5, <1>6

\* The word w between blanks before the text t.
Sep(w, t) == <<Blank>> \o (w \o (<<Blank>> \o t))

LEMMA SepIs ==
    ASSUME NEW T, Blank \in T, NEW w \in Seq(T), NEW t \in Seq(T)
    PROVE  /\ <<Blank>> \in Seq(T) /\ <<Blank>> \o t \in Seq(T)
           /\ w \o (<<Blank>> \o t) \in Seq(T)
           /\ Sep(w, t) \in Seq(T)
           /\ Sep(w, t) = (<<Blank>> \o (w \o <<Blank>>)) \o t
           /\ Sep(w, t) # <<>> /\ Sep(w, t)[1] = Blank /\ Safe(Sep(w, t))
<1>1. <<Blank>> \in Seq(T)
    OBVIOUS
<1>2. PICK b : b = <<Blank>>
    OBVIOUS
<1>3. b \in Seq(T)
    BY <1>1, <1>2
<1>4. b \o t \in Seq(T) /\ w \o b \in Seq(T)
    BY <1>3, Concat
<1>5. w \o (b \o t) \in Seq(T) /\ b \o (w \o b) \in Seq(T)
    BY <1>3, <1>4, Concat
<1>6. b \o (w \o (b \o t)) \in Seq(T)
    BY <1>3, <1>5, Concat
<1>7. w \o (b \o t) = (w \o b) \o t
    BY <1>3, Concat, SMTT(40)
<1>8. (b \o (w \o b)) \o t = b \o ((w \o b) \o t)
    BY <1>3, <1>4, Concat
<1>9. Sep(w, t) # <<>> /\ Sep(w, t)[1] = Blank
    BY <1>2, <1>5, Fronted DEF Sep
<1>10. Safe(Sep(w, t))
    BY <1>9, SignsDiffer DEF Safe
<1> QED
    BY <1>2, <1>3, <1>4, <1>5, <1>6, <1>7, <1>8, <1>9, <1>10 DEF Sep

LEMMA SepGroups ==
    ASSUME NEW T, Blank \in T, NEW w \in Seq(T), NEW t \in Seq(T)
    PROVE  Sep(w, t) = (<<Blank>> \o (w \o <<Blank>>)) \o t
<1>1. PICK b : b = <<Blank>>
    OBVIOUS
<1>2. b \in Seq(T)
    BY <1>1
<1>3. w \o b \in Seq(T)
    BY <1>2, Concat
<1>4. (w \o b) \o t = w \o (b \o t)
    BY <1>2, Concat, SMTT(40)
<1>5. (b \o (w \o b)) \o t = b \o ((w \o b) \o t)
    BY <1>2, <1>3, Concat
<1> QED
    BY <1>1, <1>4, <1>5 DEF Sep

\* A word apart stays apart, unless it ends with the sign of the pass.
LEMMA SepPass ==
    ASSUME NEW T, Blank \in T, NEW w \in Seq(T), w # <<>>, \A i \in DOMAIN w : w[i] # Blank,
           NEW t \in Seq(T), Safe(t), NEW c \in Ops,
           w[Len(w)] = Sign(c) => NoEqual(t)
    PROVE  Rejoined(Sep(w, t), c) = Sep(w, Rejoined(t, c))
<1>1. PICK b : b = <<Blank>>
    OBVIOUS
<1>0. b \in Seq(T)
    BY <1>1
<1>2. b \in Seq(T) /\ Len(b) = 1 /\ b[1] = Blank
    BY <1>1
<1>3. PICK wb : wb = w \o b
    OBVIOUS
<1>4. PICK a : a = b \o wb
    OBVIOUS
<1>5. /\ Len(w) \in Nat /\ DOMAIN w = 1 .. Len(w)
      /\ wb \in Seq(T) /\ Len(wb) = Len(w) + 1
      /\ \A i \in 1 .. Len(w) : wb[i] = w[i]
      /\ wb[Len(w) + 1] = Blank
  <2>1. 1 \in 1 .. Len(b)
      BY <1>2
  <2>2. /\ Len(w) \in Nat /\ DOMAIN w = 1 .. Len(w)
        /\ wb \in Seq(T) /\ Len(wb) = Len(w) + Len(b)
        /\ \A i \in 1 .. Len(w) : wb[i] = w[i]
        /\ \A i \in 1 .. Len(b) : wb[Len(w) + i] = b[i]
    <3>1. /\ Len(w) \in Nat /\ DOMAIN w = 1 .. Len(w)
          /\ w \o b \in Seq(T) /\ Len(w \o b) = Len(w) + Len(b)
          /\ \A i \in 1 .. Len(w) : (w \o b)[i] = w[i]
          /\ \A i \in 1 .. Len(b) : (w \o b)[Len(w) + i] = b[i]
        BY <1>0, PiecesOf
    <3> QED
        BY <1>3, <3>1
  <2> QED
      BY <1>2, <2>1, <2>2
<1>6. /\ a \in Seq(T) /\ Len(a) = Len(w) + 2 /\ DOMAIN a = 1 .. Len(w) + 2
      /\ a[1] = Blank
      /\ \A i \in 1 .. Len(w) : a[1 + i] = w[i]
      /\ a[Len(w) + 2] = Blank
  <2>1. /\ a \in Seq(T) /\ Len(a) = Len(b) + Len(wb) /\ DOMAIN a = 1 .. Len(b) + Len(wb)
        /\ \A i \in 1 .. Len(b) : a[i] = b[i]
        /\ \A i \in 1 .. Len(wb) : a[Len(b) + i] = wb[i]
    <3>1. wb \in Seq(T)
        BY <1>5
    <3>2. /\ b \o wb \in Seq(T) /\ Len(b \o wb) = Len(b) + Len(wb)
          /\ DOMAIN (b \o wb) = 1 .. Len(b) + Len(wb)
          /\ \A i \in 1 .. Len(b) : (b \o wb)[i] = b[i]
          /\ \A i \in 1 .. Len(wb) : (b \o wb)[Len(b) + i] = wb[i]
        BY <1>0, <3>1, PiecesOf
    <3> QED
        BY <1>4, <3>2
  <2>2. 1 \in 1 .. Len(b) /\ Len(w) + 1 \in 1 .. Len(wb) /\ 1 + (Len(w) + 1) = Len(w) + 2
        /\ Len(b) + Len(wb) = Len(w) + 2
      BY <1>2, <1>5
  <2>3. a[Len(b) + (Len(w) + 1)] = wb[Len(w) + 1]
      BY <2>1, <2>2
  <2>4. ASSUME NEW i \in 1 .. Len(w) PROVE a[1 + i] = w[i]
    <3>1. i \in 1 .. Len(wb)
        BY <1>5
    <3> QED
        BY <1>2, <1>5, <2>1, <3>1
  <2> QED
      BY <1>2, <1>5, <2>1, <2>2, <2>3, <2>4
<1>7. Len(w) >= 1
  <2>1. Len(w) \in Nat \ {0}
      BY EmptySeq
  <2> QED
      BY <2>1
<1>8. ASSUME NEW i \in DOMAIN a PROVE ~MatchAt(a, c, i)
  <2> SUFFICES ASSUME i + 3 <= Len(w) + 2, a[i + 1] = Blank, a[i + 2] = Blank PROVE FALSE
      BY <1>6 DEF MatchAt
  <2>1. i \in 1 .. Len(w) /\ a[1 + i] = w[i] /\ 1 + i = i + 1
      BY <1>5, <1>6
  <2> QED
      BY <1>5, <2>1
<1>9. Rejoined(a, c) = a
    BY <1>6, <1>8, NothingJoins
<1>10. a # <<>> => a[Len(a)] \notin Signs
    BY <1>6, SignsDiffer
<1>11. Len(a) >= 2 /\ a[Len(a) - 1] = Sign(c) => NoEqual(t)
  <2>1. Len(a) - 1 = 1 + Len(w) /\ Len(w) \in 1 .. Len(w)
      BY <1>5, <1>6, <1>7
  <2>2. a[Len(a) - 1] = w[Len(w)]
      BY <1>6, <2>1
  <2> QED
      BY <2>2
<1>12. Rejoined(a \o t, c) = Rejoined(a, c) \o Rejoined(t, c)
    BY <1>6, <1>10, <1>11, OnePass
<1>13. ASSUME NEW s \in Seq(T) PROVE Sep(w, s) = a \o s
  <2>1. Sep(w, s) = (<<Blank>> \o (w \o <<Blank>>)) \o s
      BY SepIs
  <2> QED
      BY <1>1, <1>3, <1>4, <2>1
<1>14. Rejoined(t, c) \in Seq(T)
    BY StaysSafe
<1> QED
    BY <1>9, <1>12, <1>13, <1>14

\* A piece that is no sign stays where it is.
LEMMA PlainPass ==
    ASSUME NEW T, NEW x \in T, x \notin Signs, NEW t \in Seq(T), Safe(t), NEW c \in Ops
    PROVE  Rejoined(<<x>> \o t, c) = <<x>> \o Rejoined(t, c) /\ Safe(<<x>> \o t)
<1>1. PICK a : a = <<x>>
    OBVIOUS
<1>2. a \in Seq(T) /\ Len(a) = 1 /\ a[1] = x /\ DOMAIN a = 1 .. 1
    BY <1>1
<1>3. \A i \in DOMAIN a : ~MatchAt(a, c, i)
    BY <1>2 DEF MatchAt
<1>4. Rejoined(a, c) = a
    BY <1>2, <1>3, NothingJoins
<1>5. Rejoined(a \o t, c) = Rejoined(a, c) \o Rejoined(t, c)
    BY <1>2, OnePass, SMTT(40)
<1>6. Safe(<<x>> \o t)
    BY Fronted DEF Safe
<1> QED
    BY <1>1, <1>4, <1>5, <1>6

\* A sign that is apart from = is rejoined with it, whatever follows.
LEMMA SepJoin ==
    ASSUME NEW T, Blank \in T, NEW t \in Seq(T), NEW c \in Ops, Sign(c) \in T, Sign("=") \in T
    PROVE  Rejoined(<<Blank>> \o (<<Sign(c), Blank, Blank, Sign("=")>> \o t), c)
               = <<Blank>> \o (<<Sign(c), Sign("=")>> \o Rejoined(t, c))
<1>1. PICK b, m : b = <<Blank>> /\ m = <<Sign(c), Blank, Blank, Sign("=")>>
    OBVIOUS
<1>0. b \in Seq(T) /\ m \in Seq(T)
    BY <1>1
<1>2. /\ b \in Seq(T) /\ Len(b) = 1 /\ b[1] = Blank /\ DOMAIN b = 1 .. 1
      /\ m \in Seq(T) /\ Len(m) = 4
      /\ m[1] = Sign(c) /\ m[2] = Blank /\ m[3] = Blank /\ m[4] = Sign("=")
    BY <1>1
<1>3. PICK mt : mt = m \o t
    OBVIOUS
<1>4. /\ mt \in Seq(T) /\ Len(mt) = 4 + Len(t) /\ Len(t) \in Nat
      /\ DOMAIN mt = 1 .. 4 + Len(t)
      /\ mt[1] = Sign(c) /\ mt[2] = Blank /\ mt[3] = Blank /\ mt[4] = Sign("=")
  <2>1. /\ mt \in Seq(T) /\ Len(mt) = Len(m) + Len(t) /\ Len(t) \in Nat
        /\ DOMAIN mt = 1 .. Len(m) + Len(t)
        /\ \A i \in 1 .. Len(m) : mt[i] = m[i]
    <3>1. /\ m \o t \in Seq(T) /\ Len(m \o t) = Len(m) + Len(t) /\ Len(t) \in Nat
          /\ DOMAIN (m \o t) = 1 .. Len(m) + Len(t)
          /\ \A i \in 1 .. Len(m) : (m \o t)[i] = m[i]
        BY <1>0, PiecesOf
    <3> QED
        BY <1>3, <3>1
  <2>2. {1, 2, 3, 4} \subseteq 1 .. Len(m)
      BY <1>2
  <2> QED
      BY <1>2, <2>1, <2>2
<1>5. Rejoined(mt, c) = Rejoined(m, c) \o Rejoined(t, c)
  <2>1. ASSUME NEW taken, AreTaken(taken, mt, c), NEW i \in 1 .. 4, i + 3 > 4 PROVE ~taken[i]
    <3>1. i = 2 \/ i = 3 \/ i = 4
        BY <2>1
    <3>2. {1, 2, 3, 4} \subseteq DOMAIN mt
        BY <1>4
    <3>3. MatchAt(mt, c, 1) /\ ~MatchAt(mt, c, 2) /\ ~MatchAt(mt, c, 3)
      <4>1. 1 + 3 <= Len(mt)
          BY <1>4
      <4> QED
          BY <1>4, <4>1, SignsDiffer DEF MatchAt
    <3>4. taken[1] /\ ~taken[2] /\ ~taken[3]
        BY <2>1, <3>2, <3>3 DEF AreTaken
    <3>5. ~taken[4]
      <4>1. PICK j \in DOMAIN mt : j = 4
          BY <3>2
      <4>2. taken[j] => (j > 3 => ~taken[j - 3])
          BY <2>1, <4>1 DEF AreTaken
      <4>3. j - 3 = 1 /\ j > 3
          BY <4>1
      <4> QED
          BY <3>4, <4>1, <4>2, <4>3
    <3> QED
        BY <3>1, <3>4, <3>5
  <2>2. \A taken : AreTaken(taken, m \o t, c) => \A i \in 1 .. Len(m) : i + 3 > Len(m) => ~taken[i]
      BY <1>2, <1>3, <2>1
  <2>3. Rejoined(m \o t, c) = Rejoined(m, c) \o Rejoined(t, c)
    <3>1. m \in Seq(T)
        BY <1>2
    <3> HIDE <1>2
    <3> QED
        BY <2>2, <3>1, RejoinedApart
  <2> QED
      BY <1>3, <2>3
<1>6. Rejoined(b \o mt, c) = Rejoined(b, c) \o Rejoined(mt, c)
  <2>1. DOMAIN (b \o mt) = 1 .. Len(b) + Len(mt) /\ (b \o mt)[1] = Blank
    <3>1. 1 \in 1 .. Len(b)
        BY <1>2
    <3>2. mt \in Seq(T)
        BY <1>4
    <3>3. DOMAIN (b \o mt) = 1 .. Len(b) + Len(mt) /\ \A i \in 1 .. Len(b) : (b \o mt)[i] = b[i]
        BY <1>0, <3>2, PiecesOf
    <3> QED
        BY <1>2, <3>1, <3>3
  <2>2. ASSUME NEW taken, AreTaken(taken, b \o mt, c) PROVE ~taken[1]
    <3>1. 1 \in DOMAIN (b \o mt)
        BY <1>2, <1>4, <2>1
    <3>2. ~MatchAt(b \o mt, c, 1)
        BY <2>1, SignsDiffer DEF MatchAt
    <3> QED
        BY <2>2, <3>1, <3>2 DEF AreTaken
  <2>3. \A i \in 1 .. Len(b) : i = 1
      BY <1>2
  <2>4. \A taken : AreTaken(taken, b \o mt, c) => \A i \in 1 .. Len(b) : i + 3 > Len(b) => ~taken[i]
      BY <2>2, <2>3
  <2> QED
    <3>1. mt \in Seq(T)
        BY <1>4
    <3> QED
        BY <1>0, <2>4, <3>1, RejoinedApart
<1>7. Rejoined(b, c) = b
  <2>1. \A i \in DOMAIN b : ~MatchAt(b, c, i)
      BY <1>2 DEF MatchAt
  <2> QED
      BY <1>2, <2>1, NothingJoins
<1>8. Rejoined(m, c) = <<Sign(c), Sign("=")>>
    BY <1>1, OneJoins
<1> QED
    BY <1>1, <1>3, <1>5, <1>6, <1>7, <1>8

\* Texts are closed under \o, and it is associative.
ClosedUnder(U) == \A x, y \in U : x \o y \in U
Associative(U) == \A x, y, z \in U : (x \o y) \o z = x \o (y \o z)

LEMMA TextAlgebra ==
    ASSUME NEW T
    PROVE  ClosedUnder(Seq(T)) /\ Associative(Seq(T))
BY Concat DEF ClosedUnder, Associative

Joining(b, e, s, v, t) ==
    b \o (s \o (b \o (b \o ((e \o v) \o (b \o t)))))
        = b \o ((s \o (b \o (b \o e))) \o ((v \o b) \o t))

LEMMA JoinRegroups ==
    ASSUME NEW U, ClosedUnder(U), Associative(U), NEW b, NEW e, NEW s, NEW v, NEW t
    PROVE  b \in U /\ e \in U /\ s \in U /\ v \in U /\ t \in U
           => Joining(b, e, s, v, t)
<1>0. SUFFICES ASSUME b \in U /\ e \in U /\ s \in U /\ v \in U /\ t \in U
               PROVE  b \o (s \o (b \o (b \o ((e \o v) \o (b \o t)))))
                          = b \o ((s \o (b \o (b \o e))) \o ((v \o b) \o t))
    BY DEF Joining
<1>b. b \in U
    BY <1>0
<1>e. e \in U
    BY <1>0
<1>s. s \in U
    BY <1>0
<1>v. v \in U
    BY <1>0
<1>t. t \in U
    BY <1>0
<1>1. PICK bt, be, vbt, vb : bt = b \o t /\ be = b \o e /\ vb = v \o b /\ vbt = vb \o t
    OBVIOUS
<1>2. bt \in U
    BY <1>1, <1>b, <1>t DEF ClosedUnder
<1>3. be \in U
    BY <1>1, <1>b, <1>e DEF ClosedUnder
<1>4. vb \in U
    BY <1>1, <1>b, <1>v DEF ClosedUnder
<1>5. vbt \in U
    BY <1>1, <1>4, <1>t DEF ClosedUnder
<1>6. PICK bbe : bbe = b \o be
    OBVIOUS
<1>7. bbe \in U
    BY <1>3, <1>6, <1>b DEF ClosedUnder
<1>8. (e \o v) \o bt = e \o (v \o bt)
    BY <1>2, <1>e, <1>v DEF Associative
<1>9. (v \o b) \o t = v \o (b \o t)
    BY <1>b, <1>v, <1>t DEF Associative
<1>10. (b \o e) \o vbt = b \o (e \o vbt)
    BY <1>5, <1>b, <1>e DEF Associative
<1>11. (b \o be) \o vbt = b \o (be \o vbt)
    BY <1>3, <1>5, <1>b DEF Associative
<1>12. (s \o bbe) \o vbt = s \o (bbe \o vbt)
    BY <1>5, <1>7, <1>s DEF Associative
<1> QED
    BY <1>1, <1>6, <1>8, <1>9, <1>10, <1>11, <1>12

Grouping(b, k, v, q) == ((b \o k) \o v) \o q = b \o (k \o (v \o q))

LEMMA FourGroup ==
    ASSUME NEW U, ClosedUnder(U), Associative(U), NEW b, NEW k, NEW v, NEW q
    PROVE  b \in U /\ k \in U /\ v \in U /\ q \in U => Grouping(b, k, v, q)
<1>0. SUFFICES ASSUME b \in U /\ k \in U /\ v \in U /\ q \in U
               PROVE  ((b \o k) \o v) \o q = b \o (k \o (v \o q))
    BY DEF Grouping
<1>b. b \in U
    BY <1>0
<1>k. k \in U
    BY <1>0
<1>v. v \in U
    BY <1>0
<1>q. q \in U
    BY <1>0
<1>1. PICK vq, bk : vq = v \o q /\ bk = b \o k
    OBVIOUS
<1>2. vq \in U
    BY <1>1, <1>v, <1>q DEF ClosedUnder
<1>3. bk \in U
    BY <1>1, <1>b, <1>k DEF ClosedUnder
<1>4. (bk \o v) \o q = bk \o (v \o q)
    BY <1>3, <1>v, <1>q DEF Associative
<1>5. (b \o k) \o vq = b \o (k \o vq)
    BY <1>2, <1>b, <1>k DEF Associative
<1> QED
    BY <1>1, <1>4, <1>5

Parting(b, k, v, q) == b \o (k \o ((v \o b) \o q)) = b \o ((k \o v) \o (b \o q))

LEMMA SepRegroups ==
    ASSUME NEW U, ClosedUnder(U), Associative(U), NEW b, NEW k, NEW v, NEW q
    PROVE  b \in U /\ k \in U /\ v \in U /\ q \in U
           => Parting(b, k, v, q)
<1>0. SUFFICES ASSUME b \in U /\ k \in U /\ v \in U /\ q \in U
               PROVE  b \o (k \o ((v \o b) \o q)) = b \o ((k \o v) \o (b \o q))
    BY DEF Parting
<1>b. b \in U
    BY <1>0
<1>k. k \in U
    BY <1>0
<1>v. v \in U
    BY <1>0
<1>q. q \in U
    BY <1>0
<1>1. PICK bq : bq = b \o q
    OBVIOUS
<1>2. bq \in U
    BY <1>1, <1>b, <1>q DEF ClosedUnder
<1>3. (v \o b) \o q = v \o (b \o q)
    BY <1>b, <1>v, <1>q DEF Associative
<1>4. (k \o v) \o bq = k \o (v \o bq)
    BY <1>2, <1>k, <1>v DEF Associative
<1> QED
    BY <1>1, <1>3, <1>4

\* What may follow the = that a sign is rejoined with.
More(v, c) == v = <<>> \/ (v = <<Sign("=")>> /\ c # "=")

\* Two signs apart from each other are rejoined, and an = after them stays.
LEMMA SepJoins ==
    ASSUME NEW T, Blank \in T, Signs \subseteq T, NEW t \in Seq(T), Safe(t), NEW c \in Ops,
           NEW v, More(v, c)
    PROVE  Rejoined(Sep(<<Sign(c)>>, Sep(<<Sign("=")>> \o v, t)), c)
               = Sep(<<Sign(c), Sign("=")>> \o v, Rejoined(t, c))
<1>1. PICK b, e, s : b = <<Blank>> /\ e = <<Sign("=")>> /\ s = <<Sign(c)>>
    OBVIOUS
<1>2. Sign(c) \in T /\ Sign("=") \in T
    BY SignsDiffer DEF Ops
<1>3. b \in Seq(T) /\ e \in Seq(T) /\ s \in Seq(T) /\ v \in Seq(T)
  <2>1. <<>> \in Seq(T) /\ <<Blank>> \in Seq(T) /\ <<Sign("=")>> \in Seq(T) /\ <<Sign(c)>> \in Seq(T)
      BY <1>2
  <2> QED
      BY <1>1, <2>1 DEF More
<1>0. PICK U : U = Seq(T)
    OBVIOUS
<1>s. Associative(U)
    BY <1>0, TextAlgebra
<1>c. ClosedUnder(U)
    BY <1>0, TextAlgebra
<1>m. b \in U /\ e \in U /\ s \in U /\ v \in U /\ t \in U
    BY <1>0, <1>3
<1>4. PICK a : a = v \o b
    OBVIOUS
<1>5. a \in Seq(T)
    BY <1>3, <1>4, Concat
<1>6. PICK q : q = Rejoined(t, c)
    OBVIOUS
<1>7. q \in Seq(T)
    BY <1>6, StaysSafe
<1>8. /\ a # <<>> => a[Len(a)] \notin Signs
      /\ ~(Len(a) >= 2 /\ a[Len(a) - 1] = Sign(c))
      /\ \A i \in DOMAIN a : ~MatchAt(a, c, i)
  <2>1. CASE v = <<>>
    <3>1. a = <<Blank>>
      <4>1. <<>> \o b = b
          BY <1>3, Concat
      <4> QED
          BY <1>1, <1>4, <2>1, <4>1
    <3>2. Len(a) = 1 /\ a[1] = Blank /\ DOMAIN a = 1 .. 1
        BY <3>1
    <3> QED
        BY <3>2, SignsDiffer DEF MatchAt
  <2>2. CASE v = <<Sign("=")>> /\ c # "="
    <3>1. a = <<Sign("="), Blank>>
        BY <1>1, <1>4, <2>2, Tuples
    <3>2. Len(a) = 2 /\ a[1] = Sign("=") /\ a[2] = Blank /\ DOMAIN a = 1 .. 2
        BY <3>1
    <3>3. Sign("=") # Sign(c)
        BY <2>2, SignsDiffer
    <3> QED
        BY <3>2, <3>3, SignsDiffer DEF MatchAt
  <2> QED
      BY <2>1, <2>2 DEF More
<1>9. Rejoined(a, c) = a
    BY <1>5, <1>8, NothingJoins
<1>10. Rejoined(a \o t, c) = a \o q
  <2>1. a # <<>> => a[Len(a)] \notin Signs
      BY <1>8
  <2>2. Len(a) >= 2 /\ a[Len(a) - 1] = Sign(c) => NoEqual(t)
      BY <1>8
  <2>3. Rejoined(a \o t, c) = Rejoined(a, c) \o Rejoined(t, c)
      BY <1>5, <2>1, <2>2, OnePass
  <2> QED
      BY <1>6, <1>9, <2>3
<1>11. PICK m : m = <<Sign(c), Blank, Blank, Sign("=")>>
    OBVIOUS
<1>12. PICK at : at = a \o t
    OBVIOUS
<1>13. at \in Seq(T)
    BY <1>5, <1>12, Concat
<1>u. at \in U
    BY <1>0, <1>13
<1>w. q \in U
    BY <1>0, <1>7
<1>14. Rejoined(b \o (m \o at), c) = b \o (<<Sign(c), Sign("=")>> \o Rejoined(at, c))
    BY <1>1, <1>2, <1>11, <1>13, SepJoin
<1>15. Sep(s, Sep(e \o v, t)) = b \o (m \o at)
  <2>1. Sep(s, Sep(e \o v, t)) = b \o (s \o (b \o (b \o ((e \o v) \o (b \o t)))))
      BY <1>1 DEF Sep
  <2>2. s \o (b \o (b \o e)) = m
    <3>1. Four(Sign(c), Blank, Blank, Sign("="))
        BY Tuples
    <3> QED
        BY <1>1, <1>11, <3>1 DEF Four
  <2> QED
    <3>1. b \o (s \o (b \o (b \o ((e \o v) \o (b \o t)))))
              = b \o ((s \o (b \o (b \o e))) \o ((v \o b) \o t))
      <4>1. Joining(b, e, s, v, t)
          BY <1>s, <1>c, <1>m, JoinRegroups, Zenon
      <4> QED
          BY <4>1 DEF Joining
    <3> QED
        BY <1>4, <1>12, <2>1, <2>2, <3>1
<1>16. b \o (<<Sign(c), Sign("=")>> \o (a \o q)) = Sep(<<Sign(c), Sign("=")>> \o v, q)
  <2>0. <<Sign(c), Sign("=")>> \in Seq(T)
      BY <1>2
  <2>1. PICK k : k = <<Sign(c), Sign("=")>> /\ k \in Seq(T)
      BY <2>0, Zenon
  <2>2. k \in U
      BY <1>0, <2>1
  <2>3. b \o (k \o ((v \o b) \o q)) = b \o ((k \o v) \o (b \o q))
    <3>1. Parting(b, k, v, q)
        BY <1>s, <1>c, <1>m, <1>w, <2>2, SepRegroups, Zenon
    <3> QED
        BY <3>1 DEF Parting
  <2> QED
      BY <1>1, <1>4, <2>1, <2>3 DEF Sep
<1> QED
    BY <1>1, <1>6, <1>10, <1>12, <1>14, <1>15, <1>16

\* The words that are made of signs: a sign, = after a sign of an operator, or
\* == after one of the others.
IsSignWord(w) ==
    \/ \E s \in Signs : w = <<s>>
    \/ \E c \in Ops : \E v : More(v, c) /\ w = <<Sign(c), Sign("=")>> \o v

\* A word is set apart: it is between blanks, and what is after it on its own.
SetApart(w, r) == make_tokens_explicit(w \o r) = Sep(w, make_tokens_explicit(r))

\* A piece that is no sign stays as it is, and what is after it is on its own.
LEMMA PlainApart ==
    ASSUME NEW T, Blank \in T, NEW x \in T, x \notin Signs, NEW r \in Seq(T)
    PROVE  make_tokens_explicit(<<x>> \o r) = <<x>> \o make_tokens_explicit(r)
<1>1. PICK r0, r1, r2, r3, r4 : Passes(r, r0, r1, r2, r3, r4)
    BY DEF Passes
<1>2. /\ make_tokens_explicit(r) = r4
      /\ r0 \in Seq(T) /\ r1 \in Seq(T) /\ r2 \in Seq(T) /\ r3 \in Seq(T)
      /\ Safe(r0) /\ Safe(r1) /\ Safe(r2) /\ Safe(r3)
    BY <1>1, PassesKeep
<1>3. Spaced(<<x>> \o r) = <<x>> \o r0
  <2>1. <<x>> \in Seq(T)
      OBVIOUS
  <2>2. Spaced(<<x>> \o r) = Spaced(<<x>>) \o Spaced(r)
      BY <2>1, SpacedIs
  <2>3. Spaced(<<x>>) = <<x>>
      BY SpacedIs DEF Pieces
  <2> QED
      BY <1>1, <2>2, <2>3 DEF Passes
<1>8. ASSUME NEW c \in Ops, NEW t \in Seq(T), Safe(t)
      PROVE  Rejoined(<<x>> \o t, c) = <<x>> \o Rejoined(t, c)
    BY <1>8, PlainPass
<1>9. {"=", "!", "<", ">"} = Ops
    BY DEF Ops
<1>4. Rejoined(<<x>> \o r0, "=") = <<x>> \o r1
    BY <1>1, <1>2, <1>8, <1>9 DEF Passes
<1>5. Rejoined(<<x>> \o r1, "!") = <<x>> \o r2
    BY <1>1, <1>2, <1>8, <1>9 DEF Passes
<1>6. Rejoined(<<x>> \o r2, "<") = <<x>> \o r3
    BY <1>1, <1>2, <1>8, <1>9 DEF Passes
<1>7. Rejoined(<<x>> \o r3, ">") = <<x>> \o r4
    BY <1>1, <1>2, <1>8, <1>9, ZenonT(40) DEF Passes
<1> QED
    BY <1>2, <1>3, <1>4, <1>5, <1>6, <1>7, ExplicitIs

\* A text that begins with a sign.
LEMMA SpacedSign ==
    ASSUME NEW T, Blank \in T, NEW s \in T, s \in Signs, NEW r \in Seq(T)
    PROVE  Spaced(<<s>> \o r) = Sep(<<s>>, Spaced(r))
<1>1. PICK p : p = <<Blank, s, Blank>>
    OBVIOUS
<1>2. Spaced(<<s>> \o r) = p \o Spaced(r)
  <2>1. <<s>> \in Seq(T)
      OBVIOUS
  <2>2. Spaced(<<s>> \o r) = Spaced(<<s>>) \o Spaced(r)
      BY <2>1, SpacedIs
  <2>3. Spaced(<<s>>) = <<Blank, s, Blank>>
      BY SpacedIs DEF Pieces
  <2> QED
      BY <1>1, <2>2, <2>3
<1>3. Spaced(r) \in Seq(T)
    BY SpacedIs
<1>4. <<s>> \in Seq(T)
    OBVIOUS
<1>5. Sep(<<s>>, Spaced(r)) = (<<Blank>> \o (<<s>> \o <<Blank>>)) \o Spaced(r)
  <2>1. PICK w, t : w = <<s>> /\ t = Spaced(r)
      OBVIOUS
  <2>2. w \in Seq(T) /\ t \in Seq(T)
      BY <1>3, <1>4, <2>1
  <2>3. Sep(w, t) = (<<Blank>> \o (w \o <<Blank>>)) \o t
      BY <2>2, SepGroups
  <2> QED
      BY <2>1, <2>3
<1>6. <<Blank>> \o (<<s>> \o <<Blank>>) = p
  <2>1. <<s>> \o <<Blank>> = <<s, Blank>>
      BY Tuples
  <2>2. <<Blank>> \o <<s, Blank>> = <<Blank, s, Blank>>
      BY Tuples
  <2> QED
      BY <1>1, <2>1, <2>2
<1> QED
    BY <1>2, <1>5, <1>6

\* A sign is set apart, one of an operator too if no = follows.
LEMMA SignApart ==
    ASSUME NEW T, Blank \in T, Signs \subseteq T, NEW s \in Signs, NEW r \in Seq(T),
           \/ s \notin {Sign(c) : c \in Ops}
           \/ r = <<>> \/ r[1] # Sign("=")
    PROVE  SetApart(<<s>>, r)
<1>1. PICK r0, r1, r2, r3, r4 : Passes(r, r0, r1, r2, r3, r4)
    BY DEF Passes
<1>2. /\ make_tokens_explicit(r) = r4
      /\ r0 \in Seq(T) /\ r1 \in Seq(T) /\ r2 \in Seq(T) /\ r3 \in Seq(T)
      /\ Safe(r0) /\ Safe(r1) /\ Safe(r2) /\ Safe(r3)
      /\ \/ r # <<>> /\ r[1] = Sign("=")
         \/ NoEqual(r0) /\ NoEqual(r1) /\ NoEqual(r2) /\ NoEqual(r3)
    BY <1>1, PassesKeep
<1>3. PICK w : w = <<s>>
    OBVIOUS
<1>4. /\ w \in Seq(T) /\ w # <<>> /\ w[Len(w)] = s
      /\ \A i \in DOMAIN w : w[i] # Blank
    BY <1>3, SignsDiffer
<1>5. ASSUME NEW c \in Ops, NEW t \in Seq(T), Safe(t), NoEqual(t) \/ s \notin {Sign(d) : d \in Ops}
      PROVE  Rejoined(Sep(w, t), c) = Sep(w, Rejoined(t, c))
  <2>1. w[Len(w)] = Sign(c) => NoEqual(t)
      BY <1>4, <1>5
  <2> QED
      BY <1>4, <1>5, <2>1, SepPass
<1>6. (NoEqual(r0) /\ NoEqual(r1) /\ NoEqual(r2) /\ NoEqual(r3)) \/ s \notin {Sign(d) : d \in Ops}
    BY <1>2
<1>7. {"=", "!", "<", ">"} = Ops
    BY DEF Ops
<1>8. Spaced(<<s>> \o r) = Sep(w, r0)
    BY <1>1, <1>3, SpacedSign DEF Passes
<1>9. Rejoined(Sep(w, r0), "=") = Sep(w, r1)
    BY <1>1, <1>2, <1>5, <1>6, <1>7 DEF Passes
<1>10. Rejoined(Sep(w, r1), "!") = Sep(w, r2)
    BY <1>1, <1>2, <1>5, <1>6, <1>7 DEF Passes
<1>11. Rejoined(Sep(w, r2), "<") = Sep(w, r3)
    BY <1>1, <1>2, <1>5, <1>6, <1>7 DEF Passes
<1>12. Rejoined(Sep(w, r3), ">") = Sep(w, r4)
    BY <1>1, <1>2, <1>5, <1>6, <1>7 DEF Passes
<1>13. make_tokens_explicit(<<s>> \o r) = Sep(w, r4)
    BY <1>8, <1>9, <1>10, <1>11, <1>12, ExplicitIs
<1> QED
    BY <1>2, <1>3, <1>13 DEF SetApart

\* What the passes make of an operator in two parts, c and = with v after it.
Apart(c, v, t) == Sep(<<Sign(c)>>, Sep(<<Sign("=")>> \o v, t))
Joined(c, v, t) == Sep(<<Sign(c), Sign("=")>> \o v, t)

PartOf(w, c, v) ==
    \/ w = <<Sign(c)>> \/ w = <<Sign("=")>> \o v \/ w = <<Sign(c), Sign("=")>> \o v

LEMMA MoreIs ==
    ASSUME NEW T, Blank \in T, Signs \subseteq T, NEW c \in Ops, NEW v, More(v, c), NEW w,
           PartOf(w, c, v)
    PROVE  /\ w \in Seq(T) /\ w # <<>> /\ \A i \in DOMAIN w : w[i] # Blank
           /\ w # <<Sign(c)>> => w[Len(w)] = Sign("=")
           /\ w = <<Sign(c)>> => w[Len(w)] = Sign(c)
           /\ w[1] \in Signs
<1>1. /\ Sign(c) \in T /\ Sign("=") \in T /\ Sign(c) # Blank /\ Sign("=") # Blank
      /\ Sign(c) \in Signs /\ Sign("=") \in Signs
    BY SignsDiffer DEF Ops
<1>2. PICK e, s, es, ce, ces : /\ e = <<Sign("=")>> /\ s = <<Sign(c)>>
                               /\ es = <<Sign("="), Sign("=")>> /\ ce = <<Sign(c), Sign("=")>>
                               /\ ces = <<Sign(c), Sign("="), Sign("=")>>
    OBVIOUS
<1>3. w \in {e, s, es, ce, ces}
  <2>1. CASE v = <<>>
    <3>1. e \in Seq(T) /\ ce \in Seq(T)
        BY <1>1, <1>2
    <3>2. e \o <<>> = e /\ ce \o <<>> = ce
        BY <3>1, Concat
    <3> QED
        BY <1>2, <2>1, <3>2 DEF PartOf
  <2>2. CASE v = <<Sign("=")>>
    <3>1. e \o v = es /\ ce \o v = ces
      <4>1. e \o v = es
          BY <1>2, <2>2, Tuples
      <4>2. e \in Seq(T) /\ s \in Seq(T)
          BY <1>1, <1>2
      <4>3. (s \o e) \o e = s \o (e \o e)
          BY <4>2, Concat
      <4>4. s \o e = ce
          BY <1>2, Tuples
      <4>5. s \o es = ces
          BY <1>2, Tuples
      <4> QED
          BY <1>2, <2>2, <4>1, <4>3, <4>4, <4>5
    <3> QED
        BY <1>2, <3>1 DEF PartOf
  <2> QED
      BY <2>1, <2>2 DEF More
<1>4. ASSUME w = s \/ w = e
      PROVE  /\ w \in Seq(T) /\ Len(w) = 1 /\ DOMAIN w = 1 .. 1 /\ w[1] \in {Sign(c), Sign("=")}
             /\ w = e => w[1] = Sign("=")
             /\ w = s => w[1] = Sign(c)
    BY <1>1, <1>2, <1>4
<1>5. ASSUME w = es \/ w = ce
      PROVE  /\ w \in Seq(T) /\ Len(w) = 2 /\ DOMAIN w = 1 .. 2
             /\ w[1] \in {Sign(c), Sign("=")} /\ w[2] = Sign("=")
  <2>1. CASE w = es
      BY <1>1, <1>2, <2>1
  <2>2. CASE w = ce
      BY <1>1, <1>2, <2>2
  <2> QED
      BY <1>5, <2>1, <2>2
<1>6. ASSUME w = ces
      PROVE  /\ w \in Seq(T) /\ Len(w) = 3 /\ DOMAIN w = 1 .. 3
             /\ w[1] = Sign(c) /\ w[2] = Sign("=") /\ w[3] = Sign("=")
    BY <1>1, <1>2, <1>6
<1>7. CASE w = s \/ w = e
  <2>1. w # <<>> /\ \A i \in DOMAIN w : w[i] # Blank
      BY <1>1, <1>4, <1>7
  <2> QED
      BY <1>1, <1>2, <1>4, <1>7, <2>1
<1>8. CASE w = es \/ w = ce
  <2>1. w # <<>> /\ \A i \in DOMAIN w : i = 1 \/ i = 2
      BY <1>5, <1>8
  <2>2. w # s
    <3>1. Len(s) = 1
        BY <1>2
    <3> QED
        BY <1>5, <1>8, <3>1
  <2> QED
      BY <1>1, <1>2, <1>5, <1>8, <2>1, <2>2
<1>9. CASE w = ces
  <2>0. \A i \in 1 .. 3 : i = 1 \/ i = 2 \/ i = 3
      OBVIOUS
  <2>3. w # <<>>
      BY <1>6, <1>9
  <2>1. w # <<>> /\ \A i \in DOMAIN w : i = 1 \/ i = 2 \/ i = 3
      BY <1>6, <1>9, <2>0, <2>3
  <2>2. w # s
    <3>1. Len(s) = 1
        BY <1>2
    <3> QED
      <4>1. Len(w) = 3
          BY <1>6, <1>9
      <4> QED
          BY <3>1, <4>1
  <2> QED
      BY <1>1, <1>2, <1>6, <1>9, <2>1, <2>2
<1> QED
    BY <1>3, <1>7, <1>8, <1>9

\* Until the pass of its sign an operator is in two parts, from then on in one.
LEMMA OperatorPass ==
    ASSUME NEW T, Blank \in T, Signs \subseteq T, NEW c \in Ops, NEW v, More(v, c),
           NEW t \in Seq(T), Safe(t), NEW d \in Ops, d # "="
    PROVE  /\ d # c => Rejoined(Apart(c, v, t), d) = Apart(c, v, Rejoined(t, d))
           /\ d = c => Rejoined(Apart(c, v, t), d) = Joined(c, v, Rejoined(t, d))
           /\ Rejoined(Joined(c, v, t), d) = Joined(c, v, Rejoined(t, d))
<1>1. Sign(d) # Sign("=")
    BY SignsDiffer
<1>2. PICK w : w = <<Sign("=")>> \o v
    OBVIOUS
<1>3. w \in Seq(T) /\ w # <<>> /\ (\A i \in DOMAIN w : w[i] # Blank)
      /\ (w # <<Sign(c)>> => w[Len(w)] = Sign("=")) /\ (w = <<Sign(c)>> => w[Len(w)] = Sign(c))
  <2>1. PartOf(w, c, v)
      BY <1>2 DEF PartOf
  <2> QED
      BY <2>1, MoreIs
<1>4. PICK x : x = <<Sign(c)>>
    OBVIOUS
<1>5. x \in Seq(T) /\ x # <<>> /\ (\A i \in DOMAIN x : x[i] # Blank) /\ x[Len(x)] = Sign(c)
  <2>1. PartOf(x, c, v)
      BY <1>4 DEF PartOf
  <2>2. /\ x \in Seq(T) /\ x # <<>> /\ \A i \in DOMAIN x : x[i] # Blank
        /\ x = <<Sign(c)>> => x[Len(x)] = Sign(c)
      BY <2>1, MoreIs
  <2> QED
      BY <1>4, <2>2
<1>6. PICK y : y = <<Sign(c), Sign("=")>> \o v
    OBVIOUS
<1>7. y \in Seq(T) /\ y # <<>> /\ (\A i \in DOMAIN y : y[i] # Blank)
      /\ (y # <<Sign(c)>> => y[Len(y)] = Sign("=")) /\ (y = <<Sign(c)>> => y[Len(y)] = Sign(c))
  <2>1. PartOf(y, c, v)
      BY <1>6 DEF PartOf
  <2> QED
      BY <2>1, MoreIs
<1>8. ASSUME d # c PROVE Rejoined(Apart(c, v, t), d) = Apart(c, v, Rejoined(t, d))
  <2>1. Sign(d) # Sign(c)
      BY <1>8, SignsDiffer
  <2>2. Rejoined(Sep(w, t), d) = Sep(w, Rejoined(t, d))
    <3>1. w[Len(w)] = Sign(d) => NoEqual(t)
        BY <1>1, <1>3, <2>1
    <3> QED
        BY <1>3, <3>1, SepPass
  <2>3. PICK q : q = Sep(w, t)
      OBVIOUS
  <2>4. q \in Seq(T) /\ Safe(q)
      BY <1>3, <2>3, SepIs
  <2>5. Rejoined(Sep(x, q), d) = Sep(x, Rejoined(q, d))
    <3>1. x[Len(x)] = Sign(d) => NoEqual(q)
        BY <1>5, <2>1
    <3> QED
        BY <1>5, <2>4, <3>1, SepPass
  <2> QED
      BY <1>2, <1>4, <2>2, <2>3, <2>5 DEF Apart
<1>9. ASSUME d = c PROVE Rejoined(Apart(c, v, t), d) = Joined(c, v, Rejoined(t, d))
    BY <1>9, SepJoins DEF Apart, Joined
<1>10. Rejoined(Joined(c, v, t), d) = Joined(c, v, Rejoined(t, d))
  <2>1. y # <<Sign(c)>>
    <3>1. Len(v) \in Nat /\ v \in Seq(T)
      <4>1. <<>> \in Seq(T) /\ <<Sign("=")>> \in Seq(T)
          BY SignsDiffer DEF Ops
      <4> QED
          BY <4>1, LenProperties DEF More
    <3>2. PICK z : z = <<Sign(c), Sign("=")>>
        OBVIOUS
    <3>3. z \in Seq(T)
        BY <3>2, SignsDiffer DEF Ops
    <3>4. Len(z) = 2
        BY <3>2
    <3>5. Len(y) = Len(z) + Len(v)
        BY <1>6, <3>1, <3>2, <3>3, Concat
    <3>6. Len(x) = 1
        BY <1>4
    <3>7. Len(y) >= 2
        BY <3>1, <3>4, <3>5
    <3>8. y # x
        BY <3>6, <3>7
    <3> QED
        BY <1>4, <3>8
  <2>2. y[Len(y)] = Sign(d) => NoEqual(t)
      BY <1>1, <1>7, <2>1
  <2>3. Rejoined(Sep(y, t), d) = Sep(y, Rejoined(t, d))
      BY <1>7, <2>2, SepPass
  <2> QED
      BY <1>6, <2>3 DEF Joined
<1> QED
    BY <1>8, <1>9, <1>10

\* An operator of two or three signs is set apart as one word.
LEMMA OperatorApart ==
    ASSUME NEW T, Blank \in T, Signs \subseteq T, NEW c \in Ops, NEW v, More(v, c), NEW r \in Seq(T),
           v # <<>> \/ c = "=" \/ r = <<>> \/ r[1] # Sign("=")
    PROVE  SetApart(<<Sign(c), Sign("=")>> \o v, r)
<1>1. PICK r0, r1, r2, r3, r4 : Passes(r, r0, r1, r2, r3, r4)
    BY DEF Passes
<1>2. /\ make_tokens_explicit(r) = r4
      /\ r0 \in Seq(T) /\ r1 \in Seq(T) /\ r2 \in Seq(T) /\ r3 \in Seq(T)
      /\ Safe(r0) /\ Safe(r1) /\ Safe(r2) /\ Safe(r3)
      /\ \/ r # <<>> /\ r[1] = Sign("=")
         \/ NoEqual(r0) /\ NoEqual(r1) /\ NoEqual(r2) /\ NoEqual(r3)
    BY <1>1, PassesKeep
<1>3. {"=", "!", "<", ">"} = Ops
    BY DEF Ops
<1>4. Sign(c) \in T /\ Sign("=") \in T /\ Sign(c) \in Signs /\ Sign("=") \in Signs
    BY <1>3, SignsDiffer
<1>5. PICK e, s : e = <<Sign("=")>> /\ s = <<Sign(c)>>
    OBVIOUS
<1>6. e \in Seq(T) /\ s \in Seq(T) /\ <<>> \in Seq(T) /\ v \in Seq(T)
  <2>1. <<Sign("=")>> \in Seq(T) /\ <<Sign(c)>> \in Seq(T) /\ <<>> \in Seq(T)
      BY <1>4
  <2> QED
      BY <1>5, <2>1 DEF More
<1>7. PICK vr : vr = v \o r
    OBVIOUS
<1>8. vr \in Seq(T) /\ e \o vr \in Seq(T)
    BY <1>6, <1>7, Concat
<1>9. (<<Sign(c), Sign("=")>> \o v) \o r = s \o (e \o vr)
  <2>1. s \o e = <<Sign(c), Sign("=")>>
      BY <1>5, Tuples
  <2>2. PICK U : U = Seq(T)
      OBVIOUS
  <2>3. s \in U /\ e \in U /\ v \in U /\ r \in U
      BY <1>6, <2>2
  <2>4. ClosedUnder(U) /\ Associative(U)
      BY <2>2, TextAlgebra
  <2>5. Grouping(s, e, v, r)
      BY <2>3, <2>4, FourGroup, Zenon
  <2> QED
      BY <1>7, <2>1, <2>5 DEF Grouping
<1>10. Spaced(s \o (e \o vr)) = Sep(s, Sep(e, Spaced(vr)))
  <2>1. Spaced(e \o vr) = Sep(e, Spaced(vr))
      BY <1>4, <1>5, <1>8, SpacedSign
  <2>2. PICK x : x = e \o vr
      OBVIOUS
  <2>3. Spaced(s \o x) = Sep(s, Spaced(x))
      BY <1>4, <1>5, <1>8, <2>2, SpacedSign
  <2> QED
      BY <2>1, <2>2, <2>3
<1>11. /\ e # <<>> /\ e[Len(e)] = Sign("=") /\ \A i \in DOMAIN e : e[i] # Blank
       /\ s # <<>> /\ s[Len(s)] = Sign(c) /\ \A i \in DOMAIN s : s[i] # Blank
    BY <1>5, SignsDiffer
<1>12. e \o <<>> = e
    BY <1>6, Concat
<1>13. \A t \in Seq(T) : Sep(e, t) \in Seq(T) /\ Safe(Sep(e, t))
    BY <1>6, SepIs
<1>14. \A t \in Seq(T) :
           Safe(t) => Rejoined(Sep(e, Sep(e, t)), "=") = Joined("=", <<>>, Rejoined(t, "="))
  <2>1. ASSUME NEW t \in Seq(T), Safe(t)
        PROVE  Rejoined(Sep(<<Sign("=")>>, Sep(<<Sign("=")>> \o <<>>, t)), "=")
                   = Sep(<<Sign("="), Sign("=")>> \o <<>>, Rejoined(t, "="))
    <3>1. "=" \in Ops /\ More(<<>>, "=")
        BY <1>3 DEF More
    <3> QED
        BY <2>1, <3>1, SepJoins
  <2> QED
      BY <1>5, <1>12, <2>1 DEF Joined
<1>15. ASSUME c # "=", v = <<>>
       PROVE  Rejoined(Spaced(s \o (e \o vr)), "=") = Apart(c, v, r1)
  <2>1. NoEqual(r0)
      BY <1>2, <1>15
  <2>2. vr = r
      BY <1>6, <1>7, <1>15, Concat
  <2>3. Rejoined(Sep(e, r0), "=") = Sep(e, r1)
    <3>1. e[Len(e)] = Sign("=") => NoEqual(r0)
        BY <2>1
    <3>2. Rejoined(Sep(e, r0), "=") = Sep(e, Rejoined(r0, "="))
        BY <1>2, <1>3, <1>6, <1>11, <3>1, SepPass
    <3> QED
        BY <1>1, <3>2 DEF Passes
  <2>4. PICK q : q = Sep(e, r0)
      OBVIOUS
  <2>5. q \in Seq(T) /\ Safe(q)
      BY <1>2, <1>13, <2>4
  <2>6. s[Len(s)] # Sign("=")
      BY <1>11, <1>15, SignsDiffer
  <2>7. Rejoined(Sep(s, q), "=") = Sep(s, Rejoined(q, "="))
      BY <1>3, <1>6, <1>11, <2>5, <2>6, SepPass
  <2> QED
      BY <1>1, <1>5, <1>10, <1>12, <1>15, <2>2, <2>3, <2>4, <2>7 DEF Passes, Apart
<1>16. ASSUME c # "=", v = e
       PROVE  Rejoined(Spaced(s \o (e \o vr)), "=") = Apart(c, v, r1)
  <2>1. Spaced(vr) = Sep(e, r0)
      BY <1>1, <1>4, <1>5, <1>7, <1>16, SpacedSign DEF Passes
  <2>2. Rejoined(Sep(e, Sep(e, r0)), "=") = Joined("=", <<>>, r1)
      BY <1>1, <1>2, <1>14 DEF Passes
  <2>3. Joined("=", <<>>, r1) = Sep(e \o v, r1)
    <3>1. PICK ee : ee = <<Sign("="), Sign("=")>>
        OBVIOUS
    <3>2. e \o v = ee
        BY <1>5, <1>16, <3>1, Tuples
    <3>3. ee \o <<>> = ee
      <4>1. ee \in Seq(T)
          BY <1>4, <3>1
      <4> QED
          BY <4>1, Concat
    <3> QED
        BY <3>1, <3>2, <3>3 DEF Joined
  <2>4. PICK q : q = Sep(e, Sep(e, r0))
      OBVIOUS
  <2>5. q \in Seq(T) /\ Safe(q)
      BY <1>2, <1>13, <2>4
  <2>6. s[Len(s)] # Sign("=")
      BY <1>11, <1>16, SignsDiffer
  <2>7. Rejoined(Sep(s, q), "=") = Sep(s, Rejoined(q, "="))
      BY <1>3, <1>6, <1>11, <2>5, <2>6, SepPass
  <2> QED
      BY <1>5, <1>10, <2>1, <2>2, <2>3, <2>4, <2>7 DEF Apart
<1>17. /\ r2 = Rejoined(r1, "!") /\ r3 = Rejoined(r2, "<") /\ r4 = Rejoined(r3, ">")
       /\ r1 = Rejoined(r0, "=")
    BY <1>1 DEF Passes
<1>18. ASSUME NEW d \in Ops, d # "=", NEW t \in Seq(T), Safe(t)
       PROVE  /\ d # c => Rejoined(Apart(c, v, t), d) = Apart(c, v, Rejoined(t, d))
              /\ d = c => Rejoined(Apart(c, v, t), d) = Joined(c, v, Rejoined(t, d))
              /\ Rejoined(Joined(c, v, t), d) = Joined(c, v, Rejoined(t, d))
    BY <1>18, OperatorPass
<1>19. /\ "!" \in Ops /\ "<" \in Ops /\ ">" \in Ops
       /\ "!" # "=" /\ "<" # "=" /\ ">" # "=" /\ "!" # "<" /\ "!" # ">" /\ "<" # ">"
    BY <1>3
<1>20. /\ Rejoined(Joined(c, v, r1), "!") = Joined(c, v, r2)
       /\ Rejoined(Joined(c, v, r2), "<") = Joined(c, v, r3)
       /\ Rejoined(Joined(c, v, r3), ">") = Joined(c, v, r4)
    BY <1>2, <1>17, <1>18, <1>19
<1>21. /\ "!" # c => Rejoined(Apart(c, v, r1), "!") = Apart(c, v, r2)
       /\ "<" # c => Rejoined(Apart(c, v, r2), "<") = Apart(c, v, r3)
       /\ ">" # c => Rejoined(Apart(c, v, r3), ">") = Apart(c, v, r4)
       /\ "!" = c => Rejoined(Apart(c, v, r1), "!") = Joined(c, v, r2)
       /\ "<" = c => Rejoined(Apart(c, v, r2), "<") = Joined(c, v, r3)
       /\ ">" = c => Rejoined(Apart(c, v, r3), ">") = Joined(c, v, r4)
    BY <1>2, <1>17, <1>18, <1>19
<1>22. PICK x : x = Rejoined(Spaced(s \o (e \o vr)), "=")
    OBVIOUS
<1>23. Rejoined(Rejoined(Rejoined(x, "!"), "<"), ">") = Joined(c, v, r4)
  <2>1. CASE c = "="
    <3>1. v = <<>>
        BY <2>1 DEF More
    <3>2. vr = r
        BY <1>6, <1>7, <3>1, Concat
    <3>3. x = Joined(c, v, r1)
        BY <1>1, <1>2, <1>5, <1>10, <1>14, <1>22, <2>1, <3>1, <3>2 DEF Passes
    <3> QED
        BY <1>20, <3>3
  <2>2. CASE c # "="
    <3>1. x = Apart(c, v, r1)
        BY <1>5, <1>15, <1>16, <1>22, <2>2 DEF More
    <3>2. c = "!" \/ c = "<" \/ c = ">"
        BY <1>3, <2>2
    <3>3. CASE c = "!"
      <4>1. Rejoined(x, "!") = Joined(c, v, r2)
          BY <1>21, <3>1, <3>3
      <4> QED
          BY <1>20, <4>1
    <3>4. CASE c = "<"
      <4>1. Rejoined(x, "!") = Apart(c, v, r2)
          BY <1>19, <1>21, <3>1, <3>4
      <4>2. Rejoined(Apart(c, v, r2), "<") = Joined(c, v, r3)
          BY <1>21, <3>4
      <4> QED
          BY <1>20, <4>1, <4>2
    <3>5. CASE c = ">"
      <4>1. Rejoined(x, "!") = Apart(c, v, r2)
          BY <1>19, <1>21, <3>1, <3>5
      <4>2. Rejoined(Apart(c, v, r2), "<") = Apart(c, v, r3)
          BY <1>19, <1>21, <3>5
      <4>3. Rejoined(Apart(c, v, r3), ">") = Joined(c, v, r4)
          BY <1>21, <3>5
      <4> QED
          BY <4>1, <4>2, <4>3
    <3> QED
        BY <3>2, <3>3, <3>4, <3>5
  <2> QED
      BY <2>1, <2>2
<1>24. make_tokens_explicit((<<Sign(c), Sign("=")>> \o v) \o r) = Joined(c, v, r4)
  <2>1. PICK y : y = (<<Sign(c), Sign("=")>> \o v) \o r
      OBVIOUS
  <2>2. make_tokens_explicit(y) = Rejoined(Rejoined(Rejoined(Rejoined(Spaced(y), "="), "!"), "<"), ">")
      BY ExplicitIs
  <2> QED
      BY <1>9, <1>22, <1>23, <2>1, <2>2
<1> QED
    BY <1>2, <1>24 DEF SetApart, Joined

\* A place of a text is blank, or just before or behind the text.
BlankAt(text, i) == i \in {0, Len(text) + 1} \/ text[i] = Blank

IsEnd(text, j, i) == BlankAt(text, j + 1) /\ \A k \in i .. j : ~BlankAt(text, k)

\* The word that begins at place i, if one does.
WordAt(text, i) ==
    IF BlankAt(text, i) \/ ~BlankAt(text, i - 1) THEN <<>>
    ELSE <<SubSeq(text, i, CHOOSE j \in i .. Len(text) : IsEnd(text, j, i))>>

\* The words of a text, place by place.
LEMMA WordsAre ==
    ASSUME NEW text
    PROVE  Words(text) = FlattenSeq([i \in DOMAIN text |-> WordAt(text, i)])
BY DEF Words, WordAt, IsEnd, BlankAt

\* A word ends somewhere, and at one place.
LEMMA WordEnds ==
    ASSUME NEW T, NEW text \in Seq(T), NEW i \in 1 .. Len(text), ~BlankAt(text, i)
    PROVE  \E j \in i .. Len(text) : IsEnd(text, j, i)
<1>1. Len(text) \in Nat
    BY LenProperties
<1> DEFINE S == {k \in Nat : i < k /\ k <= Len(text) + 1 /\ BlankAt(text, k)}
<1>2. Len(text) + 1 \in S
    BY <1>1 DEF BlankAt
<1>3. PICK m \in S : \A k \in S : m <= k
    BY <1>2, Least
<1>4. m \in Nat /\ i < m /\ m <= Len(text) + 1 /\ BlankAt(text, m)
    BY <1>3
<1>5. ASSUME NEW k \in i .. m - 1 PROVE ~BlankAt(text, k)
  <2>1. CASE k = i
      BY <2>1
  <2>2. CASE k # i
    <3>1. k \notin S
        BY <1>3, <1>4, <1>5
    <3>2. k \in Nat /\ i < k /\ k <= Len(text) + 1
        BY <1>1, <1>4, <1>5, <2>2
    <3> QED
        BY <3>1, <3>2
  <2> QED
      BY <2>1, <2>2
<1>6. m - 1 \in i .. Len(text) /\ (m - 1) + 1 = m
    BY <1>1, <1>4
<1>7. IsEnd(text, m - 1, i)
    BY <1>4, <1>5, <1>6 DEF IsEnd
<1> QED
    BY <1>6, <1>7

LEMMA WordIs ==
    ASSUME NEW T, NEW text \in Seq(T), NEW i \in 1 .. Len(text), BlankAt(text, i - 1),
           NEW j \in i .. Len(text), IsEnd(text, j, i)
    PROVE  WordAt(text, i) = <<SubSeq(text, i, j)>>
<1>1. Len(text) \in Nat
    BY LenProperties
<1>2. i \in i .. j
    BY <1>1
<1>3. ~BlankAt(text, i)
    BY <1>2 DEF IsEnd
<1>4. PICK e : e = CHOOSE k \in i .. Len(text) : IsEnd(text, k, i)
    OBVIOUS
<1>5. e \in i .. Len(text) /\ IsEnd(text, e, i)
    BY <1>4
<1>6. e = j
  <2>1. CASE e < j
    <3>1. e + 1 \in i .. j
        BY <1>1, <1>5, <2>1
    <3> QED
        BY <1>5, <3>1 DEF IsEnd
  <2>2. CASE j < e
    <3>1. j + 1 \in i .. e
        BY <1>1, <1>5, <2>2
    <3> QED
        BY <1>5, <3>1 DEF IsEnd
  <2> QED
      BY <1>1, <1>5, <2>1, <2>2
<1> QED
    BY <1>3, <1>4, <1>6 DEF WordAt

LEMMA NoWord ==
    ASSUME NEW text, NEW i, BlankAt(text, i) \/ ~BlankAt(text, i - 1)
    PROVE  WordAt(text, i) = <<>>
BY DEF WordAt

\* The words of a text are texts.
LEMMA WordParts ==
    ASSUME NEW T, NEW text \in Seq(T), NEW i \in 1 .. Len(text)
    PROVE  /\ WordAt(text, i) \in Seq(Seq(T))
           /\ \/ WordAt(text, i) = <<>> /\ (BlankAt(text, i) \/ ~BlankAt(text, i - 1))
              \/ \E j \in i .. Len(text) : /\ IsEnd(text, j, i) /\ BlankAt(text, i - 1)
                                           /\ WordAt(text, i) = <<SubSeq(text, i, j)>>
<1>1. CASE BlankAt(text, i) \/ ~BlankAt(text, i - 1)
  <2>1. WordAt(text, i) = <<>>
      BY <1>1, NoWord
  <2>2. <<>> \in Seq(Seq(T))
      BY EmptySeq
  <2> QED
      BY <1>1, <2>1, <2>2
<1>2. CASE ~BlankAt(text, i) /\ BlankAt(text, i - 1)
  <2>1. PICK j \in i .. Len(text) : IsEnd(text, j, i)
      BY <1>2, WordEnds
  <2>2. WordAt(text, i) = <<SubSeq(text, i, j)>>
      BY <1>2, <2>1, WordIs
  <2>3. SubSeq(text, i, j) \in Seq(T)
    <3>1. Len(text) \in Nat
        BY LenProperties
    <3>2. i \in Int /\ j \in Int /\ \A k \in i .. j : text[k] \in T
      <4>1. \A k \in i .. j : k \in 1 .. Len(text)
          BY <2>1, <3>1
      <4>2. \A k \in 1 .. Len(text) : text[k] \in T
          BY LenProperties
      <4> QED
          BY <2>1, <3>1, <4>1, <4>2
    <3> QED
        BY <3>2, SubSeqProperties
  <2>4. <<SubSeq(text, i, j)>> \in Seq(Seq(T))
    <3>1. PICK w, U : w = SubSeq(text, i, j) /\ U = Seq(T)
        OBVIOUS
    <3>2. w \in U
        BY <2>3, <3>1
    <3>3. <<w>> \in Seq(U)
        BY <3>2
    <3> QED
        BY <3>1, <3>3
  <2> QED
      BY <1>2, <2>1, <2>2, <2>4
<1> QED
    BY <1>1, <1>2

\* Nothing is put together of nothing.
LEMMA FlattenEmpty ==
    ASSUME NEW T, NEW q \in Seq(Seq(T)), \A i \in 1 .. Len(q) : q[i] = <<>>
    PROVE  FlattenSeq(q) = <<>>
<1> DEFINE n == Len(q)
<1>1. n \in Nat /\ q \in [1 .. n -> Seq(T)]
    BY PartsOf
<1>2. PICK f : Adds(f, q, n, T) /\ FlattenSeq(q) = f[n]
    BY <1>1, FlattenSum
<1>3. \A i \in 1 .. n : q[i] = <<>>
    OBVIOUS
<1> HIDE DEF n
<1> DEFINE R(k) == k <= n => f[k] = <<>>
           S == {k \in Nat : R(k)}
<1>4. R(0)
    BY <1>2 DEF Adds
<1>5. ASSUME NEW k \in Nat, R(k) PROVE R(k + 1)
  <2> SUFFICES ASSUME k + 1 <= n PROVE f[k + 1] = <<>>
      OBVIOUS
  <2>1. PICK i \in 1 .. n : i = k + 1
      BY <1>1
  <2>6. f[i] = f[i - 1] \o q[i]
      BY <1>2, <2>1 DEF Adds
  <2>2. f[i] = f[i - 1] \o q[i] /\ i - 1 = k
      BY <2>1, <2>6
  <2>3. f[k] = <<>>
      BY <1>1, <1>5
  <2>4. q[i] = <<>>
      BY <1>3
  <2>5. <<>> \o <<>> = <<>>
      BY ConcatEmptySeq, EmptySeq
  <2> QED
      BY <2>1, <2>2, <2>3, <2>4, <2>5
<1> HIDE DEF R
<1>6. 0 \in S /\ \A k \in Nat : k \in S => k + 1 \in S
    BY <1>4, <1>5
<1> HIDE DEF S
<1>7. n \in S
    BY <1>1, <1>6, EveryNumber
<1>8. R(n)
    BY <1>7 DEF S
<1>9. n <= n
    BY <1>1
<1>10. f[n] = <<>>
    BY <1>8, <1>9, Zenon DEF R
<1> QED
    BY <1>2, <1>10

\* A text at whose end, or before which, there is a blank.
Parted(a, r) == \/ a = <<>> \/ a[Len(a)] = Blank
                \/ r = <<>> \/ r[1] = Blank

\* Behind a blank the words are those of the rest of the text.
LEMMA WordsShift ==
    ASSUME NEW T, NEW a \in Seq(T), NEW r \in Seq(T), Parted(a, r), NEW i \in 1 .. Len(r)
    PROVE  WordAt(a \o r, Len(a) + i) = WordAt(r, i)
<1> DEFINE n == Len(a)
           m == Len(r)
<1>1. PICK x : x = a \o r
    OBVIOUS
<1>2. /\ n \in Nat /\ m \in Nat
      /\ x \in Seq(T) /\ Len(x) = n + m
      /\ \A k \in 1 .. n : x[k] = a[k]
      /\ \A k \in 1 .. m : x[n + k] = r[k]
  <2>1. /\ Len(a) \in Nat /\ Len(r) \in Nat
        /\ a \o r \in Seq(T) /\ Len(a \o r) = Len(a) + Len(r)
        /\ \A k \in 1 .. Len(a) : (a \o r)[k] = a[k]
        /\ \A k \in 1 .. Len(r) : (a \o r)[Len(a) + k] = r[k]
      BY PiecesOf
  <2> QED
      BY <1>1, <2>1
<1> HIDE DEF n
<1> HIDE DEF m
<1>3. ASSUME NEW k \in 1 .. m + 1 PROVE BlankAt(x, n + k) <=> BlankAt(r, k)
  <2>1. CASE k = m + 1
      BY <1>2, <2>1 DEF BlankAt, m
  <2>2. CASE k \in 1 .. m
    <3>1. x[n + k] = r[k]
        BY <1>2, <2>2
    <3>2. n + k \notin {0, Len(x) + 1} /\ k \notin {0, Len(r) + 1}
        BY <1>2, <2>2 DEF m
    <3> QED
        BY <3>1, <3>2 DEF BlankAt
  <2> QED
      BY <1>2, <1>3, <2>1, <2>2
<1>4. i \in 1 .. m /\ i \in 1 .. m + 1 /\ n + i \in 1 .. Len(x)
    BY <1>2 DEF m
<1>5. BlankAt(r, i) \/ (BlankAt(x, n + i - 1) <=> BlankAt(r, i - 1))
  <2>1. CASE i = 1
    <3>1. BlankAt(r, i - 1)
        BY <2>1 DEF BlankAt
    <3>2. CASE r # <<>> /\ r[1] = Blank
        BY <2>1, <3>2 DEF BlankAt
    <3>3. CASE a = <<>> \/ a[Len(a)] = Blank
      <4>1. CASE n = 0
          BY <2>1, <3>1, <4>1 DEF BlankAt
      <4>2. CASE n # 0
        <5>1. n \in 1 .. n
            BY <1>2, <4>2
        <5>2. a # <<>>
            BY <4>2, EmptySeq DEF n
        <5>3. x[n] = Blank
            BY <1>2, <3>3, <5>1, <5>2 DEF n
        <5>4. n + i - 1 = n
            BY <1>2, <2>1
        <5> QED
            BY <3>1, <5>3, <5>4 DEF BlankAt
      <4> QED
          BY <4>1, <4>2
    <3>4. r # <<>>
      <4>1. r = <<>> => m = 0
          BY EmptySeq DEF m
      <4> QED
          BY <1>4, <4>1
    <3> QED
        BY <3>2, <3>3, <3>4 DEF Parted
  <2>2. CASE i # 1
    <3>1. PICK k \in 1 .. m + 1 : k = i - 1
        BY <1>2, <1>4, <2>2
    <3>2. n + i - 1 = n + k
        BY <1>2, <1>4, <3>1
    <3>3. BlankAt(x, n + k) <=> BlankAt(r, k)
        BY <1>3
    <3> QED
        BY <3>1, <3>2, <3>3
  <2> QED
      BY <2>1, <2>2
<1>6. BlankAt(x, n + i) <=> BlankAt(r, i)
    BY <1>3, <1>4
<1>7. CASE BlankAt(r, i) \/ ~BlankAt(r, i - 1)
  <2>1. BlankAt(x, n + i) \/ ~BlankAt(x, n + i - 1)
      BY <1>5, <1>6, <1>7
  <2> QED
      BY <1>1, <1>7, <2>1, NoWord DEF n
<1>8. CASE ~BlankAt(r, i) /\ BlankAt(r, i - 1)
  <2>1. PICK j \in i .. Len(r) : IsEnd(r, j, i)
      BY <1>8, WordEnds
  <2>2. j \in i .. m /\ j \in 1 .. m
      BY <1>2, <1>4, <2>1 DEF m
  <2>3. WordAt(r, i) = <<SubSeq(r, i, j)>>
      BY <1>8, <2>1, WordIs
  <2>4. IsEnd(x, n + j, n + i)
    <3>1. BlankAt(x, (n + j) + 1)
      <4>1. PICK k \in 1 .. m + 1 : k = j + 1
          BY <1>2, <2>2
      <4>2. BlankAt(r, k)
          BY <2>1, <4>1 DEF IsEnd
      <4>3. n + k = (n + j) + 1
          BY <1>2, <2>2, <4>1
      <4> QED
          BY <1>3, <4>2, <4>3
    <3>2. ASSUME NEW l \in n + i .. n + j PROVE ~BlankAt(x, l)
      <4>1. PICK k \in i .. j : l = n + k
        <5>1. l - n \in i .. j /\ l = n + (l - n)
            BY <1>2, <1>4, <2>2, <3>2
        <5> QED
            BY <5>1
      <4>2. k \in 1 .. m + 1
          BY <1>2, <1>4, <2>2
      <4>3. ~BlankAt(r, k)
          BY <2>1 DEF IsEnd
      <4> QED
          BY <1>3, <4>1, <4>2, <4>3
    <3> QED
        BY <3>1, <3>2 DEF IsEnd
  <2>5. n + i \in 1 .. Len(x) /\ n + j \in n + i .. Len(x)
      BY <1>2, <1>4, <2>2
  <2>6. BlankAt(x, n + i - 1)
    <3>1. BlankAt(x, n + i - 1) <=> BlankAt(r, i - 1)
        BY <1>5, <1>8
    <3> QED
        BY <1>8, <3>1
  <2>7. WordAt(x, n + i) = <<SubSeq(x, n + i, n + j)>>
    <3>1. PICK u, v : u = n + i /\ v = n + j
        OBVIOUS
    <3>2. u \in 1 .. Len(x) /\ v \in u .. Len(x)
        BY <2>5, <3>1
    <3>6. u - 1 = n + i - 1
        BY <1>2, <1>4, <3>1
    <3>4. BlankAt(x, u - 1)
        BY <2>6, <3>6
    <3>5. IsEnd(x, v, u)
        BY <2>4, <3>1
    <3>3. WordAt(x, u) = <<SubSeq(x, u, v)>>
        BY <1>2, <3>2, <3>4, <3>5, WordIs
    <3> QED
        BY <3>1, <3>3
  <2>8. SubSeq(x, n + i, n + j) = SubSeq(r, i, j)
    <3>1. n + i \in Int /\ n + j \in Int /\ i \in Int /\ j \in Int
        BY <1>2, <1>4, <2>2
    <3>2. \A k \in n + i .. n + j : x[k] \in T
      <4>1. \A k \in 1 .. Len(x) : x[k] \in T
          BY <1>2, ElementOfSeq
      <4> QED
          BY <1>2, <2>2, <2>5, <4>1
    <3>3. \A k \in i .. j : r[k] \in T
      <4>1. \A k \in 1 .. m : r[k] \in T
          BY ElementOfSeq DEF m
      <4> QED
          BY <1>2, <1>4, <2>2, <4>1
    <3>4. PICK p, q : p = SubSeq(x, n + i, n + j) /\ q = SubSeq(r, i, j)
        OBVIOUS
    <3>5. /\ p \in Seq(T) /\ Len(p) = j - i + 1
          /\ \A k \in 1 .. j - i + 1 : p[k] = x[(n + i) + k - 1]
      <4>1. /\ SubSeq(x, n + i, n + j) \in Seq(T)
            /\ Len(SubSeq(x, n + i, n + j)) = IF n + i <= n + j THEN (n + j) - (n + i) + 1 ELSE 0
            /\ \A k \in 1 .. (n + j) - (n + i) + 1 :
                   SubSeq(x, n + i, n + j)[k] = x[(n + i) + k - 1]
          BY <3>1, <3>2, SubSeqProperties
      <4>2. (n + j) - (n + i) + 1 = j - i + 1 /\ n + i <= n + j
          BY <1>2, <1>4, <2>2
      <4> QED
          BY <3>4, <4>1, <4>2
    <3>6. /\ q \in Seq(T) /\ Len(q) = j - i + 1
          /\ \A k \in 1 .. j - i + 1 : q[k] = r[i + k - 1]
      <4>1. /\ SubSeq(r, i, j) \in Seq(T)
            /\ Len(SubSeq(r, i, j)) = IF i <= j THEN j - i + 1 ELSE 0
            /\ \A k \in 1 .. j - i + 1 : SubSeq(r, i, j)[k] = r[i + k - 1]
          BY <3>1, <3>3, SubSeqProperties
      <4>2. i <= j
          BY <1>2, <1>4, <2>2
      <4> QED
          BY <3>4, <4>1, <4>2
    <3>7. ASSUME NEW k \in 1 .. Len(p) PROVE p[k] = q[k]
      <4>1. k \in 1 .. j - i + 1
          BY <3>5
      <4>2. PICK l \in 1 .. m : l = i + k - 1
          BY <1>2, <1>4, <2>2, <4>1
      <4>3. (n + i) + k - 1 = n + l
          BY <1>2, <1>4, <4>1, <4>2
      <4>4. x[n + l] = r[l]
          BY <1>2
      <4> QED
          BY <3>5, <3>6, <4>1, <4>2, <4>3, <4>4
    <3> QED
        BY <3>4, <3>5, <3>6, <3>7, SeqEqual
  <2> QED
      BY <1>1, <2>3, <2>7, <2>8 DEF n
<1> QED
    BY <1>7, <1>8

\* The laws of Words: a blank at the beginning, and a word at the beginning.
IsWord(w) == w # <<>> /\ \A i \in DOMAIN w : w[i] # Blank

\* The words of a text of two parts, if none lies in both.
LEMMA WordsApart ==
    ASSUME NEW T, NEW a \in Seq(T), NEW r \in Seq(T), Parted(a, r), NEW ws \in Seq(Seq(T)),
           \A p \in Seq(Seq(Seq(T))) :
               /\ Len(p) = Len(a)
               /\ \A i \in 1 .. Len(a) : p[i] = WordAt(a \o r, i)
               => FlattenSeq(p) = ws
    PROVE  Words(a \o r) = ws \o Words(r)
<1>1. PICK x : x = a \o r
    OBVIOUS
<1>2. /\ Len(a) \in Nat /\ Len(r) \in Nat
      /\ x \in Seq(T) /\ Len(x) = Len(a) + Len(r)
      /\ DOMAIN x = 1 .. Len(a) + Len(r) /\ DOMAIN r = 1 .. Len(r)
  <2>1. /\ Len(a) \in Nat /\ Len(r) \in Nat
        /\ a \o r \in Seq(T) /\ Len(a \o r) = Len(a) + Len(r)
        /\ DOMAIN (a \o r) = 1 .. Len(a) + Len(r) /\ DOMAIN r = 1 .. Len(r)
      BY PiecesOf
  <2> QED
      BY <1>1, <2>1
<1>3. PICK U : U = Seq(Seq(T))
    OBVIOUS
<1>4. PICK p, q, s : /\ p = [i \in 1 .. Len(a) |-> WordAt(x, i)]
                     /\ q = [i \in 1 .. Len(r) |-> WordAt(r, i)]
                     /\ s = [i \in 1 .. Len(x) |-> WordAt(x, i)]
    OBVIOUS
<1>5. /\ \A i \in 1 .. Len(x) : WordAt(x, i) \in U
      /\ \A i \in 1 .. Len(r) : WordAt(r, i) \in U
    BY <1>2, <1>3, WordParts
<1>6. p \in [1 .. Len(a) -> U] /\ q \in [1 .. Len(r) -> U] /\ s \in [1 .. Len(x) -> U]
    BY <1>2, <1>4, <1>5
<1>7. p \in Seq(U) /\ q \in Seq(U) /\ s \in Seq(U)
  <2>1. p \in Seq(U)
    <3>1. Len(a) \in Nat /\ p \in [1 .. Len(a) -> U]
        BY <1>2, <1>6
    <3> QED
        BY <3>1, SeqDef
  <2>2. q \in Seq(U)
    <3>1. PICK k : k = Len(r)
        OBVIOUS
    <3>2. k \in Nat
        BY <1>2, <3>1
    <3>3. q \in [1 .. k -> U]
        BY <1>6, <3>1
    <3> QED
        BY <3>2, <3>3, SeqDef
  <2>3. s \in Seq(U)
    <3>1. Len(x) \in Nat
        BY <1>2
    <3> QED
        BY <1>6, <3>1, SeqDef
  <2> QED
      BY <2>1, <2>2, <2>3
<1>8. Len(p) = Len(a) /\ Len(q) = Len(r) /\ Len(s) = Len(a) + Len(r)
    BY <1>2, <1>6, <1>7, LenProperties
<1>9. s = p \o q
  <2>1. /\ p \o q \in Seq(U) /\ Len(p \o q) = Len(p) + Len(q)
        /\ \A i \in 1 .. Len(p) : (p \o q)[i] = p[i]
        /\ \A i \in 1 .. Len(q) : (p \o q)[Len(p) + i] = q[i]
      BY <1>7, PiecesOf
  <2>2. ASSUME NEW i \in 1 .. Len(s) PROVE s[i] = (p \o q)[i]
    <3>1. CASE i <= Len(a)
      <4>1. i \in 1 .. Len(a) /\ i \in 1 .. Len(x) /\ i \in 1 .. Len(p)
          BY <1>2, <1>8, <3>1
      <4> QED
          BY <1>4, <2>1, <4>1
    <3>2. CASE i > Len(a)
      <4>1. PICK k \in 1 .. Len(r) : i = Len(a) + k
        <5>1. i - Len(a) \in 1 .. Len(r) /\ i = Len(a) + (i - Len(a))
            BY <1>2, <1>8, <3>2
        <5> QED
            BY <5>1
      <4>2. i \in 1 .. Len(x) /\ k \in 1 .. Len(q)
          BY <1>2, <1>8
      <4>3. s[i] = WordAt(x, i) /\ q[k] = WordAt(r, k)
          BY <1>4, <4>2
      <4>4. WordAt(x, Len(a) + k) = WordAt(r, k)
          BY <1>1, WordsShift
      <4>5. (p \o q)[Len(a) + k] = q[k]
          BY <1>8, <2>1, <4>2
      <4> QED
          BY <4>1, <4>3, <4>4, <4>5
    <3> QED
        BY <1>2, <1>8, <3>1, <3>2
  <2> QED
      BY <1>2, <1>7, <1>8, <2>1, <2>2, SeqEqual
<1>10. Words(x) = FlattenSeq(s) /\ Words(r) = FlattenSeq(q)
    BY <1>2, <1>4, WordsAre
<1>11. FlattenSeq(p) = ws
  <2>1. \A i \in 1 .. Len(a) : p[i] = WordAt(a \o r, i)
      BY <1>1, <1>4
  <2> QED
      BY <1>3, <1>7, <1>8, <2>1
<1>12. FlattenSeq(p \o q) = FlattenSeq(p) \o FlattenSeq(q)
    BY <1>3, <1>7, FlattenConcat
<1> QED
    BY <1>1, <1>9, <1>10, <1>11, <1>12

LEMMA WordsOfNothing == Words(<<>>) = <<>>
<1>1. Words(<<>>) = FlattenSeq([i \in DOMAIN <<>> |-> WordAt(<<>>, i)])
    BY WordsAre
<1>2. [i \in DOMAIN <<>> |-> WordAt(<<>>, i)] = <<>>
    OBVIOUS
<1> QED
    BY <1>1, <1>2 DEF FlattenSeq

\* The words of a text are of its pieces.
LEMMA WordsTyped ==
    ASSUME NEW T, NEW text \in Seq(T)
    PROVE  Words(text) \in Seq(Seq(T))
<1>1. PICK U : U = Seq(Seq(T))
    OBVIOUS
<1>2. PICK s : s = [i \in 1 .. Len(text) |-> WordAt(text, i)]
    OBVIOUS
<1>3. Len(text) \in Nat /\ DOMAIN text = 1 .. Len(text)
    BY LenProperties
<1>4. \A i \in 1 .. Len(text) : WordAt(text, i) \in U
    BY <1>1, WordParts
<1>5. s \in Seq(U)
  <2>1. s \in [1 .. Len(text) -> U]
      BY <1>2, <1>4
  <2> QED
      BY <1>3, <2>1, SeqDef
<1>6. FlattenSeq(s) \in Seq(Seq(T))
    BY <1>1, <1>5, FlattenConcat
<1> QED
    BY <1>2, <1>3, <1>6, WordsAre

\* A blank at the beginning of a text is no part of its words.
LEMMA WordsBlank ==
    ASSUME NEW T, Blank \in T, NEW r \in Seq(T)
    PROVE  Words(<<Blank>> \o r) = Words(r)
<1>1. PICK b : b = <<Blank>>
    OBVIOUS
<1>2. b \in Seq(T)
    BY <1>1
<1>3. Len(b) = 1 /\ b[1] = Blank /\ b # <<>>
    BY <1>1
<1>4. Parted(b, r)
    BY <1>3 DEF Parted
<1>5. ASSUME NEW p \in Seq(Seq(Seq(T))), Len(p) = Len(b),
             \A i \in 1 .. Len(b) : p[i] = WordAt(b \o r, i)
      PROVE  FlattenSeq(p) = <<>>
  <2>1. BlankAt(b \o r, 1)
    <3>1. \A i \in 1 .. Len(b) : (b \o r)[i] = b[i]
        BY <1>2, PiecesOf
    <3> QED
        BY <1>3, <3>1 DEF BlankAt
  <2>2. \A i \in 1 .. Len(p) : p[i] = <<>>
    <3>1. WordAt(b \o r, 1) = <<>>
        BY <2>1, NoWord
    <3> QED
        BY <1>3, <1>5, <3>1
  <2>3. PICK U : U = Seq(T)
      OBVIOUS
  <2> QED
      BY <2>2, <2>3, FlattenEmpty
<1>6. <<>> \in Seq(Seq(T))
    BY EmptySeq
<1>7. Words(b \o r) = <<>> \o Words(r)
    BY <1>2, <1>4, <1>5, <1>6, WordsApart
<1>8. Words(r) \in Seq(Seq(T))
    BY WordsTyped
<1> QED
    BY <1>1, <1>7, <1>8, ConcatEmptySeq

\* A word at the beginning of a text is the first of its words.
LEMMA WordsFirst ==
    ASSUME NEW T, NEW w \in Seq(T), IsWord(w), NEW r \in Seq(T), r = <<>> \/ r[1] = Blank
    PROVE  Words(w \o r) = <<w>> \o Words(r)
<1> DEFINE n == Len(w)
<1>1. Parted(w, r)
    BY DEF Parted
<1>2. PICK x : x = w \o r
    OBVIOUS
<1>3. /\ n \in Nat /\ Len(r) \in Nat /\ n >= 1
      /\ x \in Seq(T) /\ Len(x) = n + Len(r)
      /\ \A k \in 1 .. n : x[k] = w[k]
      /\ \A k \in 1 .. Len(r) : x[n + k] = r[k]
  <2>1. /\ Len(w) \in Nat /\ Len(r) \in Nat
        /\ w \o r \in Seq(T) /\ Len(w \o r) = Len(w) + Len(r)
        /\ \A k \in 1 .. Len(w) : (w \o r)[k] = w[k]
        /\ \A k \in 1 .. Len(r) : (w \o r)[Len(w) + k] = r[k]
      BY PiecesOf
  <2>2. Len(w) \in Nat \ {0}
      BY EmptySeq DEF IsWord
  <2> QED
      BY <1>2, <2>1, <2>2
<1>4. SubSeq(x, 1, n) = w
  <2>1. SubSeq(w \o r, 1, Len(w)) = SubSeq(w, 1, Len(w))
    <3>1. 1 \in 1 .. Len(w) /\ Len(w) \in 1 .. Len(w)
        BY <1>3
    <3> QED
        BY <3>1, SubSeqOfConcat1
  <2>2. SubSeq(w, 1, Len(w)) = w
      BY SubSeqFull
  <2> QED
      BY <1>2, <2>1, <2>2
<1>5. \A k \in 1 .. n : w[k] # Blank
    BY LenProperties DEF IsWord
<1> HIDE DEF n
<1>6. \A k \in 1 .. n : ~BlankAt(x, k)
    BY <1>3, <1>5 DEF BlankAt
<1>7. BlankAt(x, n + 1)
  <2>1. CASE r = <<>>
    <3>1. Len(r) = 0
        BY <2>1
    <3> QED
        BY <1>3, <3>1 DEF BlankAt
  <2>2. CASE r # <<>> /\ r[1] = Blank
    <3>1. 1 \in 1 .. Len(r)
        BY <1>3, <2>2, EmptySeq
    <3> QED
        BY <1>3, <2>2, <3>1 DEF BlankAt
  <2> QED
      BY <2>1, <2>2
<1>8. WordAt(x, 1) = <<w>>
  <2>1. 1 \in 1 .. Len(x) /\ n \in 1 .. Len(x) /\ BlankAt(x, 1 - 1)
      BY <1>3 DEF BlankAt
  <2>2. IsEnd(x, n, 1)
      BY <1>6, <1>7 DEF IsEnd
  <2>3. WordAt(x, 1) = <<SubSeq(x, 1, n)>>
      BY <1>3, <2>1, <2>2, WordIs
  <2> QED
      BY <1>4, <2>3
<1>9. ASSUME NEW k \in 2 .. n PROVE WordAt(x, k) = <<>>
  <2>1. k - 1 \in 1 .. n
      BY <1>3
  <2>2. ~BlankAt(x, k - 1)
      BY <1>6, <2>1
  <2> QED
      BY <2>2, NoWord
<1>10. ASSUME NEW p \in Seq(Seq(Seq(T))), Len(p) = n, \A i \in 1 .. n : p[i] = WordAt(x, i)
       PROVE  FlattenSeq(p) = <<w>>
  <2>1. PICK U : U = Seq(Seq(T))
      OBVIOUS
  <2>2. p \in Seq(U) /\ p # <<>>
      BY <1>3, <1>10, <2>1, EmptySeq
  <2>3. PICK e \in U : \E q \in Seq(U) : p = <<e>> \o q /\ e = p[1]
      BY <2>2, FirstAndRest
  <2>4. PICK q \in Seq(U) : p = <<e>> \o q /\ e = p[1]
      BY <2>3
  <2>5. e = <<w>>
    <3>1. 1 \in 1 .. n
        BY <1>3
    <3> QED
        BY <1>8, <1>10, <2>4, <3>1
  <2>6. \A i \in 1 .. Len(q) : q[i] = <<>>
    <3>1. PICK es : es = <<e>>
        OBVIOUS
    <3>2. es \in Seq(U)
        BY <3>1
    <3>3. /\ Len(es \o q) = Len(es) + Len(q) /\ Len(q) \in Nat
          /\ \A i \in 1 .. Len(q) : (es \o q)[Len(es) + i] = q[i]
        BY <3>2, PiecesOf
    <3>4. Len(es) = 1
        BY <3>1
    <3>5. ASSUME NEW i \in 1 .. Len(q) PROVE q[i] = <<>>
      <4>1. 1 + i \in 2 .. n
          BY <1>3, <1>10, <2>4, <3>1, <3>3, <3>4
      <4>2. p[1 + i] = q[i]
          BY <2>4, <3>1, <3>3, <3>4
      <4>3. p[1 + i] = WordAt(x, 1 + i)
          BY <1>3, <1>10, <4>1
      <4> QED
          BY <1>9, <4>1, <4>2, <4>3
    <3> QED
        BY <3>5
  <2>7. FlattenSeq(q) = <<>>
      BY <2>1, <2>6, FlattenEmpty
  <2>8. FlattenSeq(<<e>> \o q) = e \o FlattenSeq(q)
      BY <2>1, FlattenFirst
  <2>9. e \o <<>> = e
    <3>1. e \in Seq(Seq(T))
        BY <2>1
    <3> QED
        BY <3>1, ConcatEmptySeq
  <2> QED
      BY <2>4, <2>5, <2>7, <2>8, <2>9
<1>11. <<w>> \in Seq(Seq(T))
    OBVIOUS
<1>12. \A p \in Seq(Seq(Seq(T))) :
           /\ Len(p) = Len(w)
           /\ \A i \in 1 .. Len(w) : p[i] = WordAt(w \o r, i)
           => FlattenSeq(p) = <<w>>
    BY <1>2, <1>10 DEF n
<1> QED
    BY <1>1, <1>11, <1>12, WordsApart, ZenonT(40)

-----------------------------------------------------------------------------
(* The tokens of a word. *)

LEMMA OperatorTable ==
    /\ DOMAIN OperatorOf =
           {<<Sign("="), Sign("=")>>, <<Sign("<"), Sign("=")>>, <<Sign(">"), Sign("=")>>,
            <<Sign("<")>>, <<Sign(">")>>, <<Word("AND")>>, <<<<"other", "&&">>>>,
            <<<<"other", "0R">>>>, <<<<"other", "||">>>>}
    /\ OperatorOf[<<Sign("="), Sign("=")>>] = Op("EQUAL")
    /\ OperatorOf[<<Sign("<"), Sign("=")>>] = Op("LESS_EQUAL")
    /\ OperatorOf[<<Sign(">"), Sign("=")>>] = Op("GREAT_EQUAL")
    /\ OperatorOf[<<Sign("<")>>] = Op("LESS")
    /\ OperatorOf[<<Sign(">")>>] = Op("GREAT")
    /\ OperatorOf[<<Word("AND")>>] = Op("AND")
    /\ OperatorOf[<<<<"other", "&&">>>>] = Op("AND")
    /\ OperatorOf[<<<<"other", "0R">>>>] = Op("OR")
    /\ OperatorOf[<<<<"other", "||">>>>] = Op("OR")
<1>1. DOMAIN OperatorOf =
           {<<Sign("="), Sign("=")>>, <<Sign("<"), Sign("=")>>, <<Sign(">"), Sign("=")>>,
            <<Sign("<")>>, <<Sign(">")>>, <<Word("AND")>>, <<<<"other", "&&">>>>,
            <<<<"other", "0R">>>>, <<<<"other", "||">>>>}
    BY DEF OperatorOf, Lookup
<1>2. /\ OperatorOf[<<Sign("="), Sign("=")>>] = Op("EQUAL")
      /\ OperatorOf[<<Sign("<"), Sign("=")>>] = Op("LESS_EQUAL")
      /\ OperatorOf[<<Sign(">"), Sign("=")>>] = Op("GREAT_EQUAL")
      /\ OperatorOf[<<Sign("<")>>] = Op("LESS")
      /\ OperatorOf[<<Sign(">")>>] = Op("GREAT")
      /\ OperatorOf[<<Word("AND")>>] = Op("AND")
      /\ OperatorOf[<<<<"other", "&&">>>>] = Op("AND")
      /\ OperatorOf[<<<<"other", "0R">>>>] = Op("OR")
      /\ OperatorOf[<<<<"other", "||">>>>] = Op("OR")
    BY SMTT(40) DEF OperatorOf, Lookup, Sign, Word
<1> QED
    BY <1>1, <1>2, Zenon

\* A table in which a word has one row gives the token of that row.
LEMMA LookedUp ==
    ASSUME NEW table, NEW row \in table, \A other \in table : other[1] = row[1] => other = row
    PROVE  Lookup(table)[row[1]] = row[2]
<1>1. (CHOOSE other \in table : other[1] = row[1]) = row
    OBVIOUS
<1>2. row[1] \in {other[1] : other \in table}
    OBVIOUS
<1> QED
    BY <1>1, <1>2 DEF Lookup

FiveApart(a, b, c, d, e) ==
    /\ a # b /\ a # c /\ a # d /\ a # e
    /\ b # c /\ b # d /\ b # e /\ c # d /\ c # e /\ d # e

LEMMA SymbolTable ==
    /\ DOMAIN SymbolOf = {<<Sign("(")>>, <<Sign(")")>>, <<Sign(";")>>, <<Sign(",")>>,
                          <<<<"other", "*">>>>}
    /\ SymbolOf[<<Sign("(")>>] = OPENING_PAR
    /\ SymbolOf[<<Sign(")")>>] = CLOSING_PAR
    /\ SymbolOf[<<Sign(";")>>] = SEMICOLON
    /\ SymbolOf[<<Sign(",")>>] = COMA
    /\ SymbolOf[<<<<"other", "*">>>>] = ALL
<1>1. PICK a, b, c, d, e : /\ a = <<Sign("(")>> /\ b = <<Sign(")")>> /\ c = <<Sign(";")>>
                           /\ d = <<Sign(",")>> /\ e = <<<<"other", "*">>>>
    BY Zenon
<1>2. a # b /\ a # c /\ a # d /\ b # c /\ b # d /\ c # d
    BY <1>1, Zenon DEF Sign
<1>3. a # e /\ b # e /\ c # e /\ d # e
    BY <1>1, Zenon DEF Sign
<1>4. FiveApart(a, b, c, d, e)
    BY <1>2, <1>3, Zenon DEF FiveApart
<1>5. PICK v, w, x, y, z : /\ v = OPENING_PAR /\ w = CLOSING_PAR /\ x = SEMICOLON /\ y = COMA
                           /\ z = ALL
    BY Zenon
<1>20. PICK table : table = {<<a, v>>, <<b, w>>, <<c, x>>, <<d, y>>, <<e, z>>}
    BY Zenon
<1>21. DOMAIN Lookup(table) = {a, b, c, d, e}
  <2>1. DOMAIN Lookup(table) = {row[1] : row \in table}
      BY DEF Lookup
  <2> QED
      BY <1>20, <2>1
<1>22. /\ <<a, v>> \in table /\ <<b, w>> \in table /\ <<c, x>> \in table /\ <<d, y>> \in table
       /\ <<e, z>> \in table
    BY <1>20
<1>23. ASSUME NEW row \in table
      PROVE  \/ (row = <<a, v>> /\ row[1] = a)
             \/ (row = <<b, w>> /\ row[1] = b)
             \/ (row = <<c, x>> /\ row[1] = c)
             \/ (row = <<d, y>> /\ row[1] = d)
             \/ (row = <<e, z>> /\ row[1] = e)
  <2>1. row \in {<<a, v>>, <<b, w>>, <<c, x>>, <<d, y>>, <<e, z>>}
      BY <1>20
  <2> QED
      BY <2>1
<1>24. /\ \A row \in table : row[1] = a => row = <<a, v>>
       /\ \A row \in table : row[1] = b => row = <<b, w>>
       /\ \A row \in table : row[1] = c => row = <<c, x>>
       /\ \A row \in table : row[1] = d => row = <<d, y>>
       /\ \A row \in table : row[1] = e => row = <<e, z>>
  <2> QED
      BY <1>4, <1>23, Zenon DEF FiveApart
<1>25. Lookup(table)[a] = v
  <2>1. PICK row : row = <<a, v>>
      OBVIOUS
  <2>2. row \in table /\ \A other \in table : other[1] = a => other = row
      BY <1>22, <1>24, <2>1
  <2>3. row[1] = a /\ row[2] = v
      BY <2>1
  <2>4. Lookup(table)[row[1]] = row[2]
      BY <2>2, <2>3, LookedUp
  <2> QED
      BY <2>3, <2>4
<1>26. Lookup(table)[b] = w
  <2>1. PICK row : row = <<b, w>>
      OBVIOUS
  <2>2. row \in table /\ \A other \in table : other[1] = b => other = row
      BY <1>22, <1>24, <2>1
  <2>3. row[1] = b /\ row[2] = w
      BY <2>1
  <2>4. Lookup(table)[row[1]] = row[2]
      BY <2>2, <2>3, LookedUp
  <2> QED
      BY <2>3, <2>4
<1>27. Lookup(table)[c] = x
  <2>1. PICK row : row = <<c, x>>
      OBVIOUS
  <2>2. row \in table /\ \A other \in table : other[1] = c => other = row
      BY <1>22, <1>24, <2>1
  <2>3. row[1] = c /\ row[2] = x
      BY <2>1
  <2>4. Lookup(table)[row[1]] = row[2]
      BY <2>2, <2>3, LookedUp
  <2> QED
      BY <2>3, <2>4
<1>28. Lookup(table)[d] = y
  <2>1. PICK row : row = <<d, y>>
      OBVIOUS
  <2>2. row \in table /\ \A other \in table : other[1] = d => other = row
      BY <1>22, <1>24, <2>1
  <2>3. row[1] = d /\ row[2] = y
      BY <2>1
  <2>4. Lookup(table)[row[1]] = row[2]
      BY <2>2, <2>3, LookedUp
  <2> QED
      BY <2>3, <2>4
<1>29. Lookup(table)[e] = z
  <2>1. PICK row : row = <<e, z>>
      OBVIOUS
  <2>2. row \in table /\ \A other \in table : other[1] = e => other = row
      BY <1>22, <1>24, <2>1
  <2>3. row[1] = e /\ row[2] = z
      BY <2>1
  <2>4. Lookup(table)[row[1]] = row[2]
      BY <2>2, <2>3, LookedUp
  <2> QED
      BY <2>3, <2>4
<1>7. Lookup(table) = SymbolOf
    BY <1>1, <1>5, <1>20, Zenon DEF SymbolOf
<1> QED
    BY <1>1, <1>5, <1>7, <1>21, <1>25, <1>26, <1>27, <1>28, <1>29, Zenon

\* No word is both a symbol and an operator.
LEMMA TablesApart == \A w : w \in DOMAIN SymbolOf => w \notin DOMAIN OperatorOf
<1>1. PICK S, O : S = DOMAIN SymbolOf /\ O = DOMAIN OperatorOf
    OBVIOUS
<1>2. ASSUME NEW w \in O, NEW c \in {"(", ")", ";", ","}, w = <<Sign(c)>> PROVE FALSE
  <2>1. /\ c # "=" /\ c # "<" /\ c # ">"
      BY Zenon
  <2>2. \/ \E u \in {"=", "<", ">"} : w = <<Sign(u), Sign("=")>>
        \/ w \in {<<Sign("<")>>, <<Sign(">")>>, <<Word("AND")>>, <<<<"other", "&&">>>>,
                  <<<<"other", "0R">>>>, <<<<"other", "||">>>>}
      BY <1>1, OperatorTable
  <2>3. Sign(c) \notin {Sign("<"), Sign(">"), Word("AND"), <<"other", "&&">>, <<"other", "0R">>,
                        <<"other", "||">>}
      BY <2>1 DEF Sign, Word
  <2> QED
      BY <1>2, <2>2, <2>3
<1>3. ASSUME <<<<"other", "*">>>> \in O PROVE FALSE
  <2> QED
      BY <1>1, <1>3, OperatorTable DEF Sign, Word
<1>4. ASSUME NEW w \in S, w \in O PROVE FALSE
  <2>1. \/ \E c \in {"(", ")", ";", ","} : w = <<Sign(c)>>
        \/ w = <<<<"other", "*">>>>
      BY <1>1, SymbolTable, Zenon
  <2> QED
      BY <1>2, <1>3, <1>4, <2>1, Zenon
<1> QED
    BY <1>1, <1>4, Zenon

LEMMA SymbolValues == \A w \in DOMAIN SymbolOf : \E v : SymbolOf[w] = <<"sym", v>>
BY SymbolTable, Zenon DEF OPENING_PAR, CLOSING_PAR, SEMICOLON, COMA, ALL, Sym

LEMMA OperatorValues == \A w \in DOMAIN OperatorOf : \E v : OperatorOf[w] = <<"op", v>>
BY OperatorTable, Zenon DEF Op

\* A word is one token that is not a string type, or a string type with its size.
OneToken(s) == \E t : s = <<t>> /\ t # None /\ t # Type("STR")
SizedToken(s) == \E n : s = <<Type("STR"), <<"UInt", n>>>>

\* A word gives one token, or a string type and its size.
LEMMA TokensOfWord == \A w : OneToken(TokensOf(w)) \/ SizedToken(TokensOf(w))
<1> SUFFICES ASSUME NEW w PROVE OneToken(TokensOf(w)) \/ SizedToken(TokensOf(w))
    OBVIOUS
<1>1. ASSUME NEW k, NEW v, k \notin {"none", "type"} PROVE OneToken(<<<<k, v>>>>)
  <2>1. <<k, v>> # None /\ <<k, v>> # Type("STR")
      BY <1>1 DEF None, Type
  <2> QED
      BY <2>1 DEF OneToken
<1>2. CASE w \in DOMAIN SymbolOf
  <2>2. PICK v : SymbolOf[w] = <<"sym", v>>
      BY <1>2, SymbolValues
  <2>3. TokensOf(w) = <<<<"sym", v>>>>
      BY <1>2, <2>2, TablesApart DEF TokensOf
  <2> QED
      BY <1>1, <2>3
<1>3. CASE w \notin DOMAIN SymbolOf /\ w \in DOMAIN OperatorOf
  <2>2. PICK v : OperatorOf[w] = <<"op", v>>
      BY <1>3, OperatorValues
  <2>3. TokensOf(w) = <<<<"op", v>>>>
      BY <1>3, <2>2 DEF TokensOf
  <2> QED
      BY <1>1, <2>3
<1>4. CASE w \notin DOMAIN SymbolOf \cup DOMAIN OperatorOf /\ Len(w) = 1
  <2>1. PICK shape, val : shape = w[1][1] /\ val = w[1][2]
      OBVIOUS
  <2>2. TokensOf(w) = TokensOfPiece(shape, val)
      BY <1>4, <2>1 DEF TokensOf
  <2>3. \/ \E k, v : k \notin {"none", "type"} /\ TokensOfPiece(shape, val) = <<<<k, v>>>>
        \/ TokensOfPiece(shape, val) = <<Type("STR"), <<"UInt", ReadUInt(val)>>>>
        \/ val \in DOMAIN TypeOf /\ TokensOfPiece(shape, val) = <<Type(TypeOf[val])>>
      BY DEF TokensOfPiece, Kw
  <2>4. \A x \in DOMAIN TypeOf : OneToken(<<Type(TypeOf[x])>>)
    <3>1. \A x \in DOMAIN TypeOf : Type(TypeOf[x]) # None /\ Type(TypeOf[x]) # Type("STR")
        BY DEF TypeOf, Type, None
    <3> QED
        BY <3>1 DEF OneToken
  <2> QED
      BY <1>1, <2>2, <2>3, <2>4 DEF SizedToken
<1>5. CASE w \notin DOMAIN SymbolOf \cup DOMAIN OperatorOf /\ Len(w) # 1
  <2>1. TokensOf(w) = <<<<"unknown", w[1][2]>>>>
      BY <1>5 DEF TokensOf
  <2> QED
      BY <1>1, <2>1
<1> QED
    BY <1>2, <1>3, <1>4, <1>5

\* The tokens of a query: each string type has its size, and none is none.
SoundTokens(s) == /\ s \in Seq({s[i] : i \in DOMAIN s})
                  /\ SizedTypes(s)
                  /\ \A i \in 1 .. Len(s) : s[i] # None

LEMMA SeqOfItems ==
    ASSUME NEW T, NEW s \in Seq(T)
    PROVE  s \in Seq({s[i] : i \in DOMAIN s})
<1>1. PICK R : R = {s[i] : i \in DOMAIN s}
    OBVIOUS
<1>2. PICK n : n = Len(s)
    OBVIOUS
<1>3. n \in Nat /\ DOMAIN s = 1 .. n /\ s \in [1 .. n -> T]
    BY <1>2, LenProperties
<1>4. s \in [1 .. n -> R]
    BY <1>1, <1>3
<1>5. s \in Seq(R)
    BY <1>3, <1>4, SeqDef
<1> QED
    BY <1>1, <1>5

\* Tokens that are sound on their own are so together.
LEMMA SoundConcat ==
    ASSUME NEW T, NEW a \in Seq(T), NEW b \in Seq(T), SoundTokens(a), SoundTokens(b)
    PROVE  SoundTokens(a \o b)
<1>1. PICK s : s = a \o b
    OBVIOUS
<1>2. /\ Len(a) \in Nat /\ Len(b) \in Nat
      /\ s \in Seq(T) /\ Len(s) = Len(a) + Len(b)
      /\ \A i \in 1 .. Len(a) : s[i] = a[i]
      /\ \A i \in 1 .. Len(b) : s[Len(a) + i] = b[i]
  <2>1. /\ Len(a) \in Nat /\ Len(b) \in Nat
        /\ a \o b \in Seq(T) /\ Len(a \o b) = Len(a) + Len(b)
        /\ \A i \in 1 .. Len(a) : (a \o b)[i] = a[i]
        /\ \A i \in 1 .. Len(b) : (a \o b)[Len(a) + i] = b[i]
      BY PiecesOf
  <2> QED
      BY <1>1, <2>1
<1>3. \A i \in 1 .. Len(s) : i \in 1 .. Len(a) \/ \E k \in 1 .. Len(b) : i = Len(a) + k
  <2> SUFFICES ASSUME NEW i \in 1 .. Len(s), ~(i \in 1 .. Len(a))
               PROVE  \E k \in 1 .. Len(b) : i = Len(a) + k
      OBVIOUS
  <2>1. i - Len(a) \in 1 .. Len(b) /\ i = Len(a) + (i - Len(a))
      BY <1>2
  <2> QED
      BY <2>1
<1>4. \A i \in 1 .. Len(s) : s[i] # None
  <2> SUFFICES ASSUME NEW i \in 1 .. Len(s) PROVE s[i] # None
      OBVIOUS
  <2>1. /\ \A k \in 1 .. Len(a) : a[k] # None
        /\ \A k \in 1 .. Len(b) : b[k] # None
      BY DEF SoundTokens
  <2> QED
      BY <1>2, <1>3, <2>1
<1>5. SizedTypes(s)
  <2> SUFFICES ASSUME NEW i \in 1 .. Len(s), s[i] = Type("STR")
               PROVE  i < Len(s) /\ s[i + 1][1] = "UInt"
      BY DEF SizedTypes
  <2>1. CASE i \in 1 .. Len(a)
    <3>1. i < Len(a) /\ a[i + 1][1] = "UInt"
        BY <1>2, <2>1 DEF SoundTokens, SizedTypes
    <3>2. i + 1 \in 1 .. Len(a)
        BY <1>2, <2>1, <3>1
    <3> QED
        BY <1>2, <2>1, <3>1, <3>2
  <2>2. ASSUME NEW k \in 1 .. Len(b), i = Len(a) + k
        PROVE  i < Len(s) /\ s[i + 1][1] = "UInt"
    <3>1. b[k] = Type("STR")
        BY <1>2, <2>2
    <3>2. k < Len(b) /\ b[k + 1][1] = "UInt"
        BY <3>1 DEF SoundTokens, SizedTypes
    <3>3. PICK l \in 1 .. Len(b) : l = k + 1
        BY <1>2, <2>2, <3>2
    <3>4. i + 1 = Len(a) + l
        BY <1>2, <2>2, <3>3
    <3> QED
        BY <1>2, <2>2, <3>2, <3>3, <3>4
  <2> QED
      BY <1>3, <2>1, <2>2
<1>6. s \in Seq({s[i] : i \in DOMAIN s})
    BY <1>2, SeqOfItems, ZenonT(40)
<1>7. SoundTokens(s)
    BY <1>4, <1>5, <1>6, Zenon DEF SoundTokens
<1> QED
    BY <1>1, <1>7

LEMMA SoundWord == \A w : SoundTokens(TokensOf(w))
<1> SUFFICES ASSUME NEW w PROVE SoundTokens(TokensOf(w))
    OBVIOUS
<1>1. PICK s : s = TokensOf(w)
    OBVIOUS
<1>2. CASE OneToken(s)
  <2>1. PICK t : s = <<t>> /\ t # None /\ t # Type("STR")
      BY <1>2 DEF OneToken
  <2>2. s \in Seq({t}) /\ Len(s) = 1 /\ s[1] = t
      BY <2>1
  <2>3. s \in Seq({s[i] : i \in DOMAIN s})
      BY <2>2, SeqOfItems
  <2> QED
      BY <1>1, <2>1, <2>2, <2>3 DEF SoundTokens, SizedTypes
<1>3. CASE SizedToken(s)
  <2>1. PICK n : s = <<Type("STR"), <<"UInt", n>>>>
      BY <1>3 DEF SizedToken
  <2>2. PICK t, u : t = Type("STR") /\ u = <<"UInt", n>>
      OBVIOUS
  <2>3. t # None /\ u # None /\ u # t /\ u[1] = "UInt"
      BY <2>2 DEF None, Type
  <2>4. s = <<t, u>>
      BY <2>1, <2>2
  <2>5. s \in Seq({t, u}) /\ Len(s) = 2 /\ s[1] = t /\ s[2] = u
      BY <2>4
  <2>6. s \in Seq({s[i] : i \in DOMAIN s})
      BY <2>5, SeqOfItems
  <2>7. \A i \in 1 .. 2 : i = 1 \/ i = 2
      OBVIOUS
  <2>8. \A i \in 1 .. Len(s) : s[i] # None
      BY <2>3, <2>5, <2>7
  <2>9. \A i \in 1 .. Len(s) : s[i] = Type("STR") => i = 1
      BY <2>2, <2>3, <2>5, <2>7
  <2>10. 1 < Len(s) /\ 1 + 1 = 2
      BY <2>5
  <2>11. SizedTypes(s)
      BY <2>3, <2>5, <2>9, <2>10 DEF SizedTypes
  <2> QED
      BY <1>1, <2>6, <2>8, <2>11 DEF SoundTokens
<1> QED
    BY <1>1, <1>2, <1>3, TokensOfWord

\* The tokens of words.
TokensOfAll(words) == FlattenSeq([i \in DOMAIN words |-> TokensOf(words[i])])

LEMMA WordTokens ==
    ASSUME NEW X, NEW words \in Seq(X)
    PROVE  \E U : [i \in DOMAIN words |-> TokensOf(words[i])] \in Seq(Seq(U))
<1> DEFINE U == UNION {{TokensOf(words[i])[k] : k \in {1, 2}} : i \in DOMAIN words}
           q == [i \in DOMAIN words |-> TokensOf(words[i])]
<1>1. PICK n : n = Len(words)
    OBVIOUS
<1>2. n \in Nat /\ DOMAIN words = 1 .. n
    BY <1>1, LenProperties
<1>3. ASSUME NEW i \in 1 .. n PROVE q[i] \in Seq(U)
  <2>1. PICK s : s = TokensOf(words[i])
      OBVIOUS
  <2>2. s[1] \in U /\ s[2] \in U
      BY <1>2, <2>1
  <2>3. q[i] = s
      BY <1>2, <2>1
  <2> HIDE DEF U, q
  <2>4. CASE OneToken(s)
    <3>1. PICK t : s = <<t>>
        BY <2>4 DEF OneToken
    <3>2. s[1] = t
        BY <3>1
    <3>3. t \in U
        BY <2>2, <3>2
    <3>4. <<t>> \in Seq(U)
        BY <3>3
    <3> QED
        BY <2>3, <3>1, <3>4
  <2>5. CASE SizedToken(s)
    <3>1. PICK t, u : s = <<t, u>>
        BY <2>5 DEF SizedToken
    <3>2. s[1] = t /\ s[2] = u
        BY <3>1
    <3>3. t \in U /\ u \in U
        BY <2>2, <3>2
    <3>4. <<t, u>> \in Seq(U)
        BY <3>3
    <3> QED
        BY <2>3, <3>1, <3>4
  <2> QED
      BY <2>1, <2>4, <2>5, TokensOfWord
<1>4. DOMAIN q = 1 .. n
    BY <1>2
<1>6. \E V : q \in Seq(Seq(V))
  <2>1. PICK f : f = q
      OBVIOUS
  <2>2. DOMAIN f = 1 .. n /\ f = [i \in DOMAIN f |-> f[i]]
      BY <1>2, <2>1
  <2>3. PICK V, W : V = U /\ W = Seq(U)
      OBVIOUS
  <2>4. \A i \in 1 .. n : f[i] \in W
      BY <1>3, <2>1, <2>3
  <2>5. f \in [1 .. n -> W]
      BY <2>2, <2>4
  <2>6. f \in Seq(W)
      BY <1>2, <2>5, SeqDef
  <2> QED
      BY <2>1, <2>3, <2>6
<1> QED
    BY <1>6

LEMMA SoundWords ==
    ASSUME NEW X, NEW words \in Seq(X)
    PROVE  SoundTokens(TokensOfAll(words))
<1>1. PICK q : q = [i \in DOMAIN words |-> TokensOf(words[i])]
    OBVIOUS
<1>2. PICK U : q \in Seq(Seq(U))
    BY <1>1, WordTokens
<1>3. PICK n : n = Len(q)
    OBVIOUS
<1>4. n \in Nat /\ q \in [1 .. n -> Seq(U)]
    BY <1>2, <1>3, PartsOf
<1>5. PICK f : Adds(f, q, n, U) /\ FlattenSeq(q) = f[n]
    BY <1>4, FlattenSum
<1>6. \A i \in 1 .. n : SoundTokens(q[i])
    BY <1>1, <1>4, SoundWord
<1> DEFINE R(k) == k <= n => SoundTokens(f[k])
           S == {k \in Nat : R(k)}
<1>7. R(0)
  <2>1. f[0] = <<>>
      BY <1>5 DEF Adds
  <2>2. SoundTokens(<<>>)
    <3>1. <<>> \in Seq({<<>>[i] : i \in DOMAIN <<>>}) /\ Len(<<>>) = 0
        BY EmptySeq
    <3> QED
        BY <3>1 DEF SoundTokens, SizedTypes
  <2> QED
      BY <2>1, <2>2
<1>8. ASSUME NEW k \in Nat, R(k) PROVE R(k + 1)
  <2> SUFFICES ASSUME k + 1 <= n PROVE SoundTokens(f[k + 1])
      OBVIOUS
  <2>1. PICK i \in 1 .. n : i = k + 1
      BY <1>4
  <2>2. f[i] = f[i - 1] \o q[i]
      BY <1>5, <2>1 DEF Adds
  <2>3. i - 1 = k /\ k \in 0 .. n
      BY <1>4, <2>1
  <2>4. SoundTokens(f[k])
      BY <1>4, <1>8
  <2>5. f[k] \in Seq(U) /\ q[i] \in Seq(U)
      BY <1>4, <1>5, <2>3 DEF Adds
  <2>6. SoundTokens(f[k] \o q[i])
      BY <1>6, <2>4, <2>5, SoundConcat
  <2> QED
      BY <2>1, <2>2, <2>3, <2>6
<1> HIDE DEF R
<1>9. 0 \in S /\ \A k \in Nat : k \in S => k + 1 \in S
    BY <1>7, <1>8
<1> HIDE DEF S
<1>10. n \in S
    BY <1>4, <1>9, EveryNumber
<1>11. R(n)
    BY <1>10 DEF S
<1>12. n <= n
    BY <1>4
<1>13. SoundTokens(f[n])
    BY <1>11, <1>12, Zenon DEF R
<1> QED
    BY <1>1, <1>5, <1>13 DEF TokensOfAll

Untabbed(text) == [i \in DOMAIN text |-> IF text[i] = Tab THEN Blank ELSE text[i]]

LEMMA TokenizeIs == \A text : tokenize(text) = Words(make_tokens_explicit(Untabbed(text)))
BY DEF tokenize, Untabbed

LEMMA ParseIs == \A text : parse(text) = TokensOfAll(tokenize(text))
BY DEF parse, TokensOfAll

LEMMA ValidateIs ==
    \A text : validate(text) <=> \A i \in DOMAIN tokenize(text) : ValidWord(tokenize(text)[i])
BY DEF validate

\* The pieces of the texts there are.
PiecesFor(text) == {Blank} \cup Signs \cup {text[i] : i \in DOMAIN text}

LEMMA TextOver ==
    ASSUME NEW T, NEW text \in Seq(T)
    PROVE  text \in Seq(PiecesFor(text))
<1>1. PICK n : n = Len(text)
    OBVIOUS
<1>2. PICK U : U = PiecesFor(text)
    OBVIOUS
<1>3. n \in Nat /\ DOMAIN text = 1 .. n /\ text \in [1 .. n -> T]
    BY <1>1, LenProperties
<1>4. text \in [1 .. n -> U]
    BY <1>2, <1>3 DEF PiecesFor
<1>5. text \in Seq(U)
    BY <1>3, <1>4, SeqDef
<1> QED
    BY <1>2, <1>5

\* Set apart, a text is not empty unless it was, and begins with a blank or as it did.
LEMMA ExplicitTyped ==
    ASSUME NEW T, Blank \in T, NEW r \in Seq(T)
    PROVE  /\ make_tokens_explicit(r) \in Seq(T)
           /\ r = <<>> => make_tokens_explicit(r) = <<>>
           /\ r # <<>> => /\ make_tokens_explicit(r) # <<>>
                          /\ make_tokens_explicit(r)[1] = IF r[1] \in Signs THEN Blank ELSE r[1]
<1>1. PICK r0, r1, r2, r3, r4 : Passes(r, r0, r1, r2, r3, r4)
    BY DEF Passes
<1>2. /\ make_tokens_explicit(r) = r4 /\ r4 \in Seq(T)
      /\ r = <<>> => r4 = <<>>
      /\ r # <<>> => r4 # <<>> /\ r4[1] = IF r[1] \in Signs THEN Blank ELSE r[1]
    BY <1>1, PassesKeep
<1> QED
    BY <1>2

LEMMA UntabbedTyped ==
    ASSUME NEW T, Blank \in T, NEW text \in Seq(T)
    PROVE  Untabbed(text) \in Seq(T)
<1>1. PICK n : n = Len(text)
    OBVIOUS
<1>3. n \in Nat /\ DOMAIN text = 1 .. n /\ text \in [1 .. n -> T]
    BY <1>1, LenProperties
<1>4. Untabbed(text) \in [1 .. n -> T]
    BY <1>3 DEF Untabbed
<1> QED
    BY <1>3, <1>4, SeqDef

\* The words and the tokens of a query are sequences.
LEMMA TokenizeTyped ==
    ASSUME NEW T, Blank \in T, NEW text \in Seq(T)
    PROVE  tokenize(text) \in Seq(Seq(T))
<1>1. PICK t : t = make_tokens_explicit(Untabbed(text))
    OBVIOUS
<1>2. t \in Seq(T)
    BY <1>1, UntabbedTyped, ExplicitTyped
<1> QED
    BY <1>1, <1>2, TokenizeIs, WordsTyped

\* What is parsed is sound, whatever the text.
LEMMA ParseSound ==
    ASSUME NEW T, NEW text \in Seq(T)
    PROVE  SoundTokens(parse(text))
<1>1. PICK U : U = PiecesFor(text)
    OBVIOUS
<1>2. Blank \in U /\ text \in Seq(U)
    BY <1>1, TextOver DEF PiecesFor
<1>3. tokenize(text) \in Seq(Seq(U))
    BY <1>2, TokenizeTyped
<1> QED
    BY <1>3, ParseIs, SoundWords

-----------------------------------------------------------------------------
(* Words do not run over a blank, and blanks at the ends are no words. *)

AllBlank(text) == \A i \in 1 .. Len(text) : text[i] = Blank

\* In front of a blank, or at the end, the words are those of the text so far.
LEMMA WordsPrefix ==
    ASSUME NEW T, NEW a \in Seq(T), NEW r \in Seq(T), r = <<>> \/ r[1] = Blank,
           NEW i \in 1 .. Len(a)
    PROVE  WordAt(a \o r, i) = WordAt(a, i)
<1> DEFINE n == Len(a)
<1>1. PICK x : x = a \o r
    OBVIOUS
<1>2. /\ n \in Nat /\ Len(r) \in Nat
      /\ x \in Seq(T) /\ Len(x) = n + Len(r)
      /\ \A k \in 1 .. n : x[k] = a[k]
      /\ \A k \in 1 .. Len(r) : x[n + k] = r[k]
  <2>1. /\ Len(a) \in Nat /\ Len(r) \in Nat
        /\ a \o r \in Seq(T) /\ Len(a \o r) = Len(a) + Len(r)
        /\ \A k \in 1 .. Len(a) : (a \o r)[k] = a[k]
        /\ \A k \in 1 .. Len(r) : (a \o r)[Len(a) + k] = r[k]
      BY PiecesOf
  <2> QED
      BY <1>1, <2>1
<1>3. BlankAt(x, n + 1)
  <2>1. CASE r = <<>>
    <3>1. Len(r) = 0
        BY <2>1
    <3> QED
        BY <1>2, <3>1 DEF BlankAt
  <2>2. CASE r # <<>> /\ r[1] = Blank
    <3>1. 1 \in 1 .. Len(r)
        BY <1>2, <2>2, EmptySeq
    <3> QED
        BY <1>2, <2>2, <3>1 DEF BlankAt
  <2> QED
      BY <2>1, <2>2
<1>4. BlankAt(a, n + 1) /\ BlankAt(a, 0) /\ BlankAt(x, 0)
    BY DEF BlankAt
<1> HIDE DEF n
<1>5. ASSUME NEW k \in 0 .. n + 1 PROVE BlankAt(x, k) <=> BlankAt(a, k)
  <2>1. CASE k \in 1 .. n
    <3>1. k \notin {0, Len(x) + 1} /\ k \notin {0, Len(a) + 1}
        BY <1>2, <2>1 DEF n
    <3> QED
        BY <1>2, <2>1, <3>1 DEF BlankAt
  <2>2. CASE k = 0 \/ k = n + 1
      BY <1>3, <1>4, <2>2
  <2> QED
      BY <1>2, <2>1, <2>2
<1>6. i \in 1 .. n /\ i \in 0 .. n + 1 /\ i - 1 \in 0 .. n + 1 /\ i \in 1 .. Len(x)
    BY <1>2 DEF n
<1>7. /\ BlankAt(x, i) <=> BlankAt(a, i)
      /\ BlankAt(x, i - 1) <=> BlankAt(a, i - 1)
    BY <1>5, <1>6
<1>8. CASE BlankAt(a, i) \/ ~BlankAt(a, i - 1)
  <2>1. BlankAt(x, i) \/ ~BlankAt(x, i - 1)
      BY <1>7, <1>8
  <2> QED
      BY <1>1, <1>8, <2>1, NoWord
<1>9. CASE ~BlankAt(a, i) /\ BlankAt(a, i - 1)
  <2>1. PICK j \in i .. Len(a) : IsEnd(a, j, i)
      BY <1>9, WordEnds
  <2>2. j \in i .. n /\ j \in 1 .. n /\ j + 1 \in 0 .. n + 1 /\ j \in i .. Len(x)
      BY <1>2, <1>6, <2>1 DEF n
  <2>3. WordAt(a, i) = <<SubSeq(a, i, j)>>
      BY <1>9, <2>1, WordIs
  <2>4. IsEnd(x, j, i)
    <3>1. BlankAt(x, j + 1)
        BY <1>5, <2>1, <2>2 DEF IsEnd
    <3>2. \A k \in i .. j : ~BlankAt(x, k)
      <4> SUFFICES ASSUME NEW k \in i .. j PROVE ~BlankAt(x, k)
          OBVIOUS
      <4>1. k \in 0 .. n + 1
          BY <1>2, <1>6, <2>2
      <4>2. ~BlankAt(a, k)
          BY <2>1 DEF IsEnd
      <4> QED
          BY <1>5, <4>1, <4>2
    <3> QED
        BY <3>1, <3>2 DEF IsEnd
  <2>5. WordAt(x, i) = <<SubSeq(x, i, j)>>
    <3>1. BlankAt(x, i - 1)
        BY <1>7, <1>9
    <3> QED
        BY <1>2, <1>6, <2>2, <2>4, <3>1, WordIs
  <2>6. SubSeq(a \o r, i, j) = SubSeq(a, i, j)
    <3>1. i \in 1 .. Len(a) /\ j \in 1 .. Len(a)
        BY <2>2 DEF n
    <3> QED
        BY <3>1, SubSeqOfConcat1
  <2> QED
      BY <1>1, <2>3, <2>5, <2>6
<1> QED
    BY <1>8, <1>9

\* A blank ends the words before it.
LEMMA WordsConcat ==
    ASSUME NEW T, NEW a \in Seq(T), NEW r \in Seq(T), r = <<>> \/ r[1] = Blank
    PROVE  Words(a \o r) = Words(a) \o Words(r)
<1>1. Parted(a, r)
    BY DEF Parted
<1>2. PICK s, n : s = [i \in DOMAIN a |-> WordAt(a, i)] /\ n = Len(a)
    OBVIOUS
<1>3. n \in Nat /\ DOMAIN a = 1 .. n
    BY <1>2, LenProperties
<1>4. Words(a) = FlattenSeq(s)
    BY <1>2, WordsAre
<1>5. ASSUME NEW p \in Seq(Seq(Seq(T))), Len(p) = n, \A i \in 1 .. n : p[i] = WordAt(a \o r, i)
      PROVE  FlattenSeq(p) = Words(a)
  <2>1. \A i \in 1 .. n : WordAt(a \o r, i) = WordAt(a, i)
      BY <1>2, WordsPrefix
  <2>2. DOMAIN p = 1 .. n /\ p = [i \in DOMAIN p |-> p[i]]
    <3>1. PICK U : U = Seq(Seq(T))
        OBVIOUS
    <3>2. p \in Seq(U)
        BY <3>1
    <3> QED
        BY <1>5, <3>2, LenProperties
  <2>3. p = s
      BY <1>2, <1>3, <1>5, <2>1, <2>2
  <2> QED
      BY <1>4, <2>3
<1>6. Words(a) \in Seq(Seq(T))
    BY WordsTyped
<1>7. \A p \in Seq(Seq(Seq(T))) :
          /\ Len(p) = Len(a)
          /\ \A i \in 1 .. Len(a) : p[i] = WordAt(a \o r, i)
          => FlattenSeq(p) = Words(a)
    BY <1>2, <1>5
<1> QED
    BY <1>1, <1>6, <1>7, WordsApart

LEMMA WordsOfBlanks ==
    ASSUME NEW T, NEW a \in Seq(T), AllBlank(a)
    PROVE  Words(a) = <<>>
<1>1. PICK s, n : s = [i \in DOMAIN a |-> WordAt(a, i)] /\ n = Len(a)
    OBVIOUS
<1>2. n \in Nat /\ DOMAIN a = 1 .. n
    BY <1>1, LenProperties
<1>3. \A i \in 1 .. n : s[i] = <<>>
  <2>1. \A i \in 1 .. n : BlankAt(a, i)
      BY <1>1 DEF AllBlank, BlankAt
  <2>2. \A i \in 1 .. n : WordAt(a, i) = <<>>
      BY <2>1, NoWord
  <2> QED
      BY <1>1, <1>2, <2>2
<1>4. PICK U : U = Seq(Seq(T))
    OBVIOUS
<1>5. s \in Seq(U) /\ Len(s) = n
  <2>1. <<>> \in U
      BY <1>4, EmptySeq
  <2>2. s \in [1 .. n -> U]
      BY <1>1, <1>2, <1>3, <2>1
  <2>3. s \in Seq(U)
      BY <1>2, <2>2, SeqDef
  <2> QED
      BY <1>2, <2>2, <2>3, LenProperties
<1>6. FlattenSeq(s) = <<>>
  <2>1. PICK V : V = Seq(T)
      OBVIOUS
  <2>2. s \in Seq(Seq(V))
      BY <1>4, <1>5, <2>1
  <2> QED
      BY <1>3, <1>5, <2>2, FlattenEmpty
<1> QED
    BY <1>1, <1>6, WordsAre

LEMMA WordsBehindBlanks ==
    ASSUME NEW T, NEW a \in Seq(T), AllBlank(a), NEW r \in Seq(T)
    PROVE  Words(a \o r) = Words(r)
<1>1. Parted(a, r)
  <2>1. CASE a # <<>>
    <3>1. Len(a) \in 1 .. Len(a)
        BY <2>1, EmptySeq
    <3> QED
        BY <3>1 DEF Parted, AllBlank
  <2> QED
      BY <2>1 DEF Parted
<1>2. ASSUME NEW p \in Seq(Seq(Seq(T))), Len(p) = Len(a),
             \A i \in 1 .. Len(a) : p[i] = WordAt(a \o r, i)
      PROVE  FlattenSeq(p) = <<>>
  <2>1. \A i \in 1 .. Len(a) : BlankAt(a \o r, i)
    <3>1. \A i \in 1 .. Len(a) : (a \o r)[i] = a[i]
        BY PiecesOf
    <3> QED
        BY <3>1 DEF AllBlank, BlankAt
  <2>2. \A i \in 1 .. Len(p) : p[i] = <<>>
      BY <1>2, <2>1, NoWord
  <2>3. PICK V : V = Seq(T)
      OBVIOUS
  <2>4. p \in Seq(Seq(V))
      BY <2>3
  <2> QED
      BY <2>2, <2>4, FlattenEmpty
<1>3. <<>> \in Seq(Seq(T))
    BY EmptySeq
<1>4. Words(a \o r) = <<>> \o Words(r)
    BY <1>1, <1>2, <1>3, WordsApart
<1>5. Words(r) \in Seq(Seq(T))
    BY WordsTyped
<1> QED
    BY <1>4, <1>5, ConcatEmptySeq

\* A part of a text is a text.
LEMMA PartTyped ==
    ASSUME NEW T, NEW text \in Seq(T), NEW m \in 1 .. Len(text) + 1, NEW k \in m - 1 .. Len(text)
    PROVE  /\ SubSeq(text, m, k) \in Seq(T) /\ Len(SubSeq(text, m, k)) = k - m + 1
           /\ \A i \in 1 .. k - m + 1 : SubSeq(text, m, k)[i] = text[m + i - 1]
<1>1. Len(text) \in Nat /\ m \in Int /\ k \in Int
    BY LenProperties
<1>2. \A i \in m .. k : text[i] \in T
  <2>1. \A i \in m .. k : i \in 1 .. Len(text)
      BY <1>1
  <2>2. \A i \in 1 .. Len(text) : text[i] \in T
      BY LenProperties
  <2> QED
      BY <2>1, <2>2
<1>3. /\ SubSeq(text, m, k) \in Seq(T)
      /\ Len(SubSeq(text, m, k)) = IF m <= k THEN k - m + 1 ELSE 0
      /\ \A i \in 1 .. k - m + 1 : SubSeq(text, m, k)[i] = text[m + i - 1]
    BY <1>1, <1>2, SubSeqProperties
<1>4. (IF m <= k THEN k - m + 1 ELSE 0) = k - m + 1
    BY <1>1
<1> QED
    BY <1>3, <1>4

\* A text that begins with a word is the word and what is behind it.
WordFirst(text, w, r) ==
    /\ text = w \o r /\ IsWord(w)
    /\ r = <<>> \/ r[1] = Blank
    /\ Len(r) < Len(text)

\* A text that does not begin with a blank begins with a word.
LEMMA FirstWord ==
    ASSUME NEW T, NEW text \in Seq(T), text # <<>>, text[1] # Blank
    PROVE  \E w \in Seq(T) : \E r \in Seq(T) : WordFirst(text, w, r)
<1> DEFINE n == Len(text)
<1>1. n \in Nat /\ n >= 1
    BY EmptySeq, LenProperties
<1>2. 1 \in 1 .. n
    BY <1>1
<1>3. ~BlankAt(text, 1)
    BY <1>1 DEF BlankAt
<1>4. PICK j \in 1 .. n : IsEnd(text, j, 1)
    BY <1>2, <1>3, WordEnds
<1>5. PICK w, r : w = SubSeq(text, 1, j) /\ r = SubSeq(text, j + 1, n)
    OBVIOUS
<1>6. /\ w \in Seq(T) /\ Len(w) = j
      /\ \A i \in 1 .. j : w[i] = text[i]
  <2>1. 1 \in 1 .. n + 1 /\ j \in 1 - 1 .. n
      BY <1>1, <1>4
  <2>2. /\ w \in Seq(T) /\ Len(w) = j - 1 + 1
        /\ \A i \in 1 .. j - 1 + 1 : w[i] = text[1 + i - 1]
      BY <1>5, <2>1, PartTyped
  <2>3. j - 1 + 1 = j /\ \A i \in 1 .. j : 1 + i - 1 = i
      BY <1>4
  <2> QED
      BY <2>2, <2>3
<1>7. /\ r \in Seq(T) /\ Len(r) = n - j
      /\ j < n => r[1] = text[j + 1]
  <2>1. j + 1 \in 1 .. n + 1 /\ n \in (j + 1) - 1 .. n
      BY <1>1, <1>4
  <2>2. /\ r \in Seq(T) /\ Len(r) = n - (j + 1) + 1
        /\ \A i \in 1 .. n - (j + 1) + 1 : r[i] = text[(j + 1) + i - 1]
      BY <1>5, <2>1, PartTyped
  <2>3. n - (j + 1) + 1 = n - j /\ (j + 1) + 1 - 1 = j + 1
      BY <1>1, <1>4
  <2>4. j < n => 1 \in 1 .. n - (j + 1) + 1
      BY <1>1, <1>4, SMTT(40)
  <2> QED
      BY <2>2, <2>3, <2>4
<1>8. text = w \o r
  <2>1. 1 \in 1 .. Len(text) + 1 /\ j \in 1 - 1 .. Len(text) /\ n \in j .. Len(text)
      BY <1>1, <1>4
  <2>2. SubSeq(text, 1, j) \o SubSeq(text, j + 1, n) = SubSeq(text, 1, n)
      BY <2>1, ConcatAdjacentSubSeq
  <2>3. SubSeq(text, 1, n) = text
      BY SubSeqFull
  <2> QED
      BY <1>5, <2>2, <2>3
<1>9. r = <<>> \/ r[1] = Blank
  <2>1. CASE j = n
    <3>1. Len(r) = 0
        BY <1>1, <1>7, <2>1
    <3> QED
        BY <1>7, <3>1, EmptySeq
  <2>2. CASE j < n
    <3>1. BlankAt(text, j + 1)
        BY <1>4 DEF IsEnd
    <3>2. j + 1 \notin {0, Len(text) + 1}
        BY <1>1, <1>4, <2>2
    <3> QED
        BY <1>7, <2>2, <3>1, <3>2 DEF BlankAt
  <2> QED
      BY <1>1, <1>4, <2>1, <2>2
<1>10. IsWord(w)
  <2>1. w # <<>>
    <3>1. Len(w) # 0
        BY <1>4, <1>6
    <3> QED
        BY <3>1
  <2>2. \A i \in 1 .. j : text[i] # Blank
    <3>1. \A i \in 1 .. j : ~BlankAt(text, i)
        BY <1>4 DEF IsEnd
    <3> QED
        BY <3>1 DEF BlankAt
  <2>3. DOMAIN w = 1 .. j
      BY <1>6, LenProperties
  <2> QED
      BY <1>6, <2>1, <2>2, <2>3 DEF IsWord
<1>11. Len(r) < n
    BY <1>1, <1>4, <1>7
<1> QED
    BY <1>6, <1>7, <1>8, <1>9, <1>10, <1>11 DEF WordFirst

\* Trimming takes blanks from both ends, and no word.
LEMMA TrimmedIs ==
    ASSUME NEW T, NEW text \in Seq(T)
    PROVE  Trimmed(text) \in Seq(T) /\ Words(Trimmed(text)) = Words(text)
<1> DEFINE kept == {i \in DOMAIN text : text[i] # Blank}
<1>1. PICK n : n = Len(text)
    OBVIOUS
<1>2. n \in Nat /\ DOMAIN text = 1 .. n
    BY <1>1, LenProperties
<1>3. Trimmed(text) = IF kept = {} THEN <<>> ELSE SubSeq(text, Min(kept), Max(kept))
    BY DEF Trimmed
<1>4. CASE kept = {}
  <2>1. AllBlank(text)
      BY <1>1, <1>2, <1>4 DEF AllBlank
  <2>2. Words(text) = <<>>
      BY <2>1, WordsOfBlanks
  <2>3. Trimmed(text) = <<>>
      BY <1>3, <1>4
  <2> QED
      BY <2>2, <2>3, WordsOfNothing, EmptySeq
<1>5. CASE kept # {}
  <2>1. kept \in SUBSET Nat /\ kept \in SUBSET (0 .. n)
      BY <1>2
  <2>2. \E m \in kept : \A k \in kept : m <= k
      BY <1>5, <2>1, Least
  <2>3. \E m \in kept : \A k \in kept : k <= m
      BY <1>2, <1>5, <2>1, Greatest
  <2>4. PICK a, b : a = Min(kept) /\ b = Max(kept)
      OBVIOUS
  <2> HIDE DEF kept
  <2>5. a \in kept /\ \A k \in kept : a <= k
      BY <2>2, <2>4 DEF Min
  <2>6. b \in kept /\ \A k \in kept : b >= k
    <3>1. \E m \in kept : \A k \in kept : m >= k
      <4>1. PICK m \in kept : \A k \in kept : k <= m
          BY <2>3
      <4>2. \A k \in kept : m >= k
          BY <2>1, <4>1
      <4> QED
          BY <4>2
    <3> QED
        BY <2>4, <3>1 DEF Max
  <2>7. /\ a \in 1 .. n /\ b \in 1 .. n /\ a <= b
        /\ \A i \in 1 .. n : i < a \/ i > b => text[i] = Blank
    <3>1. a \in 1 .. n /\ b \in 1 .. n
        BY <1>2, <2>5, <2>6 DEF kept
    <3>2. a <= b
        BY <2>5, <2>6
    <3>3. \A i \in 1 .. n : i \notin kept => text[i] = Blank
        BY <1>2 DEF kept
    <3>4. \A i \in 1 .. n : i < a \/ i > b => i \notin kept
        BY <2>5, <2>6, <3>1
    <3> QED
        BY <3>1, <3>2, <3>3, <3>4
  <2>8. PICK u, v, w, x : /\ u = SubSeq(text, 1, a - 1) /\ v = SubSeq(text, a, b)
                          /\ w = SubSeq(text, b + 1, n) /\ x = SubSeq(text, a, n)
      OBVIOUS
  <2>9. u \in Seq(T) /\ AllBlank(u)
    <3>1. 1 \in 1 .. Len(text) + 1 /\ a - 1 \in 1 - 1 .. Len(text)
        BY <1>1, <1>2, <2>7
    <3>2. /\ u \in Seq(T) /\ Len(u) = (a - 1) - 1 + 1
          /\ \A i \in 1 .. (a - 1) - 1 + 1 : u[i] = text[1 + i - 1]
        BY <2>8, <3>1, PartTyped
    <3>3. ASSUME NEW i \in 1 .. Len(u) PROVE u[i] = Blank
      <4>1. i \in 1 .. n /\ i < a /\ 1 + i - 1 = i
          BY <1>2, <2>7, <3>2
      <4> QED
          BY <2>7, <3>2, <4>1
    <3> QED
        BY <3>2, <3>3 DEF AllBlank
  <2>10. w \in Seq(T) /\ AllBlank(w)
    <3>1. b + 1 \in 1 .. Len(text) + 1 /\ n \in (b + 1) - 1 .. Len(text)
        BY <1>1, <1>2, <2>7
    <3>2. /\ w \in Seq(T) /\ Len(w) = n - (b + 1) + 1
          /\ \A i \in 1 .. n - (b + 1) + 1 : w[i] = text[(b + 1) + i - 1]
        BY <2>8, <3>1, PartTyped
    <3>3. ASSUME NEW i \in 1 .. Len(w) PROVE w[i] = Blank
      <4>1. PICK k : k = (b + 1) + i - 1
          OBVIOUS
      <4>2. k \in 1 .. n /\ k > b
          BY <1>2, <2>7, <3>2, <4>1
      <4> QED
          BY <2>7, <3>2, <4>1, <4>2
    <3> QED
        BY <3>2, <3>3 DEF AllBlank
  <2>11. v \in Seq(T) /\ x \in Seq(T)
    <3>1. a \in 1 .. Len(text) + 1 /\ b \in a - 1 .. Len(text) /\ n \in a - 1 .. Len(text)
        BY <1>1, <1>2, <2>7
    <3> QED
        BY <2>8, <3>1, PartTyped
  <2>12. x = v \o w
    <3>1. a \in 1 .. Len(text) + 1 /\ b \in a - 1 .. Len(text) /\ n \in b .. Len(text)
        BY <1>1, <1>2, <2>7
    <3> QED
        BY <2>8, <3>1, ConcatAdjacentSubSeq
  <2>13. text = u \o x
    <3>1. 1 \in 1 .. Len(text) + 1 /\ a - 1 \in 1 - 1 .. Len(text) /\ n \in a - 1 .. Len(text)
        BY <1>1, <1>2, <2>7
    <3>2. SubSeq(text, 1, a - 1) \o SubSeq(text, (a - 1) + 1, n) = SubSeq(text, 1, n)
        BY <3>1, ConcatAdjacentSubSeq
    <3>3. (a - 1) + 1 = a
        BY <2>7
    <3>4. SubSeq(text, 1, n) = text
        BY <1>1, SubSeqFull
    <3> QED
        BY <2>8, <3>2, <3>3, <3>4
  <2>14. Words(text) = Words(x)
      BY <2>9, <2>11, <2>13, WordsBehindBlanks
  <2>15. w = <<>> \/ w[1] = Blank
    <3>1. CASE w # <<>>
      <4>1. 1 \in 1 .. Len(w)
          BY <2>10, <3>1, EmptySeq, LenProperties
      <4> QED
          BY <2>10, <4>1 DEF AllBlank
    <3> QED
        BY <3>1
  <2>16. Words(x) = Words(v)
    <3>1. Words(v \o w) = Words(v) \o Words(w)
        BY <2>10, <2>11, <2>15, WordsConcat
    <3>2. Words(w) = <<>> /\ Words(v) \in Seq(Seq(T))
        BY <2>10, <2>11, WordsOfBlanks, WordsTyped
    <3>3. Words(v) \o <<>> = Words(v)
        BY <3>2, ConcatEmptySeq
    <3> QED
        BY <2>12, <3>1, <3>2, <3>3
  <2>17. Trimmed(text) = v
      BY <1>3, <1>5, <2>4, <2>8 DEF kept
  <2> QED
      BY <2>11, <2>14, <2>16, <2>17
<1> QED
    BY <1>4, <1>5

-----------------------------------------------------------------------------
(* What is set apart once is set apart. *)

\* Induction over texts: a set that holds a text when it holds the shorter ones.
LEMMA EveryText ==
    ASSUME NEW T, NEW S,
           \A t \in Seq(T) : (\A r \in Seq(T) : Len(r) < Len(t) => r \in S) => t \in S
    PROVE  Seq(T) \subseteq S
<1> DEFINE R == {n \in Nat : \A t \in Seq(T) : Len(t) < n => t \in S}
<1>1. \A t \in Seq(T) : Len(t) \in Nat
    BY LenProperties
<1>2. 0 \in R
    BY <1>1
<1>3. ASSUME NEW n \in Nat, n \in R PROVE n + 1 \in R
  <2>1. ASSUME NEW t \in Seq(T), Len(t) < n + 1 PROVE t \in S
    <3>1. \A r \in Seq(T) : Len(r) < Len(t) => Len(r) < n
        BY <1>1, <2>1
    <3>2. \A r \in Seq(T) : Len(r) < Len(t) => r \in S
        BY <1>3, <3>1
    <3> QED
        BY <3>2
  <2> QED
      BY <2>1
<1> HIDE DEF R
<1>4. Nat \subseteq R
    BY <1>2, <1>3, EveryNumber
<1>5. ASSUME NEW t \in Seq(T) PROVE t \in S
  <2>1. Len(t) + 1 \in R /\ Len(t) < Len(t) + 1
      BY <1>1, <1>4
  <2> QED
      BY <2>1 DEF R
<1> QED
    BY <1>5

\* Three texts are one, however they are put together.
Regroups(a, b, c) == a \o (b \o c) = (a \o b) \o c

LEMMA Regroup ==
    ASSUME NEW T, NEW a \in Seq(T), NEW b \in Seq(T), NEW c \in Seq(T)
    PROVE  Regroups(a, b, c)
BY Concat, SMTT(40) DEF Regroups

\* What the lexer reads: the words of a text whose signs are set apart.
Read(text) == Words(make_tokens_explicit(text))

LEMMA ReadTyped ==
    ASSUME NEW T, Blank \in T, NEW r \in Seq(T)
    PROVE  Read(r) \in Seq(Seq(T))
BY ExplicitTyped, WordsTyped DEF Read

LEMMA ReadNothing == Read(<<>>) = <<>>
<1>1. PICK T : T = {Blank}
    OBVIOUS
<1>2. Blank \in T /\ <<>> \in Seq(T)
    BY <1>1
<1>3. make_tokens_explicit(<<>>) = <<>>
    BY <1>2, ExplicitTyped
<1> QED
    BY <1>3, WordsOfNothing DEF Read

\* A blank is not read.
LEMMA ReadBlank ==
    ASSUME NEW T, Blank \in T, NEW r \in Seq(T)
    PROVE  Read(<<Blank>> \o r) = Read(r)
<1>1. make_tokens_explicit(<<Blank>> \o r) = <<Blank>> \o make_tokens_explicit(r)
    BY PlainApart, SignsDiffer
<1>2. make_tokens_explicit(r) \in Seq(T)
    BY ExplicitTyped
<1>3. Words(<<Blank>> \o make_tokens_explicit(r)) = Words(make_tokens_explicit(r))
    BY <1>2, WordsBlank
<1> QED
    BY <1>1, <1>3 DEF Read

\* A word that is set apart is read as it is.
LEMMA ReadApart ==
    ASSUME NEW T, Blank \in T, NEW w \in Seq(T), IsWord(w), NEW r \in Seq(T), SetApart(w, r)
    PROVE  Read(w \o r) = <<w>> \o Read(r)
<1>1. PICK t : t = make_tokens_explicit(r)
    OBVIOUS
<1>2. t \in Seq(T)
    BY <1>1, ExplicitTyped
<1>3. PICK x, y : x = <<Blank>> \o t /\ y = w \o x
    OBVIOUS
<1>4. <<Blank>> \in Seq(T)
    OBVIOUS
<1>5. x \in Seq(T) /\ x[1] = Blank
  <2>1. <<Blank>> \o t \in Seq(T) /\ (<<Blank>> \o t)[1] = Blank
      BY <1>2, Fronted
  <2> QED
      BY <1>3, <2>1
<1>6. y \in Seq(T)
    BY <1>3, <1>5, Concat
<1>7. Words(<<Blank>> \o y) = Words(y)
    BY <1>6, WordsBlank
<1>8. Words(w \o x) = <<w>> \o Words(x)
    BY <1>5, WordsFirst
<1>9. Words(x) = Words(t)
    BY <1>2, <1>3, WordsBlank
<1>10. make_tokens_explicit(w \o r) = <<Blank>> \o y
    BY <1>1, <1>3 DEF SetApart, Sep
<1> QED
    BY <1>1, <1>3, <1>7, <1>8, <1>9, <1>10 DEF Read

\* A word without signs.
Plain(w) == \A i \in DOMAIN w : w[i] \notin Signs

FineWord(w) == Plain(w) \/ IsSignWord(w)

Fine(words) == \A i \in DOMAIN words : FineWord(words[i])

LEMMA FineFirst ==
    ASSUME NEW U, NEW w \in U, NEW ws \in Seq(U)
    PROVE  Fine(<<w>> \o ws) <=> FineWord(w) /\ Fine(ws)
<1>1. PICK x : x = <<w>> \o ws
    OBVIOUS
<1>2. PICK n : n = Len(ws)
    OBVIOUS
<1>3. /\ n \in Nat /\ DOMAIN ws = 1 .. n /\ DOMAIN x = 1 .. 1 + n
      /\ x[1] = w /\ \A i \in 1 .. n : x[1 + i] = ws[i]
  <2>1. <<w>> \in Seq(U) /\ Len(<<w>>) = 1 /\ <<w>>[1] = w
      OBVIOUS
  <2>2. PICK one : one = <<w>>
      OBVIOUS
  <2>3. one \in Seq(U)
      BY <2>1, <2>2
  <2>4. /\ Len(one) \in Nat /\ Len(ws) \in Nat /\ DOMAIN ws = 1 .. Len(ws)
        /\ DOMAIN (one \o ws) = 1 .. Len(one) + Len(ws)
        /\ \A i \in 1 .. Len(one) : (one \o ws)[i] = one[i]
        /\ \A i \in 1 .. Len(ws) : (one \o ws)[Len(one) + i] = ws[i]
      BY <2>3, PiecesOf
  <2>5. Len(one) = 1 /\ one[1] = w /\ 1 \in 1 .. 1 /\ x = one \o ws
      BY <1>1, <2>1, <2>2
  <2> QED
      BY <1>2, <2>4, <2>5
<1>4. \A i \in 1 .. n : 1 + i \in 1 .. 1 + n
    BY <1>3
<1>5. \A j \in 1 .. 1 + n : j = 1 \/ \E i \in 1 .. n : j = 1 + i
  <2> TAKE j \in 1 .. 1 + n
  <2>1. j # 1 => j - 1 \in 1 .. n /\ j = 1 + (j - 1)
      BY <1>3
  <2> QED
      BY <2>1
<1>6. 1 \in 1 .. 1 + n
    BY <1>3
<1>7. Fine(x) => FineWord(w) /\ Fine(ws)
    BY <1>3, <1>4, <1>6 DEF Fine
<1>8. FineWord(w) /\ Fine(ws) => Fine(x)
  <2> SUFFICES ASSUME FineWord(w), Fine(ws), NEW j \in 1 .. 1 + n PROVE FineWord(x[j])
      BY <1>3 DEF Fine
  <2>1. CASE j = 1
      BY <1>3, <2>1
  <2>2. ASSUME NEW i \in 1 .. n, j = 1 + i PROVE FineWord(x[j])
      BY <1>3, <2>2 DEF Fine
  <2> QED
      BY <1>5, <2>1, <2>2
<1> QED
    BY <1>1, <1>7, <1>8

LEMMA FineNothing == Fine(<<>>)
BY DEF Fine

\* A sign word that is at the end, or before a blank, is set apart.
LEMMA SignWordApart ==
    ASSUME NEW T, Blank \in T, Signs \subseteq T, NEW w, IsSignWord(w),
           NEW r \in Seq(T), r = <<>> \/ r[1] = Blank
    PROVE  SetApart(w, r)
<1>1. r = <<>> \/ r[1] # Sign("=")
    BY SignsDiffer
<1>2. CASE \E s \in Signs : w = <<s>>
    BY <1>1, <1>2, SignApart
<1>3. CASE \E c \in Ops : \E v : More(v, c) /\ w = <<Sign(c), Sign("=")>> \o v
    BY <1>1, <1>3, OperatorApart
<1> QED
    BY <1>2, <1>3 DEF IsSignWord

\* A sign word is a word that begins with a sign.
LEMMA SignWordIs ==
    ASSUME NEW T, Blank \in T, Signs \subseteq T, NEW w, IsSignWord(w)
    PROVE  w \in Seq(T) /\ IsWord(w) /\ w[1] \in Signs
<1>1. ASSUME NEW s \in Signs, w = <<s>>
      PROVE  w \in Seq(T) /\ IsWord(w) /\ w[1] \in Signs
  <2>1. s \in T /\ s # Blank
      BY SignsDiffer
  <2> QED
      BY <1>1, <2>1 DEF IsWord
<1>2. ASSUME NEW c \in Ops, NEW v, More(v, c), w = <<Sign(c), Sign("=")>> \o v
      PROVE  w \in Seq(T) /\ IsWord(w) /\ w[1] \in Signs
  <2>1. PartOf(w, c, v) /\ More(v, c)
      BY <1>2 DEF PartOf
  <2>2. w \in Seq(T) /\ w # <<>> /\ (\A i \in DOMAIN w : w[i] # Blank) /\ w[1] \in Signs
      BY <2>1, MoreIs
  <2> QED
      BY <2>2 DEF IsWord
<1> QED
    BY <1>1, <1>2 DEF IsSignWord

LEMMA SignWordBegins ==
    ASSUME NEW w, IsSignWord(w)
    PROVE  w[1] \in Signs /\ w # <<>> /\ 1 \in DOMAIN w
<1>1. PICK T : T = {Blank} \cup Signs
    OBVIOUS
<1>2. Blank \in T /\ Signs \subseteq T
    BY <1>1
<1>3. w \in Seq(T) /\ w # <<>> /\ w[1] \in Signs
    BY <1>2, SignWordIs DEF IsWord
<1>4. Len(w) \in Nat \ {0} /\ DOMAIN w = 1 .. Len(w)
    BY <1>3, EmptySeq, LenProperties
<1> QED
    BY <1>3, <1>4

\* What comes after a blank, a sign or nothing is apart as it is.
LEMMA ExplicitBegins ==
    ASSUME NEW T, Blank \in T, NEW r \in Seq(T), r = <<>> \/ r[1] = Blank \/ r[1] \in Signs
    PROVE  make_tokens_explicit(r) = <<>> \/ make_tokens_explicit(r)[1] = Blank
BY ExplicitTyped

\* A piece that is no sign is a word, or the beginning of one.
LEMMA ReadPlain ==
    ASSUME NEW T, Blank \in T, NEW x \in T, x \notin Signs, x # Blank, NEW r \in Seq(T),
           r = <<>> \/ r[1] = Blank \/ r[1] \in Signs
    PROVE  Read(<<x>> \o r) = <<<<x>>>> \o Read(r)
<1>1. PICK t, w : t = make_tokens_explicit(r) /\ w = <<x>>
    OBVIOUS
<1>2. t \in Seq(T) /\ (t = <<>> \/ t[1] = Blank)
    BY <1>1, ExplicitTyped, ExplicitBegins
<1>3. w \in Seq(T) /\ IsWord(w)
    BY <1>1 DEF IsWord
<1>4. Words(w \o t) = <<w>> \o Words(t)
    BY <1>2, <1>3, WordsFirst
<1>5. make_tokens_explicit(<<x>> \o r) = <<x>> \o t
    BY <1>1, PlainApart
<1> QED
    BY <1>1, <1>4, <1>5 DEF Read

Longer(x, r, w, ws) == /\ Read(r) = <<w>> \o ws
                       /\ Read(<<x>> \o r) = <<<<x>> \o w>> \o ws
                       /\ w # <<>> /\ w[1] = r[1]

\* A piece before a word makes it longer, and changes no other.
LEMMA ReadLonger ==
    ASSUME NEW T, Blank \in T, NEW x \in T, x \notin Signs, x # Blank, NEW r \in Seq(T),
           r # <<>>, r[1] # Blank, r[1] \notin Signs
    PROVE  \E w \in Seq(T) : \E ws \in Seq(Seq(T)) : Longer(x, r, w, ws)
<1>1. PICK t : t = make_tokens_explicit(r)
    OBVIOUS
<1>2. t \in Seq(T) /\ t # <<>> /\ t[1] = r[1]
    BY <1>1, ExplicitTyped
<1>3. PICK w \in Seq(T), y \in Seq(T) : WordFirst(t, w, y)
    BY <1>2, FirstWord
<1>4. t = w \o y /\ IsWord(w) /\ (y = <<>> \/ y[1] = Blank)
    BY <1>3 DEF WordFirst
<1>5. PICK v : v = <<x>> \o w
    OBVIOUS
<1>6. PICK n : n = Len(w)
    OBVIOUS
<1>7. /\ n \in Nat /\ DOMAIN w = 1 .. n
      /\ v \in Seq(T) /\ DOMAIN v = 1 .. 1 + n
      /\ v[1] = x /\ \A i \in 1 .. n : v[1 + i] = w[i]
  <2>1. PICK one : one = <<x>>
      OBVIOUS
  <2>2. one \in Seq(T) /\ Len(one) = 1 /\ one[1] = x
      BY <2>1
  <2>3. /\ Len(w) \in Nat /\ DOMAIN w = 1 .. Len(w)
        /\ one \o w \in Seq(T) /\ DOMAIN (one \o w) = 1 .. Len(one) + Len(w)
        /\ \A i \in 1 .. Len(one) : (one \o w)[i] = one[i]
        /\ \A i \in 1 .. Len(w) : (one \o w)[Len(one) + i] = w[i]
    <3>1. one \in Seq(T)
        BY <2>2
    <3> QED
        BY <3>1, PiecesOf
  <2>4. v = one \o w /\ 1 \in 1 .. 1
      BY <1>5, <2>1
  <2> QED
      BY <1>6, <2>2, <2>3, <2>4
<1>8. IsWord(v)
  <2>1. \A i \in 1 .. n : w[i] # Blank
      BY <1>4, <1>7 DEF IsWord
  <2>2. \A j \in 1 .. 1 + n : v[j] # Blank
    <3> TAKE j \in 1 .. 1 + n
    <3>1. j = 1 \/ (j - 1 \in 1 .. n /\ j = 1 + (j - 1))
        BY <1>7
    <3>2. CASE j = 1
        BY <1>7, <3>2
    <3>3. ASSUME NEW i \in 1 .. n, j = 1 + i PROVE v[j] # Blank
        BY <1>7, <2>1, <3>3
    <3> QED
        BY <3>1, <3>2, <3>3
  <2>3. v # <<>>
      BY <1>5, Fronted
  <2> QED
      BY <1>7, <2>2, <2>3 DEF IsWord
<1>9. Words(w \o y) = <<w>> \o Words(y)
    BY <1>4, WordsFirst
<1>10. Words(v \o y) = <<v>> \o Words(y)
    BY <1>4, <1>7, <1>8, WordsFirst
<1>11. make_tokens_explicit(<<x>> \o r) = v \o y
  <2>1. make_tokens_explicit(<<x>> \o r) = <<x>> \o t
      BY <1>1, PlainApart
  <2>2. <<x>> \in Seq(T)
      OBVIOUS
  <2>3. <<x>> \o (w \o y) = (<<x>> \o w) \o y
      BY <2>2, Concat
  <2> QED
      BY <1>4, <1>5, <2>1, <2>3
<1>12. w # <<>> /\ w[1] = r[1]
  <2>1. w # <<>> /\ Len(w) >= 1
      BY <1>4, EmptySeq, LenProperties DEF IsWord
  <2>2. \A i \in 1 .. Len(w) : (w \o y)[i] = w[i]
      BY PiecesOf
  <2>3. 1 \in 1 .. Len(w)
      BY <1>6, <1>7, <2>1
  <2> QED
      BY <1>2, <1>4, <2>1, <2>2, <2>3
<1>13. PICK ws : ws = Words(y)
    OBVIOUS
<1>14. ws \in Seq(Seq(T))
    BY <1>13, WordsTyped
<1>15. Longer(x, r, w, ws)
    BY <1>1, <1>4, <1>5, <1>9, <1>10, <1>11, <1>12, <1>13 DEF Longer, Read
<1> QED
    BY <1>14, <1>15

\* A piece in front of a word without signs.
LEMMA PlainFirst ==
    ASSUME NEW x, x \notin Signs, NEW T, NEW w \in Seq(T), x \in T, w # <<>>, w[1] \notin Signs,
           FineWord(w)
    PROVE  Plain(<<x>> \o w)
<1>1. Plain(w)
    BY SignWordBegins DEF FineWord
<1>2. PICK one, v, n : one = <<x>> /\ v = one \o w /\ n = Len(w)
    OBVIOUS
<1>3. one \in Seq(T) /\ Len(one) = 1 /\ one[1] = x
    BY <1>2
<1>4. /\ Len(w) \in Nat /\ DOMAIN w = 1 .. Len(w)
      /\ DOMAIN (one \o w) = 1 .. Len(one) + Len(w)
      /\ \A i \in 1 .. Len(one) : (one \o w)[i] = one[i]
      /\ \A i \in 1 .. Len(w) : (one \o w)[Len(one) + i] = w[i]
  <2>1. one \in Seq(T)
      BY <1>3
  <2> QED
      BY <2>1, PiecesOf
<1>5. /\ n \in Nat /\ DOMAIN w = 1 .. n /\ DOMAIN v = 1 .. 1 + n
      /\ v[1] = x /\ \A i \in 1 .. n : v[1 + i] = w[i]
    BY <1>2, <1>3, <1>4
<1>6. \A j \in 1 .. 1 + n : v[j] \notin Signs
  <2> TAKE j \in 1 .. 1 + n
  <2>1. j = 1 \/ (j - 1 \in 1 .. n /\ j = 1 + (j - 1))
      BY <1>5
  <2>2. CASE j = 1
      BY <1>5, <2>2
  <2>3. ASSUME NEW i \in 1 .. n, j = 1 + i PROVE v[j] \notin Signs
      BY <1>1, <1>5, <2>3 DEF Plain
  <2> QED
      BY <2>1, <2>2, <2>3
<1> QED
    BY <1>2, <1>5, <1>6 DEF Plain

\* A piece in front of a text that is read in fine words.
LEMMA FineBehind ==
    ASSUME NEW T, Blank \in T, NEW x \in T, x \notin Signs, NEW r \in Seq(T), Fine(Read(r))
    PROVE  Fine(Read(<<x>> \o r))
<1>1. CASE x = Blank
    BY <1>1, ReadBlank
<1>2. CASE x # Blank /\ (r = <<>> \/ r[1] = Blank \/ r[1] \in Signs)
  <2>1. Read(<<x>> \o r) = <<<<x>>>> \o Read(r)
      BY <1>2, ReadPlain
  <2>2. PICK w : w = <<x>>
      OBVIOUS
  <2>3. w \in Seq(T) /\ Plain(w)
      BY <2>2 DEF Plain
  <2>4. Read(r) \in Seq(Seq(T))
      BY ReadTyped
  <2>5. PICK U : U = Seq(T)
      OBVIOUS
  <2>6. FineWord(w) /\ w \in U /\ Read(r) \in Seq(U)
      BY <2>3, <2>4, <2>5 DEF FineWord
  <2>7. Fine(<<w>> \o Read(r))
      BY <2>6, FineFirst
  <2> QED
      BY <2>1, <2>2, <2>7
<1>3. CASE x # Blank /\ r # <<>> /\ r[1] # Blank /\ r[1] \notin Signs
  <2>1. PICK w \in Seq(T), ws \in Seq(Seq(T)) : Longer(x, r, w, ws)
      BY <1>3, ReadLonger
  <2>2. PICK U : U = Seq(T)
      OBVIOUS
  <2>3. w \in U /\ ws \in Seq(U)
      BY <2>2
  <2>4. FineWord(w) /\ Fine(ws)
      BY <2>1, <2>3, FineFirst DEF Longer
  <2>5. Plain(<<x>> \o w)
      BY <1>3, <2>1, <2>4, PlainFirst DEF Longer
  <2>6. PICK v : v = <<x>> \o w
      OBVIOUS
  <2>7. v \in U
    <3>1. <<x>> \o w \in Seq(T)
        BY Fronted
    <3> QED
        BY <2>2, <2>6, <3>1
  <2>8. Fine(<<v>> \o ws)
      BY <2>3, <2>4, <2>5, <2>6, <2>7, FineFirst DEF FineWord
  <2> QED
      BY <2>1, <2>6, <2>8 DEF Longer
<1> QED
    BY <1>1, <1>2, <1>3

\* A word that is set apart in front of such a text.
LEMMA FineApart ==
    ASSUME NEW T, Blank \in T, NEW w \in Seq(T), IsWord(w), IsSignWord(w), NEW r \in Seq(T),
           SetApart(w, r), Fine(Read(r))
    PROVE  Fine(Read(w \o r))
<1>1. Read(w \o r) = <<w>> \o Read(r)
    BY ReadApart
<1>2. PICK U : U = Seq(T)
    OBVIOUS
<1>3. w \in U /\ Read(r) \in Seq(U)
    BY <1>2, ReadTyped
<1> QED
    BY <1>1, <1>3, FineFirst DEF FineWord

\* A text that begins with a sign begins with a sign word that is set apart.
Begun(w, r, t) == t = w \o r /\ IsSignWord(w) /\ SetApart(w, r) /\ Len(r) < Len(t)

\* A sign begins a word of signs that is set apart.
LEMMA SignFirst ==
    ASSUME NEW T, Blank \in T, Signs \subseteq T, NEW s \in Signs, NEW r \in Seq(T)
    PROVE  \E w, y \in Seq(T) : Begun(w, y, <<s>> \o r)
<1>1. PICK e, t : e = Sign("=") /\ t = <<s>> \o r
    OBVIOUS
<1>2. e \in T /\ s \in T
    BY <1>1, SignsDiffer DEF Ops
<1>3. PICK one, ee : one = <<s>> /\ ee = <<e>>
    OBVIOUS
<1>4. one \in Seq(T) /\ ee \in Seq(T)
    BY <1>2, <1>3
<1>8. one \o ee \in Seq(T)
    BY <1>4, Concat
<1>5. \A a \in Seq(T), x \in T : Len(<<x>> \o a) = 1 + Len(a) /\ Len(a) \in Nat
    BY Fronted
<1>6. CASE s \notin {Sign(c) : c \in Ops} \/ r = <<>> \/ r[1] # e
  <2>1. SetApart(one, r)
      BY <1>1, <1>3, <1>6, SignApart
  <2>2. IsSignWord(one)
      BY <1>3 DEF IsSignWord
  <2>3. Len(t) = 1 + Len(r) /\ Len(r) \in Nat
      BY <1>1, <1>2, <1>5
  <2>4. Begun(one, r, t)
      BY <1>1, <1>3, <2>1, <2>2, <2>3 DEF Begun
  <2> QED
      BY <1>1, <1>4, <2>4
<1>7. ASSUME NEW c \in Ops, s = Sign(c), r # <<>>, r[1] = e
      PROVE  \E w, y \in Seq(T) : Begun(w, y, <<s>> \o r)
  <2>0. PICK x \in T, y \in Seq(T) : r = <<x>> \o y /\ x = r[1]
      BY <1>7, FirstAndRest
  <2>1. r = <<e>> \o y
      BY <1>7, <2>0
  <2>2. t = (one \o ee) \o y
    <3>1. Regroups(one, ee, y)
        BY <1>4, Regroup, Zenon
    <3> QED
        BY <1>1, <1>3, <2>1, <3>1 DEF Regroups
  <2>3. one \o ee = <<Sign(c), Sign("=")>>
      BY <1>1, <1>3, <1>7, Tuples
  <2>4. Len(t) = 1 + Len(r) /\ Len(r) = 1 + Len(y) /\ Len(y) \in Nat
      BY <1>1, <1>2, <1>5, <2>1
  <2>5. CASE c = "=" \/ y = <<>> \/ y[1] # e
    <3>1. PICK v, w : v = <<>> /\ w = <<Sign(c), Sign("=")>> \o v
        OBVIOUS
    <3>2. More(v, c)
        BY <3>1 DEF More
    <3>3. SetApart(w, y)
        BY <1>1, <2>5, <3>1, <3>2, OperatorApart
    <3>4. IsSignWord(w)
        BY <3>1, <3>2 DEF IsSignWord
    <3>5. w = one \o ee
      <4>1. (one \o ee) \o <<>> = one \o ee
          BY <1>8, Concat
      <4> QED
          BY <2>3, <3>1, <4>1
    <3>6. Len(y) < Len(t)
        BY <2>4
    <3>7. Begun(w, y, t)
        BY <2>2, <3>3, <3>4, <3>5, <3>6 DEF Begun
    <3> QED
        BY <1>1, <1>8, <3>5, <3>7
  <2>6. CASE c # "=" /\ y # <<>> /\ y[1] = e
    <3>0. PICK x1 \in T, z \in Seq(T) : y = <<x1>> \o z /\ x1 = y[1]
        BY <2>6, FirstAndRest
    <3>1. y = <<e>> \o z
        BY <2>6, <3>0
    <3>2. PICK v, w : v = <<Sign("=")>> /\ w = <<Sign(c), Sign("=")>> \o v
        OBVIOUS
    <3>3. More(v, c)
        BY <2>6, <3>2 DEF More
    <3>4. v # <<>>
        BY <3>2
    <3>5. SetApart(w, z)
        BY <3>2, <3>3, <3>4, OperatorApart
    <3>6. IsSignWord(w)
        BY <3>2, <3>3 DEF IsSignWord
    <3>7. w = (one \o ee) \o ee
        BY <1>1, <1>3, <2>3, <3>2
    <3>8. t = w \o z
      <4>1. PICK p : p = one \o ee
          OBVIOUS
      <4>2. p \in Seq(T)
          BY <1>8, <4>1
      <4>3. Regroups(p, ee, z)
          BY <1>4, <4>2, Regroup, Zenon
      <4> QED
          BY <1>3, <2>2, <3>1, <3>7, <4>1, <4>3 DEF Regroups
    <3>9. Len(z) < Len(t)
      <4>1. Len(y) = 1 + Len(z) /\ Len(z) \in Nat
          BY <1>2, <1>5, <3>1
      <4> QED
          BY <2>4, <4>1
    <3>10. Begun(w, z, t)
        BY <3>5, <3>6, <3>8, <3>9 DEF Begun
    <3>11. w \in Seq(T)
        BY <1>4, <1>8, <3>7, Concat
    <3> QED
        BY <1>1, <3>10, <3>11
  <2> QED
      BY <2>5, <2>6
<1> QED
    BY <1>1, <1>6, <1>7

\* Every text is read in fine words.
LEMMA FineRead ==
    ASSUME NEW T, Blank \in T, Signs \subseteq T
    PROVE  \A t \in Seq(T) : Fine(Read(t))
<1> DEFINE S == {t \in Seq(T) : Fine(Read(t))}
<1>1. ASSUME NEW t \in Seq(T), \A r \in Seq(T) : Len(r) < Len(t) => r \in S
      PROVE  Fine(Read(t))
  <2>1. CASE t = <<>>
      BY <2>1, ReadNothing, FineNothing
  <2>2. CASE t # <<>>
    <3>1. PICK x \in T, r \in Seq(T) : t = <<x>> \o r
        BY <2>2, FirstAndRest
    <3>2. CASE x \notin Signs
      <4>1. Len(r) < Len(t)
        <5>1. Len(<<x>> \o r) = 1 + Len(r) /\ Len(r) \in Nat
            BY Fronted
        <5> QED
            BY <3>1, <5>1
      <4>2. Fine(Read(r))
          BY <1>1, <4>1
      <4> QED
          BY <3>1, <3>2, <4>2, FineBehind
    <3>3. CASE x \in Signs
      <4>1. PICK w, y \in Seq(T) : Begun(w, y, t)
          BY <3>1, <3>3, SignFirst
      <4>2. Fine(Read(y))
          BY <1>1, <4>1 DEF Begun
      <4>3. IsWord(w)
          BY <4>1, SignWordIs DEF Begun
      <4> QED
          BY <4>1, <4>2, <4>3, FineApart DEF Begun
    <3> QED
        BY <3>2, <3>3
  <2> QED
      BY <2>1, <2>2
<1> HIDE DEF S
<1>2. \A t \in Seq(T) : (\A r \in Seq(T) : Len(r) < Len(t) => r \in S) => t \in S
    BY <1>1 DEF S
<1>3. Seq(T) \subseteq S
    BY <1>2, EveryText
<1> QED
    BY <1>3 DEF S

\* A word without signs stays as it is.
LEMMA PlainWordApart ==
    ASSUME NEW T, Blank \in T, NEW r \in Seq(T)
    PROVE  \A w \in Seq(T) : Plain(w) => make_tokens_explicit(w \o r) = w \o make_tokens_explicit(r)
<1> DEFINE S == {w \in Seq(T) : Plain(w) =>
                                   make_tokens_explicit(w \o r) = w \o make_tokens_explicit(r)}
<1>1. ASSUME NEW w \in Seq(T), \A y \in Seq(T) : Len(y) < Len(w) => y \in S, Plain(w)
      PROVE  make_tokens_explicit(w \o r) = w \o make_tokens_explicit(r)
  <2>1. PICK t : t = make_tokens_explicit(r)
      OBVIOUS
  <2>2. t \in Seq(T)
      BY <2>1, ExplicitTyped
  <2>3. CASE w = <<>>
    <3>1. <<>> \o r = r /\ <<>> \o t = t
        BY <2>2, Concat
    <3> QED
        BY <2>1, <2>3, <3>1
  <2>4. CASE w # <<>>
    <3>1. PICK x \in T, y \in Seq(T) : w = <<x>> \o y
        BY <2>4, FirstAndRest
    <3>2. PICK one, n : one = <<x>> /\ n = Len(y)
        OBVIOUS
    <3>3. one \in Seq(T) /\ Len(one) = 1 /\ one[1] = x
        BY <3>2
    <3>4. /\ Len(y) \in Nat /\ DOMAIN y = 1 .. Len(y)
          /\ Len(one \o y) = Len(one) + Len(y)
          /\ DOMAIN (one \o y) = 1 .. Len(one) + Len(y)
          /\ \A i \in 1 .. Len(one) : (one \o y)[i] = one[i]
          /\ \A i \in 1 .. Len(y) : (one \o y)[Len(one) + i] = y[i]
      <4>1. one \in Seq(T)
          BY <3>3
      <4> QED
          BY <4>1, PiecesOf
    <3>5. /\ n \in Nat /\ DOMAIN y = 1 .. n /\ Len(w) = 1 + n /\ DOMAIN w = 1 .. 1 + n
          /\ w[1] = x /\ \A i \in 1 .. n : w[1 + i] = y[i]
        BY <3>1, <3>2, <3>3, <3>4
    <3>6. x \notin Signs /\ Plain(y)
      <4>1. 1 \in 1 .. 1 + n /\ \A i \in 1 .. n : 1 + i \in 1 .. 1 + n
          BY <3>5
      <4> QED
          BY <1>1, <3>5, <4>1 DEF Plain
    <3>7. make_tokens_explicit(y \o r) = y \o t
      <4>1. Len(y) < Len(w)
          BY <3>2, <3>5
      <4>2. y \in S
          BY <1>1, <4>1
      <4> QED
          BY <2>1, <3>6, <4>2
    <3>8. make_tokens_explicit(one \o (y \o r)) = one \o make_tokens_explicit(y \o r)
      <4>1. y \o r \in Seq(T)
          BY Concat
      <4> QED
          BY <3>2, <3>6, <4>1, PlainApart
    <3>9. one \o (y \o r) = (one \o y) \o r /\ one \o (y \o t) = (one \o y) \o t
      <4>1. one \in Seq(T)
          BY <3>3
      <4>2. Regroups(one, y, r) /\ Regroups(one, y, t)
          BY <2>2, <4>1, Regroup, Zenon
      <4> QED
          BY <4>2 DEF Regroups
    <3> QED
        BY <2>1, <3>1, <3>2, <3>7, <3>8, <3>9
  <2> QED
      BY <2>3, <2>4
<1> HIDE DEF S
<1>2. \A t \in Seq(T) : (\A y \in Seq(T) : Len(y) < Len(t) => y \in S) => t \in S
    BY <1>1 DEF S
<1>3. Seq(T) \subseteq S
    BY <1>2, EveryText
<1> QED
    BY <1>3 DEF S

\* The signs of a text of fine words are apart: setting them apart once more
\* changes no word.
LEMMA OnceIsEnough ==
    ASSUME NEW T, Blank \in T, Signs \subseteq T
    PROVE  \A t \in Seq(T) : Fine(Words(t)) => Read(t) = Words(t)
<1> DEFINE S == {t \in Seq(T) : Fine(Words(t)) => Read(t) = Words(t)}
<1>1. ASSUME NEW t \in Seq(T), \A r \in Seq(T) : Len(r) < Len(t) => r \in S, Fine(Words(t))
      PROVE  Read(t) = Words(t)
  <2>1. CASE t = <<>>
      BY <2>1, ReadNothing, WordsOfNothing
  <2>2. CASE t # <<>> /\ t[1] = Blank
    <3>0. PICK x \in T, r \in Seq(T) : t = <<x>> \o r /\ x = t[1]
        BY <2>2, FirstAndRest
    <3>1. t = <<Blank>> \o r
        BY <2>2, <3>0
    <3>2. Len(r) < Len(t)
      <4>1. Len(<<Blank>> \o r) = 1 + Len(r) /\ Len(r) \in Nat
          BY Fronted
      <4> QED
          BY <3>1, <4>1
    <3>3. Words(t) = Words(r) /\ Read(t) = Read(r)
        BY <3>1, WordsBlank, ReadBlank
    <3>4. r \in S
        BY <1>1, <3>2
    <3> QED
        BY <1>1, <3>3, <3>4
  <2>3. CASE t # <<>> /\ t[1] # Blank
    <3>1. PICK w \in Seq(T), r \in Seq(T) : WordFirst(t, w, r)
        BY <2>3, FirstWord
    <3>2. t = w \o r /\ IsWord(w) /\ (r = <<>> \/ r[1] = Blank) /\ Len(r) < Len(t)
        BY <3>1 DEF WordFirst
    <3>3. Words(t) = <<w>> \o Words(r)
        BY <3>2, WordsFirst
    <3>4. PICK U : U = Seq(T)
        OBVIOUS
    <3>5. w \in U /\ Words(r) \in Seq(U)
        BY <3>4, WordsTyped
    <3>6. FineWord(w) /\ Fine(Words(r))
        BY <1>1, <3>3, <3>5, FineFirst
    <3>7. Read(r) = Words(r)
        BY <1>1, <3>2, <3>6
    <3>8. CASE IsSignWord(w)
      <4>1. SetApart(w, r)
          BY <3>2, <3>8, SignWordApart
      <4>2. Read(w \o r) = <<w>> \o Read(r)
          BY <3>2, <4>1, ReadApart
      <4> QED
          BY <3>2, <3>3, <3>7, <4>2
    <3>9. CASE Plain(w)
      <4>1. PICK y : y = make_tokens_explicit(r)
          OBVIOUS
      <4>2. y \in Seq(T) /\ (y = <<>> \/ y[1] = Blank)
          BY <3>2, <4>1, ExplicitTyped, ExplicitBegins
      <4>3. Words(w \o y) = <<w>> \o Words(y)
          BY <3>2, <4>2, WordsFirst
      <4>4. make_tokens_explicit(w \o r) = w \o y
          BY <3>9, <4>1, PlainWordApart
      <4> QED
          BY <3>2, <3>3, <3>7, <4>1, <4>3, <4>4 DEF Read
    <3> QED
        BY <3>6, <3>8, <3>9 DEF FineWord
  <2> QED
      BY <2>1, <2>2, <2>3
<1> HIDE DEF S
<1>2. \A t \in Seq(T) : (\A r \in Seq(T) : Len(r) < Len(t) => r \in S) => t \in S
    BY <1>1 DEF S
<1>3. Seq(T) \subseteq S
    BY <1>2, EveryText
<1> QED
    BY <1>3 DEF S

\* The query of main.cpp, set apart and trimmed.
Explicit(text) == Trimmed(make_tokens_explicit(text))

\* Set apart and trimmed, a text has the words that are read, and is read again as these.
LEMMA ExplicitRead ==
    ASSUME NEW T, Blank \in T, Signs \subseteq T, NEW text \in Seq(T)
    PROVE  /\ Explicit(text) \in Seq(T)
           /\ Words(Explicit(text)) = Read(text)
           /\ Read(Explicit(text)) = Words(Explicit(text))
<1>1. make_tokens_explicit(text) \in Seq(T)
    BY ExplicitTyped
<1>2. Explicit(text) \in Seq(T) /\ Words(Explicit(text)) = Read(text)
    BY <1>1, TrimmedIs DEF Explicit, Read
<1>3. Fine(Words(Explicit(text)))
    BY <1>2, FineRead
<1> QED
    BY <1>2, <1>3, OnceIsEnough

LEMMA NothingUntabbed ==
    ASSUME NEW T, NEW text \in Seq(T), Tab \notin {text[i] : i \in DOMAIN text}
    PROVE  Untabbed(text) = text
<1>1. DOMAIN text = 1 .. Len(text) /\ text = [i \in DOMAIN text |-> text[i]]
    BY LenProperties
<1>2. \A i \in DOMAIN text : text[i] # Tab
    OBVIOUS
<1> QED
    BY <1>1, <1>2 DEF Untabbed

\* A query that is set apart, and has no tab, is read as its words.
LEMMA ReadOnce ==
    ASSUME NEW T, NEW text \in Seq(T),
           Tab \notin {Explicit(text)[i] : i \in DOMAIN Explicit(text)}
    PROVE  /\ tokenize(Explicit(text)) = Words(Explicit(text))
           /\ tokenize(Explicit(text)) = Read(text)
<1>1. PICK U, q : U = PiecesFor(text) /\ q = Explicit(text)
    OBVIOUS
<1>2. Blank \in U /\ Signs \subseteq U /\ text \in Seq(U)
    BY <1>1, TextOver DEF PiecesFor
<1>3. q \in Seq(U) /\ Words(q) = Read(text) /\ Read(q) = Words(q)
    BY <1>1, <1>2, ExplicitRead
<1>4. Untabbed(q) = q
    BY <1>1, <1>3, NothingUntabbed
<1>5. tokenize(q) = Read(q)
    BY <1>4, TokenizeIs DEF Read
<1> QED
    BY <1>1, <1>3, <1>5

-----------------------------------------------------------------------------
(* What is written is read. *)

\* A sequence of items, each put down as a sequence.
Each(f, items) == [i \in DOMAIN items |-> f[items[i]]]
Flat(f, items) == FlattenSeq(Each(f, items))
PutDown(f, P, U) == f \in [P -> Seq(U)]

LEMMA FlatIs ==
    ASSUME NEW P, NEW U, NEW f, PutDown(f, P, U), NEW a \in Seq(P)
    PROVE  /\ Each(f, a) \in Seq(Seq(U))
           /\ Flat(f, a) \in Seq(U)
<1>1. PICK n, q, V : n = Len(a) /\ q = Each(f, a) /\ V = Seq(U)
    OBVIOUS
<1>2. n \in Nat /\ DOMAIN a = 1 .. n /\ \A i \in 1 .. n : a[i] \in P
    BY <1>1, LenProperties
<1>3. q \in [1 .. n -> V]
    BY <1>1, <1>2 DEF Each, PutDown
<1>4. q \in Seq(V)
    BY <1>2, <1>3, SeqDef
<1>5. q \in Seq(Seq(U))
    BY <1>1, <1>4
<1>6. <<>> \in Seq(Seq(U))
    OBVIOUS
<1>7. FlattenSeq(q) \in Seq(U)
    BY <1>5, <1>6, FlattenConcat
<1> QED
    BY <1>1, <1>5, <1>7 DEF Flat

\* What two sequences of items put down is put down one after the other.
LEMMA FlatConcat ==
    ASSUME NEW P, NEW U, NEW f, PutDown(f, P, U), NEW a \in Seq(P), NEW b \in Seq(P)
    PROVE  Flat(f, a \o b) = Flat(f, a) \o Flat(f, b)
<1>1. PICK p, q, n, m : /\ p = Each(f, a) /\ q = Each(f, b)
                        /\ n = Len(a) /\ m = Len(b)
    OBVIOUS
<1>2. p \in Seq(Seq(U)) /\ q \in Seq(Seq(U))
    BY <1>1, FlatIs
<1>3. PICK ab : ab = a \o b
    OBVIOUS
<1>4. /\ n \in Nat /\ m \in Nat /\ DOMAIN a = 1 .. n /\ DOMAIN b = 1 .. m
      /\ ab \in Seq(P) /\ DOMAIN ab = 1 .. n + m
      /\ \A i \in 1 .. n : ab[i] = a[i]
      /\ \A i \in 1 .. m : ab[n + i] = b[i]
  <2>1. /\ Len(a) \in Nat /\ Len(b) \in Nat /\ DOMAIN a = 1 .. Len(a) /\ DOMAIN b = 1 .. Len(b)
        /\ a \o b \in Seq(P) /\ DOMAIN (a \o b) = 1 .. Len(a) + Len(b)
        /\ \A i \in 1 .. Len(a) : (a \o b)[i] = a[i]
        /\ \A i \in 1 .. Len(b) : (a \o b)[Len(a) + i] = b[i]
      BY PiecesOf
  <2> QED
      BY <1>1, <1>3, <2>1
<1>5. PICK V, c : V = Seq(U) /\ c = Each(f, ab)
    OBVIOUS
<1>6. p \in Seq(V) /\ q \in Seq(V)
    BY <1>2, <1>5
<1>7. c \in Seq(V) /\ DOMAIN c = 1 .. n + m
  <2>1. ab \in Seq(P)
      BY <1>4
  <2>2. Each(f, ab) \in Seq(Seq(U))
      BY <2>1, FlatIs
  <2>3. DOMAIN c = 1 .. n + m
      BY <1>4, <1>5 DEF Each
  <2> QED
      BY <1>5, <2>2, <2>3
<1>8. /\ DOMAIN p = 1 .. n /\ DOMAIN q = 1 .. m /\ Len(p) = n /\ Len(q) = m
      /\ \A i \in 1 .. n : p[i] = f[a[i]]
      /\ \A i \in 1 .. m : q[i] = f[b[i]]
    BY <1>1, <1>4, <1>6, LenProperties DEF Each
<1>9. PICK pq : pq = p \o q
    OBVIOUS
<1>10. /\ pq \in Seq(V) /\ DOMAIN pq = 1 .. n + m
       /\ \A i \in 1 .. n : pq[i] = p[i]
       /\ \A i \in 1 .. m : pq[n + i] = q[i]
  <2>1. /\ p \o q \in Seq(V) /\ DOMAIN (p \o q) = 1 .. Len(p) + Len(q)
        /\ \A i \in 1 .. Len(p) : (p \o q)[i] = p[i]
        /\ \A i \in 1 .. Len(q) : (p \o q)[Len(p) + i] = q[i]
      BY <1>6, PiecesOf
  <2> QED
      BY <1>8, <1>9, <2>1
<1>11. \A j \in 1 .. n + m : c[j] = pq[j]
  <2> TAKE j \in 1 .. n + m
  <2>1. j \in 1 .. n \/ (j - n \in 1 .. m /\ j = n + (j - n))
      BY <1>4
  <2>2. c[j] = f[ab[j]]
      BY <1>4, <1>5 DEF Each
  <2>3. CASE j \in 1 .. n
      BY <1>4, <1>8, <1>10, <2>2, <2>3
  <2>4. ASSUME NEW i \in 1 .. m, j = n + i PROVE c[j] = pq[j]
      BY <1>4, <1>8, <1>10, <2>2, <2>4, ZenonT(40)
  <2> QED
      BY <2>1, <2>3, <2>4
<1>12. c = pq
  <2>1. Len(c) = n + m /\ Len(pq) = n + m
      BY <1>4, <1>7, <1>10, LenProperties
  <2> QED
      BY <1>7, <1>10, <1>11, <2>1, SeqEqual
<1>13. FlattenSeq(p \o q) = FlattenSeq(p) \o FlattenSeq(q)
    BY <1>2, FlattenConcat
<1> QED
    BY <1>1, <1>3, <1>5, <1>9, <1>12, <1>13 DEF Flat

FlatBegins(f, x, rest) == Flat(f, <<x>> \o rest) = f[x] \o Flat(f, rest)

LEMMA FlatFirst ==
    ASSUME NEW P, NEW U, NEW f, PutDown(f, P, U), NEW x \in P, NEW rest \in Seq(P)
    PROVE  FlatBegins(f, x, rest)
<1>1. PICK one : one = <<x>>
    OBVIOUS
<1>2. one \in Seq(P) /\ DOMAIN one = {1} /\ one[1] = x
    BY <1>1
<1>3. PICK e : e = f[x]
    OBVIOUS
<1>4. e \in Seq(U)
    BY <1>3 DEF PutDown
<1>5. Each(f, one) = <<e>>
    BY <1>2, <1>3 DEF Each
<1>6. FlattenSeq(<<e>>) = e /\ FlattenSeq(<<>>) = <<>>
    BY <1>4, FlattenOne
<1>7. Flat(f, one) = e
    BY <1>5, <1>6 DEF Flat
<1>8. Flat(f, one \o rest) = Flat(f, one) \o Flat(f, rest)
  <2>1. one \in Seq(P)
      BY <1>2
  <2> QED
      BY <2>1, FlatConcat
<1> QED
    BY <1>1, <1>3, <1>7, <1>8 DEF FlatBegins

LEMMA FlatNothing == \A f : Flat(f, <<>>) = <<>>
<1>1. FlattenSeq(<<>>) = <<>>
    BY DEF FlattenSeq
<1> QED
    BY <1>1 DEF Flat, Each

\* The tokens of words one after the other.
LEMMA TokensConcat ==
    ASSUME NEW T, NEW a \in Seq(Seq(T)), NEW b \in Seq(Seq(T))
    PROVE  TokensOfAll(a \o b) = TokensOfAll(a) \o TokensOfAll(b)
<1> DEFINE U == UNION {{TokensOf(w)[1], TokensOf(w)[2]} : w \in Seq(T)}
           f == [w \in Seq(T) |-> TokensOf(w)]
<1>1. ASSUME NEW w \in Seq(T) PROVE TokensOf(w) \in Seq(U)
  <2>1. PICK s : s = TokensOf(w)
      OBVIOUS
  <2>2. s[1] \in U /\ s[2] \in U
      BY <2>1
  <2> HIDE DEF U
  <2>3. CASE OneToken(s)
    <3>1. PICK t : s = <<t>>
        BY <2>3 DEF OneToken
    <3>2. t \in U
        BY <2>2, <3>1
    <3> QED
        BY <2>1, <3>1, <3>2
  <2>4. CASE SizedToken(s)
    <3>1. PICK t, u : s = <<t, u>>
        BY <2>4 DEF SizedToken
    <3>2. t \in U /\ u \in U
        BY <2>2, <3>1
    <3> QED
        BY <2>1, <3>1, <3>2
  <2> QED
      BY <2>1, <2>3, <2>4, TokensOfWord
<1>2. PICK V, g, P : V = U /\ g = f /\ P = Seq(T)
    OBVIOUS
<1>3. PutDown(g, P, V) /\ a \in Seq(P) /\ b \in Seq(P)
    BY <1>1, <1>2 DEF PutDown
<1>4. Flat(g, a \o b) = Flat(g, a) \o Flat(g, b)
    BY <1>3, FlatConcat
<1>5. ASSUME NEW c \in Seq(P) PROVE Flat(g, c) = TokensOfAll(c)
  <2>1. \A i \in DOMAIN c : c[i] \in P
      BY LenProperties
  <2>2. \A i \in DOMAIN c : g[c[i]] = TokensOf(c[i])
      BY <1>2, <2>1
  <2>3. [i \in DOMAIN c |-> g[c[i]]] = [i \in DOMAIN c |-> TokensOf(c[i])]
      BY <2>2
  <2> QED
      BY <2>3 DEF Flat, Each, TokensOfAll
<1>6. a \o b \in Seq(P)
    BY <1>3, Concat
<1> QED
    BY <1>3, <1>4, <1>5, <1>6

LEMMA TokensOne ==
    ASSUME NEW w
    PROVE  TokensOfAll(<<w>>) = TokensOf(w) /\ TokensOfAll(<<>>) = <<>>
<1>1. PICK words : words = <<w>>
    OBVIOUS
<1>2. DOMAIN words = {1} /\ words[1] = w
    BY <1>1
<1>3. PICK e : e = TokensOf(w)
    OBVIOUS
<1>4. [i \in DOMAIN words |-> TokensOf(words[i])] = <<e>>
    BY <1>2, <1>3
<1>5. PICK U : e \in Seq(U)
    BY <1>3, SoundWord DEF SoundTokens
<1>6. FlattenSeq(<<e>>) = e /\ FlattenSeq(<<>>) = <<>>
    BY <1>5, FlattenOne
<1>7. [i \in DOMAIN <<>> |-> TokensOf(<<>>[i])] = <<>>
    OBVIOUS
<1> QED
    BY <1>1, <1>3, <1>4, <1>6, <1>7 DEF TokensOfAll

\* A word of one piece that is no sign, no blank and no tab.
OnePiece(w) == \E x : w = <<x>> /\ x \notin Signs /\ x # Blank /\ x # Tab

\* What is read of a word that is not refused.
IsRead(t, w) == /\ TokensOf(w) = <<t>> /\ ValidWord(w)
                /\ t[1] \notin {"UInt", "Int", "Double", "str", "unknown"} /\ t # Op("NOT_EQUAL")
                /\ OnePiece(w) \/ IsSignWord(w)

LEMMA TaggedPieces ==
    ASSUME NEW k, NEW v, k \notin {"sign", "blank"}
    PROVE  OnePiece(<<<<k, v>>>>)
<1>1. PICK x : x = <<k, v>>
    OBVIOUS
<1>2. x # Blank /\ x # Tab
    BY <1>1 DEF Blank, Tab
<1>3. \A s \in Signs : \E c : s = Sign(c)
    BY Zenon DEF Signs
<1>4. \A c : x # Sign(c)
    BY <1>1 DEF Sign
<1>5. x \notin Signs
    BY <1>3, <1>4
<1> QED
    BY <1>1, <1>2, <1>5 DEF OnePiece

\* The text of a symbol is read as the symbol.
LEMMA SymbolsRead == \A t, w : <<t, w>> \in SymbolTexts => IsRead(t, w)
<1>1. PICK a, b, c, d, e : /\ a = <<Sign("(")>> /\ b = <<Sign(")")>> /\ c = <<Sign(";")>>
                           /\ d = <<Sign(",")>> /\ e = <<<<"other", "*">>>>
    BY Zenon
<1>2. PICK v, w, x, y, z : /\ v = OPENING_PAR /\ w = CLOSING_PAR /\ x = SEMICOLON /\ y = COMA
                           /\ z = ALL
    BY Zenon
<1>3. SymbolTexts = {<<y, d>>, <<x, c>>, <<v, a>>, <<w, b>>, <<z, e>>}
    BY <1>1, <1>2, Zenon DEF SymbolTexts
<1>4. PICK S : S = DOMAIN SymbolOf
    OBVIOUS
<1>5. S = {a, b, c, d, e}
    BY <1>1, <1>4, SymbolTable, Zenon
<1>6. /\ SymbolOf[a] = v /\ SymbolOf[b] = w /\ SymbolOf[c] = x /\ SymbolOf[d] = y
      /\ SymbolOf[e] = z
    BY <1>1, <1>2, SymbolTable, Zenon
<1>7. \A u \in S : TokensOf(u) = <<SymbolOf[u]>> /\ ValidWord(u)
    BY <1>4, TablesApart DEF TokensOf, ValidWord
<1>8. IsSignWord(a) /\ IsSignWord(b) /\ IsSignWord(c) /\ IsSignWord(d)
  <2>1. Sign("(") \in Signs /\ Sign(")") \in Signs /\ Sign(";") \in Signs /\ Sign(",") \in Signs
      BY Zenon DEF Signs
  <2> QED
      BY <1>1, <2>1, Zenon DEF IsSignWord
<1>9. OnePiece(e)
    BY <1>1, TaggedPieces
<1>10. \A t \in {v, w, x, y, z} : t[1] = "sym"
    BY <1>2 DEF OPENING_PAR, CLOSING_PAR, SEMICOLON, COMA, ALL, Sym
<1>11. \A t \in {v, w, x, y, z} : /\ t[1] \notin {"UInt", "Int", "Double", "str", "unknown"}
                                 /\ t # Op("NOT_EQUAL")
    BY <1>10 DEF Op
<1>12. ASSUME NEW t, NEW u, <<t, u>> \in SymbolTexts
       PROVE  /\ u \in S /\ t = SymbolOf[u] /\ t \in {v, w, x, y, z}
              /\ u \in {a, b, c, d, e}
  <2>1. \/ t = y /\ u = d
        \/ t = x /\ u = c
        \/ t = v /\ u = a
        \/ t = w /\ u = b
        \/ t = z /\ u = e
      BY <1>3, <1>12
  <2> QED
      BY <1>5, <1>6, <2>1
<1>13. ASSUME NEW t, NEW u, <<t, u>> \in SymbolTexts PROVE IsRead(t, u)
  <2>1. TokensOf(u) = <<t>> /\ ValidWord(u)
      BY <1>7, <1>12, <1>13
  <2>2. OnePiece(u) \/ IsSignWord(u)
      BY <1>8, <1>9, <1>12, <1>13
  <2>3. t[1] \notin {"UInt", "Int", "Double", "str", "unknown"} /\ t # Op("NOT_EQUAL")
      BY <1>11, <1>12, <1>13
  <2> QED
      BY <2>1, <2>2, <2>3 DEF IsRead
<1> QED
    BY <1>13

\* The words of the operators.
LEMMA OperatorWords ==
    /\ \A c \in {"=", "!", "<", ">"} : IsSignWord(<<Sign(c), Sign("=")>>)
    /\ \A c \in {"=", "!", "<", ">"} : IsSignWord(<<Sign(c)>>)
<1>1. ASSUME NEW c \in Ops PROVE IsSignWord(<<Sign(c), Sign("=")>>) /\ IsSignWord(<<Sign(c)>>)
  <2>1. Sign(c) \in Signs
      BY SignsDiffer
  <2>2. PICK x, y, s : x = Sign(c) /\ y = Sign("=") /\ s = <<x, y>>
      OBVIOUS
  <2>3. s \o <<>> = s
    <3>1. PICK T : T = {x, y}
        OBVIOUS
    <3>2. s \in Seq(T)
        BY <2>2, <3>1
    <3> QED
        BY <3>2, Concat
  <2>4. PICK v : v = <<>>
      OBVIOUS
  <2>5. More(v, c)
      BY <2>4 DEF More
  <2>6. s = <<Sign(c), Sign("=")>> \o v
      BY <2>2, <2>3, <2>4
  <2>7. \E u : More(u, c) /\ s = <<Sign(c), Sign("=")>> \o u
      BY <2>5, <2>6
  <2>8. IsSignWord(s)
      BY <2>7, Zenon DEF IsSignWord
  <2>9. IsSignWord(<<Sign(c)>>)
      BY <2>1, Zenon DEF IsSignWord
  <2> QED
      BY <2>2, <2>8, <2>9
<1>2. Ops = {"=", "!", "<", ">"}
    BY DEF Ops
<1> QED
    BY <1>1, <1>2

\* validate knows no !=.
LEMMA NotEqualRefused ==
    /\ ~ValidWord(<<Sign("!"), Sign("=")>>)
    /\ TokensOf(<<Sign("!"), Sign("=")>>) # <<>>
    /\ \A w : <<Op("NOT_EQUAL"), w>> \in OperatorTexts => w = <<Sign("!"), Sign("=")>>
<1>1. PICK w, s, e : w = <<s, e>> /\ s = Sign("!") /\ e = Sign("=")
    OBVIOUS
<1>2. w \notin DOMAIN OperatorOf
    BY <1>1, OperatorTable DEF Sign
<1>3. w \notin DOMAIN SymbolOf
  <2>1. \A u \in DOMAIN SymbolOf : \E x : u = <<x>>
      BY SymbolTable, Zenon
  <2>2. \A x : w # <<x>>
      BY <1>1
  <2> QED
      BY <2>1, <2>2
<1>4. Len(w) = 2
    BY <1>1
<1>5. w # <<Sign("!")>>
    BY <1>1
<1>6. ~ValidWord(w)
    BY <1>2, <1>3, <1>4, <1>5 DEF ValidWord
<1>7. TokensOf(w) # <<>>
    BY TokensOfWord DEF OneToken, SizedToken
<1>8. \A u : <<Op("NOT_EQUAL"), u>> \in OperatorTexts => u = <<Sign("!"), Sign("=")>>
    BY DEF OperatorTexts, Op
<1> QED
    BY <1>1, <1>6, <1>7, <1>8

\* The text of an operator is read as the operator, but for !=.
LEMMA OperatorsRead ==
    \A t, w : <<t, w>> \in OperatorTexts => t = Op("NOT_EQUAL") \/ IsRead(t, w)
<1> SUFFICES ASSUME NEW t, NEW w, <<t, w>> \in OperatorTexts, t # Op("NOT_EQUAL")
             PROVE  IsRead(t, w)
    OBVIOUS
<1>1. PICK O : O = DOMAIN OperatorOf
    OBVIOUS
<1>2. w \in O /\ OperatorOf[w] = t
    BY <1>1, OperatorTable DEF OperatorTexts
<1>3. w \notin DOMAIN SymbolOf
    BY <1>1, <1>2, TablesApart
<1>4. TokensOf(w) = <<t>> /\ ValidWord(w)
    BY <1>1, <1>2, <1>3 DEF TokensOf, ValidWord
<1>5. PICK v : t = <<"op", v>>
    BY <1>1, <1>2, OperatorValues
<1>6. t[1] \notin {"UInt", "Int", "Double", "str", "unknown"}
    BY <1>5
<1>7. OnePiece(w) \/ IsSignWord(w)
  <2>1. \/ \E c \in {"=", "!", "<", ">"} : w = <<Sign(c), Sign("=")>> \/ w = <<Sign(c)>>
        \/ w = <<Word("AND")>>
        \/ \E v1 : w = <<<<"other", v1>>>>
      BY <1>1, <1>2, OperatorTable
  <2>2. CASE w = <<Word("AND")>> \/ \E v1 : w = <<<<"other", v1>>>>
      BY <2>2, TaggedPieces DEF Word
  <2>3. CASE \E c \in {"=", "!", "<", ">"} : w = <<Sign(c), Sign("=")>> \/ w = <<Sign(c)>>
      BY <2>3, OperatorWords
  <2> QED
      BY <2>1, <2>2, <2>3
<1> QED
    BY <1>4, <1>6, <1>7 DEF IsRead

\* A piece that is in none of the tables.
LEMMA PieceRead ==
    ASSUME NEW k, NEW v, k # "sign", k = "other" => v \notin {"*", "&&", "0R", "||"},
           k = "ident" => v # "AND"
    PROVE  /\ TokensOf(<<<<k, v>>>>) = TokensOfPiece(k, v)
           /\ ValidWord(<<<<k, v>>>>) <=> k # "other"
<1>1. PICK w, p : w = <<p>> /\ p = <<k, v>>
    OBVIOUS
<1>2. PICK S, O : S = DOMAIN SymbolOf /\ O = DOMAIN OperatorOf
    OBVIOUS
<1>3. w \notin S
  <2>1. \A u \in S : (\E c : u = <<Sign(c)>>) \/ u = <<<<"other", "*">>>>
      BY <1>2, SymbolTable, Zenon
  <2>2. \A c : p # Sign(c)
      BY <1>1 DEF Sign
  <2>3. p # <<"other", "*">>
      BY <1>1
  <2> QED
      BY <1>1, <2>1, <2>2, <2>3
<1>4. w \notin O
  <2>1. \A u \in O : \/ \E c, d : u = <<Sign(c), Sign(d)>>
                     \/ \E c : u = <<Sign(c)>>
                     \/ u = <<Word("AND")>>
                     \/ u \in {<<<<"other", "&&">>>>, <<<<"other", "0R">>>>, <<<<"other", "||">>>>}
      BY <1>2, OperatorTable
  <2>2. \A c : p # Sign(c)
      BY <1>1 DEF Sign
  <2>3. p # Word("AND") /\ p \notin {<<"other", "&&">>, <<"other", "0R">>, <<"other", "||">>}
      BY <1>1 DEF Word
  <2>4. ASSUME w \in O PROVE FALSE
    <3>1. Len(w) = 1
        BY <1>1
    <3>2. \A c, d : w # <<Sign(c), Sign(d)>>
        BY <3>1
    <3>3. \A x : w = <<x>> => x = p
        BY <1>1
    <3> QED
        BY <2>1, <2>2, <2>3, <2>4, <3>2, <3>3
  <2> QED
      BY <2>4
<1>5. Len(w) = 1 /\ w[1][1] = k /\ w[1][2] = v
    BY <1>1
<1>6. TokensOf(w) = TokensOfPiece(k, v)
    BY <1>2, <1>3, <1>4, <1>5 DEF TokensOf
<1>7. w # <<Sign("!")>>
  <2>1. p # Sign("!")
      BY <1>1 DEF Sign
  <2> QED
      BY <1>1, <2>1
<1>8. ValidWord(w) <=> k # "other"
    BY <1>2, <1>3, <1>4, <1>5, <1>7 DEF ValidWord
<1> QED
    BY <1>1, <1>6, <1>8

\* The name of a type is read as the type.
LEMMA TypesRead == \A t, w : <<t, w>> \in TypeTexts => IsRead(t, w)
<1> SUFFICES ASSUME NEW t, NEW w, <<t, w>> \in TypeTexts PROVE IsRead(t, w)
    OBVIOUS
<1>1. PICK v \in DOMAIN TypeOf : t = Type(TypeOf[v]) /\ w = <<Word(v)>>
    BY DEF TypeTexts
<1>2. v # "AND" /\ v \notin Keywords
    BY DEF TypeOf, Keywords
<1>3. w = <<<<"ident", v>>>>
    BY <1>1 DEF Word
<1>4. TokensOf(w) = TokensOfPiece("ident", v) /\ ValidWord(w)
    BY <1>2, <1>3, PieceRead
<1>5. v \notin {"true", "false"}
    BY DEF TypeOf
<1>6. TokensOfPiece("ident", v) = <<Type(TypeOf[v])>>
    BY <1>2, <1>5 DEF TokensOfPiece
<1>7. t[1] \notin {"UInt", "Int", "Double", "str", "unknown"} /\ t # Op("NOT_EQUAL")
    BY <1>1 DEF Type, Op
<1>8. OnePiece(w)
    BY <1>3, TaggedPieces
<1> QED
    BY <1>1, <1>4, <1>6, <1>7, <1>8 DEF IsRead

\* The limits of numbers.
LEMMA MinIs == \A m, n \in Int : Min({m, n}) = IF m > n THEN n ELSE m
<1> SUFFICES ASSUME NEW m \in Int, NEW n \in Int PROVE Min({m, n}) = IF m > n THEN n ELSE m
    OBVIOUS
<1>1. \E x \in {m, n} : \A y \in {m, n} : x <= y
    OBVIOUS
<1> QED
    BY <1>1 DEF Min

LEMMA MaxIs == \A m, n \in Int : Max({m, n}) = IF m < n THEN n ELSE m
<1> SUFFICES ASSUME NEW m \in Int, NEW n \in Int PROVE Max({m, n}) = IF m < n THEN n ELSE m
    OBVIOUS
<1>1. \E x \in {m, n} : \A y \in {m, n} : x >= y
    OBVIOUS
<1> QED
    BY <1>1 DEF Max

\* One token, limited.
Limit(t) == CASE t[1] = "UInt" -> <<"UInt", Min({t[2], UIntMax})>>
              [] t[1] = "Int"  -> <<"Int", Max({t[2], IntMin})>>
              [] t[1] = "str"  -> <<"str", Unquote(t[2])>>
              [] OTHER         -> t

\* What the limits make of tokens, one by one, is what is read of values.
LEMMA LimitedIs ==
    /\ \A s : Limited(s) = [i \in DOMAIN s |-> Limit(s[i])]
    /\ \A n \in Nat : Limit(<<"UInt", n>>) = <<"UInt", ReadUInt(n)>>
    /\ \A n \in Int : Limit(<<"Int", n>>) = <<"Int", ReadInt(n)>>
    /\ \A v : Limit(<<"str", v>>) = <<"str", Unquote(v)>>
    /\ \A t : t[1] \notin {"UInt", "Int", "str"} => Limit(t) = t
<1>1. \A s : Limited(s) = [i \in DOMAIN s |-> Limit(s[i])]
    BY DEF Limited, Limit
<1>2. ASSUME NEW n \in Nat PROVE Limit(<<"UInt", n>>) = <<"UInt", ReadUInt(n)>>
  <2>1. PICK t : t = <<"UInt", n>>
      OBVIOUS
  <2>2. t[1] = "UInt" /\ t[2] = n
      BY <2>1
  <2>3. n \in Int /\ UIntMax \in Int
      BY LimitsAssumption
  <2>4. Min({n, UIntMax}) = ReadUInt(n)
      BY <2>3, MinIs DEF ReadUInt
  <2>5. Limit(t) = <<"UInt", Min({n, UIntMax})>>
      BY <2>2 DEF Limit
  <2> QED
      BY <2>1, <2>4, <2>5
<1>3. ASSUME NEW n \in Int PROVE Limit(<<"Int", n>>) = <<"Int", ReadInt(n)>>
  <2>1. PICK t : t = <<"Int", n>>
      OBVIOUS
  <2>2. t[1] = "Int" /\ t[2] = n
      BY <2>1
  <2>3. IntMin \in Int
      BY LimitsAssumption
  <2>4. Max({n, IntMin}) = ReadInt(n)
      BY <2>3, MaxIs DEF ReadInt
  <2>5. Limit(t) = <<"Int", Max({n, IntMin})>>
      BY <2>2 DEF Limit
  <2> QED
      BY <2>1, <2>4, <2>5
<1>4. \A t : t[1] \notin {"UInt", "Int", "str"} => Limit(t) = t
    BY DEF Limit
<1>5. ASSUME NEW v PROVE Limit(<<"str", v>>) = <<"str", Unquote(v)>>
  <2>1. PICK t : t = <<"str", v>>
      OBVIOUS
  <2>2. t[1] = "str" /\ t[2] = v
      BY <2>1
  <2>3. Limit(t) = <<"str", Unquote(v)>>
      BY <2>2 DEF Limit
  <2> QED
      BY <2>1, <2>3
<1> QED
    BY <1>1, <1>2, <1>3, <1>4, <1>5

\* A decimal that std::stod throws at, in a text and among tokens.
IsFar(t) == \E v \in OutOfRange : t = <<"Double", v>>

LEMMA ThrownDecimals ==
    ASSUME NEW w, Throws(w)
    PROVE  \E v \in OutOfRange : TokensOf(w) = <<<<"Double", v>>>>
<1>1. PICK v \in OutOfRange : w = <<<<"decimal", v>>>>
    BY DEF Throws
<1>2. TokensOf(w) = TokensOfPiece("decimal", v)
    BY <1>1, PieceRead
<1>3. TokensOfPiece("decimal", v) = <<<<"Double", v>>>>
    BY DEF TokensOfPiece
<1> QED
    BY <1>2, <1>3

\* A token with a value is read back, limited.
LEMMA ValuesRead ==
    ASSUME NEW t, HasValue(t), NEW w, w = <<<<ShapeOf[t[1]], t[2]>>>>
    PROVE  /\ TokensOf(w) = <<Limit(t)>>
           /\ t[1] # "unknown" => ValidWord(w)
           /\ OnePiece(w)
           /\ t \notin Refused
           /\ Throws(w) <=> IsFar(t)
<1>1. PICK k, v : k = t[1] /\ v = t[2]
    OBVIOUS
<1>2. t = <<k, v>> /\ k \in DOMAIN ShapeOf
    BY <1>1 DEF HasValue
<1>3. PICK shape : shape = ShapeOf[k]
    OBVIOUS
<1>4. w = <<<<shape, v>>>>
    BY <1>1, <1>3
<1>5. /\ shape \notin {"sign", "blank"}
      /\ shape = "other" => k = "unknown"
      /\ shape = "ident" => k \in {"kw", "name", "bool"}
      /\ k \in {"kw", "name", "bool", "UInt", "Int", "Double", "str", "sub", "unknown"}
    BY <1>2, <1>3 DEF ShapeOf
<1>6. /\ k = "kw" => v \in Keywords
      /\ k = "bool" => v \in {"true", "false"}
      /\ k = "name" => v \notin Keywords \cup DOMAIN TypeOf \cup {"true", "false", "AND"}
      /\ k = "UInt" => v \in Nat
      /\ k = "Int" => v \in Int
      /\ k = "str" => v \notin DOMAIN SplitText
      /\ k = "unknown" => v \notin {"*", "&&", "0R", "||"}
    BY <1>1, <1>5 DEF HasValue
<1>7. "AND" \notin Keywords /\ "AND" \notin {"true", "false"}
    BY DEF Keywords
<1>8. /\ shape = "other" => v \notin {"*", "&&", "0R", "||"}
      /\ shape = "ident" => v # "AND"
      /\ shape # "sign"
    BY <1>5, <1>6, <1>7
<1>9. TokensOf(w) = TokensOfPiece(shape, v) /\ (ValidWord(w) <=> shape # "other")
    BY <1>4, <1>8, PieceRead
<1>10. OnePiece(w)
    BY <1>4, <1>5, TaggedPieces
<1>11. TokensOfPiece(shape, v) = <<Limit(t)>>
  <2>1. \A x \in Keywords : x \notin DOMAIN TypeOf /\ x \notin {"true", "false"}
      BY DEF Keywords, TypeOf
  <2>2. \A x \in {"true", "false"} : x \notin DOMAIN TypeOf /\ x \notin Keywords
      BY DEF Keywords, TypeOf
  <2>3. k \notin {"UInt", "Int", "str"} => Limit(t) = t
      BY <1>1, LimitedIs
  <2>4. CASE k = "kw"
    <3>1. shape = "ident"
        BY <1>3, <2>4 DEF ShapeOf
    <3>2. v \in Keywords
        BY <1>6, <2>4
    <3>3. TokensOfPiece("ident", v) = <<Kw(v)>>
        BY <2>1, <3>2 DEF TokensOfPiece
    <3> QED
        BY <1>2, <2>3, <2>4, <3>1, <3>3 DEF Kw
  <2>5. CASE k = "bool"
    <3>1. shape = "ident"
        BY <1>3, <2>5 DEF ShapeOf
    <3>2. v \in {"true", "false"}
        BY <1>6, <2>5
    <3>3. TokensOfPiece("ident", v) = <<<<"bool", v>>>>
        BY <2>2, <3>2 DEF TokensOfPiece
    <3> QED
        BY <1>2, <2>3, <2>5, <3>1, <3>3
  <2>6. CASE k = "name"
    <3>1. shape = "ident"
        BY <1>3, <2>6 DEF ShapeOf
    <3>2. v \notin Keywords /\ v \notin DOMAIN TypeOf /\ v \notin {"true", "false"}
        BY <1>6, <2>6
    <3>3. TokensOfPiece("ident", v) = <<<<"name", v>>>>
        BY <3>2 DEF TokensOfPiece
    <3> QED
        BY <1>2, <2>3, <2>6, <3>1, <3>3
  <2>7. CASE k = "UInt"
    <3>1. shape = "digits"
        BY <1>3, <2>7 DEF ShapeOf
    <3>2. TokensOfPiece("digits", v) = <<<<"UInt", ReadUInt(v)>>>>
        BY DEF TokensOfPiece
    <3>3. Limit(<<"UInt", v>>) = <<"UInt", ReadUInt(v)>>
        BY <1>6, <2>7, LimitedIs
    <3> QED
        BY <1>2, <2>7, <3>1, <3>2, <3>3
  <2>8. CASE k = "Int"
    <3>1. shape = "minus"
        BY <1>3, <2>8 DEF ShapeOf
    <3>2. TokensOfPiece("minus", v) = <<<<"Int", ReadInt(v)>>>>
        BY DEF TokensOfPiece
    <3>3. Limit(<<"Int", v>>) = <<"Int", ReadInt(v)>>
        BY <1>6, <2>8, LimitedIs
    <3> QED
        BY <1>2, <2>8, <3>1, <3>2, <3>3
  <2>10. CASE k = "str"
    <3>1. shape = "quoted"
        BY <1>3, <2>10 DEF ShapeOf
    <3>2. TokensOfPiece("quoted", v) = <<<<"str", Unquote(v)>>>>
        BY DEF TokensOfPiece
    <3>3. Limit(<<"str", v>>) = <<"str", Unquote(v)>>
        BY LimitedIs
    <3> QED
        BY <1>2, <2>10, <3>1, <3>2, <3>3
  <2>9. CASE k \in {"Double", "sub", "unknown"}
    <3>1. shape = IF k = "Double" THEN "decimal" ELSE IF k = "sub" THEN "dotted" ELSE "other"
        BY <1>3, <2>9 DEF ShapeOf
    <3>2. /\ TokensOfPiece("decimal", v) = <<<<"Double", v>>>>
          /\ TokensOfPiece("dotted", v) = <<<<"sub", v>>>>
          /\ TokensOfPiece("other", v) = <<<<"unknown", v>>>>
        BY DEF TokensOfPiece
    <3>3. TokensOfPiece(shape, v) = <<<<k, v>>>>
        BY <2>9, <3>1, <3>2
    <3> QED
        BY <1>2, <2>3, <2>9, <3>3
  <2> QED
      BY <1>5, <2>4, <2>5, <2>6, <2>7, <2>8, <2>9, <2>10
<1>12. t \notin Refused
    BY <1>2, <1>5, <1>6 DEF Refused, Op
<1>13. Throws(w) <=> IsFar(t)
  <2>1. shape = "decimal" <=> k = "Double"
      BY <1>2, <1>3, <1>5 DEF ShapeOf
  <2>2. \A x : w = <<<<"decimal", x>>>> <=> shape = "decimal" /\ v = x
      BY <1>4
  <2>3. \A x : t = <<"Double", x>> <=> k = "Double" /\ v = x
      BY <1>2
  <2> QED
      BY <2>1, <2>2, <2>3 DEF Throws, IsFar
<1> QED
    BY <1>1, <1>5, <1>9, <1>10, <1>11, <1>12, <1>13

\* A string type and its size.
LEMMA SizesRead ==
    ASSUME NEW n \in Nat, NEW w, w = <<<<"str", n>>>>
    PROVE  /\ TokensOf(w) = <<Limit(Type("STR")), Limit(<<"UInt", n>>)>>
           /\ ValidWord(w) /\ OnePiece(w) /\ ~Throws(w)
<1>1. TokensOf(w) = TokensOfPiece("str", n) /\ ValidWord(w)
    BY PieceRead
<1>2. TokensOfPiece("str", n) = <<Type("STR"), <<"UInt", ReadUInt(n)>>>>
    BY DEF TokensOfPiece
<1>3. Limit(Type("STR")) = Type("STR")
    BY LimitedIs, Tags
<1>4. Limit(<<"UInt", n>>) = <<"UInt", ReadUInt(n)>>
    BY LimitedIs
<1>5. OnePiece(w)
    BY TaggedPieces
<1>6. ~Throws(w)
    BY DEF Throws
<1> QED
    BY <1>1, <1>2, <1>3, <1>4, <1>5, <1>6

AllValid(words) == \A i \in DOMAIN words : ValidWord(words[i])
NoUnknown(s) == \A i \in DOMAIN s : s[i][1] # "unknown"

\* No word is a decimal that std::stod throws at.
AllHeld(words) == \A i \in DOMAIN words : ~Throws(words[i])

\* Words are read as what they mean, but for what is refused; std::stod throws
\* at the decimals out of range.
ReadBack(words, means) ==
    /\ AllValid(words) => ~IsRefused(means) /\ (AllHeld(words) <=> ~HasFar(means))
    /\ ~IsRefused(means) => TokensOfAll(words) = Limited(means)
    /\ ~IsRefused(means) /\ NoUnknown(means) => AllValid(words)

\* A string that is split begins with a piece that is no word, and goes on with
\* a blank or a sign.
BreaksUp(word) ==
    /\ Len(word) \in Nat /\ Len(word) > 1
    /\ word \in Seq({word[i] : i \in DOMAIN word})
    /\ OnePiece(<<word[1]>>) /\ ~ValidWord(<<word[1]>>)
    /\ word[2] = Blank \/ word[2] \in Signs
    /\ \A i \in DOMAIN word : word[i] # Tab

LEMMA SplitBreaksUp ==
    ASSUME NEW v \in DOMAIN SplitText, NEW word, word = SplitText[v]
    PROVE  BreaksUp(word)
<1>1. IsSplit(word)
    BY SplitAssumption
<1>2. PICK W : W = {word[i] : i \in DOMAIN word}
    OBVIOUS
<1>3. word \in Seq(W) /\ Len(word) > 1 /\ Tab \notin W
    BY <1>1, <1>2 DEF IsSplit
<1>4. Len(word) \in Nat /\ DOMAIN word = 1 .. Len(word)
    BY <1>3, LenProperties
<1>5. PICK x, w : x = word[1] /\ w = <<x>>
    OBVIOUS
<1>6. x = <<"other", x[2]>> /\ w \notin DOMAIN SymbolOf \cup DOMAIN OperatorOf
    BY <1>1, <1>5 DEF IsSplit, IsNoWord
<1>7. OnePiece(w)
    BY <1>5, <1>6, TaggedPieces
<1>8. ~ValidWord(w)
  <2>1. Len(w) = 1 /\ w[1] = x /\ x[1] = "other"
      BY <1>5, <1>6
  <2>2. Sign("!")[1] = "sign" /\ \A y : w = <<y>> => y = x
      BY <1>5 DEF Sign
  <2>3. w # <<Sign("!")>>
      BY <2>1, <2>2
  <2> QED
      BY <1>6, <2>1, <2>3 DEF ValidWord
<1>9. word[2] = Blank \/ word[2] \in Signs
  <2>1. 2 \in 2 .. Len(word)
      BY <1>3, <1>4
  <2>2. word[2 - 1] \in Signs \cup {Blank} \/ word[2] \in Signs \cup {Blank}
      BY <1>1, <2>1 DEF IsSplit
  <2>3. word[2 - 1] = x
      BY <1>5
  <2>4. x \notin Signs /\ x # Blank
    <3>1. \A y, z : <<y>> = <<z>> => y = z
        OBVIOUS
    <3> QED
        BY <1>5, <1>7, <3>1 DEF OnePiece
  <2> QED
      BY <2>2, <2>3, <2>4
<1>10. \A i \in DOMAIN word : word[i] # Tab
    BY <1>2, <1>3
<1> QED
    BY <1>2, <1>3, <1>4, <1>5, <1>7, <1>8, <1>9, <1>10 DEF BreaksUp

LEMMA OneMeant ==
    ASSUME NEW t
    PROVE  /\ Limited(<<t>>) = <<Limit(t)>>
           /\ IsRefused(<<t>>) <=> t \in Refused
           /\ HasFar(<<t>>) <=> IsFar(t)
           /\ NoUnknown(<<t>>) <=> t[1] # "unknown"
<1>1. PICK s : s = <<t>>
    OBVIOUS
<1>2. DOMAIN s = {1} /\ s[1] = t
    BY <1>1
<1>3. Limited(s) = <<Limit(t)>>
  <2>1. Limited(s) = [i \in DOMAIN s |-> Limit(s[i])]
      BY LimitedIs
  <2>2. PICK e : e = Limit(t)
      OBVIOUS
  <2>3. [i \in DOMAIN s |-> Limit(s[i])] = <<e>>
      BY <1>2, <2>2
  <2> QED
      BY <2>1, <2>2, <2>3
<1>4. IsRefused(s) <=> t \in Refused
    BY <1>2 DEF IsRefused
<1>5. NoUnknown(s) <=> t[1] # "unknown"
    BY <1>2 DEF NoUnknown
<1>6. HasFar(s) <=> IsFar(t)
    BY <1>2 DEF HasFar, IsFar
<1> QED
    BY <1>1, <1>3, <1>4, <1>5, <1>6

LEMMA OneValid ==
    ASSUME NEW w
    PROVE  (AllValid(<<w>>) <=> ValidWord(w)) /\ (AllHeld(<<w>>) <=> ~Throws(w))
<1>1. PICK s : s = <<w>>
    OBVIOUS
<1>2. DOMAIN s = {1} /\ s[1] = w
    BY <1>1
<1> QED
    BY <1>1, <1>2 DEF AllValid, AllHeld

\* One word and one token that it is read as.
LEMMA OneReadBack ==
    ASSUME NEW t, NEW w, TokensOf(w) = <<Limit(t)>>, t \notin Refused,
           t[1] # "unknown" => ValidWord(w), Throws(w) <=> IsFar(t)
    PROVE  ReadBack(<<w>>, <<t>>)
<1>1. ~IsRefused(<<t>>)
    BY OneMeant
<1>2. TokensOfAll(<<w>>) = Limited(<<t>>)
    BY OneMeant, TokensOne
<1>3. NoUnknown(<<t>>) => AllValid(<<w>>)
    BY OneMeant, OneValid
<1>4. AllHeld(<<w>>) <=> ~HasFar(<<t>>)
    BY OneMeant, OneValid
<1> QED
    BY <1>1, <1>2, <1>3, <1>4 DEF ReadBack

LEMMA RefusedReadBack ==
    ASSUME NEW t, t \in Refused, NEW words, ~AllValid(words)
    PROVE  ReadBack(words, <<t>>)
BY OneMeant DEF ReadBack

LEMMA TokensRefused ==
    /\ \A t \in Refused : t[1] = "str" \/ t = Op("NOT_EQUAL")
    /\ \A v \in DOMAIN SplitText : <<"str", v>> \in Refused
    /\ Op("NOT_EQUAL") \in Refused
    /\ \A n : <<"UInt", n>> \notin Refused /\ \A v : Type(v) \notin Refused
BY DEF Refused, Op, Type

\* A word that is read as a whole.
IsWhole(word) == OnePiece(word) \/ IsSignWord(word)

\* Every spelling is read back as what it means, or breaks up and is refused.
LEMMA SpelledRead ==
    ASSUME NEW word, NEW means, IsSpelling(word, means)
    PROVE  /\ \/ IsWhole(word) /\ ReadBack(<<word>>, means)
              \/ BreaksUp(word) /\ IsRefused(means)
           /\ \E U : means \in Seq(U)
<1>1. ASSUME NEW t, IsRead(t, word), means = <<t>>
      PROVE  IsWhole(word) /\ ReadBack(<<word>>, means)
  <2>1. IsWhole(word)
      BY <1>1 DEF IsRead, IsWhole
  <2>2. Limit(t) = t
      BY <1>1, LimitedIs DEF IsRead
  <2>3. t \notin Refused
      BY <1>1, TokensRefused DEF IsRead
  <2>4. TokensOf(word) = <<Limit(t)>> /\ ValidWord(word)
      BY <1>1, <2>2 DEF IsRead
  <2>5. ~Throws(word) /\ ~IsFar(t)
    <3>1. t[1] # "Double" /\ TokensOf(word) = <<t>>
        BY <1>1 DEF IsRead
    <3>2. \A v : <<"Double", v>>[1] = "Double" /\ (<<t>> = <<<<"Double", v>>>> => t = <<"Double", v>>)
        OBVIOUS
    <3> QED
        BY <3>1, <3>2, ThrownDecimals DEF IsFar
  <2>6. ReadBack(<<word>>, <<t>>)
      BY <2>3, <2>4, <2>5, OneReadBack
  <2> QED
      BY <1>1, <2>1, <2>6
<1>2. ASSUME NEW t, means = <<t>>, <<t, word>> \in Texts
      PROVE  IsWhole(word) /\ ReadBack(<<word>>, means)
  <2>1. CASE t = Op("NOT_EQUAL") /\ <<t, word>> \in OperatorTexts
    <3>1. word = <<Sign("!"), Sign("=")>> /\ ~ValidWord(word)
        BY <2>1, NotEqualRefused
    <3>2. IsSignWord(word)
        BY <3>1, OperatorWords
    <3>3. ~AllValid(<<word>>)
        BY <3>1, OneValid
    <3>4. ReadBack(<<word>>, <<t>>)
        BY <2>1, <3>3, RefusedReadBack, TokensRefused
    <3> QED
        BY <1>2, <3>2, <3>4 DEF IsWhole
  <2>2. <<t, word>> \in SymbolTexts \/ <<t, word>> \in OperatorTexts \/ <<t, word>> \in TypeTexts
      BY <1>2 DEF Texts
  <2>3. IsRead(t, word) \/ (t = Op("NOT_EQUAL") /\ <<t, word>> \in OperatorTexts)
      BY <2>2, SymbolsRead, OperatorsRead, TypesRead
  <2> QED
      BY <1>1, <1>2, <2>1, <2>3
<1>3. ASSUME NEW v \in DOMAIN SplitText, means = <<<<"str", v>>>>, word = SplitText[v]
      PROVE  BreaksUp(word) /\ IsRefused(means)
  <2>1. BreaksUp(word)
      BY <1>3, SplitBreaksUp
  <2>2. IsRefused(means)
      BY <1>3, TokensRefused, OneMeant
  <2> QED
      BY <2>1, <2>2
<1>4. ASSUME NEW t, means = <<t>>, HasValue(t), word = <<<<ShapeOf[t[1]], t[2]>>>>
      PROVE  IsWhole(word) /\ ReadBack(<<word>>, means)
  <2>1. /\ TokensOf(word) = <<Limit(t)>>
        /\ t[1] # "unknown" => ValidWord(word)
        /\ OnePiece(word)
        /\ t \notin Refused
        /\ Throws(word) <=> IsFar(t)
      BY <1>4, ValuesRead
  <2>2. ReadBack(<<word>>, <<t>>)
      BY <2>1, OneReadBack
  <2> QED
      BY <1>4, <2>1, <2>2 DEF IsWhole
<1>5. ASSUME NEW n \in Nat, means = <<Type("STR"), <<"UInt", n>>>>, word = <<<<"str", n>>>>
      PROVE  IsWhole(word) /\ ReadBack(<<word>>, means)
  <2>1. PICK a, b : a = Type("STR") /\ b = <<"UInt", n>>
      OBVIOUS
  <2>2. means = <<a, b>>
      BY <1>5, <2>1
  <2>3. /\ TokensOf(word) = <<Limit(a), Limit(b)>> /\ ValidWord(word) /\ OnePiece(word)
        /\ ~Throws(word)
      BY <1>5, <2>1, SizesRead
  <2>4. DOMAIN means = {1, 2} /\ means[1] = a /\ means[2] = b
      BY <2>2
  <2>5. ~IsRefused(means)
    <3>1. a \notin Refused /\ b \notin Refused
        BY <2>1, TokensRefused
    <3> QED
        BY <2>4, <3>1 DEF IsRefused
  <2>6. Limited(means) = <<Limit(a), Limit(b)>>
    <3>1. PICK c, d : c = Limit(a) /\ d = Limit(b)
        OBVIOUS
    <3>2. [i \in DOMAIN means |-> Limit(means[i])] = <<c, d>>
        BY <2>4, <3>1
    <3>3. Limited(means) = [i \in DOMAIN means |-> Limit(means[i])]
        BY LimitedIs
    <3> QED
        BY <3>1, <3>2, <3>3
  <2>7. TokensOfAll(<<word>>) = Limited(means)
      BY <2>3, <2>6, TokensOne
  <2>8. AllValid(<<word>>) /\ AllHeld(<<word>>)
      BY <2>3, OneValid
  <2>9. ~HasFar(means)
    <3>1. \A v : a # <<"Double", v>> /\ b # <<"Double", v>>
        BY <2>1 DEF Type
    <3> QED
        BY <2>4, <3>1 DEF HasFar
  <2>10. ReadBack(<<word>>, means)
      BY <2>5, <2>7, <2>8, <2>9 DEF ReadBack
  <2> QED
      BY <2>3, <2>10 DEF IsWhole
<1>6. \E U : means \in Seq(U)
  <2>1. ASSUME NEW t, means = <<t>> PROVE \E U : means \in Seq(U)
    <3>1. PICK U : U = {t}
        OBVIOUS
    <3>2. means \in Seq(U)
        BY <2>1, <3>1
    <3> QED
        BY <3>2
  <2>2. ASSUME NEW t, NEW u, means = <<t, u>> PROVE \E U : means \in Seq(U)
    <3>1. PICK U : U = {t, u}
        OBVIOUS
    <3>2. means \in Seq(U)
        BY <2>2, <3>1
    <3> QED
        BY <3>2
  <2>3. \/ means = <<means[1]>>
        \/ \E v : means = <<<<"str", v>>>>
        \/ means = <<Type("STR"), <<"UInt", means[2][2]>>>>
      BY DEF IsSpelling
  <2>4. CASE means = <<means[1]>> \/ \E v : means = <<<<"str", v>>>>
      BY <2>1, <2>4
  <2>5. CASE means = <<Type("STR"), <<"UInt", means[2][2]>>>>
      BY <2>2, <2>5
  <2> QED
      BY <2>3, <2>4, <2>5
<1>7. CASE means = <<means[1]>> /\ <<means[1], word>> \in Texts
    BY <1>2, <1>6, <1>7
<1>8. CASE \E v \in DOMAIN SplitText : means = <<<<"str", v>>>> /\ word = SplitText[v]
    BY <1>3, <1>6, <1>8
<1>9. CASE /\ means = <<means[1]>> /\ HasValue(means[1])
           /\ word = <<<<ShapeOf[means[1][1]], means[1][2]>>>>
    BY <1>4, <1>6, <1>9
<1>10. CASE /\ means = <<Type("STR"), <<"UInt", means[2][2]>>>> /\ means[2][2] \in Nat
            /\ word = <<<<"str", means[2][2]>>>>
    BY <1>5, <1>6, <1>10
<1> QED
    BY <1>7, <1>8, <1>9, <1>10, Zenon DEF IsSpelling

\* All items of a sequence are of a kind when all items of its two parts are.
AllOf(s, W) == \A i \in DOMAIN s : s[i] \in W

LEMMA AllOfBoth ==
    ASSUME NEW V, NEW a \in Seq(V), NEW b \in Seq(V), NEW W
    PROVE  AllOf(a \o b, W) <=> AllOf(a, W) /\ AllOf(b, W)
<1>1. PICK s, n, m : s = a \o b /\ n = Len(a) /\ m = Len(b)
    OBVIOUS
<1>2. /\ n \in Nat /\ m \in Nat /\ DOMAIN a = 1 .. n /\ DOMAIN b = 1 .. m
      /\ DOMAIN s = 1 .. n + m
      /\ \A i \in 1 .. n : s[i] = a[i]
      /\ \A i \in 1 .. m : s[n + i] = b[i]
  <2>1. /\ Len(a) \in Nat /\ Len(b) \in Nat
        /\ DOMAIN a = 1 .. Len(a) /\ DOMAIN b = 1 .. Len(b)
        /\ DOMAIN (a \o b) = 1 .. Len(a) + Len(b)
        /\ \A i \in 1 .. Len(a) : (a \o b)[i] = a[i]
        /\ \A i \in 1 .. Len(b) : (a \o b)[Len(a) + i] = b[i]
      BY PiecesOf
  <2> QED
      BY <1>1, <2>1
<1>3. AllOf(s, W) => AllOf(a, W) /\ AllOf(b, W)
  <2>1. \A i \in 1 .. n : i \in 1 .. n + m
      BY <1>2
  <2>2. \A i \in 1 .. m : n + i \in 1 .. n + m
      BY <1>2
  <2> QED
      BY <1>2, <2>1, <2>2 DEF AllOf
<1>4. AllOf(a, W) /\ AllOf(b, W) => AllOf(s, W)
  <2> SUFFICES ASSUME AllOf(a, W), AllOf(b, W), NEW j \in 1 .. n + m PROVE s[j] \in W
      BY <1>2 DEF AllOf
  <2>1. j \in 1 .. n \/ (j - n \in 1 .. m /\ j = n + (j - n))
      BY <1>2
  <2>2. CASE j \in 1 .. n
      BY <1>2, <2>2 DEF AllOf
  <2>3. ASSUME NEW i \in 1 .. m, j = n + i PROVE s[j] \in W
      BY <1>2, <2>3 DEF AllOf
  <2> QED
      BY <2>1, <2>2, <2>3
<1> QED
    BY <1>1, <1>3, <1>4

\* What is valid, refused, out of range or unknown of two texts.
LEMMA ValidBoth ==
    ASSUME NEW V, NEW a \in Seq(V), NEW b \in Seq(V)
    PROVE  AllValid(a \o b) <=> AllValid(a) /\ AllValid(b)
<1>1. PICK W : W = {w \in V : ValidWord(w)}
    OBVIOUS
<1>2. ASSUME NEW s \in Seq(V) PROVE AllValid(s) <=> AllOf(s, W)
  <2>1. \A i \in DOMAIN s : s[i] \in V
      BY LenProperties
  <2> QED
      BY <1>1, <2>1 DEF AllValid, AllOf
<1>3. a \o b \in Seq(V)
    BY Concat
<1> QED
    BY <1>2, <1>3, AllOfBoth

LEMMA HeldBoth ==
    ASSUME NEW V, NEW a \in Seq(V), NEW b \in Seq(V)
    PROVE  AllHeld(a \o b) <=> AllHeld(a) /\ AllHeld(b)
<1>1. PICK W : W = {w \in V : ~Throws(w)}
    OBVIOUS
<1>2. ASSUME NEW s \in Seq(V) PROVE AllHeld(s) <=> AllOf(s, W)
  <2>1. \A i \in DOMAIN s : s[i] \in V
      BY LenProperties
  <2> QED
      BY <1>1, <2>1 DEF AllHeld, AllOf
<1>3. a \o b \in Seq(V)
    BY Concat
<1> QED
    BY <1>2, <1>3, AllOfBoth

LEMMA FarBoth ==
    ASSUME NEW V, NEW a \in Seq(V), NEW b \in Seq(V)
    PROVE  HasFar(a \o b) <=> HasFar(a) \/ HasFar(b)
<1>1. PICK W : W = {t \in V : ~IsFar(t)}
    OBVIOUS
<1>2. ASSUME NEW s \in Seq(V) PROVE ~HasFar(s) <=> AllOf(s, W)
  <2>1. \A i \in DOMAIN s : s[i] \in V
      BY LenProperties
  <2>2. HasFar(s) <=> \E i \in DOMAIN s : IsFar(s[i])
      BY DEF HasFar, IsFar
  <2> QED
      BY <1>1, <2>1, <2>2 DEF AllOf
<1>3. a \o b \in Seq(V)
    BY Concat
<1> QED
    BY <1>2, <1>3, AllOfBoth

LEMMA RefusedBoth ==
    ASSUME NEW V, NEW a \in Seq(V), NEW b \in Seq(V)
    PROVE  IsRefused(a \o b) <=> IsRefused(a) \/ IsRefused(b)
<1>1. PICK W : W = V \ Refused
    OBVIOUS
<1>2. ASSUME NEW s \in Seq(V) PROVE ~IsRefused(s) <=> AllOf(s, W)
  <2>1. \A i \in DOMAIN s : s[i] \in V
      BY LenProperties
  <2> QED
      BY <1>1, <2>1 DEF IsRefused, AllOf
<1>3. a \o b \in Seq(V)
    BY Concat
<1> QED
    BY <1>2, <1>3, AllOfBoth

LEMMA UnknownBoth ==
    ASSUME NEW V, NEW a \in Seq(V), NEW b \in Seq(V)
    PROVE  NoUnknown(a \o b) <=> NoUnknown(a) /\ NoUnknown(b)
<1>1. PICK W : W = {t \in V : t[1] # "unknown"}
    OBVIOUS
<1>2. ASSUME NEW s \in Seq(V) PROVE NoUnknown(s) <=> AllOf(s, W)
  <2>1. \A i \in DOMAIN s : s[i] \in V
      BY LenProperties
  <2> QED
      BY <1>1, <2>1 DEF NoUnknown, AllOf
<1>3. a \o b \in Seq(V)
    BY Concat
<1> QED
    BY <1>2, <1>3, AllOfBoth

LEMMA LimitedBoth ==
    ASSUME NEW V, NEW a \in Seq(V), NEW b \in Seq(V)
    PROVE  Limited(a \o b) = Limited(a) \o Limited(b)
<1>1. PICK s, n, m, W : s = a \o b /\ n = Len(a) /\ m = Len(b) /\ W = {Limit(t) : t \in V}
    OBVIOUS
<1>2. /\ n \in Nat /\ m \in Nat /\ DOMAIN a = 1 .. n /\ DOMAIN b = 1 .. m
      /\ s \in Seq(V) /\ DOMAIN s = 1 .. n + m
      /\ \A i \in 1 .. n : s[i] = a[i]
      /\ \A i \in 1 .. m : s[n + i] = b[i]
  <2>1. /\ Len(a) \in Nat /\ Len(b) \in Nat
        /\ DOMAIN a = 1 .. Len(a) /\ DOMAIN b = 1 .. Len(b)
        /\ a \o b \in Seq(V) /\ DOMAIN (a \o b) = 1 .. Len(a) + Len(b)
        /\ \A i \in 1 .. Len(a) : (a \o b)[i] = a[i]
        /\ \A i \in 1 .. Len(b) : (a \o b)[Len(a) + i] = b[i]
      BY PiecesOf
  <2> QED
      BY <1>1, <2>1
<1>3. ASSUME NEW x \in Seq(V)
      PROVE  /\ Limited(x) \in Seq(W) /\ Len(Limited(x)) = Len(x)
             /\ \A i \in 1 .. Len(x) : Limited(x)[i] = Limit(x[i])
  <2>1. PICK y : y = Limited(x)
      OBVIOUS
  <2>2. y = [i \in DOMAIN x |-> Limit(x[i])]
      BY <2>1, LimitedIs
  <2>3. Len(x) \in Nat /\ DOMAIN x = 1 .. Len(x) /\ \A i \in 1 .. Len(x) : x[i] \in V
      BY LenProperties
  <2>4. y \in [1 .. Len(x) -> W]
      BY <1>1, <2>2, <2>3
  <2>5. y \in Seq(W)
      BY <2>3, <2>4, SeqDef
  <2>6. Len(y) = Len(x)
    <3>1. DOMAIN y = 1 .. Len(x) /\ DOMAIN y = 1 .. Len(y) /\ Len(y) \in Nat
        BY <2>4, <2>5, LenProperties
    <3> QED
        BY <2>3, <2>5, <3>1, LenProperties
  <2> QED
      BY <2>1, <2>2, <2>3, <2>5, <2>6
<1>4. PICK p, q, c : p = Limited(a) /\ q = Limited(b) /\ c = Limited(s)
    OBVIOUS
<1>5. /\ p \in Seq(W) /\ Len(p) = n /\ \A i \in 1 .. n : p[i] = Limit(a[i])
      /\ q \in Seq(W) /\ Len(q) = m /\ \A i \in 1 .. m : q[i] = Limit(b[i])
    BY <1>1, <1>3, <1>4
<1>6. c \in Seq(W) /\ Len(c) = n + m /\ \A i \in 1 .. n + m : c[i] = Limit(s[i])
  <2>1. Len(s) = n + m
      BY <1>2, LenProperties
  <2> QED
      BY <1>2, <1>3, <1>4, <2>1
<1>7. PICK pq : pq = p \o q
    OBVIOUS
<1>8. /\ pq \in Seq(W) /\ Len(pq) = n + m
      /\ \A i \in 1 .. n : pq[i] = p[i]
      /\ \A i \in 1 .. m : pq[n + i] = q[i]
  <2>1. /\ p \o q \in Seq(W) /\ Len(p \o q) = Len(p) + Len(q)
        /\ \A i \in 1 .. Len(p) : (p \o q)[i] = p[i]
        /\ \A i \in 1 .. Len(q) : (p \o q)[Len(p) + i] = q[i]
    <3>1. p \in Seq(W) /\ q \in Seq(W)
        BY <1>5
    <3> QED
        BY <3>1, PiecesOf
  <2> QED
      BY <1>5, <1>7, <2>1
<1>9. \A j \in 1 .. n + m : c[j] = pq[j]
  <2> TAKE j \in 1 .. n + m
  <2>1. j \in 1 .. n \/ (j - n \in 1 .. m /\ j = n + (j - n))
      BY <1>2
  <2>2. c[j] = Limit(s[j])
      BY <1>6
  <2>3. CASE j \in 1 .. n
      BY <1>2, <1>5, <1>8, <2>2, <2>3
  <2>4. ASSUME NEW i \in 1 .. m, j = n + i PROVE c[j] = pq[j]
      BY <1>2, <1>5, <1>8, <2>2, <2>4
  <2> QED
      BY <2>1, <2>3, <2>4
<1>10. c = pq
    BY <1>6, <1>8, <1>9, SeqEqual
<1> QED
    BY <1>1, <1>4, <1>7, <1>10

\* Two texts that are read as what they mean are read so one behind the other.
LEMMA ReadBackBoth ==
    ASSUME NEW T, NEW U, NEW a \in Seq(Seq(T)), NEW b \in Seq(Seq(T)),
           NEW c \in Seq(U), NEW d \in Seq(U),
           ReadBack(a, c), ReadBack(b, d)
    PROVE  ReadBack(a \o b, c \o d)
<1>1. AllValid(a \o b) <=> AllValid(a) /\ AllValid(b)
    BY ValidBoth
<1>2. IsRefused(c \o d) <=> IsRefused(c) \/ IsRefused(d)
    BY RefusedBoth
<1>3. NoUnknown(c \o d) <=> NoUnknown(c) /\ NoUnknown(d)
    BY UnknownBoth
<1>4. Limited(c \o d) = Limited(c) \o Limited(d)
    BY LimitedBoth
<1>5. TokensOfAll(a \o b) = TokensOfAll(a) \o TokensOfAll(b)
    BY TokensConcat
<1>6. AllHeld(a \o b) <=> AllHeld(a) /\ AllHeld(b)
    BY HeldBoth
<1>7. HasFar(c \o d) <=> HasFar(c) \/ HasFar(d)
    BY FarBoth
<1> QED
    BY <1>1, <1>2, <1>3, <1>4, <1>5, <1>6, <1>7 DEF ReadBack

LEMMA NothingReadBack == ReadBack(<<>>, <<>>)
<1>1. PICK e : e = <<>>
    OBVIOUS
<1>2. DOMAIN e = {}
    BY <1>1
<1>3. AllValid(e) /\ ~IsRefused(e) /\ AllHeld(e) /\ ~HasFar(e)
    BY <1>2 DEF AllValid, IsRefused, AllHeld, HasFar
<1>4. Limited(e) = e
  <2>1. Limited(e) = [i \in DOMAIN e |-> Limit(e[i])]
      BY LimitedIs
  <2>2. [i \in DOMAIN e |-> Limit(e[i])] = <<>>
      BY <1>2
  <2> QED
      BY <1>1, <2>1, <2>2
<1>5. TokensOfAll(<<>>) = <<>>
    BY TokensOne
<1> QED
    BY <1>1, <1>3, <1>4, <1>5 DEF ReadBack

-----------------------------------------------------------------------------
(* What is written is read: a text of parts. *)

\* What may come behind a word.
Joins(w, r) == r = <<>> \/ r[1] = Blank \/ MayTouch(w, r)

LEMMA SignWordEnds ==
    ASSUME NEW w, IsSignWord(w)
    PROVE  \/ \E s \in Signs : w = <<s>> /\ w[Len(w)] = s
           \/ \E c \in Ops : \E v : /\ More(v, c) /\ w = <<Sign(c), Sign("=")>> \o v
                                    /\ w[Len(w)] = Sign("=")
<1>1. PICK T : T = {Blank} \cup Signs
    OBVIOUS
<1>2. Blank \in T /\ Signs \subseteq T
    BY <1>1
<1>3. ASSUME NEW s \in Signs, w = <<s>> PROVE w[Len(w)] = s
    BY <1>3
<1>4. ASSUME NEW c \in Ops, NEW v, More(v, c), w = <<Sign(c), Sign("=")>> \o v
      PROVE  w[Len(w)] = Sign("=")
  <2>1. PartOf(w, c, v)
      BY <1>4 DEF PartOf
  <2>2. PICK x, y : x = Sign(c) /\ y = Sign("=")
      OBVIOUS
  <2>3. x \in T /\ y \in T
      BY <1>2, <2>2, SignsDiffer DEF Ops
  <2>4. PICK s, z : s = <<x, y>> /\ z = <<x>>
      OBVIOUS
  <2>5. s \in Seq(T) /\ Len(s) = 2 /\ Len(z) = 1
      BY <2>3, <2>4
  <2>6. v = <<>> \/ v = <<y>>
      BY <1>4, <2>2 DEF More
  <2>7. v \in Seq(T)
    <3>1. <<>> \in Seq(T) /\ <<y>> \in Seq(T)
        BY <2>3
    <3> QED
        BY <2>6, <3>1
  <2>8. Len(s \o v) = Len(s) + Len(v) /\ Len(v) \in Nat
      BY <2>5, <2>7, Concat
  <2>9. s \o v # z
      BY <2>5, <2>8
  <2>10. w # <<Sign(c)>>
      BY <1>4, <2>2, <2>4, <2>9
  <2> QED
      BY <1>2, <1>4, <2>1, <2>10, MoreIs, ZenonT(40)
<1> QED
    BY <1>3, <1>4 DEF IsSignWord

\* A sign word is set apart, unless an = comes behind a piece of an operator.
LEMMA SignWordFollowed ==
    ASSUME NEW T, Blank \in T, Signs \subseteq T, NEW w, IsSignWord(w), NEW r \in Seq(T),
           Joins(w, r)
    PROVE  SetApart(w, r)
<1>1. {Sign(c) : c \in {"=", "!", "<", ">"}} = {Sign(c) : c \in Ops}
    BY DEF Ops
<1>2. r = <<>> \/ r[1] # Sign("=") \/ w[Len(w)] \notin {Sign(c) : c \in Ops}
    BY <1>1, SignsDiffer DEF Joins, MayTouch
<1>3. ASSUME NEW s \in Signs, w = <<s>> /\ w[Len(w)] = s PROVE SetApart(w, r)
    BY <1>2, <1>3, SignApart
<1>4. ASSUME NEW c \in Ops, NEW v, /\ More(v, c) /\ w = <<Sign(c), Sign("=")>> \o v
                                   /\ w[Len(w)] = Sign("=")
      PROVE  SetApart(w, r)
  <2>1. Sign("=") \in {Sign(d) : d \in Ops}
      BY DEF Ops
  <2>2. r = <<>> \/ r[1] # Sign("=")
      BY <1>2, <1>4, <2>1
  <2> QED
      BY <1>4, <2>2, OperatorApart
<1> QED
    BY <1>3, <1>4, SignWordEnds

\* A word that is read as a whole and may stand before a text is read, and then
\* the text.
LEMMA ReadWord ==
    ASSUME NEW T, Blank \in T, Signs \subseteq T, NEW word \in Seq(T), IsWhole(word),
           NEW r \in Seq(T), Joins(word, r)
    PROVE  Read(word \o r) = <<word>> \o Read(r)
<1>1. CASE IsSignWord(word)
  <2>1. IsWord(word)
      BY <1>1, SignWordIs
  <2>2. SetApart(word, r)
      BY <1>1, SignWordFollowed
  <2> QED
      BY <2>1, <2>2, ReadApart
<1>2. CASE OnePiece(word)
  <2>1. PICK x : word = <<x>> /\ x \notin Signs /\ x # Blank
      BY <1>2 DEF OnePiece
  <2>2. Len(word) = 1 /\ word[1] = x
      BY <2>1
  <2>3. x \in T
      BY <2>2, LenProperties
  <2>4. r = <<>> \/ r[1] = Blank \/ r[1] \in Signs
      BY <2>1, <2>2 DEF Joins, MayTouch
  <2>5. Read(<<x>> \o r) = <<<<x>>>> \o Read(r)
      BY <2>1, <2>3, <2>4, ReadPlain
  <2> QED
      BY <2>1, <2>5
<1> QED
    BY <1>1, <1>2 DEF IsWhole

\* A word that breaks up is read as several, and the first is not valid.
LEMMA ReadBroken ==
    ASSUME NEW T, Blank \in T, Signs \subseteq T, NEW word \in Seq(T), BreaksUp(word),
           NEW r \in Seq(T)
    PROVE  ~AllValid(Read(word \o r))
<1>1. PICK x \in T, rest \in Seq(T) : word = <<x>> \o rest /\ x = word[1]
  <2>1. word # <<>>
      BY DEF BreaksUp
  <2> QED
      BY <2>1, FirstAndRest
<1>2. OnePiece(<<x>>) /\ ~ValidWord(<<x>>)
    BY <1>1 DEF BreaksUp
<1>3. x \notin Signs /\ x # Blank
  <2>1. \A p, q : <<p>> = <<q>> => p = q
      OBVIOUS
  <2> QED
      BY <1>2, <2>1 DEF OnePiece
<1>4. PICK a, m : a = <<x>> /\ m = rest \o r
    OBVIOUS
<1>5. a \in Seq(T) /\ Len(a) = 1 /\ m \in Seq(T)
    BY <1>1, <1>4, Concat
<1>6. word \o r = a \o m
  <2>1. Regroups(a, rest, r)
      BY <1>1, <1>5, Regroup
  <2> QED
      BY <1>1, <1>4, <2>1 DEF Regroups
<1>7. m[1] = Blank \/ m[1] \in Signs
  <2>1. /\ Len(a \o rest) = Len(a) + Len(rest)
        /\ \A i \in 1 .. Len(rest) : (a \o rest)[Len(a) + i] = rest[i]
    <3>1. a \in Seq(T) /\ rest \in Seq(T)
        BY <1>1, <1>5
    <3> QED
        BY <3>1, PiecesOf
  <2>2. Len(rest) \in Nat /\ Len(word) = 1 + Len(rest) /\ Len(word) > 1
    <3>1. Len(rest) \in Nat
        BY LenProperties
    <3>2. Len(word) = 1 + Len(rest)
        BY <1>1, <1>4, <1>5, <2>1
    <3> QED
        BY <3>1, <3>2 DEF BreaksUp
  <2>3. 1 \in 1 .. Len(rest) /\ 1 + 1 = 2
      BY <2>2
  <2>4. word[2] = rest[1]
      BY <1>1, <1>4, <1>5, <2>1, <2>3
  <2>5. \A i \in 1 .. Len(rest) : (rest \o r)[i] = rest[i]
      BY PiecesOf
  <2>6. m[1] = rest[1]
      BY <1>4, <2>3, <2>5
  <2> QED
      BY <2>4, <2>6 DEF BreaksUp
<1>8. Read(<<x>> \o m) = <<<<x>>>> \o Read(m)
    BY <1>1, <1>3, <1>5, <1>7, ReadPlain
<1>9. PICK V : V = Seq(T)
    OBVIOUS
<1>10. <<a>> \in Seq(V) /\ Read(m) \in Seq(V)
  <2>1. a \in V
      BY <1>5, <1>9
  <2> QED
      BY <1>5, <1>9, <2>1, ReadTyped
<1>11. ~AllValid(<<a>>)
    BY <1>2, <1>4, OneValid
<1>12. ~AllValid(<<a>> \o Read(m))
    BY <1>10, <1>11, ValidBoth
<1> QED
    BY <1>4, <1>6, <1>8, <1>12

\* Blanks in front of a text are not read.
LEMMA ReadGap ==
    ASSUME NEW T, Blank \in T, NEW gap \in Seq({Blank}), NEW r \in Seq(T)
    PROVE  gap \in Seq(T) /\ Read(gap \o r) = Read(r)
<1>1. Len(gap) \in Nat /\ DOMAIN gap = 1 .. Len(gap) /\ \A i \in DOMAIN gap : gap[i] = Blank
  <2>1. PICK B : B = {Blank}
      OBVIOUS
  <2>2. gap \in Seq(B)
      BY <2>1
  <2>3. Len(gap) \in Nat /\ DOMAIN gap = 1 .. Len(gap) /\ \A i \in DOMAIN gap : gap[i] \in B
      BY <2>2, LenProperties
  <2> QED
      BY <2>1, <2>3
<1>2. gap \in Seq(T)
  <2>1. gap \in [1 .. Len(gap) -> {Blank}]
      BY LenProperties
  <2>2. gap \in [1 .. Len(gap) -> T]
      BY <1>1, <2>1
  <2> QED
      BY <1>1, <2>2, SeqDef
<1>3. Plain(gap) /\ AllBlank(gap)
    BY <1>1, SignsDiffer DEF Plain, AllBlank
<1>4. PICK t : t = make_tokens_explicit(r)
    OBVIOUS
<1>5. make_tokens_explicit(gap \o r) = gap \o t
    BY <1>2, <1>3, <1>4, PlainWordApart
<1>6. t \in Seq(T)
    BY <1>4, ExplicitTyped
<1>7. Words(gap \o t) = Words(t)
    BY <1>2, <1>3, <1>6, WordsBehindBlanks
<1> QED
    BY <1>2, <1>4, <1>5, <1>7 DEF Read
\* The parts of texts over T, and what each of them puts down: its text and the
\* tokens that are meant.
Spells(p, T) == p.gap \in Seq({Blank}) /\ IsSpelling(p.word, p.means) /\ p.word \in Seq(T)
AreParts(P, T) == Blank \in T /\ Signs \subseteq T /\ \A p \in P : Spells(p, T)
Laid(P) == [p \in P |-> p.gap \o p.word]
Meant(P) == [p \in P |-> p.means]

Touching(parts) ==
    \A i \in 2 .. Len(parts) :
        parts[i].gap = <<>> => MayTouch(parts[i - 1].word, parts[i].word)

\* What is known of each part.
LEMMA WordsOfParts ==
    ASSUME NEW P, NEW T, AreParts(P, T), NEW p \in P
    PROVE  /\ Blank \in T /\ Signs \subseteq T /\ p.word \in Seq(T) /\ p.gap \in Seq({Blank})
           /\ p.gap \in Seq(T) /\ p.gap \o p.word \in Seq(T)
           /\ \/ IsWhole(p.word) /\ ReadBack(<<p.word>>, p.means)
              \/ BreaksUp(p.word) /\ IsRefused(p.means)
<1>1. /\ Blank \in T /\ Signs \subseteq T /\ p.word \in Seq(T) /\ p.gap \in Seq({Blank})
      /\ IsSpelling(p.word, p.means)
    BY DEF AreParts, Spells
<1>2. PICK w, g, m : w = p.word /\ g = p.gap /\ m = p.means
    OBVIOUS
<1>3. \/ IsWhole(w) /\ ReadBack(<<w>>, m)
      \/ BreaksUp(w) /\ IsRefused(m)
    BY <1>1, <1>2, SpelledRead
<1>4. <<>> \in Seq(T)
    OBVIOUS
<1>5. g \in Seq(T)
    BY <1>1, <1>2, <1>4, ReadGap
<1>6. g \o w \in Seq(T)
    BY <1>1, <1>2, <1>5, Concat
<1> QED
    BY <1>1, <1>2, <1>3, <1>5, <1>6

LEMMA PartsPutDown ==
    ASSUME NEW P, NEW T, AreParts(P, T)
    PROVE  PutDown(Laid(P), P, T)
<1>1. \A p \in P : p.gap \o p.word \in Seq(T)
    BY WordsOfParts
<1> QED
    BY <1>1 DEF PutDown, Laid

\* The text of parts begins with that of the first.
LEMMA PartFirst ==
    ASSUME NEW P, NEW T, AreParts(P, T), NEW p \in P, NEW rest \in Seq(P)
    PROVE  Flat(Laid(P), <<p>> \o rest) = (p.gap \o p.word) \o Flat(Laid(P), rest)
<1>1. PICK f : f = Laid(P)
    OBVIOUS
<1>2. PutDown(f, P, T)
    BY <1>1, PartsPutDown
<1>3. FlatBegins(f, p, rest)
    BY <1>2, FlatFirst
<1>4. f[p] = p.gap \o p.word
    BY <1>1 DEF Laid
<1> QED
    BY <1>1, <1>3, <1>4 DEF FlatBegins

\* What a text of parts begins with.
LEMMA TextBegins ==
    ASSUME NEW P, NEW T, AreParts(P, T), NEW p \in P, NEW rest \in Seq(P), NEW w,
           p.gap = <<>> => MayTouch(w, p.word)
    PROVE  Joins(w, Flat(Laid(P), <<p>> \o rest))
<1>1. PICK t : t = Flat(Laid(P), rest)
    OBVIOUS
<1>2. PutDown(Laid(P), P, T)
    BY PartsPutDown
<1>3. t \in Seq(T)
    BY <1>1, <1>2, FlatIs
<1>4. PICK g, v : g = p.gap /\ v = p.word
    OBVIOUS
<1>5. /\ Blank \in T /\ g \in Seq({Blank}) /\ g \in Seq(T) /\ v \in Seq(T) /\ g \o v \in Seq(T)
      /\ IsWhole(v) \/ BreaksUp(v)
    BY <1>4, WordsOfParts
<1>6. Flat(Laid(P), <<p>> \o rest) = (g \o v) \o t
  <2>1. Flat(Laid(P), <<p>> \o rest) = (p.gap \o p.word) \o Flat(Laid(P), rest)
      BY PartFirst
  <2> QED
      BY <1>1, <1>4, <2>1
<1>7. PICK gv : gv = g \o v
    OBVIOUS
<1>8. gv \in Seq(T)
    BY <1>5, <1>7
<1>9. \A a, b \in Seq(T) : Len(a) >= 1 => (a \o b)[1] = a[1]
  <2> SUFFICES ASSUME NEW a \in Seq(T), NEW b \in Seq(T), Len(a) >= 1 PROVE (a \o b)[1] = a[1]
      OBVIOUS
  <2>1. Len(a) \in Nat /\ \A i \in 1 .. Len(a) : (a \o b)[i] = a[i]
      BY PiecesOf
  <2> QED
      BY <2>1
<1>10. CASE g # <<>>
  <2>1. Len(g) \in Nat /\ Len(g) >= 1 /\ g[1] = Blank
    <3>1. Len(g) \in Nat \ {0}
        BY <1>5, <1>10, EmptySeq
    <3>2. 1 \in 1 .. Len(g)
        BY <3>1
    <3>3. g[1] \in {Blank}
        BY <1>5, <3>2, LenProperties
    <3> QED
        BY <3>1, <3>3
  <2>2. gv[1] = Blank /\ Len(gv) >= 1
    <3>1. Len(g \o v) = Len(g) + Len(v) /\ Len(v) \in Nat
        BY <1>5, PiecesOf
    <3>2. (g \o v)[1] = g[1]
        BY <1>5, <1>9, <2>1
    <3> QED
        BY <1>7, <2>1, <3>1, <3>2
  <2>3. (gv \o t)[1] = Blank
      BY <1>3, <1>8, <1>9, <2>2
  <2> QED
      BY <1>6, <1>7, <2>3 DEF Joins
<1>11. CASE g = <<>>
  <2>1. gv = v
      BY <1>5, <1>7, <1>11, Concat
  <2>2. Len(v) >= 1
    <3>1. CASE BreaksUp(v)
        BY <3>1 DEF BreaksUp
    <3>2. CASE OnePiece(v)
        BY <3>2 DEF OnePiece
    <3>3. CASE IsSignWord(v)
      <4>1. v # <<>>
          BY <3>3, SignWordBegins
      <4>2. Len(v) \in Nat \ {0}
          BY <1>5, <4>1, EmptySeq
      <4> QED
          BY <4>2
    <3> QED
        BY <1>5, <3>1, <3>2, <3>3 DEF IsWhole
  <2>3. (v \o t)[1] = v[1]
      BY <1>3, <1>5, <1>9, <2>2
  <2>4. MayTouch(w, v)
      BY <1>4, <1>11
  <2>5. MayTouch(w, v \o t)
      BY <2>3, <2>4 DEF MayTouch
  <2> QED
      BY <1>6, <1>7, <2>1, <2>5 DEF Joins
<1> QED
    BY <1>10, <1>11

LEMMA TouchingRest ==
    ASSUME NEW P, NEW x \in P, NEW rest \in Seq(P), Touching(<<x>> \o rest)
    PROVE  /\ Touching(rest)
           /\ rest # <<>> /\ rest[1].gap = <<>> => MayTouch(x.word, rest[1].word)
<1>1. PICK n, one, s : n = Len(rest) /\ one = <<x>> /\ s = one \o rest
    OBVIOUS
<1>2. one \in Seq(P) /\ Len(one) = 1 /\ one[1] = x
    BY <1>1
<1>3. /\ n \in Nat /\ Len(s) = 1 + n /\ s[1] = x /\ \A i \in 1 .. n : s[1 + i] = rest[i]
  <2>1. /\ Len(one) \in Nat /\ Len(rest) \in Nat
        /\ Len(one \o rest) = Len(one) + Len(rest)
        /\ \A i \in 1 .. Len(one) : (one \o rest)[i] = one[i]
        /\ \A i \in 1 .. Len(rest) : (one \o rest)[Len(one) + i] = rest[i]
      BY <1>2, PiecesOf
  <2>2. 1 \in 1 .. 1
      OBVIOUS
  <2> QED
      BY <1>1, <1>2, <2>1, <2>2
<1>4. Touching(s)
    BY <1>1
<1>5. ASSUME NEW i \in 2 .. n, rest[i].gap = <<>>
      PROVE  MayTouch(rest[i - 1].word, rest[i].word)
  <2>1. i \in 1 .. n /\ i - 1 \in 1 .. n /\ 1 + i \in 2 .. 1 + n /\ (1 + i) - 1 = i /\ 1 + (i - 1) = i
      BY <1>3
  <2>2. s[1 + i] = rest[i] /\ s[i] = rest[i - 1]
    <3>1. PICK j : j = i - 1
        OBVIOUS
    <3>2. s[1 + j] = rest[j]
        BY <1>3, <2>1, <3>1
    <3> QED
        BY <1>3, <2>1, <3>1, <3>2
  <2>3. s[1 + i].gap = <<>> => MayTouch(s[(1 + i) - 1].word, s[1 + i].word)
      BY <1>3, <1>4, <2>1 DEF Touching
  <2> QED
      BY <1>5, <2>1, <2>2, <2>3
<1>6. ASSUME rest # <<>>, rest[1].gap = <<>> PROVE MayTouch(x.word, rest[1].word)
  <2>1. n \in Nat \ {0}
      BY <1>1, <1>6, EmptySeq
  <2>2. 1 \in 1 .. n /\ 2 \in 2 .. 1 + n /\ 1 + 1 = 2 /\ 2 - 1 = 1
      BY <2>1
  <2>3. s[2] = rest[1]
      BY <1>3, <2>2
  <2>4. s[2].gap = <<>> => MayTouch(s[2 - 1].word, s[2].word)
      BY <1>3, <1>4, <2>2 DEF Touching
  <2> QED
      BY <1>3, <1>6, <2>2, <2>3, <2>4
<1> QED
    BY <1>1, <1>5, <1>6 DEF Touching

\* What is read of a text of parts is what each of them means.
LEMMA PartsReadBack ==
    ASSUME NEW P, NEW T, NEW U, AreParts(P, T), PutDown(Meant(P), P, U)
    PROVE  \A parts \in Seq(P) :
               Touching(parts) => ReadBack(Read(Flat(Laid(P), parts)), Flat(Meant(P), parts))
<1> DEFINE S == {parts \in Seq(P) :
                     Touching(parts) => ReadBack(Read(Flat(Laid(P), parts)), Flat(Meant(P), parts))}
<1>1. PutDown(Laid(P), P, T)
    BY PartsPutDown
<1>2. ASSUME NEW parts \in Seq(P), \A r \in Seq(P) : Len(r) < Len(parts) => r \in S,
             Touching(parts)
      PROVE  ReadBack(Read(Flat(Laid(P), parts)), Flat(Meant(P), parts))
  <2>1. CASE parts = <<>>
    <3>1. Flat(Laid(P), <<>>) = <<>> /\ Flat(Meant(P), <<>>) = <<>>
        BY FlatNothing
    <3> QED
        BY <2>1, <3>1, ReadNothing, NothingReadBack
  <2>2. CASE parts # <<>>
    <3>1. PICK p \in P, rest \in Seq(P) : parts = <<p>> \o rest
        BY <2>2, FirstAndRest
    <3>2. Len(rest) < Len(parts)
      <4>1. Len(<<p>> \o rest) = 1 + Len(rest) /\ Len(rest) \in Nat
          BY Fronted
      <4> QED
          BY <3>1, <4>1
    <3>3. Touching(<<p>> \o rest)
        BY <1>2, <3>1
    <3>4. Touching(rest) /\ (rest # <<>> /\ rest[1].gap = <<>> => MayTouch(p.word, rest[1].word))
        BY <3>3, TouchingRest
    <3>5. PICK t, d : t = Flat(Laid(P), rest) /\ d = Flat(Meant(P), rest)
        OBVIOUS
    <3>6. t \in Seq(T) /\ d \in Seq(U)
        BY <1>1, <3>5, FlatIs
    <3>7. ReadBack(Read(t), d)
        BY <1>2, <3>2, <3>4, <3>5
    <3>8. Joins(p.word, t)
      <4>1. CASE rest = <<>>
        <5>1. t = <<>>
            BY <3>5, <4>1, FlatNothing
        <5> QED
            BY <5>1 DEF Joins
      <4>2. CASE rest # <<>>
        <5>1. PICK q \in P, more \in Seq(P) : rest = <<q>> \o more /\ q = rest[1]
            BY <4>2, FirstAndRest
        <5>2. q.gap = <<>> => MayTouch(p.word, q.word)
            BY <3>4, <4>2, <5>1
        <5>3. Joins(p.word, Flat(Laid(P), <<q>> \o more))
            BY <5>2, TextBegins
        <5> QED
            BY <3>5, <5>1, <5>3
      <4> QED
          BY <4>1, <4>2
    <3>9. PICK g, w, c : g = p.gap /\ w = p.word /\ c = p.means
        OBVIOUS
    <3>10. /\ Blank \in T /\ Signs \subseteq T /\ g \in Seq({Blank}) /\ g \in Seq(T)
           /\ w \in Seq(T)
           /\ \/ IsWhole(w) /\ ReadBack(<<w>>, c)
              \/ BreaksUp(w) /\ IsRefused(c)
        BY <3>9, WordsOfParts
    <3>11. Flat(Laid(P), parts) = (g \o w) \o t
      <4>1. Flat(Laid(P), <<p>> \o rest) = (p.gap \o p.word) \o Flat(Laid(P), rest)
          BY PartFirst
      <4> QED
          BY <3>1, <3>5, <3>9, <4>1
    <3>12. Flat(Meant(P), parts) = c \o d /\ c \in Seq(U)
      <4>1. PICK m : m = Meant(P)
          OBVIOUS
      <4>2. FlatBegins(m, p, rest)
          BY <4>1, FlatFirst
      <4>3. m[p] = c /\ m[p] \in Seq(U)
          BY <3>9, <4>1 DEF Meant, PutDown
      <4> QED
          BY <3>1, <3>5, <4>1, <4>2, <4>3 DEF FlatBegins
    <3>13. Regroups(g, w, t)
        BY <3>6, <3>10, Regroup
    <3>14. w \o t \in Seq(T)
        BY <3>6, <3>10, Concat
    <3>15. Read(g \o (w \o t)) = Read(w \o t)
        BY <3>10, <3>14, ReadGap
    <3>16. ReadBack(Read(w \o t), c \o d)
      <4>1. CASE IsWhole(w) /\ ReadBack(<<w>>, c)
        <5>1. Read(w \o t) = <<w>> \o Read(t)
            BY <3>6, <3>8, <3>9, <3>10, <4>1, ReadWord
        <5>2. PICK V, a, b : V = Seq(T) /\ a = <<w>> /\ b = Read(t)
            OBVIOUS
        <5>3. w \in V
            BY <3>10, <5>2
        <5>4. a \in Seq(V) /\ b \in Seq(V)
            BY <3>6, <3>10, <5>2, <5>3, ReadTyped
        <5>5. ReadBack(a, c) /\ ReadBack(b, d)
            BY <3>7, <4>1, <5>2
        <5>6. ReadBack(a \o b, c \o d)
            BY <3>6, <3>12, <5>2, <5>4, <5>5, ReadBackBoth
        <5> QED
            BY <5>1, <5>2, <5>6
      <4>2. CASE BreaksUp(w) /\ IsRefused(c)
        <5>1. ~AllValid(Read(w \o t))
            BY <3>6, <3>10, <4>2, ReadBroken
        <5>2. IsRefused(c \o d)
            BY <3>6, <3>12, <4>2, RefusedBoth
        <5> QED
            BY <5>1, <5>2 DEF ReadBack
      <4> QED
          BY <3>10, <4>1, <4>2
    <3> QED
        BY <3>11, <3>12, <3>13, <3>15, <3>16 DEF Regroups
  <2> QED
      BY <2>1, <2>2
<1>3. \A parts \in Seq(P) : (\A r \in Seq(P) : Len(r) < Len(parts) => r \in S) => parts \in S
    BY <1>2
<1> HIDE DEF S
<1>4. Seq(P) \subseteq S
    BY <1>3, EveryText
<1> QED
    BY <1>4 DEF S

\* The pieces of a word that is read.
LEMMA WordTyped ==
    ASSUME NEW T, Blank \in T, Signs \subseteq T, NEW word, IsWhole(word) \/ BreaksUp(word),
           \A i \in DOMAIN word : word[i] # Tab => word[i] \in T
    PROVE  word \in Seq(T)
<1>1. CASE OnePiece(word)
  <2>1. PICK x : word = <<x>> /\ x # Tab
      BY <1>1 DEF OnePiece
  <2>2. 1 \in DOMAIN word /\ word[1] = x
      BY <2>1
  <2>3. x \in T
      BY <2>1, <2>2
  <2> QED
      BY <2>1, <2>3
<1>2. CASE IsSignWord(word)
    BY <1>2, SignWordIs
<1>3. CASE BreaksUp(word)
  <2>1. PICK n, W : n = Len(word) /\ W = {word[i] : i \in DOMAIN word}
      OBVIOUS
  <2>2. word \in Seq(W) /\ n \in Nat /\ \A i \in DOMAIN word : word[i] # Tab
      BY <1>3, <2>1 DEF BreaksUp
  <2>3. word \in [1 .. n -> W] /\ DOMAIN word = 1 .. n
      BY <2>1, <2>2, LenProperties
  <2>4. word \in [1 .. n -> T]
      BY <2>2, <2>3
  <2> QED
      BY <2>2, <2>4, SeqDef
<1> QED
    BY <1>1, <1>2, <1>3 DEF IsWhole

\* What a client writes has no tab, and is read as what the client means.
LEMMA WritingRead ==
    ASSUME NEW parts, IsWriting(parts)
    PROVE  /\ ReadBack(Read(WrittenText(parts)), WrittenTokens(parts))
           /\ \E T : Blank \in T /\ Signs \subseteq T /\ Tab \notin T /\ WrittenText(parts) \in Seq(T)
           /\ \E U : WrittenTokens(parts) \in Seq(U)
<1>1. PICK P : P = {parts[i] : i \in DOMAIN parts}
    OBVIOUS
<1>2. /\ parts \in Seq(P)
      /\ \A p \in P : p.gap \in Seq({Blank}) /\ IsSpelling(p.word, p.means)
      /\ Touching(parts)
    BY <1>1 DEF IsWriting, Touching
<1>3. PICK T : T = {t \in {Blank} \cup Signs \cup UNION {{p.word[i] : i \in DOMAIN p.word} : p \in P} :
                        t # Tab}
    OBVIOUS
<1>4. Blank \in T /\ Signs \subseteq T /\ Tab \notin T
    BY <1>3, SignsDiffer
<1>5. AreParts(P, T)
  <2>1. ASSUME NEW p \in P PROVE Spells(p, T)
    <3>1. PICK w : w = p.word
        OBVIOUS
    <3>2. IsWhole(w) \/ BreaksUp(w)
        BY <1>2, <3>1, SpelledRead
    <3>3. \A i \in DOMAIN w : w[i] # Tab => w[i] \in T
        BY <1>3, <3>1
    <3>4. w \in Seq(T)
        BY <1>4, <3>2, <3>3, WordTyped
    <3> QED
        BY <1>2, <3>1, <3>4 DEF Spells
  <2> QED
      BY <1>4, <2>1 DEF AreParts
<1>6. PICK U : U = UNION {{p.means[i] : i \in DOMAIN p.means} : p \in P}
    OBVIOUS
<1>7. PutDown(Meant(P), P, U)
  <2>1. ASSUME NEW p \in P PROVE p.means \in Seq(U)
    <3>1. PICK m : m = p.means
        OBVIOUS
    <3>2. PICK V : m \in Seq(V)
        BY <1>2, <3>1, SpelledRead
    <3>3. Len(m) \in Nat /\ m \in [1 .. Len(m) -> V] /\ DOMAIN m = 1 .. Len(m)
        BY <3>2, LenProperties
    <3>4. \A i \in DOMAIN m : m[i] \in U
        BY <1>6, <3>1
    <3>5. m \in [1 .. Len(m) -> U]
        BY <3>3, <3>4
    <3>6. m \in Seq(U)
        BY <3>3, <3>5, SeqDef
    <3> QED
        BY <3>1, <3>6
  <2> QED
      BY <2>1 DEF PutDown, Meant
<1>8. \A i \in DOMAIN parts : parts[i] \in P
    BY <1>1
<1>9. WrittenText(parts) = Flat(Laid(P), parts) /\ WrittenTokens(parts) = Flat(Meant(P), parts)
  <2>1. \A i \in DOMAIN parts : /\ Laid(P)[parts[i]] = parts[i].gap \o parts[i].word
                                /\ Meant(P)[parts[i]] = parts[i].means
      BY <1>8 DEF Laid, Meant
  <2>2. [i \in DOMAIN parts |-> parts[i].gap \o parts[i].word] = Each(Laid(P), parts)
      BY <2>1 DEF Each
  <2>3. [i \in DOMAIN parts |-> parts[i].means] = Each(Meant(P), parts)
      BY <2>1 DEF Each
  <2> QED
      BY <2>2, <2>3 DEF WrittenText, WrittenTokens, Flat
<1>11. ReadBack(Read(Flat(Laid(P), parts)), Flat(Meant(P), parts))
    BY <1>2, <1>5, <1>7, PartsReadBack
<1>12. Flat(Laid(P), parts) \in Seq(T)
    BY <1>2, <1>5, PartsPutDown, FlatIs
<1>13. Flat(Meant(P), parts) \in Seq(U)
    BY <1>2, <1>7, FlatIs
<1> QED
    BY <1>4, <1>9, <1>11, <1>12, <1>13

\* A query, as resolve hands it to validate and to parse.
LEMMA QueryRead ==
    ASSUME NEW q \in Queries, q.written # <<>>
    PROVE  /\ parse(Explicit(q.text)) = TokensOfAll(Read(q.text))
           /\ validate(Explicit(q.text)) <=> AllValid(Read(q.text))
           /\ ParseThrows(Explicit(q.text)) <=> ~AllHeld(Read(q.text))
           /\ ReadBack(Read(q.text), q.written)
<1>1. ReadBack(Read(q.text), q.written)
    BY QueriesAssumption, WritingRead
<1>2. PICK T : Blank \in T /\ Signs \subseteq T /\ Tab \notin T /\ q.text \in Seq(T)
    BY QueriesAssumption, WritingRead
<1>3. PICK e : e = Explicit(q.text)
    OBVIOUS
<1>4. e \in Seq(T)
    BY <1>2, <1>3, ExplicitRead
<1>5. Tab \notin {e[i] : i \in DOMAIN e}
    BY <1>2, <1>4, LenProperties
<1>6. tokenize(e) = Read(q.text)
    BY <1>2, <1>3, <1>5, ReadOnce
<1>7. parse(e) = TokensOfAll(Read(q.text))
    BY <1>6, ParseIs
<1>8. validate(e) <=> AllValid(Read(q.text))
    BY <1>6, ValidateIs DEF AllValid
<1>9. ParseThrows(e) <=> ~AllHeld(Read(q.text))
    BY <1>6 DEF ParseThrows, AllHeld
<1> QED
    BY <1>1, <1>3, <1>7, <1>8, <1>9

-----------------------------------------------------------------------------
(* The analyzer, from the text of a query to its action. *)

Kinds == {"none", "CreateDatabase", "DeleteDatabase", "ShowDatabase",
          "CreateTable", "DeleteTable", "ShowTable", "ShowDatabases",
          "Insert", "Show_Select", "ShowColumnValues", "ShowTableData"}

Typed == /\ ctx \in Contexts
         /\ variant.kind \in Kinds
         /\ outcome \in {"running", "action", "error", "thrown"}

\* A visit that sets a context and an action that there are.
LEMMA SetTyped ==
    ASSUME Typed, NEW c \in Contexts, NEW v, v.kind \in Kinds, Set(c, v)
    PROVE  Typed'
BY DEF Typed, Set

LEMMA AcceptTyped ==
    ASSUME Typed, Accept
    PROVE  Typed'
BY DEF Typed, Accept, Set

LEMMA EndTyped ==
    ASSUME Typed, NEW how \in {"action", "error", "thrown"}, End(how)
    PROVE  Typed'
BY DEF Typed, End

LEMMA KindsOfActions ==
    /\ \A k \in Kinds : \A d, ts : OfDatabase(k, d).kind \in Kinds /\ OfTable(k, ts).kind \in Kinds
    /\ \A d, ts, x : /\ CreateTable(ts, x).kind \in Kinds /\ Insert(ts, x).kind \in Kinds
                     /\ Show_Select(d, ts, x).kind \in Kinds
                     /\ ShowColumnValues(d, ts).kind \in Kinds
    /\ ShowDatabases.kind \in Kinds
    /\ {"ShowTableData", "CreateDatabase", "DeleteDatabase", "ShowDatabase", "DeleteTable",
        "ShowTable"} \subseteq Kinds
BY DEF Kinds, OfDatabase, OfTable, CreateTable, Insert, Show_Select, ShowColumnValues, ShowDatabases

LEMMA RootTyped ==
    ASSUME Typed, NEW root, NEW objects, Root(root, objects),
           \A o \in objects : ContextOf(root, Kw(o)) \in Contexts
    PROVE  Typed'
<1>1. CASE End("error")
    BY <1>1, EndTyped
<1>2. CASE next \in {Kw(o) : o \in objects} /\ Set(ContextOf(root, next), variant)
  <2>1. PICK c : c = ContextOf(root, next)
      OBVIOUS
  <2>2. c \in Contexts
      BY <1>2, <2>1
  <2>3. Set(c, variant)
      BY <1>2, <2>1
  <2>4. variant.kind \in Kinds
      BY DEF Typed
  <2> QED
      BY <2>2, <2>3, <2>4, SetTyped
<1> QED
    BY <1>1, <1>2 DEF Root, Expect

LEMMA RootsTyped ==
    ASSUME Typed, VisitCreate \/ VisitDelete \/ VisitShow \/ VisitInsert
    PROVE  Typed'
<1>1. /\ \A o \in {"DATABASE", "TABLE"} : /\ ContextOf("CREATE", Kw(o)) \in Contexts
                                          /\ ContextOf("DELETE", Kw(o)) \in Contexts
      /\ \A o \in {"INTO"} : ContextOf("INSERT", Kw(o)) \in Contexts
    BY DEF ContextOf, Contexts, Kw
<1>2. \A o \in {"DATABASE", "DATABASES", "TABLE", "FROM"} : ContextOf("SHOW", Kw(o)) \in Contexts
    BY DEF ContextOf, Contexts, Kw
<1>3. CASE VisitCreate
    BY <1>1, <1>3, RootTyped DEF VisitCreate
<1>4. CASE VisitDelete
    BY <1>1, <1>4, RootTyped DEF VisitDelete
<1>5. CASE VisitShow
    BY <1>2, <1>5, RootTyped DEF VisitShow
<1>6. CASE VisitInsert
    BY <1>1, <1>6, RootTyped DEF VisitInsert
<1> QED
    BY <1>3, <1>4, <1>5, <1>6

\* A visit sets a context and an action that there are, or ends.
VisitSets == \/ \E c \in Contexts : \E v : v.kind \in Kinds /\ Set(c, v)
             \/ \E how \in {"action", "error", "thrown"} : End(how)

LEMMA SetsTyped == Typed /\ VisitSets => Typed'
<1> SUFFICES ASSUME Typed, VisitSets PROVE Typed'
    OBVIOUS
<1>1. ASSUME NEW c \in Contexts, NEW v, v.kind \in Kinds, Set(c, v) PROVE Typed'
    BY <1>1, SetTyped
<1>2. ASSUME NEW how \in {"action", "error", "thrown"}, End(how) PROVE Typed'
    BY <1>2, EndTyped
<1> QED
    BY <1>1, <1>2 DEF VisitSets

LEMMA SetHas ==
    ASSUME NEW c \in Contexts, NEW v, v.kind \in Kinds
    PROVE  Set(c, v) => VisitSets
BY DEF VisitSets

LEMMA EndHas == (\E how \in {"error", "thrown", "action"} : End(how)) => VisitSets
BY DEF VisitSets

LEMMA AcceptHas ==
    ASSUME Typed
    PROVE  Accept => VisitSets
<1>1. ctx \in Contexts /\ variant.kind \in Kinds
    BY DEF Typed
<1> QED
    BY <1>1, SetHas DEF Accept

LEMMA KeywordsTyped ==
    ASSUME Typed, \/ VisitUsing \/ VisitSelect \/ VisitWhere \/ VisitFrom \/ VisitColumn \/ VisitInto
                  \/ VisitTable \/ VisitDatabase \/ VisitDatabases \/ VisitOtherKeyword
    PROVE  Typed'
<1>1. /\ Accept => VisitSets
      /\ End("error") => VisitSets
      /\ End("thrown") => VisitSets
    BY AcceptHas, EndHas
<1>2. \A d, ts : Set("SelectE", Show_Select(d, <<>>, <<>>)) => VisitSets
    BY SetHas, KindsOfActions DEF Contexts
<1>3. \A d, ts : /\ Set("ShowColumnValuesE", ShowColumnValues(d, ts)) => VisitSets
                 /\ Set(ctx, ShowColumnValues(d, ts)) => VisitSets
                 /\ Set(ctx, OfTable("ShowTableData", ts)) => VisitSets
  <2>1. ctx \in Contexts /\ "ShowColumnValuesE" \in Contexts
      BY DEF Typed, Contexts
  <2> QED
      BY <2>1, SetHas, KindsOfActions
<1>4. Set(ctx, ShowDatabases) => VisitSets
    BY SetHas, KindsOfActions DEF Typed
<1>5. VisitUsing \/ VisitSelect => VisitSets
    BY <1>1, <1>2 DEF VisitUsing, VisitSelect, Expect
<1>6. VisitWhere \/ VisitFrom => VisitSets
    BY <1>1, <1>3 DEF VisitWhere, VisitFrom, Expect, Get
<1>7. VisitColumn \/ VisitInto \/ VisitTable => VisitSets
    BY <1>1, <1>3 DEF VisitColumn, VisitInto, VisitTable, Expect
<1>8. VisitDatabase \/ VisitDatabases \/ VisitOtherKeyword => VisitSets
    BY <1>1, <1>3, <1>4 DEF VisitDatabase, VisitDatabases, VisitOtherKeyword, Expect
<1> QED
    BY <1>5, <1>6, <1>7, <1>8, SetsTyped

LEMMA ItemsTyped ==
    ASSUME AInv, Typed,
           \/ VisitType \/ VisitSymbol \/ VisitOperator \/ VisitUnknown
           \/ VisitBool \/ VisitString \/ VisitNumbers
    PROVE  Typed'
<1>1. /\ Accept => VisitSets
      /\ End("error") => VisitSets
      /\ End("thrown") => VisitSets
    BY AcceptHas, EndHas
<1>2. ctx \in Contexts /\ variant.kind \in Kinds /\ "kind" \in DOMAIN variant
    BY DEF Typed, AInv, Counted
<1>3. \A e : /\ Set(ctx, [variant EXCEPT !.values = e]) => VisitSets
             /\ Set(ctx, [variant EXCEPT !.restrictions = e]) => VisitSets
    BY <1>2, ExceptKeepsKind, SetHas
<1>4. InsertValue \/ Restriction => VisitSets
    BY <1>1, <1>3 DEF InsertValue, Restriction, Expect, Get
<1>5. Literal => VisitSets
    BY <1>1, <1>4 DEF Literal
<1>6. VisitType \/ VisitSymbol \/ VisitOperator \/ VisitUnknown => VisitSets
    BY <1>1 DEF VisitType, VisitSymbol, VisitOperator, VisitUnknown, Expect
<1>7. VisitBool \/ VisitString \/ VisitNumbers => VisitSets
    BY <1>5 DEF VisitBool, VisitString, VisitNumbers
<1> QED
    BY <1>6, <1>7, SetsTyped

LEMMA NamesTyped ==
    ASSUME AInv, Typed,
           \/ DatabaseTarget \/ TableTarget \/ SelectColumn \/ ShownColumn
           \/ ListTarget \/ ColumnName \/ OtherIdentifier
    PROVE  Typed'
<1>1. /\ Accept => VisitSets
      /\ End("error") => VisitSets
      /\ End("thrown") => VisitSets
    BY AcceptHas, EndHas
<1>2. ctx \in Contexts /\ variant.kind \in Kinds /\ "kind" \in DOMAIN variant
    BY DEF Typed, AInv, Counted
<1>3. DatabaseTarget => VisitSets
  <2>1. ASSUME ctx \in DOMAIN DatabaseAction, Set(ctx, OfDatabase(DatabaseAction[ctx], curr[2]))
        PROVE  VisitSets
    <3>1. DatabaseAction[ctx] \in Kinds
        BY <2>1 DEF DatabaseAction, Kinds
    <3> QED
        BY <1>2, <2>1, <3>1, SetHas, KindsOfActions
  <2> QED
      BY <1>1, <2>1 DEF DatabaseTarget, Expect
<1>4. TableTarget => VisitSets
  <2>1. ASSUME ctx \in DOMAIN TableAction, Set(ctx, OfTable(TableAction[ctx], curr[2]))
        PROVE  VisitSets
    <3>1. TableAction[ctx] \in Kinds
        BY <2>1 DEF TableAction, Kinds
    <3> QED
        BY <1>2, <2>1, <3>1, SetHas, KindsOfActions
  <2> QED
      BY <1>1, <2>1 DEF TableTarget, Expect
<1>5. SelectColumn \/ ShownColumn => VisitSets
  <2>1. ASSUME NEW e, Set(IF next = Kw("WHERE") THEN "WhereE" ELSE ctx, [variant EXCEPT !.tables = e])
        PROVE  VisitSets
    <3>1. (IF next = Kw("WHERE") THEN "WhereE" ELSE ctx) \in Contexts
        BY <1>2 DEF Contexts
    <3>2. [variant EXCEPT !.tables = e].kind \in Kinds
        BY <1>2, ExceptKeepsKind
    <3> QED
        BY <2>1, <3>1, <3>2, SetHas
  <2> QED
      BY <1>1, <2>1 DEF SelectColumn, ShownColumn, Expect, Get
<1>6. ListTarget => VisitSets
  <2>1. \A e : Set(ctx, Insert(e, <<>>)) \/ Set(ctx, CreateTable(e, <<>>)) => VisitSets
      BY <1>2, SetHas, KindsOfActions
  <2> QED
      BY <1>1, <2>1 DEF ListTarget, Expect
<1>7. ColumnName => VisitSets
  <2>1. \A e : Set(ctx, [variant EXCEPT !.columns = e]) => VisitSets
      BY <1>2, ExceptKeepsKind, SetHas
  <2>2. \A ly : Column(ly) => VisitSets
      BY <1>1, <2>1 DEF Column, Get
  <2> QED
      BY <1>1, <2>2 DEF ColumnName, Expect, Get
<1>8. OtherIdentifier => VisitSets
    BY <1>1 DEF OtherIdentifier
<1> QED
    BY <1>3, <1>4, <1>5, <1>6, <1>7, <1>8, SetsTyped

\* Every step of the automata keeps the types.
LEMMA StepTyped == AInv /\ Typed /\ [ANext]_avars => Typed'
<1> SUFFICES ASSUME AInv, Typed, [ANext]_avars PROVE Typed'
    OBVIOUS
<1>1. CASE Visit
    BY <1>1, RootsTyped, KeywordsTyped, ItemsTyped, NamesTyped DEF Visit
<1>2. CASE Answer
  <2>1. End("error") \/ End("action")
      BY <1>2 DEF Answer
  <2> QED
      BY <2>1, EndTyped
<1>3. CASE UNCHANGED avars
    BY <1>3 DEF avars, Typed
<1> QED
    BY <1>1, <1>2, <1>3 DEF ANext

\* A query that is parsed is a sentence, and none is analyzed before.
Pending == phase # "parsed" => /\ in = <<>> /\ token_number = 0 /\ ctx = "Unknown"
                               /\ variant = NoAction
                               /\ outcome \in {"running", "error", "thrown"}

IsText(text) == text \in Seq({text[i] : i \in DOMAIN text})

Reading == /\ phase \in {"received", "explicit", "valid", "parsed"}
           /\ IsText(query)
           /\ Pending

Analyzing == phase = "parsed" => /\ AInv /\ Typed /\ IsSequence
                                 /\ Inserting /\ Creating /\ Selecting
                                 /\ Understanding

\* The automata begins with any sentence.
LEMMA Begins ==
    ASSUME SoundTokens(in), token_number = 0, ctx = "Unknown", variant = NoAction,
           outcome = "running"
    PROVE  AInv /\ Typed /\ IsSequence /\ Inserting /\ Creating /\ Selecting
<1>1. IsSequence
    BY DEF SoundTokens, IsSequence
<1>2. Len(in) \in Nat
    BY <1>1 DEF IsSequence
<1>3. Counted
    BY <1>2 DEF SoundTokens, Counted, NoAction
<1>4. Opened /\ Closed /\ Selects /\ ThrownInWhere
    BY DEF Opened, Closed, Selects, ThrownInWhere, Changing, ShortContexts, OfName
<1>5. Made
    BY DEF Made, NoAction, KindOf, Changing, ShortContexts, OfName
<1>6. Inserting /\ Creating /\ Selecting
    BY DEF Inserting, Creating, Selecting, SelectContexts, NoAction
<1>7. Typed
    BY DEF Typed, Contexts, Kinds, NoAction
<1> QED
    BY <1>1, <1>3, <1>4, <1>5, <1>6, <1>7 DEF AInv

\* A query stays a text when it is set apart and trimmed.
LEMMA TrimmedText ==
    ASSUME NEW text, IsText(text)
    PROVE  IsText(Trimmed(make_tokens_explicit(text)))
<1>1. PICK T : text \in Seq(T)
    BY DEF IsText
<1>2. PICK U : U = PiecesFor(text)
    OBVIOUS
<1>3. Blank \in U /\ text \in Seq(U)
    BY <1>1, <1>2, TextOver DEF PiecesFor
<1>4. PICK t : t = make_tokens_explicit(text)
    OBVIOUS
<1>5. t \in Seq(U)
    BY <1>3, <1>4, ExplicitTyped
<1>6. Trimmed(t) \in Seq(U)
    BY <1>5, TrimmedIs
<1> QED
    BY <1>4, <1>6, SeqOfItems DEF IsText

LEMMA InitReading == Init => Reading
<1> SUFFICES ASSUME Init PROVE Reading
    OBVIOUS
<1>1. IsText(query)
    BY QueriesAssumption DEF Init, IsText
<1> QED
    BY <1>1 DEF Init, Reading, Pending

LEMMA InitAnalyzing == Init => Analyzing
BY DEF Init, Analyzing

\* Every step of resolve keeps the query a text, and parses sound tokens.
LEMMA StepReading == Reading /\ [Next]_vars => Reading'
<1> SUFFICES ASSUME Reading, [Next]_vars PROVE Reading'
    OBVIOUS
<1>1. CASE MakeExplicit
  <2>1. query' = Trimmed(make_tokens_explicit(query))
      BY <1>1 DEF MakeExplicit
  <2>2. IsText(query')
      BY <2>1, TrimmedText DEF Reading
  <2> QED
      BY <1>1, <2>2 DEF MakeExplicit, To, Reading, Pending, IsText
<1>2. CASE Validate
    BY <1>2 DEF Validate, To, Reading, Pending, IsText
<1>3. CASE ParseQuery
    BY <1>3 DEF ParseQuery, To, Reading, Pending, IsText
<1>4. CASE GetActionStruct
    BY <1>4 DEF GetActionStruct, Reading, Pending, IsText
<1>5. CASE UNCHANGED vars
    BY <1>5 DEF vars, Reading, Pending, IsText
<1> QED
    BY <1>1, <1>2, <1>3, <1>4, <1>5 DEF Next

\* A step of the automata, or one that leaves it alone.
LEMMA AutomataSteps ==
    ASSUME Analyzing, phase = "parsed", [ANext]_avars
    PROVE  (/\ AInv /\ Typed /\ IsSequence /\ Inserting /\ Creating /\ Selecting
            /\ Understanding)'
BY StepAInv, StepTyped, StepIsSequence, StepInserting, StepCreating, StepSelecting,
   StepUnderstanding DEF Analyzing

\* The automata before it begins.
LEMMA BeginsNext ==
    (/\ SoundTokens(in) /\ token_number = 0 /\ ctx = "Unknown" /\ variant = NoAction
     /\ outcome = "running")'
    => (AInv /\ Typed /\ IsSequence /\ Inserting /\ Creating /\ Selecting)'
BY Begins, PTL

LEMMA UnderstandingBeginsNext == (token_number = 0 /\ outcome = "running")' => Understanding'
BY UnderstandingBegins, PTL

\* Every step keeps the invariants of the automata, which begin with what is parsed.
LEMMA StepAnalyzing == Reading /\ Analyzing /\ [Next]_vars => Analyzing'
<1> SUFFICES ASSUME Reading, Analyzing, [Next]_vars PROVE Analyzing'
    OBVIOUS
<1>1. CASE MakeExplicit \/ Validate
    BY <1>1 DEF MakeExplicit, Validate, To, Analyzing
<1>2. CASE ParseQuery /\ phase' # "parsed"
    BY <1>2 DEF Analyzing
<1>3. CASE ParseQuery /\ phase' = "parsed"
  <2>1. in' = parse(query) /\ IsText(query) /\ outcome' = outcome
      BY <1>3 DEF ParseQuery, To, Reading
  <2>2. SoundTokens(in')
      BY <2>1, ParseSound DEF IsText
  <2>3. token_number' = 0 /\ ctx' = "Unknown" /\ variant' = NoAction /\ outcome' = "running"
      BY <1>3, <2>1 DEF ParseQuery, To, Reading, Pending
  <2>4. (AInv /\ Typed /\ IsSequence /\ Inserting /\ Creating /\ Selecting)'
      BY <2>2, <2>3, BeginsNext DEF SoundTokens, SizedTypes
  <2>5. Understanding'
      BY <2>3, UnderstandingBeginsNext
  <2> QED
      BY <2>4, <2>5 DEF Analyzing
<1>4. CASE GetActionStruct
  <2>1. [ANext]_avars /\ phase' = phase /\ phase = "parsed"
      BY <1>4 DEF GetActionStruct
  <2> QED
      BY <2>1, AutomataSteps DEF Analyzing
<1>5. CASE UNCHANGED vars
  <2>1. UNCHANGED avars /\ phase' = phase
      BY <1>5 DEF vars, avars
  <2> QED
      BY <2>1, AutomataSteps DEF Analyzing
<1> QED
    BY <1>1, <1>2, <1>3, <1>4, <1>5 DEF Next

\* For every text: the query stays a text, and what is analyzed is a sentence.
THEOREM Analyzed == Spec => [](Reading /\ Analyzing)
BY InitReading, InitAnalyzing, StepReading, StepAnalyzing, PTL DEF Spec

\* For every set of queries: the variables of the analyzer have their types, and
\* each string type that Parser::parse returns has its size behind it.
THEOREM Types == Spec => []TypeOK
<1>1. Reading /\ Analyzing /\ phase = "parsed" => TypeOK
    BY DEF Reading, Analyzing, Typed, AInv, Counted, Kinds, TypeOK
<1>2. Reading /\ phase # "parsed" => TypeOK
  <2> SUFFICES ASSUME Reading, phase # "parsed" PROVE TypeOK
      OBVIOUS
  <2>1. /\ in = <<>> /\ token_number = 0 /\ ctx = "Unknown" /\ variant = NoAction
        /\ outcome \in {"running", "error", "thrown"}
      BY DEF Reading, Pending
  <2>2. Len(in) = 0 /\ SizedTypes(in)
      BY <2>1 DEF SizedTypes
  <2> QED
      BY <2>1, <2>2 DEF Reading, TypeOK, NoAction, Contexts
<1>3. Reading /\ Analyzing => TypeOK
    BY <1>1, <1>2
<1> QED
    BY <1>3, Analyzed, PTL

\* The invariants of the automata give its safety properties.
LEMMA AnalyzingSafe ==
    Reading /\ Analyzing => GetsFitTheContext /\ ChangesAreMeant /\ SelectKeepsItsConditions
<1>1. CASE phase = "parsed"
  <2>1. Analyzing => GetsFitTheContext
      BY <1>1 DEF Analyzing, AInv, ThrownInWhere, GetsFitTheContext
  <2>2. Analyzing => ChangesAreMeant
      BY <1>1, ShortEnds, InsertEnds, TableEnds, ChangesEnd DEF Analyzing
  <2>3. Analyzing => SelectKeepsItsConditions
      BY <1>1, SelectEnds DEF Analyzing
  <2> QED
      BY <2>1, <2>2, <2>3
<1>2. CASE phase # "parsed"
    BY <1>2 DEF Reading, Pending, GetsFitTheContext, ChangesAreMeant, SelectKeepsItsConditions
<1> QED
    BY <1>1, <1>2

\* For every set of queries, sentences of the grammar or not: from the text to
\* the action, nothing is changed but by a sentence that means it, no condition
\* is lost, and a get fails among conditions only.
THEOREM AnalyzerSafe == Spec => [](GetsFitTheContext /\ ChangesAreMeant /\ SelectKeepsItsConditions)
BY AnalyzingSafe, Analyzed, PTL

-----------------------------------------------------------------------------
(* What a client writes, on its way to the automata. *)

FromQuery(q) == q \in Queries /\ written = q.written

\* The query is the one the client wrote, as it came or set apart; it is parsed
\* if it is valid, and then the tokens are those that are written.
Conveyed ==
    /\ phase = "received" => \E q \in Queries : FromQuery(q) /\ query = q.text
    /\ phase \in {"explicit", "valid"} => \E q \in Queries : FromQuery(q) /\ query = Explicit(q.text)
    /\ phase \in {"received", "explicit"} => outcome = "running"
    /\ phase = "valid" => (outcome = "error" <=> ~validate(query))
    /\ phase = "valid" /\ outcome = "thrown" => ParseThrows(query)
    /\ phase = "parsed" /\ written # <<>>
           => in = Limited(written) /\ ~IsRefused(written) /\ ~HasFar(written)

LEMMA InitConveyed == Init => Conveyed
BY DEF Init, Conveyed, FromQuery

\* Every step of resolve conveys what the client wrote.
LEMMA StepConveyed == Reading /\ Conveyed /\ [Next]_vars => Conveyed'
<1> SUFFICES ASSUME Reading, Conveyed, [Next]_vars PROVE Conveyed'
    OBVIOUS
<1>1. CASE MakeExplicit
  <2>1. PICK q \in Queries : written = q.written /\ query = q.text
      BY <1>1 DEF MakeExplicit, Conveyed, FromQuery
  <2>2. query' = Explicit(q.text)
      BY <1>1, <2>1 DEF MakeExplicit, Explicit
  <2>3. written' = q.written /\ phase' = "explicit" /\ outcome' = "running"
      BY <1>1, <2>1 DEF MakeExplicit, To, Conveyed
  <2> QED
      BY <2>2, <2>3 DEF Conveyed, FromQuery
<1>2. CASE Validate
  <2>1. PICK q \in Queries : written = q.written /\ query = Explicit(q.text)
      BY <1>2 DEF Validate, Conveyed, FromQuery
  <2>2. /\ query' = query /\ written' = written /\ phase' = "valid" /\ outcome = "running"
        /\ outcome' = IF validate(query) THEN outcome ELSE "error"
      BY <1>2 DEF Validate, To, Conveyed
  <2>3. (outcome' = "error" <=> ~validate(query')) /\ outcome' # "thrown"
      BY <2>2
  <2> QED
      BY <2>1, <2>2, <2>3 DEF Conveyed, FromQuery
<1>3. CASE ParseQuery /\ phase' = "parsed"
  <2>1. PICK q \in Queries : written = q.written /\ query = Explicit(q.text)
      BY <1>3 DEF ParseQuery, Conveyed, FromQuery
  <2>2. /\ validate(query) /\ ~ParseThrows(query)
        /\ written' = written /\ in' = parse(query)
      BY <1>3 DEF ParseQuery, To, Conveyed
  <2>3. ASSUME q.written # <<>>
        PROVE  in' = Limited(q.written) /\ ~IsRefused(q.written) /\ ~HasFar(q.written)
    <3>1. /\ parse(query) = TokensOfAll(Read(q.text)) /\ AllValid(Read(q.text))
          /\ AllHeld(Read(q.text))
        BY <2>1, <2>2, <2>3, QueryRead
    <3>2. ReadBack(Read(q.text), q.written)
        BY <2>3, QueryRead
    <3> QED
        BY <2>2, <3>1, <3>2 DEF ReadBack
  <2> QED
      BY <1>3, <2>1, <2>2, <2>3 DEF Conveyed
<1>6. CASE ParseQuery /\ phase' # "parsed"
  <2>1. PICK q \in Queries : written = q.written /\ query = Explicit(q.text)
      BY <1>6 DEF ParseQuery, Conveyed, FromQuery
  <2>2. /\ validate(query) /\ ParseThrows(query) /\ phase' = "valid" /\ outcome' = "thrown"
        /\ written' = written /\ query' = query
      BY <1>6 DEF ParseQuery, To, Conveyed
  <2>3. validate(query') /\ ParseThrows(query')
      BY <2>2
  <2> QED
      BY <2>1, <2>2, <2>3 DEF Conveyed, FromQuery
<1>4. CASE GetActionStruct
  <2>1. phase = "parsed" /\ phase' = phase /\ written' = written /\ in' = in
      BY <1>4, VisitMoves DEF GetActionStruct, ANext, Answer, End
  <2> QED
      BY <2>1 DEF Conveyed
<1>5. CASE UNCHANGED vars
    BY <1>5 DEF vars, Conveyed, FromQuery
<1> QED
    BY <1>1, <1>2, <1>3, <1>4, <1>5, <1>6 DEF Next

\* For every set of queries: the tokens that go through the automata are those the
\* client wrote, up to the limits of numbers and the quotes in strings, and no query
\* gets there that has a !=, a string of several words or a decimal out of range.
THEOREM Conveys == Spec => []Conveyed
BY InitReading, InitAnalyzing, StepReading, StepAnalyzing, InitConveyed, StepConveyed, PTL DEF Spec

\* For every set of queries: the tokens that are parsed are those the client
\* wrote, however many blanks are at the signs, and a query that is set apart
\* (main.cpp:58) has the same words when tokenize does so again.
THEOREM QueriesLexed == Spec => []LexedAsWritten
<1>1. Reading /\ Conveyed => LexedAsWritten
  <2> SUFFICES ASSUME Reading, Conveyed PROVE LexedAsWritten
      OBVIOUS
  <2>1. SetApartOnce
    <3> SUFFICES ASSUME phase = "explicit", Tab \notin {query[i] : i \in DOMAIN query}
                 PROVE  tokenize(query) = Words(query)
        BY DEF SetApartOnce
    <3>1. PICK q \in Queries : query = Explicit(q.text)
        BY DEF Conveyed
    <3>2. PICK T : q.text \in Seq(T)
        BY QueriesAssumption
    <3> QED
        BY <3>1, <3>2, ReadOnce
  <2>2. ASSUME phase = "valid", outcome = "thrown", written # <<>>
        PROVE  HasFar(written) /\ ~IsRefused(written)
    <3>1. PICK q \in Queries : written = q.written /\ query = Explicit(q.text)
        BY <2>2 DEF Conveyed, FromQuery
    <3>2. validate(query) /\ ParseThrows(query)
        BY <2>2 DEF Conveyed
    <3>3. AllValid(Read(q.text)) /\ ~AllHeld(Read(q.text)) /\ ReadBack(Read(q.text), q.written)
        BY <2>2, <3>1, <3>2, QueryRead
    <3> QED
        BY <3>1, <3>3 DEF ReadBack
  <2> QED
      BY <2>1, <2>2 DEF LexedAsWritten, Conveyed
<1> QED
    BY <1>1, Analyzed, Conveys, PTL

-----------------------------------------------------------------------------
(* A sentence is one of the same form when its numbers are limited. *)

AlikeTokens(t, v) == v[1] = t[1] /\ (t[1] \notin {"UInt", "Int", "str"} => v = t)

Alike(s, u) == /\ IsText(s) /\ IsText(u) /\ Len(u) = Len(s) /\ Len(s) \in Nat
               /\ \A i \in 1 .. Len(s) : AlikeTokens(s[i], u[i])

LEMMA TokensAlike ==
    ASSUME NEW t, NEW v, AlikeTokens(t, v)
    PROVE  /\ v[1] = t[1]
           /\ \A k : v = Kw(k) <=> t = Kw(k)
           /\ \A k : v = Type(k) <=> t = Type(k)
           /\ \A k : v = Op(k) <=> t = Op(k)
           /\ \A k : v = Sym(k) <=> t = Sym(k)
           /\ v = COMA <=> t = COMA
           /\ v = SEMICOLON <=> t = SEMICOLON
           /\ IsName(v) <=> IsName(t)
           /\ IsSub(v) <=> IsSub(t)
           /\ IsOp(v) <=> IsOp(t)
           /\ IsType(v) <=> IsType(t)
           /\ IsLiteral(v) <=> IsLiteral(t)
           /\ v \in Connectives <=> t \in Connectives
<1>1. ASSUME NEW c, c[1] \notin {"UInt", "Int", "str"} PROVE v = c <=> t = c
    BY <1>1 DEF AlikeTokens
<1>2. /\ \A k : v = Kw(k) <=> t = Kw(k)
      /\ \A k : v = Type(k) <=> t = Type(k)
      /\ \A k : v = Op(k) <=> t = Op(k)
      /\ \A k : v = Sym(k) <=> t = Sym(k)
    BY <1>1, Tags
<1>3. v = COMA <=> t = COMA
    BY <1>2 DEF COMA
<1>4. v = SEMICOLON <=> t = SEMICOLON
    BY <1>2 DEF SEMICOLON
<1>5. v \in Connectives <=> t \in Connectives
    BY <1>2 DEF Connectives
<1>6. v[1] = t[1]
    BY DEF AlikeTokens
<1>7. /\ IsName(v) <=> IsName(t)
      /\ IsSub(v) <=> IsSub(t)
      /\ IsOp(v) <=> IsOp(t)
      /\ IsType(v) <=> IsType(t)
      /\ IsLiteral(v) <=> IsLiteral(t)
    BY <1>6 DEF IsName, IsSub, IsOp, IsType, IsLiteral
<1> QED
    BY <1>2, <1>3, <1>4, <1>5, <1>6, <1>7

LEMMA LimitedAlike ==
    ASSUME NEW s, IsText(s)
    PROVE  Alike(s, Limited(s))
<1>1. PICK u, n : u = Limited(s) /\ n = Len(s)
    OBVIOUS
<1>2. u = [i \in DOMAIN s |-> Limit(s[i])]
    BY <1>1, LimitedIs
<1>3. n \in Nat /\ DOMAIN s = 1 .. n
    BY <1>1, LenProperties DEF IsText
<1>4. PICK W : W = {Limit(s[i]) : i \in DOMAIN s}
    OBVIOUS
<1>5. u \in [1 .. n -> W]
    BY <1>2, <1>3, <1>4
<1>6. u \in Seq(W)
    BY <1>3, <1>5, SeqDef
<1>7. Len(u) = n
    BY <1>3, <1>5, <1>6, LenProperties
<1>8. IsText(u)
    BY <1>6, SeqOfItems DEF IsText
<1>9. \A i \in 1 .. n : AlikeTokens(s[i], u[i])
    BY <1>2, <1>3 DEF Limit, AlikeTokens
<1> QED
    BY <1>1, <1>3, <1>7, <1>8, <1>9 DEF Alike

\* Parts of sequences that are alike are alike.
LEMMA PartsAlike ==
    ASSUME NEW s, NEW u, Alike(s, u), NEW a \in 1 .. Len(s), NEW b \in 1 .. Len(s), a <= b
    PROVE  Alike(SubSeq(s, a, b), SubSeq(u, a, b))
<1>1. /\ s \in Seq({s[i] : i \in DOMAIN s}) /\ u \in Seq({u[i] : i \in DOMAIN u})
      /\ a \in 1 .. Len(u) /\ b \in 1 .. Len(u)
    BY DEF Alike, IsText
<1>2. PICK c : /\ c = SubSeq(s, a, b)
               /\ Len(c) = b - a + 1
               /\ \A k \in 1 .. b - a + 1 : c[k] = s[a + k - 1]
    BY <1>1, Part
<1>3. PICK d : /\ d = SubSeq(u, a, b)
               /\ Len(d) = b - a + 1
               /\ \A k \in 1 .. b - a + 1 : d[k] = u[a + k - 1]
    BY <1>1, Part
<1>4. ASSUME NEW x, NEW n \in Nat, n = Len(s), n = Len(x)
      PROVE  IsText(SubSeq(x, a, b))
  <2>1. PICK T : T = {x[k] : k \in a .. b}
      OBVIOUS
  <2>2. \A k \in a .. b : x[k] \in T
      BY <2>1
  <2>3. SubSeq(x, a, b) \in Seq(T)
      BY <2>2, SubSeqProperties
  <2> QED
      BY <2>3, SeqOfItems DEF IsText
<1>5. IsText(c) /\ IsText(d)
    BY <1>2, <1>3, <1>4 DEF Alike
<1>6. \A k \in 1 .. b - a + 1 : AlikeTokens(c[k], d[k])
  <2> TAKE k \in 1 .. b - a + 1
  <2>1. a + k - 1 \in 1 .. Len(s)
      BY DEF Alike
  <2>2. c[k] = s[a + k - 1] /\ d[k] = u[a + k - 1]
      BY <1>2, <1>3
  <2> QED
      BY <2>1, <2>2 DEF Alike
<1>7. b - a + 1 \in Nat
    OBVIOUS
<1>8. Alike(c, d)
    BY <1>2, <1>3, <1>5, <1>6, <1>7 DEF Alike
<1> QED
    BY <1>2, <1>3, <1>8

\* A list in parentheses stays one.
LEMMA ListsAlike ==
    ASSUME NEW s, NEW u, Alike(s, u), NEW k1, NEW k2, IsListOf(s, k1, k2)
    PROVE  IsListOf(u, k1, k2)
<1>1. PICK n : n = Len(s)
    OBVIOUS
<1>2. n \in Nat /\ n > 6 /\ Len(u) = n
    BY <1>1 DEF Alike, IsListOf
<1>3. s[n - 1] = CLOSING_PAR /\ s[n] = SEMICOLON
    BY <1>1, <1>2, ListEnd DEF Alike, IsText
<1>4. \A i \in 1 .. n : AlikeTokens(s[i], u[i])
    BY <1>1 DEF Alike
<1>5. {1, 2, 3, 4, n - 1, n} \subseteq 1 .. n
    BY <1>2
<1>6. u[n - 1] = CLOSING_PAR /\ u[n] = SEMICOLON
    BY <1>3, <1>4, <1>5, TokensAlike DEF CLOSING_PAR, SEMICOLON
<1>7. u[1] = Kw(k1) /\ u[2] = Kw(k2) /\ IsSub(u[3]) /\ u[4] = OPENING_PAR
    BY <1>4, <1>5, TokensAlike DEF IsListOf, OPENING_PAR
<1>8. SubSeq(u, n - 1, n) = <<CLOSING_PAR, SEMICOLON>>
  <2>1. n - 1 \in 1 .. Len(u) /\ n \in 1 .. Len(u) /\ n - 1 <= n
      BY <1>2
  <2>2. PICK S : u \in Seq(S)
      BY DEF Alike, IsText
  <2>3. SubSeq(u, n - 1, n) = [k \in 1 .. n - (n - 1) + 1 |-> u[(n - 1) + k - 1]]
      BY <2>1, <2>2
  <2>4. n - (n - 1) + 1 = 2 /\ \A k \in 1 .. 2 : (n - 1) + k - 1 = n - 2 + k
      BY <1>2
  <2>5. SubSeq(u, n - 1, n) = [k \in 1 .. 2 |-> u[n - 2 + k]]
      BY <2>3, <2>4
  <2>6. n - 2 + 1 = n - 1 /\ n - 2 + 2 = n
      BY <1>2
  <2>7. [k \in 1 .. 2 |-> u[n - 2 + k]] = <<u[n - 1], u[n]>>
      BY <2>6
  <2> QED
      BY <1>6, <2>5, <2>7
<1> QED
    BY <1>2, <1>7, <1>8 DEF IsListOf

\* An INSERT stays one.
LEMMA InsertAlike ==
    ASSUME NEW s, NEW u, Alike(s, u), IsInsert(s)
    PROVE  IsInsert(u)
<1>1. IsListOf(u, "INSERT", "INTO") /\ IsListOf(s, "INSERT", "INTO")
    BY ListsAlike DEF IsInsert
<1>2. Len(s) \in Nat /\ Len(s) > 6 /\ Len(u) = Len(s)
    BY <1>1 DEF Alike, IsListOf
<1>3. 5 \in 1 .. Len(s) /\ Len(s) - 2 \in 1 .. Len(s) /\ 5 <= Len(s) - 2
    BY <1>2
<1>4. Alike(SubSeq(s, 5, Len(s) - 2), SubSeq(u, 5, Len(s) - 2))
    BY <1>3, PartsAlike
<1>5. PICK c, d : c = Items(s) /\ d = Items(u)
    OBVIOUS
<1>6. Alike(c, d)
    BY <1>2, <1>4, <1>5 DEF Items
<1>7. DOMAIN c = 1 .. Len(c) /\ DOMAIN d = 1 .. Len(c)
    BY <1>6, LenProperties DEF Alike, IsText
<1>8. \A i \in 1 .. Len(c) : AlikeTokens(c[i], d[i])
    BY <1>6 DEF Alike
<1>9. \A i \in DOMAIN c : IF i % 2 = 1 THEN IsLiteral(c[i]) ELSE c[i] = COMA
    BY <1>5 DEF IsInsert
<1>10. \A i \in DOMAIN d : IF i % 2 = 1 THEN IsLiteral(d[i]) ELSE d[i] = COMA
    BY <1>7, <1>8, <1>9, TokensAlike
<1> QED
    BY <1>1, <1>5, <1>10 DEF IsInsert

LEMMA ColumnAlike ==
    ASSUME NEW c, NEW d, Alike(c, d), IsColumn(c)
    PROVE  IsColumn(d)
<1>1. Len(d) = Len(c) /\ \A i \in 1 .. Len(c) : AlikeTokens(c[i], d[i])
    BY DEF Alike
<1>2. CASE Len(c) = 2 /\ IsType(c[1]) /\ c[1] # Type("STR") /\ IsName(c[2])
  <2>1. AlikeTokens(c[1], d[1]) /\ AlikeTokens(c[2], d[2])
      BY <1>1, <1>2
  <2> QED
      BY <1>1, <1>2, <2>1, TokensAlike DEF IsColumn
<1>3. CASE Len(c) = 3 /\ c[1] = Type("STR") /\ c[2][1] = "UInt" /\ IsName(c[3])
  <2>1. AlikeTokens(c[1], d[1]) /\ AlikeTokens(c[2], d[2]) /\ AlikeTokens(c[3], d[3])
      BY <1>1, <1>3
  <2> QED
      BY <1>1, <1>3, <2>1, TokensAlike DEF IsColumn
<1> QED
    BY <1>2, <1>3 DEF IsColumn

\* A CREATE TABLE stays one.
LEMMA TableAlike ==
    ASSUME NEW s, NEW u, Alike(s, u), IsCreateTable(s)
    PROVE  IsCreateTable(u)
<1>1. IsListOf(u, "CREATE", "TABLE") /\ IsListOf(s, "CREATE", "TABLE")
    BY ListsAlike DEF IsCreateTable
<1>2. PICK n : n = Len(s) /\ n \in Nat /\ n > 6 /\ Len(u) = n
    BY <1>1 DEF Alike, IsListOf
<1>3. \A i \in 1 .. n : AlikeTokens(s[i], u[i])
    BY <1>2 DEF Alike
<1>4. \A i \in 1 .. n : s[i] = COMA <=> u[i] = COMA
    BY <1>3, TokensAlike
<1>5. Separators(u) = Separators(s)
  <2>1. \A i \in 5 .. n - 2 : s[i] = COMA <=> u[i] = COMA
      BY <1>2, <1>4
  <2> QED
      BY <1>2, <2>1 DEF Separators
<1>6. ASSUME NEW i \in Separators(u), NEW j \in Separators(u), Neighbours(u, i, j)
      PROVE  \/ IsColumn(SubSeq(u, i + 1, j - 1))
             \/ u[i] = COMA /\ j = i + 1 /\ j = Len(u) - 1
  <2>1. i \in 4 .. n - 1 /\ j \in 4 .. n - 1 /\ i < j
      BY <1>2, <1>6 DEF Separators, Neighbours
  <2>2. Neighbours(s, i, j)
    <3>1. \A k \in i + 1 .. j - 1 : k \in 1 .. n
        BY <1>2, <2>1
    <3> QED
        BY <1>4, <1>6, <3>1 DEF Neighbours
  <2>3. \/ IsColumn(SubSeq(s, i + 1, j - 1))
        \/ s[i] = COMA /\ j = i + 1 /\ j = Len(s) - 1
      BY <1>5, <2>2 DEF IsCreateTable
  <2>4. CASE s[i] = COMA /\ j = i + 1 /\ j = Len(s) - 1
    <3>1. i \in 1 .. n
        BY <1>2, <2>1
    <3> QED
        BY <1>2, <1>4, <2>4, <3>1
  <2>5. CASE IsColumn(SubSeq(s, i + 1, j - 1))
    <3>1. j # i + 1
      <4>1. ASSUME j = i + 1 PROVE FALSE
        <5>1. j - 1 < i + 1
            BY <2>1, <4>1
        <5>2. SubSeq(s, i + 1, j - 1) = <<>>
            BY <2>1, <5>1
        <5>3. IsColumn(<<>>)
            BY <2>5, <5>2
        <5> QED
            BY <5>3 DEF IsColumn
      <4> QED
          BY <4>1
    <3>2. i + 1 \in 1 .. Len(s) /\ j - 1 \in 1 .. Len(s) /\ i + 1 <= j - 1
        BY <1>2, <2>1, <3>1
    <3>3. Alike(SubSeq(s, i + 1, j - 1), SubSeq(u, i + 1, j - 1))
        BY <3>2, PartsAlike
    <3> QED
        BY <2>5, <3>3, ColumnAlike
  <2> QED
      BY <2>3, <2>4, <2>5
<1> QED
    BY <1>1, <1>6 DEF IsCreateTable

\* A token of a condition stays at its place in it.
LEMMA ConditionAlike ==
    ASSUME NEW t, NEW v, AlikeTokens(t, v), NEW k \in Int, NEW last, InCondition(t, k, last)
    PROVE  InCondition(v, k, last)
<1>1. /\ IsSub(v) <=> IsSub(t)
      /\ IsOp(v) <=> IsOp(t)
      /\ IsLiteral(v) <=> IsLiteral(t)
      /\ v = SEMICOLON <=> t = SEMICOLON
      /\ v \in Connectives <=> t \in Connectives
    BY TokensAlike
<1>2. k % 4 = 1 \/ k % 4 = 2 \/ k % 4 = 3 \/ k % 4 = 0
    OBVIOUS
<1>3. 0 # 1 /\ 0 # 2 /\ 0 # 3 /\ 1 # 2 /\ 1 # 3 /\ 2 # 3
    OBVIOUS
<1>4. CASE k % 4 = 1
    BY <1>1, <1>3, <1>4, Zenon DEF InCondition
<1>5. CASE k % 4 = 2
    BY <1>1, <1>3, <1>5, Zenon DEF InCondition
<1>6. CASE k % 4 = 3
    BY <1>1, <1>3, <1>6, Zenon DEF InCondition
<1>7. CASE k % 4 = 0
    BY <1>1, <1>3, <1>7, Zenon DEF InCondition
<1> QED
    BY <1>2, <1>4, <1>5, <1>6, <1>7

\* A SELECT stays one.
LEMMA SelectAlike ==
    ASSUME NEW s, NEW u, Alike(s, u), IsSelect(s)
    PROVE  IsSelect(u)
<1>1. PICK n \in Nat : n = Len(s)
    BY DEF Alike
<1>2. Len(u) = n
    BY <1>1 DEF Alike
<1>3. \A i \in 1 .. n : AlikeTokens(s[i], u[i])
    BY <1>1 DEF Alike
<1>4. PICK w \in Nat :
          /\ w = WhereAt(s) /\ w > 4 /\ w < n /\ w % 2 = 1 /\ (n - w) % 4 = 0
          /\ s[1] = Kw("USING") /\ IsName(s[2]) /\ s[3] = Kw("SELECT")
          /\ \A i \in 4 .. w - 1 : IF i % 2 = 0 THEN IsSub(s[i]) ELSE s[i] = COMA
          /\ \A i \in w + 1 .. n : InCondition(s[i], i - w, i = n)
    BY <1>1, SelectPlaces, ZenonT(40)
<1>5. WhereAt(u) = w
  <2>1. \A i \in 2 .. n : i \in 1 .. n /\ i - 1 \in 1 .. n
      BY <1>2
  <2>2. \A i \in 2 .. n : /\ u[i] = Kw("WHERE") <=> s[i] = Kw("WHERE")
                          /\ IsSub(u[i - 1]) <=> IsSub(s[i - 1])
      BY <1>3, <2>1, TokensAlike
  <2>3. {i \in 2 .. Len(u) : u[i] = Kw("WHERE") /\ IsSub(u[i - 1])}
        = {i \in 2 .. Len(s) : s[i] = Kw("WHERE") /\ IsSub(s[i - 1])}
      BY <1>1, <1>2, <2>2
  <2>4. Len(u) = Len(s)
      BY <1>1, <1>2
  <2> QED
      BY <1>4, <2>3, <2>4, Zenon DEF WhereAt
<1>6. {1, 2, 3} \subseteq 1 .. n
    BY <1>2, <1>4
<1>7. u[1] = Kw("USING") /\ IsName(u[2]) /\ u[3] = Kw("SELECT")
    BY <1>3, <1>4, <1>6, TokensAlike
<1>8. \A i \in 4 .. w - 1 : IF i % 2 = 0 THEN IsSub(u[i]) ELSE u[i] = COMA
  <2>1. \A i \in 4 .. w - 1 : i \in 1 .. n
      BY <1>2, <1>4
  <2> QED
      BY <1>3, <1>4, <2>1, TokensAlike
<1>9. \A i \in w + 1 .. n : InCondition(u[i], i - w, i = n)
  <2> TAKE i \in w + 1 .. n
  <2>1. i \in 1 .. n
      BY <1>2, <1>4
  <2>2. AlikeTokens(s[i], u[i])
      BY <1>3, <2>1
  <2>3. InCondition(s[i], i - w, i = n)
      BY <1>4
  <2> QED
      BY <2>2, <2>3, ConditionAlike
<1> QED
    BY <1>1, <1>2, <1>5, <1>4, <1>7, <1>8, <1>9 DEF IsSelect

\* The short statements stay what they are.
LEMMA ShowsAlike ==
    ASSUME NEW s, NEW u, Alike(s, u)
    PROVE  /\ IsShowColumn(s) => IsShowColumn(u)
           /\ IsShowDatabases(s) => IsShowDatabases(u)
           /\ \A k \in DOMAIN Short : IsShort(s, k) => IsShort(u, k)
<1>1. Len(u) = Len(s) /\ \A i \in 1 .. Len(s) : AlikeTokens(s[i], u[i])
    BY DEF Alike
<1>2. ASSUME IsShowColumn(s) PROVE IsShowColumn(u)
  <2>1. Len(s) = 5 /\ {1, 2, 3, 4, 5} \subseteq 1 .. Len(s)
      BY <1>2 DEF IsShowColumn
  <2> QED
      BY <1>1, <1>2, <2>1, TokensAlike DEF IsShowColumn
<1>3. ASSUME IsShowDatabases(s) PROVE IsShowDatabases(u)
  <2>1. Len(s) = 3 /\ s[1] = Kw("SHOW") /\ s[2] = Kw("DATABASES") /\ s[3] = SEMICOLON
      BY <1>3 DEF IsShowDatabases
  <2>2. {1, 2, 3} \subseteq 1 .. Len(s)
      BY <2>1
  <2>3. u[1] = Kw("SHOW") /\ u[2] = Kw("DATABASES") /\ u[3] = SEMICOLON
      BY <1>1, <2>1, <2>2, TokensAlike
  <2>4. u = <<u[1], u[2], u[3]>>
    <3>1. PICK S : u \in Seq(S)
        BY DEF Alike, IsText
    <3>2. Len(u) = 3
        BY <1>1, <2>1
    <3> QED
        BY <3>1, <3>2
  <2> QED
      BY <2>3, <2>4 DEF IsShowDatabases
<1>4. ASSUME NEW k \in DOMAIN Short, IsShort(s, k) PROVE IsShort(u, k)
  <2>1. Len(s) = 4 /\ {1, 2, 3, 4} \subseteq 1 .. Len(s)
      BY <1>4 DEF IsShort
  <2> QED
      BY <1>1, <1>4, <2>1, TokensAlike DEF IsShort
<1> QED
    BY <1>2, <1>3, <1>4

\* A sentence whose numbers are limited is a sentence.
LEMMA SentenceAlike ==
    ASSUME NEW s, NEW u, Alike(s, u), Sentence(s)
    PROVE  Sentence(u)
BY InsertAlike, TableAlike, SelectAlike, ShowsAlike DEF Sentence

\* What a sentence is made of has been read.
LEMMA KnownTokens ==
    ASSUME NEW t
    PROVE  /\ (\E k : t = Kw(k)) => t[1] # "unknown"
           /\ t = COMA \/ t = SEMICOLON \/ t = OPENING_PAR \/ t = CLOSING_PAR => t[1] # "unknown"
           /\ IsName(t) \/ IsSub(t) \/ IsOp(t) \/ IsType(t) \/ IsLiteral(t) => t[1] # "unknown"
           /\ t \in Connectives => t[1] # "unknown"
BY Tags DEF COMA, SEMICOLON, OPENING_PAR, CLOSING_PAR, Connectives, IsName, IsSub, IsOp, IsType,
            IsLiteral

LEMMA ListKnown ==
    ASSUME NEW s, IsText(s), NEW k1, NEW k2, IsListOf(s, k1, k2), NEW n \in Nat, n = Len(s),
           NEW i \in 1 .. n, i \notin 5 .. n - 2
    PROVE  s[i][1] # "unknown"
<1>1. n > 6
    BY DEF IsListOf
<1>2. s[n - 1] = CLOSING_PAR /\ s[n] = SEMICOLON
    BY ListEnd DEF IsText
<1>3. i = 1 \/ i = 2 \/ i = 3 \/ i = 4 \/ i = n - 1 \/ i = n
    BY <1>1
<1>4. s[1] = Kw(k1) /\ s[2] = Kw(k2) /\ IsSub(s[3]) /\ s[4] = OPENING_PAR
    BY DEF IsListOf
<1> QED
    BY <1>2, <1>3, <1>4, KnownTokens

LEMMA SelectKnown ==
    ASSUME NEW s, IsSelect(s), NEW n \in Nat, n = Len(s), NEW i \in 1 .. n
    PROVE  s[i][1] # "unknown"
<1>1. PICK w \in Nat :
          /\ w = WhereAt(s) /\ w > 4 /\ w < n /\ w % 2 = 1 /\ (n - w) % 4 = 0
          /\ s[w] = Kw("WHERE") /\ s[1] = Kw("USING") /\ IsName(s[2]) /\ s[3] = Kw("SELECT")
          /\ \A j \in 4 .. w - 1 : IF j % 2 = 0 THEN IsSub(s[j]) ELSE s[j] = COMA
          /\ \A j \in w + 1 .. n : InCondition(s[j], j - w, j = n)
    BY SelectPlaces, ZenonT(40)
<1>2. \A j \in w + 1 .. n : ConditionPlace(s, n, j)
    BY <1>1, ConditionPlaces
<1>3. i = 1 \/ i = 2 \/ i = 3 \/ i \in 4 .. w - 1 \/ i = w \/ i \in w + 1 .. n
    BY <1>1
<1>4. CASE i = 1 \/ i = 2 \/ i = 3 \/ i = w
    BY <1>1, <1>4, KnownTokens
<1>5. CASE i \in 4 .. w - 1
  <2>1. IsSub(s[i]) \/ s[i] = COMA
      BY <1>1, <1>5
  <2> QED
      BY <2>1, KnownTokens
<1>6. CASE i \in w + 1 .. n
  <2>1. ConditionPlace(s, n, i)
      BY <1>2, <1>6
  <2>2. IsSub(s[i]) \/ IsOp(s[i]) \/ IsLiteral(s[i]) \/ s[i] = SEMICOLON \/ s[i] \in Connectives
      BY <2>1 DEF ConditionPlace
  <2> QED
      BY <2>2, KnownTokens
<1> QED
    BY <1>3, <1>4, <1>5, <1>6

\* A sentence has tokens, and no unknown ones.
LEMMA SentenceKnown ==
    ASSUME NEW s, IsText(s), Sentence(s)
    PROVE  NoUnknown(s) /\ s # <<>>
<1>1. PICK n \in Nat : n = Len(s) /\ DOMAIN s = 1 .. n
    BY LenProperties DEF IsText
<1>2. n # 0
    BY <1>1 DEF Sentence, IsInsert, IsCreateTable, IsListOf, IsShowColumn, IsShowDatabases, IsShort,
                IsSelect, WhereAt
<1>3. ASSUME NEW i \in 1 .. n PROVE s[i][1] # "unknown"
  <2>1. CASE IsInsert(s)
    <3>1. IsListOf(s, "INSERT", "INTO")
        BY <2>1 DEF IsInsert
    <3>2. CASE i \in 5 .. n - 2
      <4>1. IsLiteral(s[i]) \/ s[i] = COMA
          BY <1>1, <2>1, <3>2, InsertItems DEF IsText
      <4> QED
          BY <4>1, KnownTokens
    <3> QED
        BY <1>1, <3>1, <3>2, ListKnown
  <2>2. CASE IsCreateTable(s)
    <3>1. IsListOf(s, "CREATE", "TABLE")
        BY <2>2 DEF IsCreateTable
    <3>2. CASE i \in 5 .. n - 2
      <4>1. TablePlace(s, n, i)
          BY <1>1, <2>2, <3>2, TablePlaces DEF IsText
      <4>2. s[i] = COMA \/ IsType(s[i]) \/ s[i] = Type("STR") \/ s[i][1] = "UInt" \/ IsName(s[i])
          BY <4>1 DEF TablePlace
      <4> QED
          BY <4>2, KnownTokens, Tags
    <3> QED
        BY <1>1, <3>1, <3>2, ListKnown
  <2>3. CASE IsSelect(s)
      BY <1>1, <2>3, SelectKnown
  <2>4. CASE IsShowColumn(s)
    <3>1. n = 5 /\ (i = 1 \/ i = 2 \/ i = 3 \/ i = 4 \/ i = 5)
        BY <1>1, <2>4 DEF IsShowColumn
    <3> QED
        BY <2>4, <3>1, KnownTokens DEF IsShowColumn
  <2>5. CASE IsShowDatabases(s)
    <3>1. Len(s) = 3 /\ s[1] = Kw("SHOW") /\ s[2] = Kw("DATABASES") /\ s[3] = SEMICOLON
        BY <2>5 DEF IsShowDatabases
    <3>2. i = 1 \/ i = 2 \/ i = 3
        BY <1>1, <3>1
    <3> QED
        BY <3>1, <3>2, KnownTokens
  <2>6. ASSUME NEW k \in DOMAIN Short, IsShort(s, k) PROVE s[i][1] # "unknown"
    <3>1. n = 4 /\ (i = 1 \/ i = 2 \/ i = 3 \/ i = 4)
        BY <1>1, <2>6 DEF IsShort
    <3>2. Short[k][3] = "name" \/ Short[k][3] = "sub"
        BY DEF Short
    <3>3. s[3][1] # "unknown"
        BY <2>6, <3>2 DEF IsShort
    <3> QED
        BY <2>6, <3>1, <3>3, KnownTokens DEF IsShort
  <2> QED
      BY <2>1, <2>2, <2>3, <2>4, <2>5, <2>6 DEF Sentence
<1> QED
    BY <1>1, <1>2, <1>3 DEF NoUnknown

\* What a client means is a sequence of tokens.
LEMMA WrittenTyped ==
    ASSUME NEW q \in Queries, q.written # <<>>
    PROVE  IsText(q.written)
<1>1. IsWriting(q.parts) /\ q.written = WrittenTokens(q.parts)
    BY QueriesAssumption
<1>2. PICK U : WrittenTokens(q.parts) \in Seq(U)
    BY <1>1, WritingRead
<1> QED
    BY <1>1, <1>2, SeqOfItems DEF IsText

Writes == \E q \in Queries : written = q.written

LEMMA InitWrites == Init => Writes
BY DEF Init, Writes

LEMMA StepWrites == Writes /\ [Next]_vars => Writes'
BY DEF Writes, Next, vars, MakeExplicit, Validate, ParseQuery, GetActionStruct, To

\* For every set of queries: a sentence of the grammar, however it is written,
\* is answered with the action it means, its numbers within 64 bits.
THEOREM SentencesUnderstood == Spec => []SentencesAreUnderstood
<1>1. ASSUME Reading, Analyzing, Conveyed, Writes PROVE SentencesAreUnderstood
  <2> SUFFICES ASSUME outcome \in {"action", "error", "thrown"}, ~IsRefused(written),
                      ~HasFar(written), Meaning(written) # NoAction
               PROVE  outcome = "action" /\ variant = Meaning(Limited(written))
      BY DEF SentencesAreUnderstood
  <2>1. Sentence(written)
      BY MeaningOfShows
  <2>2. PICK q \in Queries : written = q.written
      BY <1>1 DEF Writes
  <2>3. written # <<>>
    <3>1. IsText(<<>>)
      <4>1. <<>> \in Seq({})
          OBVIOUS
      <4> QED
          BY <4>1, SeqOfItems DEF IsText
    <3> QED
        BY <2>1, <3>1, SentenceKnown
  <2>4. IsText(written)
      BY <2>2, <2>3, WrittenTyped
  <2>5. NoUnknown(written)
      BY <2>1, <2>4, SentenceKnown
  <2>6. phase = "parsed"
    <3>1. CASE phase \in {"received", "explicit"}
        BY <1>1, <3>1 DEF Conveyed
    <3>2. CASE phase = "valid"
      <4>1. ~validate(query) \/ ParseThrows(query)
          BY <1>1, <3>2 DEF Conveyed, Reading, Pending
      <4>2. PICK p \in Queries : written = p.written /\ query = Explicit(p.text)
          BY <1>1, <3>2 DEF Conveyed, FromQuery
      <4>3. /\ ReadBack(Read(p.text), written)
            /\ ~AllValid(Read(p.text)) \/ ~AllHeld(Read(p.text))
          BY <2>3, <4>1, <4>2, QueryRead
      <4> QED
          BY <2>5, <4>3 DEF ReadBack
    <3> QED
        BY <1>1, <3>1, <3>2 DEF Reading
  <2>7. in = Limited(written)
      BY <1>1, <2>3, <2>6 DEF Conveyed
  <2>8. Sentence(in)
      BY <2>1, <2>4, <2>7, LimitedAlike, SentenceAlike
  <2>9. AInv /\ Understanding /\ ChangesAreMeant /\ SelectKeepsItsConditions
      BY <1>1, <2>6, AnalyzingSafe DEF Analyzing
  <2>10. outcome = "action" /\ variant = Meaning(in)
      BY <2>8, <2>9, SentenceEnds
  <2> QED
      BY <2>7, <2>10
<1> QED
    BY <1>1, Analyzed, Conveys, InitWrites, StepWrites, PTL DEF Spec
=============================================================================
