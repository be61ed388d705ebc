---------------------------- MODULE IndexLemmas ----------------------------
(***************************************************************************)
(* Facts about natural numbers, index sets and sequences of sequences that *)
(* the proofs of several components use.                                   *)
(***************************************************************************)
EXTENDS Integers, Sequences, SequencesExt, WellFoundedInduction, TLAPS

\* A nonempty set of naturals has a least element.
LEMMA LeastNat ==
  ASSUME NEW S \in SUBSET Nat, S # {}
  PROVE  \E m \in S : \A y \in S : m <= y
<1>1. PICK m \in S : \A y \in S : ~(<<y, m>> \in OpToRel(<, Nat))
  BY NatLessThanWellFounded, WFMin
<1>2. \A y \in S : m <= y
  <2> SUFFICES ASSUME NEW y \in S, y < m PROVE FALSE
    OBVIOUS
  <2>1. <<y, m>> \in OpToRel(<, Nat)
    BY DEF OpToRel
  <2> QED BY <1>1, <2>1
<1> QED BY <1>2

\* Induction, with the property as a set of naturals.
LEMMA SetInduction ==
  ASSUME NEW S, 0 \in S, \A n \in Nat : n \in S => n + 1 \in S
  PROVE  Nat \subseteq S
<1> SUFFICES ASSUME NEW x \in Nat, x \notin S PROVE FALSE
  OBVIOUS
<1> DEFINE T == Nat \ S
<1>1. PICK m \in T : \A y \in T : m <= y
  BY LeastNat
<1>2. m # 0 /\ m - 1 \in Nat /\ m - 1 \in S
  BY <1>1
<1>3. m - 1 + 1 = m
  OBVIOUS
<1> QED BY <1>2, <1>3

\* A nonempty set of naturals has a Min.
LEMMA MinOfIndices ==
  ASSUME NEW S \in SUBSET Nat, S # {}
  PROVE  Min(S) \in S /\ \A y \in S : Min(S) <= y
<1>1. \E m \in S : \A y \in S : m <= y
  BY LeastNat
<1> QED BY <1>1 DEF Min

\* A nonempty bounded set of naturals has a Max.
LEMMA MaxOfIndices ==
  ASSUME NEW n \in Nat, NEW S \in SUBSET (0..n), S # {}
  PROVE  Max(S) \in S /\ \A y \in S : Max(S) >= y
<1> DEFINE T == {x \in Nat : n - x \in S}
<1>1. T # {}
  <2>1. PICK i \in S : TRUE
    OBVIOUS
  <2>2. n - i \in Nat /\ n - (n - i) = i
    OBVIOUS
  <2> QED BY <2>2
<1>2. PICK m \in T : \A y \in T : m <= y
  BY <1>1, LeastNat
<1>3. n - m \in S
  OBVIOUS
<1>4. \A j \in S : n - m >= j
  <2> SUFFICES ASSUME NEW j \in S PROVE n - m >= j
    OBVIOUS
  <2>1. j \in 0..n /\ n - j \in Nat /\ n - (n - j) = j
    OBVIOUS
  <2>2. m <= n - j
    BY <1>2, <2>1
  <2> QED BY <2>1, <2>2
<1> QED BY <1>3, <1>4 DEF Max

----------------------------------------------------------------------------
(* FlattenSeq, by its recursion. *)

\* What the recursion of FlattenSeq asks of the function of its first n results.
Flattens(f, seqs, n) ==
  f = [i \in 1..n |-> IF i = 1 THEN seqs[i] ELSE f[i - 1] \o seqs[i]]

\* The recursion has a solution.
LEMMA FlattenExists ==
  ASSUME NEW seqs
  PROVE  \A n \in Nat : \E f : Flattens(f, seqs, n)
<1> DEFINE S == {n \in Nat : \E f : Flattens(f, seqs, n)}
<1>1. 0 \in S
  <2> DEFINE g == [i \in 1..0 |-> seqs[i]]
  <2>1. g = [i \in 1..0 |-> IF i = 1 THEN seqs[i] ELSE g[i - 1] \o seqs[i]]
    OBVIOUS
  <2>2. Flattens(g, seqs, 0)
    BY <2>1 DEF Flattens
  <2> HIDE DEF g
  <2> QED BY <2>2
<1>2. ASSUME NEW n \in Nat, n \in S PROVE n + 1 \in S
  <2>1. PICK f : Flattens(f, seqs, n)
    BY <1>2
  <2> DEFINE g == [i \in 1..(n + 1) |->
                     IF i = n + 1 THEN IF i = 1 THEN seqs[i] ELSE f[i - 1] \o seqs[i] ELSE f[i]]
  <2>2. \A i \in 1..(n + 1) : g[i] = IF i = 1 THEN seqs[i] ELSE g[i - 1] \o seqs[i]
    <3> SUFFICES ASSUME NEW i \in 1..(n + 1)
                 PROVE  g[i] = IF i = 1 THEN seqs[i] ELSE g[i - 1] \o seqs[i]
      OBVIOUS
    <3>1. CASE i = 1 /\ n = 0
      BY <3>1
    <3>2. CASE i = 1 /\ n # 0
      <4>1. 1 \in 1..n /\ f[1] = seqs[1]
        BY <2>1, <3>2 DEF Flattens
      <4> QED BY <3>2, <4>1
    <3>3. CASE i # 1
      <4>1. i - 1 \in 1..n /\ i - 1 \in 1..(n + 1) /\ i - 1 # n + 1 /\ g[i - 1] = f[i - 1]
        BY <3>3
      <4>2. CASE i = n + 1
        <5>1. g[i] = f[i - 1] \o seqs[i]
          BY <3>3, <4>2
        <5> HIDE DEF g
        <5> QED BY <3>3, <4>1, <5>1
      <4>3. CASE i # n + 1
        <5>1. i \in 1..n /\ g[i] = f[i]
          BY <4>3
        <5>2. f[i] = f[i - 1] \o seqs[i]
          BY <2>1, <3>3, <5>1 DEF Flattens
        <5> HIDE DEF g
        <5> QED BY <3>3, <4>1, <5>1, <5>2
      <4> QED BY <4>2, <4>3
    <3> QED BY <3>1, <3>2, <3>3
  <2>3. g = [i \in 1..(n + 1) |-> g[i]]
    OBVIOUS
  <2> HIDE DEF g
  <2>4. Flattens(g, seqs, n + 1)
    BY <2>2, <2>3 DEF Flattens
  <2> QED BY <2>4
<1> HIDE DEF S
<1>3. Nat \subseteq S
  BY <1>1, <1>2, SetInduction
<1> QED BY <1>3 DEF S

\* FlattenSeq of n + 1 sequences is the last value of the recursion.
Unfolds(f, seqs, n) ==
  /\ FlattenSeq(seqs) = f[n + 1] /\ f[1] = seqs[1]
  /\ \A i \in 1..n : f[i + 1] = f[i] \o seqs[i + 1]

LEMMA FlattenUnfold ==
  ASSUME NEW seqs, NEW n \in Nat, Len(seqs) = n + 1
  PROVE  \E f : Unfolds(f, seqs, n)
<1> DEFINE f == CHOOSE g : Flattens(g, seqs, n + 1)
<1>1. Flattens(f, seqs, n + 1)
  BY FlattenExists
<1>2. FlattenSeq(seqs) = f[n + 1]
  <2>1. Len(seqs) # 0
    OBVIOUS
  <2> QED BY <2>1 DEF FlattenSeq, Flattens
<1> HIDE DEF f
<1>3. \A k \in 1..(n + 1) : f[k] = IF k = 1 THEN seqs[k] ELSE f[k - 1] \o seqs[k]
  BY <1>1 DEF Flattens
<1>4. f[1] = seqs[1]
  BY <1>3
<1>5. ASSUME NEW i \in 1..n PROVE f[i + 1] = f[i] \o seqs[i + 1]
  <2> DEFINE Join(j, k) == f[j] \o seqs[k]
  <2>1. \A k \in 1..(n + 1) : f[k] = IF k = 1 THEN seqs[k] ELSE Join(k - 1, k)
    BY <1>3
  <2> HIDE DEF Join
  <2>2. i + 1 \in 1..(n + 1) /\ i + 1 # 1 /\ i + 1 - 1 = i
    OBVIOUS
  <2>3. f[i + 1] = Join(i, i + 1)
    BY <2>1, <2>2
  <2> QED BY <2>3 DEF Join
<1> QED BY <1>2, <1>4, <1>5 DEF Unfolds

\* Concatenation is associative.
Associative(B) == \A a, b, c \in Seq(B) : (a \o b) \o c = a \o (b \o c)

LEMMA Associates == \A B : Associative(B)
  BY DEF Associative

\* Every value of the recursion is a sequence of the elements' elements.
LEMMA FlattenTypes ==
  ASSUME NEW B, NEW n \in Nat, NEW seqs \in Seq(Seq(B)), Len(seqs) = n + 1,
         NEW f, Unfolds(f, seqs, n)
  PROVE  \A i \in 1..(n + 1) : f[i] \in Seq(B)
<1> DEFINE S == {k \in Nat : k <= n => f[k + 1] \in Seq(B)}
<1>1. \A i \in 1..(n + 1) : seqs[i] \in Seq(B)
  OBVIOUS
<1>2. 0 \in S
  BY <1>1 DEF Unfolds
<1>3. ASSUME NEW k \in Nat, k \in S PROVE k + 1 \in S
  <2> SUFFICES ASSUME k + 1 <= n PROVE f[k + 1 + 1] \in Seq(B)
    OBVIOUS
  <2>1. k + 1 \in 1..n /\ k + 1 + 1 \in 1..(n + 1) /\ k <= n
    OBVIOUS
  <2>2. f[k + 1] \in Seq(B)
    BY <1>3, <2>1
  <2>3. f[k + 1 + 1] = f[k + 1] \o seqs[k + 1 + 1]
    BY <2>1 DEF Unfolds
  <2>4. seqs[k + 1 + 1] \in Seq(B)
    BY <1>1, <2>1
  <2> QED BY <2>2, <2>3, <2>4
<1> HIDE DEF S
<1>4. Nat \subseteq S
  BY <1>2, <1>3, SetInduction
<1>5. ASSUME NEW i \in 1..(n + 1) PROVE f[i] \in Seq(B)
  <2>1. i - 1 \in Nat /\ i - 1 <= n /\ i - 1 + 1 = i
    OBVIOUS
  <2>2. f[i - 1 + 1] \in Seq(B)
    BY <1>4, <2>1 DEF S
  <2> QED BY <2>1, <2>2
<1> QED BY <1>5

\* FlattenSeq of a concatenation.
LEMMA FlattenConcat ==
  ASSUME NEW B, NEW s \in Seq(Seq(B)), NEW t \in Seq(Seq(B)), s # <<>>, t # <<>>
  PROVE  /\ FlattenSeq(s \o t) = FlattenSeq(s) \o FlattenSeq(t)
         /\ FlattenSeq(s) \in Seq(B) /\ FlattenSeq(t) \in Seq(B) /\ FlattenSeq(s \o t) \in Seq(B)
<1> DEFINE n == Len(s) - 1
           m == Len(t) - 1
           u == s \o t
<1>1. /\ n \in Nat /\ m \in Nat /\ u \in Seq(Seq(B))
      /\ Len(s) = n + 1 /\ Len(t) = m + 1 /\ Len(u) = (n + m + 1) + 1
  OBVIOUS
<1>2. /\ \A i \in 1..(n + 1) : u[i] = s[i] /\ s[i] \in Seq(B)
      /\ \A j \in 1..(m + 1) : u[n + 1 + j] = t[j] /\ t[j] \in Seq(B)
  OBVIOUS
<1> HIDE DEF n, m, u
<1>3. PICK f : Unfolds(f, s, n)
  BY <1>1, FlattenUnfold
<1>4. PICK g : Unfolds(g, t, m)
  BY <1>1, FlattenUnfold
<1>5. PICK h : Unfolds(h, u, n + m + 1)
  <2>1. n + m + 1 \in Nat
    BY <1>1
  <2> QED BY <1>1, <2>1, FlattenUnfold
<1>6. /\ \A i \in 1..(n + 1) : f[i] \in Seq(B)
      /\ \A i \in 1..(m + 1) : g[i] \in Seq(B)
  <2>1. \A i \in 1..(n + 1) : f[i] \in Seq(B)
    BY <1>1, <1>3, FlattenTypes
  <2>2. \A i \in 1..(m + 1) : g[i] \in Seq(B)
    BY <1>1, <1>4, FlattenTypes
  <2> QED BY <2>1, <2>2
<1>7. \A k \in Nat : k <= n => h[k + 1] = f[k + 1]
  <2> DEFINE S == {k \in Nat : k <= n => h[k + 1] = f[k + 1]}
  <2>1. 0 \in S
    BY <1>1, <1>2, <1>3, <1>5 DEF Unfolds
  <2>2. ASSUME NEW k \in Nat, k \in S PROVE k + 1 \in S
    <3> SUFFICES ASSUME k + 1 <= n PROVE h[k + 1 + 1] = f[k + 1 + 1]
      OBVIOUS
    <3>1. k + 1 \in 1..n /\ k + 1 \in 1..(n + m + 1) /\ k + 1 + 1 \in 1..(n + 1) /\ k <= n
      BY <1>1
    <3>2. h[k + 1 + 1] = h[k + 1] \o u[k + 1 + 1]
      BY <1>5, <3>1 DEF Unfolds
    <3>3. f[k + 1 + 1] = f[k + 1] \o s[k + 1 + 1]
      BY <1>3, <3>1 DEF Unfolds
    <3>4. h[k + 1] = f[k + 1] /\ u[k + 1 + 1] = s[k + 1 + 1]
      BY <1>2, <2>2, <3>1
    <3> QED BY <3>2, <3>3, <3>4
  <2> HIDE DEF S
  <2>3. Nat \subseteq S
    BY <2>1, <2>2, SetInduction
  <2> QED BY <2>3 DEF S
<1> DEFINE all == f[n + 1]
<1>8. all \in Seq(B) /\ h[n + 1] = all
  BY <1>1, <1>6, <1>7
<1>9. \A k \in Nat : k <= m => h[n + 1 + (k + 1)] = all \o g[k + 1]
  <2> DEFINE S == {k \in Nat : k <= m => h[n + 1 + (k + 1)] = all \o g[k + 1]}
  <2> HIDE DEF all
  <2>1. 0 \in S
    <3>1. n + 1 \in 1..(n + m + 1) /\ 1 \in 1..(m + 1) /\ n + 1 + (0 + 1) = n + 1 + 1 /\ 0 + 1 = 1
      BY <1>1
    <3>2. h[n + 1 + 1] = h[n + 1] \o u[n + 1 + 1]
      BY <1>5, <3>1 DEF Unfolds
    <3>3. u[n + 1 + 1] = t[1]
      BY <1>2, <3>1
    <3> QED BY <1>4, <1>8, <3>1, <3>2, <3>3 DEF Unfolds
  <2>2. ASSUME NEW k \in Nat, k \in S PROVE k + 1 \in S
    <3> SUFFICES ASSUME k + 1 <= m PROVE h[n + 1 + (k + 1 + 1)] = all \o g[k + 1 + 1]
      OBVIOUS
    <3> DEFINE j == n + 1 + (k + 1)
    <3>1. /\ k + 1 \in 1..m /\ k + 1 + 1 \in 1..(m + 1) /\ k + 1 \in 1..(m + 1) /\ k <= m
          /\ j \in 1..(n + m + 1) /\ n + 1 + (k + 1 + 1) = j + 1
      BY <1>1
    <3>2. h[j] = all \o g[k + 1]
      BY <2>2, <3>1
    <3> HIDE DEF j
    <3>3. h[j + 1] = h[j] \o u[j + 1]
      BY <1>5, <3>1 DEF Unfolds
    <3>4. u[j + 1] = t[k + 1 + 1] /\ t[k + 1 + 1] \in Seq(B)
      BY <1>2, <3>1
    <3>5. g[k + 1 + 1] = g[k + 1] \o t[k + 1 + 1]
      BY <1>4, <3>1 DEF Unfolds
    <3>6. g[k + 1] \in Seq(B)
      BY <1>6, <3>1
    <3>7. (all \o g[k + 1]) \o t[k + 1 + 1] = all \o (g[k + 1] \o t[k + 1 + 1])
      <4> DEFINE x == g[k + 1]
                 y == t[k + 1 + 1]
      <4>1. x \in Seq(B) /\ y \in Seq(B) /\ all \in Seq(B)
        BY <1>8, <3>4, <3>6
      <4> HIDE DEF x, y
      <4>2. Associative(B)
        BY Associates
      <4>3. (all \o x) \o y = all \o (x \o y)
        BY <4>1, <4>2, Zenon DEF Associative
      <4> QED BY <4>3 DEF x, y
    <3> QED BY <3>1, <3>2, <3>3, <3>4, <3>5, <3>7
  <2> HIDE DEF S
  <2>3. Nat \subseteq S
    BY <2>1, <2>2, SetInduction
  <2> QED BY <2>3 DEF S
<1>10. h[n + m + 1 + 1] = all \o g[m + 1] /\ g[m + 1] \in Seq(B)
  <2>1. m \in Nat /\ m <= m /\ n + 1 + (m + 1) = n + m + 1 + 1 /\ m + 1 \in 1..(m + 1)
    BY <1>1
  <2> HIDE DEF all
  <2> QED BY <1>6, <1>9, <2>1
<1> QED BY <1>3, <1>4, <1>5, <1>8, <1>10 DEF u, Unfolds

----------------------------------------------------------------------------
(* Sequences whose elements have no type of their own. *)

\* s is a sequence of n elements.
SeqOfLen(s, n) == n \in Nat /\ s = [i \in 1..n |-> s[i]]

LEMMA SeqOfElements ==
  ASSUME NEW S, NEW s, NEW n, SeqOfLen(s, n), \A i \in 1..n : s[i] \in S
  PROVE  s \in Seq(S) /\ Len(s) = n
  BY DEF SeqOfLen

LEMMA SeqOfEqual ==
  ASSUME NEW s, NEW t, NEW n, SeqOfLen(s, n), SeqOfLen(t, n), \A i \in 1..n : s[i] = t[i]
  PROVE  s = t
<1>1. s = [i \in 1..n |-> s[i]] /\ t = [i \in 1..n |-> t[i]]
  BY DEF SeqOfLen
<1>2. [i \in 1..n |-> s[i]] = [i \in 1..n |-> t[i]]
  OBVIOUS
<1> QED BY <1>1, <1>2, Zenon

\* Where the elements of a concatenation come from.
JoinOf(u, s, n, t, m) ==
  /\ SeqOfLen(u, n + m)
  /\ \A i \in 1..n : u[i] = s[i]
  /\ \A i \in 1..m : u[n + i] = t[i]

LEMMA Joined ==
  ASSUME NEW s, NEW t, NEW n, NEW m, SeqOfLen(s, n), SeqOfLen(t, m)
  PROVE  JoinOf(s \o t, s, n, t, m)
<1> DEFINE S == {s[i] : i \in 1..n} \cup {t[i] : i \in 1..m}
<1>1. n \in Nat /\ m \in Nat
  BY DEF SeqOfLen
<1>2. s \in Seq(S) /\ Len(s) = n
  <2>1. \A i \in 1..n : s[i] \in S
    OBVIOUS
  <2> HIDE DEF S
  <2> QED BY <2>1, SeqOfElements
<1>3. t \in Seq(S) /\ Len(t) = m
  <2>1. \A i \in 1..m : t[i] \in S
    OBVIOUS
  <2> HIDE DEF S
  <2> QED BY <2>1, SeqOfElements
<1> HIDE DEF S
<1>4. s \o t \in Seq(S) /\ Len(s \o t) = n + m
  BY <1>2, <1>3
<1>5. /\ \A i \in 1..n : (s \o t)[i] = s[i]
      /\ \A i \in 1..m : (s \o t)[n + i] = t[i]
  BY <1>1, <1>2, <1>3
<1>6. SeqOfLen(s \o t, n + m)
  <2> DEFINE u == s \o t
  <2>1. u \in Seq(S) /\ Len(u) = n + m
    BY <1>4
  <2> HIDE DEF u
  <2>2. u = [i \in 1..(n + m) |-> u[i]] /\ n + m \in Nat
    BY <1>1, <2>1
  <2> QED BY <2>2 DEF SeqOfLen, u
<1> QED BY <1>5, <1>6 DEF JoinOf

\* Its length.
LEMMA LengthOf == \A s, n : SeqOfLen(s, n) => Len(s) = n /\ DOMAIN s = 1..n
  BY DEF SeqOfLen

\* A sequence with its elements in S.
AllIn(s, n, S) == \A i \in 1..n : s[i] \in S

LEMMA SeqTyped == \A s, n, S : SeqOfLen(s, n) /\ AllIn(s, n, S) => s \in Seq(S) /\ Len(s) = n
<1> SUFFICES ASSUME NEW s, NEW n, NEW S, SeqOfLen(s, n), AllIn(s, n, S)
             PROVE  s \in Seq(S) /\ Len(s) = n
  OBVIOUS
<1>1. \A i \in 1..n : s[i] \in S
  BY DEF AllIn
<1> QED BY <1>1, SeqOfElements

\* c is elements off + 1 to off + n of D.
SliceOf(c, D, off, n) ==
  SeqOfLen(c, n) /\ n > 0 /\ \A i \in 1..n : c[i] = D[off + i]

\* x is the first n elements of D, joined.
FlatOf(x, D, n) == \E u : SliceOf(u, D, 0, n) /\ x = FlattenSeq(u)

LEMMA SliceTyped ==
  ASSUME NEW B, NEW D \in Seq(Seq(B)), NEW off \in Nat, NEW c, NEW n, SliceOf(c, D, off, n), off + n <= Len(D)
  PROVE  c \in Seq(Seq(B)) /\ c # <<>>
<1>1. n \in Nat /\ n > 0 /\ SeqOfLen(c, n) /\ \A i \in 1..n : c[i] = D[off + i]
  BY DEF SliceOf, SeqOfLen
<1>2. \A i \in 1..n : off + i \in 1..Len(D)
  BY <1>1
<1>3. \A i \in 1..n : c[i] \in Seq(B)
  <2>1. \A j \in 1..Len(D) : D[j] \in Seq(B)
    OBVIOUS
  <2> QED BY <1>1, <1>2, <2>1, Zenon
<1>4. c \in Seq(Seq(B)) /\ Len(c) = n
  BY <1>1, <1>3, SeqOfElements
<1> QED BY <1>1, <1>4

\* A slice that begins where the joined part ends extends it.
LEMMA FlatExtends ==
  ASSUME NEW B, NEW D \in Seq(Seq(B)), NEW x, NEW n, NEW c, NEW m,
         FlatOf(x, D, n), SliceOf(c, D, n, m), n + m <= Len(D)
  PROVE  FlatOf(x \o FlattenSeq(c), D, n + m)
<1>1. PICK u : SliceOf(u, D, 0, n) /\ x = FlattenSeq(u)
  BY DEF FlatOf
<1>2. n \in Nat /\ m \in Nat /\ n > 0 /\ m > 0 /\ SeqOfLen(u, n) /\ SeqOfLen(c, m)
  BY <1>1 DEF SliceOf, SeqOfLen
<1>3. u \in Seq(Seq(B)) /\ u # <<>>
  <2>1. 0 \in Nat /\ 0 + n <= Len(D)
    BY <1>2
  <2> QED BY <1>1, <2>1, SliceTyped
<1>4. c \in Seq(Seq(B)) /\ c # <<>>
  BY <1>2, SliceTyped
<1>5. FlattenSeq(u \o c) = FlattenSeq(u) \o FlattenSeq(c)
  BY <1>3, <1>4, FlattenConcat
<1> DEFINE w == u \o c
<1>6. JoinOf(w, u, n, c, m)
  BY <1>2, Joined
<1> HIDE DEF w
<1>7. SliceOf(w, D, 0, n + m)
  <2>1. SeqOfLen(w, n + m) /\ n + m > 0
    BY <1>2, <1>6 DEF JoinOf
  <2>2. ASSUME NEW i \in 1..(n + m) PROVE w[i] = D[0 + i]
    <3>1. CASE i <= n
      <4>1. i \in 1..n
        BY <1>2, <3>1
      <4> QED BY <1>1, <1>6, <4>1 DEF JoinOf, SliceOf
    <3>2. CASE i > n
      <4> DEFINE k == i - n
      <4>1. k \in 1..m /\ n + k = i /\ 0 + i = i
        BY <1>2, <3>2
      <4> HIDE DEF k
      <4>2. w[n + k] = c[k] /\ c[k] = D[n + k]
        BY <1>6, <4>1 DEF JoinOf, SliceOf
      <4> QED BY <4>1, <4>2
    <3> QED BY <1>2, <3>1, <3>2
  <2> QED BY <2>1, <2>2 DEF SliceOf
<1>8. x \o FlattenSeq(c) = FlattenSeq(w)
  BY <1>1, <1>5, Zenon DEF w
<1> QED BY <1>7, <1>8, Zenon DEF FlatOf

LEMMA FlatOfAll ==
  ASSUME NEW D, NEW n, NEW x, SeqOfLen(D, n), FlatOf(x, D, n)
  PROVE  x = FlattenSeq(D)
<1>1. PICK u : SliceOf(u, D, 0, n) /\ x = FlattenSeq(u)
  BY DEF FlatOf
<1>2. \A i \in 1..n : u[i] = D[i]
  <2>1. \A i \in 1..n : u[i] = D[0 + i] /\ 0 + i = i
    BY <1>1 DEF SliceOf
  <2> QED BY <2>1
<1>3. u = D
  <2>1. SeqOfLen(u, n)
    BY <1>1 DEF SliceOf
  <2> QED BY <1>2, <2>1, SeqOfEqual, Zenon
<1> QED BY <1>1, <1>3

\* A sequence of one element is that element.
LEMMA FlattenOne == \A a : FlattenSeq(<<a>>) = a
<1> SUFFICES ASSUME NEW a PROVE FlattenSeq(<<a>>) = a
  OBVIOUS
<1> DEFINE s == <<a>>
<1>1. Len(s) = 0 + 1 /\ s[1] = a /\ 0 \in Nat
  OBVIOUS
<1> HIDE DEF s
<1>2. PICK f : Unfolds(f, s, 0)
  BY <1>1, FlattenUnfold
<1>3. FlattenSeq(s) = f[0 + 1] /\ f[1] = s[1]
  BY <1>2 DEF Unfolds
<1>4. 0 + 1 = 1
  OBVIOUS
<1> QED BY <1>1, <1>3, <1>4 DEF s
============================================================================
