---------------------------- MODULE SequenceLemmas ----------------------------
(***************************************************************************)
(* Lemmas about numbers and sequences that the proofs of several modules   *)
(* need.                                                                   *)
(***************************************************************************)
EXTENDS Integers, SequencesExt, TLAPS, SequenceTheorems, FiniteSetTheorems, WellFoundedInduction

\* Induction over the natural numbers, by a set.
LEMMA LeastElement ==
  ASSUME NEW T \in SUBSET Nat, T # {}
  PROVE  \E m \in T : \A k \in T : m <= k
<1> DEFINE R == OpToRel(<, Nat)
<1>1. IsWellFoundedOn(R, Nat)
  BY NatLessThanWellFounded, Zenon
<1>2. \A x, y \in Nat : x < y => <<x, y>> \in R
  BY Zenon DEF OpToRel
<1> HIDE DEF R
<1>3. PICK m \in T : \A k \in T : ~(<<k, m>> \in R)
  BY <1>1, WFMin
<1>4. \A k \in T : ~(k < m)
  BY <1>2, <1>3
<1> QED
  BY <1>3, <1>4

\* SubSeq, with all indices inside.
LEMMA Part ==
  ASSUME NEW S, NEW s \in Seq(S), NEW m \in 1 .. Len(s) + 1, NEW n \in 0 .. Len(s), m <= n + 1
  PROVE  /\ SubSeq(s, m, n) \in Seq(S)
         /\ Len(SubSeq(s, m, n)) = n - m + 1
         /\ \A j \in 1 .. n - m + 1 : SubSeq(s, m, n)[j] = s[m + j - 1]
<1>1. Len(s) \in Nat
  BY LenProperties
<1>2. \A j \in m .. n : s[j] \in S
  BY <1>1, ElementOfSeq
<1>3. Len(SubSeq(s, m, n)) = IF m <= n THEN n - m + 1 ELSE 0
  BY <1>2, SubSeqProperties
<1>4. SubSeq(s, m, n) \in Seq(S)
  BY <1>2, SubSeqProperties
<1>5. \A j \in 1 .. n - m + 1 : SubSeq(s, m, n)[j] = s[m + j - 1]
  BY <1>2, SubSeqProperties
<1> QED
  BY <1>1, <1>3, <1>4, <1>5

\* A stack without its top.
LEMMA FrontProperties ==
  ASSUME NEW S, NEW s \in Seq(S), s # <<>>
  PROVE  /\ Len(s) \in Nat \ {0}
         /\ Last(s) = s[Len(s)] /\ Last(s) \in S
         /\ Front(s) \in Seq(S)
         /\ Len(Front(s)) = Len(s) - 1
         /\ \A i \in 1 .. Len(s) - 1 : Front(s)[i] = s[i]
<1>1. Len(s) \in Nat \ {0}
  BY EmptySeq
<1>2. Last(s) \in S /\ Last(s) = s[Len(s)]
  BY <1>1, ElementOfSeq DEF Last
<1> DEFINE f == SubSeq(s, 1, Len(s) - 1)
<1>3. /\ f \in Seq(S) /\ Len(f) = Len(s) - 1 - 1 + 1
      /\ \A i \in 1 .. Len(s) - 1 - 1 + 1 : f[i] = s[1 + i - 1]
  <2>1. 1 \in 1 .. Len(s) + 1 /\ Len(s) - 1 \in 0 .. Len(s) /\ 1 <= Len(s) - 1 + 1
    BY <1>1
  <2> QED
    BY <2>1, Part, Zenon
<1>4. Front(s) = f
  BY DEF Front
<1> HIDE DEF f
<1> QED
  BY <1>1, <1>2, <1>3, <1>4

\* The sequences bs after xs is appended to the b-th.
Extend(bs, b, xs) == [bs EXCEPT ![b] = @ \o xs]

IsExtension(ext, bs, b, xs) ==
  /\ Len(ext) = Len(bs)
  /\ Len(bs[b]) \in Nat /\ Len(ext[b]) = Len(bs[b]) + Len(xs)
  /\ \A c \in 1 .. Len(bs) : c # b => ext[c] = bs[c]
  /\ \A k \in 1 .. Len(bs[b]) : ext[b][k] = bs[b][k]
  /\ \A k \in 1 .. Len(xs) : ext[b][Len(bs[b]) + k] = xs[k]

LEMMA Extended ==
  ASSUME NEW S, NEW bs \in Seq(Seq(S)), NEW b \in 1 .. Len(bs), NEW xs \in Seq(S)
  PROVE  /\ Extend(bs, b, xs) \in Seq(Seq(S))
         /\ IsExtension(Extend(bs, b, xs), bs, b, xs)
<1> DEFINE m   == Len(bs[b])
           cat == bs[b] \o xs
           ext == [bs EXCEPT ![b] = cat]
<1>1. bs[b] \in Seq(S)
  BY ElementOfSeq
<1>2. m \in Nat /\ Len(xs) \in Nat
  BY <1>1, LenProperties
<1>3. /\ cat \in Seq(S) /\ Len(cat) = m + Len(xs)
      /\ \A k \in 1 .. m + Len(xs) : cat[k] = IF k <= m THEN bs[b][k] ELSE xs[k - m]
  BY <1>1, ConcatProperties
<1> HIDE DEF cat
<1>4. /\ ext \in Seq(Seq(S)) /\ Len(ext) = Len(bs)
      /\ ext[b] = cat /\ \A c \in 1 .. Len(bs) : c # b => ext[c] = bs[c]
  <2> DEFINE T == Seq(S)
  <2>1. bs \in Seq(T) /\ cat \in T
    BY <1>3
  <2> HIDE DEF T
  <2>2. /\ ext \in Seq(T) /\ Len(ext) = Len(bs)
        /\ \A c \in 1 .. Len(bs) : ext[c] = IF c = b THEN cat ELSE bs[c]
    BY <2>1, ExceptSeq
  <2> QED
    BY <2>2 DEF T
<1> HIDE DEF ext
<1>5. ASSUME NEW k \in 1 .. m PROVE cat[k] = bs[b][k]
  <2>1. k \in 1 .. m + Len(xs) /\ k <= m
    BY <1>2
  <2> QED
    BY <1>3, <2>1
<1>6. ASSUME NEW k \in 1 .. Len(xs) PROVE cat[m + k] = xs[k]
  <2>1. m + k \in 1 .. m + Len(xs) /\ ~(m + k <= m) /\ (m + k) - m = k
    BY <1>2
  <2> QED
    BY <1>3, <2>1
<1>7. ext = Extend(bs, b, xs)
  BY DEF Extend, ext, cat
<1>8. IsExtension(ext, bs, b, xs)
  BY <1>2, <1>3, <1>4, <1>5, <1>6 DEF IsExtension
<1> QED
  BY <1>4, <1>7, <1>8

\* Nothing but x is new in ext.
AddsOnly(ext, bs, x) ==
  \A c \in 1 .. Len(bs) : \A k \in 1 .. Len(ext[c]) :
    \/ k \in 1 .. Len(bs[c]) /\ ext[c][k] = bs[c][k]
    \/ ext[c][k] = x

LEMMA ExtendedByOne ==
  ASSUME NEW ext, NEW bs, NEW b, NEW xs, IsExtension(ext, bs, b, xs), Len(xs) = 1
  PROVE  AddsOnly(ext, bs, xs[1])
<1> DEFINE m == Len(bs[b])
<1>1. m \in Nat /\ Len(ext[b]) = m + 1 /\ \A c \in 1 .. Len(bs) : c # b => ext[c] = bs[c]
  BY DEF IsExtension
<1>2. (\A k \in 1 .. m : ext[b][k] = bs[b][k]) /\ ext[b][m + 1] = xs[1]
  BY DEF IsExtension
<1> SUFFICES ASSUME NEW c \in 1 .. Len(bs), NEW k \in 1 .. Len(ext[c])
             PROVE  \/ k \in 1 .. Len(bs[c]) /\ ext[c][k] = bs[c][k]
                    \/ ext[c][k] = xs[1]
  BY DEF AddsOnly
<1>3. CASE c # b
  BY <1>1, <1>3
<1>4. CASE c = b
  <2>1. k \in 1 .. m + 1 /\ Len(bs[c]) = m
    BY <1>1, <1>4
  <2> HIDE DEF m
  <2>2. k \in 1 .. m \/ k = m + 1
    BY <1>1, <2>1
  <2> QED
    BY <1>2, <1>4, <2>1, <2>2
<1> QED
  BY <1>3, <1>4

\* A function on the first n numbers is a sequence.
LEMMA Listed ==
  ASSUME NEW S, NEW n \in Nat, NEW f \in [1 .. n -> S]
  PROVE  f \in Seq(S) /\ Len(f) = n
<1>1. f \in Seq(S)
  BY SeqDef
<1>2. DOMAIN f = 1 .. n /\ DOMAIN f = 1 .. Len(f) /\ Len(f) \in Nat
  BY <1>1, LenProperties
<1> QED
  BY <1>1, <1>2

LEMMA Reversed ==
  ASSUME NEW S, NEW s \in Seq(S)
  PROVE  /\ Reverse(s) \in Seq(S)
         /\ Len(Reverse(s)) = Len(s)
         /\ \A i \in 1 .. Len(s) : Reverse(s)[i] = s[Len(s) - i + 1]
<1>1. Len(s) \in Nat
  BY LenProperties
<1>2. Reverse(s) = [i \in 1 .. Len(s) |-> s[(Len(s) - i) + 1]]
  BY DEF Reverse
<1>3. \A i \in 1 .. Len(s) : s[(Len(s) - i) + 1] \in S
  <2>1. \A i \in 1 .. Len(s) : (Len(s) - i) + 1 \in 1 .. Len(s)
    BY <1>1
  <2> QED
    BY <2>1, ElementOfSeq
<1>4. Reverse(s) \in [1 .. Len(s) -> S]
  BY <1>2, <1>3
<1> QED
  BY <1>1, <1>2, <1>4, Listed

\* The greatest of the numbers up to n that are in T.
LEMMA GreatestElement ==
  ASSUME NEW n \in Nat, NEW T \in SUBSET (1 .. n), T # {}
  PROVE  \E m \in T : \A k \in T : k <= m
<1> DEFINE U == {k \in Nat : n - k \in T}
<1>1. U \in SUBSET Nat
  OBVIOUS
<1>2. U # {}
  <2>1. PICK t \in T : TRUE
    OBVIOUS
  <2>2. n - t \in Nat /\ n - (n - t) = t
    BY <2>1
  <2>3. n - t \in U
    BY <2>1, <2>2
  <2> QED
    BY <2>3
<1>3. PICK u \in U : \A k \in U : u <= k
  BY <1>1, <1>2, LeastElement
<1>4. ASSUME NEW k \in T PROVE k <= n - u
  <2>1. n - k \in Nat /\ n - (n - k) = k
    OBVIOUS
  <2>2. n - k \in U
    BY <2>1
  <2>3. u <= n - k
    BY <1>3, <2>2
  <2> QED
    BY <1>3, <2>1, <2>3
<1> QED
  BY <1>3, <1>4

LEMMA LeastOfTwo ==
  ASSUME NEW a \in Nat, NEW b \in Nat
  PROVE  Min({a, b}) = IF a <= b THEN a ELSE b
<1>1. \E x \in {a, b} : \A y \in {a, b} : x <= y
  OBVIOUS
<1>2. Min({a, b}) \in {a, b} /\ \A y \in {a, b} : Min({a, b}) <= y
  BY <1>1, Zenon DEF Min
<1> QED
  BY <1>2

\* A function by recursion whose argument grows until it is n or more.
IsRecursion(f, ends, A, J) == f = [i \in Nat |-> IF i \in ends THEN A[i] ELSE f[J[i]]]

LEMMA Recursion ==
  ASSUME NEW R, NEW n \in Nat, NEW ends \in SUBSET Nat, NEW A \in [Nat -> R],
         NEW J \in [Nat -> Nat], \A i \in Nat : i \notin ends => i < n /\ i < J[i]
  PROVE  \E f \in [Nat -> R] : IsRecursion(f, ends, A, J)
<1> DEFINE To(f, i)  == IF i \in ends THEN A[i] ELSE f[J[i]]
           Is(f, m)  == f \in [Nat -> R] /\ \A i \in Nat : n <= i + m => f[i] = To(f, i)
           T == {m \in Nat : ~\E f : Is(f, m)}
<1>1. T = {}
  <2> SUFFICES ASSUME T # {} PROVE FALSE
    OBVIOUS
  <2>1. T \in SUBSET Nat
    OBVIOUS
  <2>2. PICK m \in T : \A k \in T : m <= k
    BY <2>1, LeastElement
  <2>3. m # 0
    <3>1. Is(A, 0)
      OBVIOUS
    <3> QED
      BY <3>1
  <2>4. m \in Nat /\ m - 1 \in Nat /\ m - 1 \notin T
    <3> HIDE DEF T
    <3>1. m \in Nat /\ m - 1 \in Nat
      BY <2>1, <2>3
    <3> QED
      BY <2>2, <3>1
  <2>5. PICK f : Is(f, m - 1)
    BY <2>4
  <2> DEFINE g == [i \in Nat |-> IF i + m = n THEN To(f, i) ELSE f[i]]
  <2>6. g \in [Nat -> R]
    BY <2>5
  <2>7. \A i \in Nat : n <= i + (m - 1) => g[i] = f[i]
    BY <2>4
  <2>8. ASSUME NEW i \in Nat, n <= i + m PROVE g[i] = To(g, i)
    <3>1. g[i] = To(f, i)
      <4>1. CASE i + m = n
        BY <4>1
      <4>2. CASE i + m # n
        <5>1. n <= i + (m - 1)
          BY <2>4, <2>8, <4>2
        <5> QED
          BY <2>5, <2>7, <5>1
      <4> QED
        BY <4>1, <4>2
    <3>2. i \notin ends => J[i] \in Nat /\ n <= J[i] + (m - 1)
      BY <2>4, <2>8
    <3>3. i \notin ends => g[J[i]] = f[J[i]]
      BY <2>7, <3>2
    <3> QED
      BY <3>1, <3>3
  <2>9. Is(g, m)
    BY <2>6, <2>8
  <2> QED
    BY <2>2, <2>9
<1>2. PICK f : Is(f, n)
  BY <1>1
<1>3. \A i \in Nat : f[i] = To(f, i)
  BY <1>2
<1>4. f = [i \in Nat |-> To(f, i)]
  BY <1>2, <1>3
<1> QED
  BY <1>2, <1>4 DEF IsRecursion

\* A function on 0 .. n by recursion.
IsIteration(f, n, x, G) == f = [i \in 0 .. n |-> IF i = 0 THEN x ELSE G[<<i, f[i - 1]>>]]

LEMMA Iterated ==
  ASSUME NEW S, NEW x \in S, NEW n \in Nat, NEW G \in [(0 .. n) \X S -> S]
  PROVE  \E f \in [0 .. n -> S] : IsIteration(f, n, x, G)
<1> DEFINE Is(f, m) == /\ f \in [0 .. m -> S] /\ f[0] = x
                       /\ \A i \in 1 .. m : f[i] = G[<<i, f[i - 1]>>]
           T == {m \in 0 .. n : ~\E f : Is(f, m)}
<1>1. T = {}
  <2> SUFFICES ASSUME T # {} PROVE FALSE
    OBVIOUS
  <2>1. T \in SUBSET Nat
    OBVIOUS
  <2>2. PICK m \in T : \A k \in T : m <= k
    BY <2>1, LeastElement
  <2>3. m # 0
    <3> DEFINE f == [i \in 0 .. 0 |-> x]
    <3>1. Is(f, 0)
      OBVIOUS
    <3> QED
      BY <3>1
  <2>4. m - 1 \in 0 .. n /\ m - 1 \notin T /\ m \in 1 .. n
    BY <2>2, <2>3
  <2>5. PICK f : Is(f, m - 1)
    BY <2>4
  <2> DEFINE g == [i \in 0 .. m |-> IF i = m THEN G[<<m, f[m - 1]>>] ELSE f[i]]
  <2>6. f[m - 1] \in S
    BY <2>4, <2>5
  <2>7. G[<<m, f[m - 1]>>] \in S
    BY <2>4, <2>6
  <2>8. g \in [0 .. m -> S]
    BY <2>4, <2>5, <2>7
  <2>9. \A i \in 0 .. m - 1 : g[i] = f[i]
    BY <2>4
  <2>10. g[m] = G[<<m, g[m - 1]>>]
    <3>1. m \in 0 .. m /\ m - 1 \in 0 .. m - 1
      BY <2>4
    <3> QED
      BY <2>9, <3>1
  <2> HIDE DEF g
  <2>11. \A i \in 1 .. m : g[i] = G[<<i, g[i - 1]>>]
    <3> SUFFICES ASSUME NEW i \in 1 .. m PROVE g[i] = G[<<i, g[i - 1]>>]
      OBVIOUS
    <3>1. CASE i = m
      BY <3>1, <2>10
    <3>2. CASE i # m
      <4>1. i \in 1 .. m - 1 /\ i \in 0 .. m - 1 /\ i - 1 \in 0 .. m - 1
        BY <2>4, <3>2
      <4>2. g[i] = f[i] /\ g[i - 1] = f[i - 1] /\ f[i] = G[<<i, f[i - 1]>>]
        BY <2>5, <2>9, <4>1
      <4> QED
        BY <4>2
    <3> QED
      BY <3>1, <3>2
  <2>12. 0 \in 0 .. m - 1
    BY <2>4
  <2>13. Is(g, m)
    BY <2>5, <2>8, <2>9, <2>11, <2>12
  <2> QED
    BY <2>2, <2>13
<1>2. PICK f : Is(f, n)
  <2>1. n \in 0 .. n
    OBVIOUS
  <2>2. n \notin T
    BY <1>1, Zenon
  <2> QED
    BY <2>1, <2>2
<1>3. Is(f, n)
  BY <1>2
<1>4. f = [i \in 0 .. n |-> IF i = 0 THEN x ELSE G[<<i, f[i - 1]>>]]
  <2> DEFINE h == [i \in 0 .. n |-> IF i = 0 THEN x ELSE G[<<i, f[i - 1]>>]]
  <2>1. \A i \in 0 .. n : h[i] = f[i]
    BY <1>3
  <2>2. h = [i \in 0 .. n |-> h[i]] /\ f = [i \in 0 .. n |-> f[i]]
    BY <1>3
  <2> HIDE DEF h
  <2> QED
    BY <2>1, <2>2 DEF h
<1> QED
  BY <1>3, <1>4 DEF IsIteration

\* The sequences ss put together, one after the other.
Joins(f, ss) == f[0] = <<>> /\ \A i \in 1 .. Len(ss) : f[i] = f[i - 1] \o ss[i]

LEMMA JoinExists ==
  ASSUME NEW S, NEW ss \in Seq(Seq(S))
  PROVE  \E f \in [0 .. Len(ss) -> Seq(S)] : Joins(f, ss)
<1> DEFINE T == Seq(S)
           n == Len(ss)
           G == [p \in (0 .. n) \X T |-> IF p[1] = 0 THEN <<>> ELSE p[2] \o ss[p[1]]]
<1>1. n \in Nat /\ \A i \in 1 .. n : ss[i] \in T
  BY LenProperties, ElementOfSeq
<1>2. <<>> \in T
  OBVIOUS
<1>3. \A s, t \in T : s \o t \in T
  BY ConcatProperties
<1> HIDE DEF T
<1>4. G \in [(0 .. n) \X T -> T]
  <2> SUFFICES ASSUME NEW i \in 0 .. n, NEW s \in T
               PROVE  (IF i = 0 THEN <<>> ELSE s \o ss[i]) \in T
    OBVIOUS
  <2>1. i # 0 => ss[i] \in T
    BY <1>1
  <2> QED
    BY <1>2, <1>3, <2>1
<1>5. ASSUME NEW i \in 1 .. n, NEW s \in T PROVE G[<<i, s>>] = s \o ss[i]
  <2>1. <<i, s>> \in (0 .. n) \X T /\ i # 0
    BY <1>1
  <2> QED
    BY <2>1
<1> HIDE DEF G
<1>6. PICK f \in [0 .. n -> T] : IsIteration(f, n, <<>>, G)
  BY <1>1, <1>2, <1>4, Iterated
<1>7. f = [i \in 0 .. n |-> IF i = 0 THEN <<>> ELSE G[<<i, f[i - 1]>>]]
  BY <1>6 DEF IsIteration
<1>8. ASSUME NEW i \in 1 .. n PROVE f[i] = f[i - 1] \o ss[i]
  <2>1. i \in 0 .. n /\ i # 0 /\ i - 1 \in 0 .. n
    BY <1>1
  <2>2. f[i] = G[<<i, f[i - 1]>>]
    BY <1>7, <2>1
  <2>3. f[i - 1] \in T
    BY <2>1
  <2> QED
    BY <1>5, <2>2, <2>3
<1>9. f[0] = <<>>
  BY <1>1, <1>7
<1> QED
  BY <1>8, <1>9 DEF T, n, Joins

LEMMA JoinFlattens ==
  ASSUME NEW S, NEW ss \in Seq(Seq(S)), NEW f \in [0 .. Len(ss) -> Seq(S)], Joins(f, ss)
  PROVE  FlattenSeq(ss) = f[Len(ss)]
<1> DEFINE T == Seq(S)
           n == Len(ss)
<1>1. n \in Nat /\ \A i \in 1 .. n : ss[i] \in T
  BY LenProperties, ElementOfSeq
<1>2. CASE n = 0
  <2>1. ss = <<>>
    BY <1>2, EmptySeq
  <2> QED
    BY <1>2, <2>1 DEF FlattenSeq, Joins
<1>3. CASE n # 0
  <2> DEFINE g == [i \in 1 .. n |-> f[i]]
             h == CHOOSE h : h = [i \in 1 .. n |-> IF i = 1 THEN ss[i] ELSE h[i - 1] \o ss[i]]
  <2>1. f[1] = ss[1]
    <3>1. f[1] = f[0] \o ss[1] /\ f[0] = <<>>
      <4>1. 1 \in 1 .. n /\ 1 - 1 = 0
        BY <1>1, <1>3
      <4> HIDE DEF T
      <4>2. f[1] = f[1 - 1] \o ss[1] /\ f[0] = <<>>
        BY <4>1 DEF Joins
      <4> QED
        BY <4>1, <4>2
    <3>2. ss[1] \in T
      BY <1>1, <1>3
    <3>3. <<>> \o ss[1] = ss[1]
      BY <3>2, ConcatEmptySeq
    <3> QED
      BY <3>1, <3>3
  <2>2. \A i \in 2 .. n : f[i] = f[i - 1] \o ss[i]
    <3>1. \A i \in 2 .. n : i \in 1 .. n
      BY <1>1
    <3> QED
      BY <3>1 DEF Joins
  <2>3. g = [i \in 1 .. n |-> IF i = 1 THEN ss[i] ELSE g[i - 1] \o ss[i]]
    <3> SUFFICES ASSUME NEW i \in 1 .. n
                 PROVE  g[i] = IF i = 1 THEN ss[i] ELSE g[i - 1] \o ss[i]
      OBVIOUS
    <3>1. CASE i = 1
      BY <2>1, <3>1
    <3>2. CASE i # 1
      <4>1. i \in 2 .. n /\ i - 1 \in 1 .. n
        BY <1>1, <3>2
      <4> QED
        BY <2>2, <3>2, <4>1
    <3> QED
      BY <3>1, <3>2
  <2>4. h = [i \in 1 .. n |-> IF i = 1 THEN ss[i] ELSE h[i - 1] \o ss[i]]
    <3> HIDE DEF g
    <3> QED
      BY <2>3
  <2>5. FlattenSeq(ss) = h[n]
    BY <1>3 DEF FlattenSeq
  <2> HIDE DEF h, g
  <2>6. h[1] = ss[1] /\ \A i \in 2 .. n : h[i] = h[i - 1] \o ss[i]
    <3>1. h[1] = ss[1]
      <4>1. 1 \in 1 .. n
        BY <1>1, <1>3
      <4> QED
        BY <2>4, <4>1
    <3>2. ASSUME NEW i \in 2 .. n PROVE h[i] = h[i - 1] \o ss[i]
      <4>1. i \in 1 .. n /\ i # 1
        BY <1>1
      <4> QED
        BY <2>4, <4>1
    <3> QED
      BY <3>1, <3>2
  <2>7. \A i \in 1 .. n : f[i] = h[i]
    <3> DEFINE U == {i \in 1 .. n : f[i] # h[i]}
    <3> SUFFICES ASSUME U # {} PROVE FALSE
      OBVIOUS
    <3>1. U \in SUBSET Nat
      OBVIOUS
    <3>2. PICK m \in U : \A k \in U : m <= k
      BY <3>1, LeastElement
    <3>3. m \in 2 .. n /\ m - 1 \in 1 .. n
      <4>1. m # 1 /\ m \in 1 .. n
        BY <2>1, <2>6, <3>2
      <4> QED
        BY <1>1, <4>1
    <3>4. m - 1 \notin U
      <4> HIDE DEF U
      <4> QED
        BY <3>2, <3>3
    <3>5. f[m - 1] = h[m - 1]
      BY <3>3, <3>4
    <3>6. f[m] = h[m]
      BY <2>2, <2>6, <3>3, <3>5
    <3> QED
      BY <3>2, <3>6
  <2> QED
    BY <1>1, <1>3, <2>5, <2>7
<1> QED
  BY <1>2, <1>3

LEMMA FlattenConcat ==
  ASSUME NEW S, NEW ss \in Seq(Seq(S)), NEW tt \in Seq(Seq(S))
  PROVE  /\ FlattenSeq(ss) \in Seq(S)
         /\ FlattenSeq(ss \o tt) = FlattenSeq(ss) \o FlattenSeq(tt)
<1> DEFINE T == Seq(S)
           m == Len(ss)
           n == Len(tt)
           uu == ss \o tt
<1>1. m \in Nat /\ n \in Nat /\ (\A i \in 1 .. m : ss[i] \in T) /\ \A i \in 1 .. n : tt[i] \in T
  BY LenProperties, ElementOfSeq
<1>2. /\ uu \in Seq(T) /\ Len(uu) = m + n
      /\ \A i \in 1 .. m + n : uu[i] = IF i <= m THEN ss[i] ELSE tt[i - m]
  <2>1. ss \in Seq(T) /\ tt \in Seq(T)
    OBVIOUS
  <2> HIDE DEF T
  <2> QED
    BY <2>1, ConcatProperties
<1>3. PICK f \in [0 .. m -> T] : Joins(f, ss)
  BY JoinExists
<1>4. PICK g \in [0 .. n -> T] : Joins(g, tt)
  BY JoinExists
<1>5. FlattenSeq(ss) = f[m] /\ FlattenSeq(tt) = g[n]
  BY <1>3, <1>4, JoinFlattens
<1>6. f[m] \in T /\ g[n] \in T
  <2>1. m \in 0 .. m /\ n \in 0 .. n
    BY <1>1
  <2> QED
    BY <2>1, <1>3, <1>4
<1>7. \A s, t \in T : s \o t \in T
  BY ConcatProperties
<1>8. \A s, t, u \in T : (s \o t) \o u = s \o (t \o u)
  BY ConcatAssociative
<1>9. \A s \in T : s \o <<>> = s
  BY ConcatEmptySeq
<1> DEFINE h == [i \in 0 .. m + n |-> IF i <= m THEN f[i] ELSE f[m] \o g[i - m]]
<1>10. h \in [0 .. m + n -> T]
  <2> HIDE DEF T
  <2> SUFFICES ASSUME NEW i \in 0 .. m + n
               PROVE  (IF i <= m THEN f[i] ELSE f[m] \o g[i - m]) \in T
    OBVIOUS
  <2>1. CASE i <= m
    <3>1. i \in 0 .. m
      BY <1>1, <2>1
    <3> QED
      BY <2>1, <3>1
  <2>2. CASE ~(i <= m)
    <3>1. i - m \in 0 .. n
      BY <1>1, <2>2
    <3>2. g[i - m] \in T
      BY <3>1
    <3> QED
      BY <1>6, <1>7, <2>2, <3>2
  <2> QED
    BY <2>1, <2>2
<1>11. h[0] = <<>>
  BY <1>1, <1>3 DEF Joins
<1>12. ASSUME NEW i \in 1 .. m + n PROVE h[i] = h[i - 1] \o uu[i]
  <2>1. i \in 0 .. m + n /\ i - 1 \in 0 .. m + n
    BY <1>1
  <2>2. CASE i <= m
    <3>1. i \in 1 .. m /\ i - 1 <= m
      BY <1>1, <2>2
    <3>2. f[i] = f[i - 1] \o ss[i]
      BY <1>3, <3>1 DEF Joins
    <3>3. h[i] = f[i] /\ h[i - 1] = f[i - 1]
      BY <2>1, <2>2, <3>1
    <3>4. uu[i] = ss[i]
      BY <1>2, <2>2
    <3> QED
      BY <3>2, <3>3, <3>4
  <2>3. CASE ~(i <= m)
    <3>1. i - m \in 1 .. n /\ i - m - 1 \in 0 .. n /\ (i - 1) - m = (i - m) - 1
      BY <1>1, <2>3
    <3>2. g[i - m] = g[(i - m) - 1] \o tt[i - m]
      BY <1>4, <3>1 DEF Joins
    <3>3. uu[i] = tt[i - m]
      BY <1>2, <2>3
    <3>4. h[i] = f[m] \o g[i - m]
      BY <2>1, <2>3
    <3>5. h[i - 1] = f[m] \o g[(i - m) - 1]
      <4>1. CASE i - 1 <= m
        <5>1. (i - m) - 1 = 0 /\ i - 1 = m
          BY <1>1, <2>3, <4>1
        <5>2. g[(i - m) - 1] = <<>>
          BY <1>4, <5>1 DEF Joins
        <5>3. h[i - 1] = f[m]
          BY <2>1, <4>1, <5>1
        <5> QED
          BY <1>6, <1>9, <5>2, <5>3
      <4>2. CASE ~(i - 1 <= m)
        BY <2>1, <3>1, <4>2
      <4> QED
        BY <4>1, <4>2
    <3>6. g[(i - m) - 1] \in T /\ tt[i - m] \in T
      BY <1>1, <3>1
    <3> DEFINE x == f[m]
               y == g[(i - m) - 1]
               z == tt[i - m]
    <3>7. (x \o y) \o z = x \o (y \o z)
      BY <1>6, <1>8, <3>6, Zenon
    <3> HIDE DEF h, T
    <3> QED
      BY <3>2, <3>3, <3>4, <3>5, <3>7
  <2> QED
    BY <2>2, <2>3
<1>13. FlattenSeq(uu) = h[m + n]
  <2>1. Joins(h, uu)
    BY <1>2, <1>11, <1>12 DEF Joins
  <2>2. uu \in Seq(Seq(S)) /\ h \in [0 .. Len(uu) -> Seq(S)]
    BY <1>2, <1>10
  <2> HIDE DEF h, uu
  <2> QED
    BY <1>2, <2>1, <2>2, JoinFlattens
<1>14. h[m + n] = f[m] \o g[n]
  <2>1. CASE n = 0
    <3>1. g[n] = <<>> /\ m + n = m
      BY <1>1, <1>4, <2>1 DEF Joins
    <3>2. h[m + n] = f[m]
      <4>1. m \in 0 .. m + n /\ m <= m
        BY <1>1
      <4> QED
        BY <3>1, <4>1
    <3> QED
      BY <1>6, <1>9, <3>1, <3>2
  <2>2. CASE n # 0
    <3>1. m + n \in 0 .. m + n /\ ~(m + n <= m) /\ (m + n) - m = n
      BY <1>1, <2>2
    <3> QED
      BY <3>1
  <2> QED
    BY <2>1, <2>2
<1> QED
  BY <1>5, <1>6, <1>13, <1>14

LEMMA FlattenOne ==
  ASSUME NEW S, NEW s \in Seq(S)
  PROVE  FlattenSeq(<<s>>) = s
<1>1. <<s>> \in Seq(Seq(S)) /\ Len(<<s>>) = 1 /\ <<s>>[1] = s
  OBVIOUS
<1>2. PICK f \in [0 .. 1 -> Seq(S)] : Joins(f, <<s>>)
  BY <1>1, JoinExists
<1>3. f[0] = <<>> /\ f[1] = f[0] \o s
  <2>1. 1 \in 1 .. Len(<<s>>) /\ 1 - 1 = 0
    BY <1>1
  <2>2. f[0] = <<>> /\ f[1] = f[1 - 1] \o (<<s>>[1])
    BY <1>2, <2>1, Zenon DEF Joins
  <2> QED
    BY <1>1, <2>1, <2>2
<1>4. f[1] = s
  BY <1>3, ConcatEmptySeq
<1> QED
  BY <1>1, <1>2, <1>4, JoinFlattens

=============================================================================
