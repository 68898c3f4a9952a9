----------------------------- MODULE CellsProofs -----------------------------
(***************************************************************************)
(* Lemmas about where the instructions of a definition start.              *)
(***************************************************************************)
EXTENDS Cells, SequenceLemmas

\* The equation of the recursive function in Instructions has a solution, so its
\* set satisfies it.
LEMMA InstructionsRecursion ==
  ASSUME NEW d, Len(d) \in Nat
  PROVE  /\ Instructions(d) \subseteq 1 .. Len(d) + 2
         /\ \A i \in 1 .. Len(d) + 2 :
              i \in Instructions(d) <=>
                i = 1 \/ ~(i - 1 \in Instructions(d) /\ (i - 1 > Len(d) \/ IsStateful(d[i - 1])))
<1> DEFINE D == 1 .. Len(d) + 2
           Ends(i) == i > Len(d) \/ IsStateful(d[i])
           Is(f) == f = [i \in D |-> i = 1 \/ ~(f[i - 1] /\ Ends(i - 1))]
           n == Len(d) + 1
           G == [a \in (0 .. n) \X BOOLEAN |-> ~(a[2] /\ Ends(a[1]))]
           starts == CHOOSE f : Is(f)
<1>1. \E f : Is(f)
  <2>1. G \in [(0 .. n) \X BOOLEAN -> BOOLEAN] /\ n \in Nat /\ TRUE \in BOOLEAN
    OBVIOUS
  <2> HIDE DEF G, n
  <2>2. PICK f \in [0 .. n -> BOOLEAN] : IsIteration(f, n, TRUE, G)
    BY <2>1, Iterated
  <2> DEFINE g == [i \in D |-> f[i - 1]]
  <2>3. \A i \in 1 .. n : f[i] = G[<<i, f[i - 1]>>]
    <3> SUFFICES ASSUME NEW i \in 1 .. n PROVE f[i] = G[<<i, f[i - 1]>>]
      OBVIOUS
    <3>1. i \in 0 .. n /\ i # 0
      BY <2>1
    <3> QED
      BY <2>2, <3>1, Zenon DEF IsIteration
  <2>4. \A i \in 1 .. n : f[i] = ~(f[i - 1] /\ Ends(i))
    <3> SUFFICES ASSUME NEW i \in 1 .. n PROVE f[i] = ~(f[i - 1] /\ Ends(i))
      OBVIOUS
    <3>1. i - 1 \in 0 .. n /\ i \in 0 .. n
      BY <2>1
    <3>2. f[i - 1] \in BOOLEAN
      BY <2>2, <3>1
    <3>3. <<i, f[i - 1]>> \in (0 .. n) \X BOOLEAN
      BY <3>1, <3>2
    <3>4. G[<<i, f[i - 1]>>] = ~(f[i - 1] /\ Ends(i))
      BY <3>3, Zenon DEF G
    <3> QED
      BY <2>3, <3>4
  <2>5. f[0]
    <3>1. 0 \in 0 .. n
      BY <2>1
    <3> QED
      BY <2>2, <3>1, Zenon DEF IsIteration
  <2> HIDE DEF Ends
  <2>6. \A i \in D : g[i] = (i = 1 \/ ~(g[i - 1] /\ Ends(i - 1)))
    <3> SUFFICES ASSUME NEW i \in D PROVE g[i] = (i = 1 \/ ~(g[i - 1] /\ Ends(i - 1)))
      OBVIOUS
    <3>1. CASE i = 1
      <4>1. 1 \in D /\ 1 - 1 = 0
        OBVIOUS
      <4>2. g[1] = f[0]
        BY <4>1
      <4> QED
        BY <2>5, <3>1, <4>2, Zenon
    <3>2. CASE i # 1
      <4>1. i - 1 \in 1 .. n /\ i - 1 \in D
        BY <3>2 DEF n
      <4>2. g[i] = f[i - 1] /\ g[i - 1] = f[i - 1 - 1]
        BY <4>1
      <4>3. f[i - 1] = ~(f[i - 1 - 1] /\ Ends(i - 1))
        BY <2>4, <4>1
      <4> QED
        BY <3>2, <4>2, <4>3, Zenon
    <3> QED
      BY <3>1, <3>2
  <2>7. Is(g)
    <3> HIDE DEF D
    <3>1. g = [i \in D |-> g[i]]
      BY Zenon
    <3> HIDE DEF g
    <3>2. [i \in D |-> g[i]] = [i \in D |-> i = 1 \/ ~(g[i - 1] /\ Ends(i - 1))]
      BY <2>6, Zenon
    <3> QED
      BY <3>1, <3>2, Zenon
  <2> QED
    BY <2>7, Zenon
<1>2. Is(starts)
  BY <1>1, Zenon
<1>3. Instructions(d) = {i \in D : starts[i]}
  BY Zenon DEF Instructions
<1> HIDE DEF starts, Ends
<1>4. \A i \in D : starts[i] = (i = 1 \/ ~(starts[i - 1] /\ Ends(i - 1)))
  BY <1>2, Zenon
<1>5. \A i \in D : i \in Instructions(d) <=> i = 1 \/ ~(i - 1 \in Instructions(d) /\ Ends(i - 1))
  <2> SUFFICES ASSUME NEW i \in D
               PROVE  i \in Instructions(d) <=> i = 1 \/ ~(i - 1 \in Instructions(d) /\ Ends(i - 1))
    OBVIOUS
  <2>1. i # 1 => i - 1 \in D
    OBVIOUS
  <2> HIDE DEF D
  <2> QED
    BY <1>3, <1>4, <2>1, Zenon
<1> QED
  BY <1>3, <1>5, Zenon DEF Ends

\* An instruction starts at the first cell and after every other instruction.
LEMMA InstructionsEquation ==
  ASSUME NEW d, Len(d) \in Nat, DOMAIN d = 1 .. Len(d)
  PROVE  /\ Instructions(d) \subseteq 1 .. Len(d) + 2
         /\ \A i \in 1 .. Len(d) + 2 :
              i \in Instructions(d) <=>
                i = 1 \/ \E j \in Instructions(d) : j \in DOMAIN d /\ NextInstruction(d, j) = i
<1> DEFINE I == Instructions(d)
           N(j) == NextInstruction(d, j)
<1>1. /\ I \subseteq 1 .. Len(d) + 2
      /\ \A i \in 1 .. Len(d) + 2 :
           i \in I <=> i = 1 \/ ~(i - 1 \in I /\ (i - 1 > Len(d) \/ IsStateful(d[i - 1])))
  BY InstructionsRecursion
<1>2. \A j \in Nat : N(j) = IF IsStateful(d[j]) THEN j + 2 ELSE j + 1
  BY DEF NextInstruction
<1> HIDE DEF I, N
<1>3. ASSUME NEW i \in I, i # 1 PROVE \E j \in I : j \in DOMAIN d /\ N(j) = i
  <2>1. i - 1 \in 1 .. Len(d) + 2 /\ i \in 1 .. Len(d) + 2
    BY <1>1, <1>3
  <2>2. CASE i - 1 \in I
    BY <1>1, <1>2, <1>3, <2>1, <2>2
  <2>3. CASE i - 1 \notin I
    <3>1. i - 1 # 1 /\ i - 1 - 1 \in I /\ (i - 1 - 1 > Len(d) \/ IsStateful(d[i - 1 - 1]))
      BY <1>1, <2>1, <2>3
    <3> QED
      BY <1>1, <1>2, <2>1, <3>1
  <2> QED
    BY <2>2, <2>3
<1>4. ASSUME NEW j \in I, j \in DOMAIN d PROVE N(j) \in I
  <2>1. CASE ~IsStateful(d[j])
    <3>1. j + 1 \in 1 .. Len(d) + 2 /\ (j + 1) - 1 = j
      BY <1>4
    <3> QED
      BY <1>1, <1>2, <1>4, <2>1, <3>1
  <2>2. CASE IsStateful(d[j])
    <3>1. /\ j + 1 \in 1 .. Len(d) + 2 /\ (j + 1) - 1 = j
          /\ j + 2 \in 1 .. Len(d) + 2 /\ (j + 2) - 1 = j + 1
      BY <1>4
    <3>2. j + 1 \notin I
      BY <1>1, <1>4, <2>2, <3>1
    <3> QED
      BY <1>1, <1>2, <1>4, <2>2, <3>1, <3>2
  <2> QED
    BY <2>1, <2>2
<1> QED
  BY <1>1, <1>3, <1>4 DEF I, N

\* What starts instructions: they follow each other without overlap, and every
\* other cell is an operand.
LEMMA InstructionsProperties ==
  ASSUME NEW d, Len(d) \in Nat, DOMAIN d = 1 .. Len(d)
  PROVE  /\ 1 \in Instructions(d)
         /\ Instructions(d) \subseteq 1 .. Len(d) + 2
         /\ \A i \in Instructions(d) : i <= Len(d) => NextInstruction(d, i) \in Instructions(d)
         /\ \A i, j \in Instructions(d) : j < i => NextInstruction(d, j) <= i
         /\ \A i \in 1 .. Len(d) + 1 :
              \/ i \in Instructions(d)
              \/ i > 1 /\ i - 1 \in Instructions(d) /\ IsStateful(d[i - 1])
<1> DEFINE I == Instructions(d)
           N(j) == NextInstruction(d, j)
<1>1. \A j : j \in Nat => N(j) \in {j + 1, j + 2}
  BY DEF NextInstruction
<1>2. \A j : N(j) = j + 2 \/ ~IsStateful(d[j])
  BY DEF NextInstruction
<1>3. /\ I \subseteq 1 .. Len(d) + 2
      /\ \A i \in 1 .. Len(d) + 2 :
           i \in I <=> i = 1 \/ \E j \in I : j \in 1 .. Len(d) /\ N(j) = i
  BY InstructionsEquation
<1>4. \A j : ~IsStateful(d[j]) => N(j) = j + 1
  BY DEF NextInstruction
<1> HIDE DEF I, N
<1>5. 1 \in I
  BY <1>3
<1>6. \A i \in I : i <= Len(d) => N(i) \in I
  BY SMTT(30), <1>1, <1>3
<1>7. \A i, j \in I : j < i => N(j) <= i
  <2> DEFINE Bad == {i \in I : \E j \in I : j < i /\ ~(N(j) <= i)}
  <2> SUFFICES ASSUME Bad # {} PROVE FALSE
    OBVIOUS
  <2>1. \A i \in I : i \in Nat \ {0}
    BY <1>3
  <2>2. Bad \in SUBSET Nat
    BY <2>1
  <2>3. PICK i \in Bad : \A m \in Bad : i <= m
    BY <2>2, LeastElement
  <2>4. PICK j \in I : j < i /\ ~(N(j) <= i)
    BY <2>3
  <2>5. i \in I /\ i # 1
    BY <2>4, <1>3
  <2>6. PICK k \in I : k \in 1 .. Len(d) /\ N(k) = i
    BY <2>5, <1>3
  <2>7. k < i /\ j # k
    BY <2>6, <2>4, <1>1, <1>3
  <2>8. k \notin Bad /\ j \notin Bad
    <3> HIDE DEF Bad
    <3> QED
      BY <2>1, <2>3, <2>4, <2>5, <2>7
  <2>9. CASE j < k
    <3>1. N(j) <= k
      BY <2>8, <2>9
    <3>2. N(j) \in Nat
      BY <2>1, <1>1
    <3> QED
      BY <3>1, <3>2, <2>1, <2>4, <2>5, <2>7
  <2>10. CASE k < j
    BY <2>8, <2>10, <2>6, <2>4, <1>3
  <2> QED
    BY <2>7, <2>9, <2>10, <1>3
<1>8. \A i \in 1 .. Len(d) + 1 : i \in I \/ (i > 1 /\ i - 1 \in I /\ IsStateful(d[i - 1]))
  <2> DEFINE Bad == {i \in 1 .. Len(d) + 1 :
                       ~(i \in I \/ (i > 1 /\ i - 1 \in I /\ IsStateful(d[i - 1])))}
  <2> SUFFICES ASSUME Bad # {} PROVE FALSE
    OBVIOUS
  <2>1. Bad \in SUBSET Nat
    OBVIOUS
  <2>2. PICK i \in Bad : \A m \in Bad : i <= m
    BY <2>1, LeastElement
  <2>3. i \in 1 .. Len(d) + 1 /\ i \notin I /\ ~(i > 1 /\ i - 1 \in I /\ IsStateful(d[i - 1]))
    BY <2>2
  <2>4. i > 1 /\ i - 1 \in 1 .. Len(d) /\ i - 1 \notin Bad
    BY <2>2, <2>3, <1>5
  <2> DEFINE k == i - 1
  <2>5. k \in I \/ (k > 1 /\ k - 1 \in I /\ IsStateful(d[k - 1]))
    BY <2>4
  <2>6. CASE k \in I
    BY <2>6, <2>3, <2>4, <1>4, <1>6
  <2>7. CASE k > 1 /\ k - 1 \in I /\ IsStateful(d[k - 1])
    <3>1. N(k - 1) = i /\ k - 1 <= Len(d)
      BY <2>7, <2>4, <1>2, <1>1
    <3> QED
      BY <3>1, <2>7, <2>3, <1>6
  <2> QED
    BY <2>5, <2>6, <2>7
<1> QED
  BY <1>3, <1>5, <1>6, <1>7, <1>8 DEF I, N


\* Two definitions that agree from cells p and q on, both starts of instructions,
\* in what takes an operand.
LEMMA InstructionsAlike ==
  ASSUME NEW d, NEW e, Len(d) \in Nat, Len(e) \in Nat, NEW p \in Nat, NEW q \in Nat, NEW n \in Nat,
         p + n <= Len(d) + 1, q + n <= Len(e) + 1, p \in Instructions(d), q \in Instructions(e),
         \A k \in 0 .. n - 1 : IsStateful(d[p + k]) <=> IsStateful(e[q + k])
  PROVE  \A k \in 0 .. n : p + k \in Instructions(d) <=> q + k \in Instructions(e)
<1> DEFINE I == Instructions(d)
           J == Instructions(e)
           Bad == {k \in 0 .. n : ~(p + k \in I <=> q + k \in J)}
<1> SUFFICES ASSUME Bad # {} PROVE FALSE
  OBVIOUS
<1>1. /\ I \subseteq 1 .. Len(d) + 2
      /\ \A i \in 1 .. Len(d) + 2 :
           i \in I <=> i = 1 \/ ~(i - 1 \in I /\ (i - 1 > Len(d) \/ IsStateful(d[i - 1])))
  BY InstructionsRecursion
<1>2. /\ J \subseteq 1 .. Len(e) + 2
      /\ \A i \in 1 .. Len(e) + 2 :
           i \in J <=> i = 1 \/ ~(i - 1 \in J /\ (i - 1 > Len(e) \/ IsStateful(e[i - 1])))
  BY InstructionsRecursion
<1>3. Bad \in SUBSET Nat
  OBVIOUS
<1>4. PICK k \in Bad : \A m \in Bad : k <= m
  BY <1>3, LeastElement
<1>5. k \in 0 .. n /\ ~(p + k \in I <=> q + k \in J)
  OBVIOUS
<1>6. k # 0
  <2>1. p + 0 = p /\ q + 0 = q
    OBVIOUS
  <2> QED
    BY <1>5, <2>1
<1>7. k - 1 \in 0 .. n - 1 /\ k - 1 \notin Bad
  <2>1. k - 1 \in 0 .. n - 1
    BY <1>5, <1>6
  <2>2. k \in Nat
    BY <1>5
  <2> HIDE DEF Bad
  <2>3. k - 1 \in Bad => k <= k - 1
    BY <1>4
  <2> QED
    BY <2>1, <2>2, <2>3
<1>8. p + (k - 1) \in I <=> q + (k - 1) \in J
  BY <1>7
<1> HIDE DEF Bad, I, J
<1>9. p >= 1 /\ q >= 1
  BY <1>1, <1>2 DEF I, J
<1>10. /\ p + k \in 1 .. Len(d) + 2 /\ p + k # 1 /\ (p + k) - 1 = p + (k - 1)
       /\ ~(p + (k - 1) > Len(d))
  BY <1>5, <1>6, <1>9
<1>11. /\ q + k \in 1 .. Len(e) + 2 /\ q + k # 1 /\ (q + k) - 1 = q + (k - 1)
       /\ ~(q + (k - 1) > Len(e))
  BY <1>5, <1>6, <1>9
<1>12. p + k \in I <=> ~(p + (k - 1) \in I /\ IsStateful(d[p + (k - 1)]))
  BY <1>1, <1>10
<1>13. q + k \in J <=> ~(q + (k - 1) \in J /\ IsStateful(e[q + (k - 1)]))
  BY <1>2, <1>11
<1>14. IsStateful(d[p + (k - 1)]) <=> IsStateful(e[q + (k - 1)])
  BY <1>7
<1> QED
  BY <1>5, <1>8, <1>12, <1>13, <1>14
=============================================================================
