--------------------------- MODULE LuaTableProofs ---------------------------
(***************************************************************************)
(* Proofs about LuaTable: the limit of the array part is a hint that never *)
(* loses the size, each integer key is in the part where it is looked for, *)
(* and the length operator finds a border.                                 *)
(*                                                                         *)
(* First come facts about the operators that are computed by recursion:    *)
(* powers of 2, the bit test of luaH_getint, binary search and the         *)
(* doubling of hash_search.  They need induction over the numbers, which   *)
(* the first lemma gives for a set.                                        *)
(***************************************************************************)
EXTENDS LuaTable, FiniteSetTheorems, FunctionTheorems, SequenceTheorems, TLAPS

\* Induction over the natural numbers for a set: without n, the members below n
\* would have an injection into those that are not 0.
LEMMA Induction ==
  ASSUME NEW S, 0 \in S, \A n \in Nat : n \in S => n + 1 \in S
  PROVE  \A n \in Nat : n \in S
<1> SUFFICES ASSUME NEW n \in Nat, n \notin S PROVE FALSE
  OBVIOUS
<1> DEFINE A == {i \in 0..n : i \in S}
           B == A \ {0}
           f == [i \in A |-> i + 1]
<1>1. IsFiniteSet(A)
  <2>1. IsFiniteSet(0..n) /\ A \subseteq 0..n
    BY FS_Interval
  <2> QED
    BY <2>1, FS_Subset
<1>2. 0 \in A
  OBVIOUS
<1>3. IsFiniteSet(B) /\ Cardinality(B) = Cardinality(A) - 1 /\ Cardinality(A) \in Nat
  BY <1>1, <1>2, FS_RemoveElement, FS_CardinalityType
<1>4. f \in Injection(A, B)
  <2>1. \A i \in A : i + 1 \in B
    OBVIOUS
  <2> QED
    BY <2>1 DEF Injection, IsInjective
<1>5. Cardinality(A) <= Cardinality(B)
  BY <1>3, <1>4, FS_Injection
<1> QED
  BY <1>3, <1>5

\* A function applied again and again.
Iterated(f, x, n) == CHOOSE g : g = [i \in 0..n |-> IF i = 0 THEN x ELSE f[g[i - 1]]]

\* The sequence of its values exists, so that a recursive function is what it says.
LEMMA IteratedIs ==
  ASSUME NEW f, NEW x, NEW n \in Nat
  PROVE  Iterated(f, x, n) = [i \in 0..n |-> IF i = 0 THEN x ELSE f[Iterated(f, x, n)[i - 1]]]
<1> DEFINE Is(g, m) == g = [i \in 0..m |-> IF i = 0 THEN x ELSE f[g[i - 1]]]
           S == {m \in Nat : \E g : Is(g, m)}
<1>1. 0 \in S
  <2> DEFINE g == [i \in 0..0 |-> x]
  <2>1. Is(g, 0)
    OBVIOUS
  <2> QED
    BY <2>1
<1>2. \A m \in Nat : m \in S => m + 1 \in S
  <2> SUFFICES ASSUME NEW m \in Nat, m \in S PROVE m + 1 \in S
    OBVIOUS
  <2>1. PICK g : Is(g, m)
    OBVIOUS
  <2> DEFINE h == [i \in 0..(m + 1) |-> IF i = m + 1 THEN f[g[m]] ELSE g[i]]
  <2>2. ASSUME NEW i \in 0..(m + 1) PROVE h[i] = IF i = 0 THEN x ELSE f[h[i - 1]]
    <3>1. CASE i = m + 1
      BY <3>1
    <3>2. CASE i \in 0..m
      <4>1. h[i] = g[i] /\ (i # 0 => h[i - 1] = g[i - 1])
        BY <3>2
      <4>2. g[i] = IF i = 0 THEN x ELSE f[g[i - 1]]
        BY <2>1, <3>2
      <4> QED
        BY <4>1, <4>2
    <3> QED
      BY <3>1, <3>2
  <2>3. h = [i \in 0..(m + 1) |-> h[i]]
    OBVIOUS
  <2> HIDE DEF h
  <2>4. Is(h, m + 1)
    BY <2>2, <2>3
  <2> HIDE DEF Is
  <2> QED
    BY <2>4
<1> HIDE DEF S
<1>3. n \in S
  BY <1>1, <1>2, Induction
<1> QED
  BY <1>3 DEF Iterated, S

\* It stays in a set that it maps into itself.
LEMMA IteratedStays ==
  ASSUME NEW f, NEW x, NEW n \in Nat, NEW P, x \in P, \A y \in P : f[y] \in P
  PROVE  \A i \in 0..n : Iterated(f, x, n)[i] \in P
<1> DEFINE g == Iterated(f, x, n)
           S == {i \in Nat : i <= n => g[i] \in P}
<1>1. g = [i \in 0..n |-> IF i = 0 THEN x ELSE f[g[i - 1]]]
  BY IteratedIs
<1> HIDE DEF g
<1>2. 0 \in S
  BY <1>1
<1>3. \A i \in Nat : i \in S => i + 1 \in S
  BY <1>1
<1> HIDE DEF S
<1>4. \A i \in Nat : i \in S
  BY <1>2, <1>3, Induction
<1> QED
  BY <1>4 DEF S, g

-----------------------------------------------------------------------------
\* Powers of 2.
LEMMA Pow2Def ==
  \A i \in Nat : Pow2[i] \in Nat \ {0} /\ Pow2[i + 1] = 2 * Pow2[i] /\ Pow2[0] = 1
<1> DEFINE Twice == [x \in Nat |-> 2 * x]
           P == [n \in Nat |-> Iterated(Twice, 1, n)[n]]
<1> HIDE DEF Twice
<1>1. \A n \in Nat : Iterated(Twice, 1, n)
          = [i \in 0..n |-> IF i = 0 THEN 1 ELSE Twice[Iterated(Twice, 1, n)[i - 1]]]
  BY IteratedIs
<1>2. ASSUME NEW n \in Nat PROVE \A i \in 0..n : Iterated(Twice, 1, n)[i] \in Nat \ {0}
  <2> DEFINE Q == Nat \ {0}
  <2>1. 1 \in Q /\ \A y \in Q : Twice[y] \in Q
    BY DEF Twice
  <2> HIDE DEF Q
  <2>2. \A i \in 0..n : Iterated(Twice, 1, n)[i] \in Q
    BY <2>1, IteratedStays
  <2> QED
    BY <2>2 DEF Q
<1>3. \A i \in Nat : \A n \in Nat : i <= n => Iterated(Twice, 1, n)[i] = P[i]
  <2> DEFINE S == {i \in Nat : \A n \in Nat : i <= n => Iterated(Twice, 1, n)[i] = P[i]}
  <2>1. 0 \in S
    BY <1>1
  <2>2. ASSUME NEW i \in Nat, i \in S PROVE i + 1 \in S
    <3> SUFFICES ASSUME NEW n \in Nat, i + 1 <= n PROVE Iterated(Twice, 1, n)[i + 1] = P[i + 1]
      OBVIOUS
    <3>1. Iterated(Twice, 1, n)[i + 1] = Twice[Iterated(Twice, 1, n)[i]]
      BY <1>1
    <3>2. Iterated(Twice, 1, i + 1)[i + 1] = Twice[Iterated(Twice, 1, i + 1)[i]]
      BY <1>1
    <3>3. Iterated(Twice, 1, n)[i] = P[i] /\ Iterated(Twice, 1, i + 1)[i] = P[i]
      BY <2>2
    <3> QED
      BY <3>1, <3>2, <3>3
  <2> HIDE DEF S
  <2>3. \A i \in Nat : i \in S
    BY <2>1, <2>2, Induction
  <2> QED
    BY <2>3 DEF S
<1>4. \A i \in Nat : P[i] = Iterated(Twice, 1, i)[i] /\ P[i] \in Nat \ {0}
  BY <1>2
<1>5. ASSUME NEW i \in Nat PROVE P[i] = IF i = 0 THEN 1 ELSE 2 * P[i - 1]
  <2>1. CASE i = 0
    BY <1>1, <1>4, <2>1
  <2>2. CASE i # 0
    <3>1. P[i] = Twice[Iterated(Twice, 1, i)[i - 1]]
      BY <1>1, <1>4, <2>2
    <3>2. Iterated(Twice, 1, i)[i - 1] = P[i - 1] /\ P[i - 1] \in Nat
      BY <1>3, <1>4, <2>2
    <3> QED
      BY <2>2, <3>1, <3>2 DEF Twice
  <2> QED
    BY <2>1, <2>2
<1>6. P = [i \in Nat |-> P[i]]
  OBVIOUS
<1> HIDE DEF P
<1>7. P = [i \in Nat |-> IF i = 0 THEN 1 ELSE 2 * P[i - 1]]
  BY <1>5, <1>6
<1>8. Pow2 = [i \in Nat |-> IF i = 0 THEN 1 ELSE 2 * Pow2[i - 1]]
  BY <1>7 DEF Pow2
<1> DEFINE S == {i \in Nat : Pow2[i] \in Nat \ {0}}
<1>9. 0 \in S
  BY <1>8
<1>10. ASSUME NEW i \in Nat, i \in S PROVE i + 1 \in S
  <2>1. Pow2[i + 1] = 2 * Pow2[i]
    BY <1>8
  <2> QED
    BY <1>10, <2>1
<1> HIDE DEF S
<1>11. \A i \in Nat : i \in S
  BY <1>9, <1>10, Induction
<1> QED
  BY <1>8, <1>11 DEF S

\* Every power is at least twice each one before it.
LEMMA Pow2Grows ==
  ASSUME NEW i \in Nat, NEW j \in Nat, i < j
  PROVE  2 * Pow2[i] <= Pow2[j]
<1> DEFINE S == {d \in Nat : 2 * Pow2[i] <= Pow2[i + 1 + d]}
<1>1. 0 \in S
  BY Pow2Def
<1>2. ASSUME NEW d \in Nat, d \in S PROVE d + 1 \in S
  <2>1. i + 1 + d \in Nat /\ i + 1 + (d + 1) = (i + 1 + d) + 1
    OBVIOUS
  <2>2. Pow2[i + 1 + (d + 1)] = 2 * Pow2[i + 1 + d] /\ Pow2[i + 1 + d] \in Nat /\ Pow2[i] \in Nat
    BY <2>1, Pow2Def
  <2> QED
    BY <1>2, <2>2
<1> HIDE DEF S
<1>3. \A d \in Nat : d \in S
  BY <1>1, <1>2, Induction
<1>4. j - i - 1 \in Nat /\ j = i + 1 + (j - i - 1)
  OBVIOUS
<1> QED
  BY <1>3, <1>4 DEF S

\* A number below Pow2[n] lies between two powers.
LEMMA BetweenPowers ==
  ASSUME NEW n \in Nat, NEW x \in Nat, 0 < x, x < Pow2[n]
  PROVE  \E i \in 0..(n - 1) : Pow2[i] <= x /\ x < Pow2[i + 1]
<1> DEFINE S == {m \in Nat : x < Pow2[m] =>
                                \E i \in 0..(m - 1) : Pow2[i] <= x /\ x < Pow2[i + 1]}
<1>1. 0 \in S
  BY Pow2Def
<1>2. ASSUME NEW m \in Nat, m \in S PROVE m + 1 \in S
  <2>1. CASE x < Pow2[m]
    BY <1>2, <2>1
  <2>2. CASE x >= Pow2[m]
    <3>1. m \in 0..((m + 1) - 1)
      OBVIOUS
    <3> QED
      BY <2>2, <3>1
  <2> QED
    BY <2>1, <2>2, Pow2Def
<1> HIDE DEF S
<1>3. \A m \in Nat : m \in S
  BY <1>1, <1>2, Induction
<1> QED
  BY <1>3 DEF S

-----------------------------------------------------------------------------
\* The bits of a number.
LEMMA NoBit ==
  ASSUME NEW x \in Nat, NEW i \in Nat, x < Pow2[i]
  PROVE  ~HasBit(x, i)
<1>1. PICK q \in Nat \ {0} : q = Pow2[i]
  BY Pow2Def
<1>2. x \div q = 0
  BY <1>1
<1> QED
  BY <1>1, <1>2 DEF HasBit

\* A number between two powers has the bit of the lower one.
LEMMA TopBit ==
  ASSUME NEW x \in Nat, NEW i \in Nat, Pow2[i] <= x, x < Pow2[i + 1]
  PROVE  HasBit(x, i)
<1>1. PICK q \in Nat \ {0} : q = Pow2[i]
  BY Pow2Def
<1>2. q <= x /\ x < 2 * q
  BY <1>1, Pow2Def
<1>3. x \div q = 1
  BY <1>2
<1> QED
  BY <1>1, <1>3 DEF HasBit

\* The sum that AndNot adds up, n bits of it.
Term(x, y, i) == IF HasBit(x, i) /\ ~HasBit(y, i) THEN Pow2[i] ELSE 0
IsSum(s, x, y, n) == s = [i \in 0..n |-> IF i = 0 THEN 0 ELSE s[i - 1] + Term(x, y, i - 1)]

\* The recursive sum of AndNot is one.
LEMMA AndNotIs ==
  ASSUME KeyAssumption, NEW x, NEW y
  PROVE  \E s : IsSum(s, x, y, Bits + 1) /\ AndNot(x, y) = s[Bits + 1]
<1> DEFINE S == {n \in Nat : \E s : IsSum(s, x, y, n)}
<1>1. 0 \in S
  <2> DEFINE s == [i \in 0..0 |-> 0]
  <2>1. IsSum(s, x, y, 0)
    BY DEF IsSum
  <2> QED
    BY <2>1
<1>2. ASSUME NEW n \in Nat, n \in S PROVE n + 1 \in S
  <2>1. PICK s : IsSum(s, x, y, n)
    BY <1>2
  <2> DEFINE h == [i \in 0..(n + 1) |-> IF i = n + 1 THEN s[n] + Term(x, y, n) ELSE s[i]]
  <2>2. ASSUME NEW i \in 0..(n + 1)
        PROVE  h[i] = IF i = 0 THEN 0 ELSE h[i - 1] + Term(x, y, i - 1)
    <3>1. CASE i = n + 1
      BY <3>1
    <3>2. CASE i \in 0..n
      <4>1. h[i] = s[i] /\ (i # 0 => h[i - 1] = s[i - 1])
        BY <3>2
      <4>2. s[i] = IF i = 0 THEN 0 ELSE s[i - 1] + Term(x, y, i - 1)
        BY <2>1, <3>2 DEF IsSum
      <4> QED
        BY <4>1, <4>2
    <3> QED
      BY <3>1, <3>2
  <2>3. h = [i \in 0..(n + 1) |-> h[i]]
    OBVIOUS
  <2> HIDE DEF h
  <2>4. IsSum(h, x, y, n + 1)
    BY <2>2, <2>3 DEF IsSum
  <2> QED
    BY <2>4
<1> HIDE DEF S
<1>3. Bits + 1 \in S
  <2>1. Bits + 1 \in Nat
    BY DEF KeyAssumption
  <2> QED
    BY <1>1, <1>2, <2>1, Induction
<1> DEFINE s == CHOOSE s : IsSum(s, x, y, Bits + 1)
<1>4. IsSum(s, x, y, Bits + 1)
  BY <1>3 DEF S
<1>5. AndNot(x, y) = s[Bits + 1]
  BY DEF AndNot, IsSum, Term
<1> HIDE DEF s
<1> QED
  BY <1>4, <1>5

\* The sum only grows, and its first n bits make less than Pow2[n].
LEMMA SumGrows ==
  ASSUME NEW x, NEW y, NEW n \in Nat, NEW s, IsSum(s, x, y, n)
  PROVE  /\ \A i \in 0..n : s[i] \in Nat /\ s[i] < Pow2[i]
         /\ \A i, j \in 0..n : i <= j => s[i] <= s[j]
         /\ \A i \in 0..(n - 1) : s[i + 1] = s[i] + Term(x, y, i)
<1>1. ASSUME NEW i \in 0..(n - 1)
      PROVE  s[i + 1] = s[i] + Term(x, y, i) /\ Term(x, y, i) \in 0..Pow2[i]
             /\ Pow2[i + 1] = 2 * Pow2[i] /\ Pow2[i] \in Nat
  <2>1. i + 1 \in 0..n /\ i + 1 # 0 /\ (i + 1) - 1 = i
    OBVIOUS
  <2>2. s[i + 1] = s[i] + Term(x, y, i)
    BY <2>1 DEF IsSum
  <2>3. Pow2[i + 1] = 2 * Pow2[i] /\ Pow2[i] \in Nat
    BY Pow2Def
  <2> QED
    BY <2>2, <2>3 DEF Term
<1>2. s[0] = 0 /\ Pow2[0] = 1
  BY Pow2Def DEF IsSum
<1> DEFINE S == {i \in Nat : i <= n => s[i] \in Nat /\ s[i] < Pow2[i]}
<1>3. 0 \in S
  BY <1>2
<1>4. ASSUME NEW i \in Nat, i \in S PROVE i + 1 \in S
  <2>1. CASE i + 1 <= n
    <3>1. i \in 0..(n - 1) /\ s[i] \in Nat /\ s[i] < Pow2[i]
      BY <1>4, <2>1
    <3> QED
      BY <1>1, <3>1
  <2> QED
    BY <2>1
<1> HIDE DEF S
<1>5. \A i \in Nat : i \in S
  BY <1>3, <1>4, Induction
<1>6. \A i \in 0..n : s[i] \in Nat /\ s[i] < Pow2[i]
  BY <1>5 DEF S
<1> DEFINE T(i) == {d \in Nat : i + d <= n => s[i] <= s[i + d]}
<1>7. ASSUME NEW i \in 0..n PROVE \A d \in Nat : d \in T(i)
  <2>1. 0 \in T(i)
    BY <1>6
  <2>2. ASSUME NEW d \in Nat, d \in T(i) PROVE d + 1 \in T(i)
    <3>1. CASE i + (d + 1) <= n
      <4>1. i + d \in 0..(n - 1) /\ i + (d + 1) = (i + d) + 1 /\ s[i] <= s[i + d]
        BY <2>2, <3>1
      <4>2. s[i + d] \in Nat /\ s[i] \in Nat
        BY <1>6, <4>1
      <4> QED
        BY <1>1, <4>1, <4>2
    <3> QED
      BY <3>1
  <2> HIDE DEF T
  <2> QED
    BY <2>1, <2>2, Induction
<1>8. ASSUME NEW i \in 0..n, NEW j \in 0..n, i <= j PROVE s[i] <= s[j]
  <2>1. j - i \in Nat /\ i + (j - i) = j
    BY <1>8
  <2> QED
    BY <1>7, <2>1, <1>8
<1> QED
  BY <1>1, <1>6, <1>8

\* Terms that are 0 add nothing.
LEMMA SumStays ==
  ASSUME NEW x, NEW y, NEW n \in Nat, NEW s, IsSum(s, x, y, n), NEW m \in 0..n,
         \A i \in m..(n - 1) : Term(x, y, i) = 0
  PROVE  s[n] = s[m]
<1> DEFINE S == {i \in Nat : m <= i /\ i <= n => s[i] = s[m]}
<1>1. 0 \in S
  OBVIOUS
<1>2. ASSUME NEW i \in Nat, i \in S PROVE i + 1 \in S
  <2>1. CASE m <= i /\ i + 1 <= n
    <3>1. i \in m..(n - 1) /\ i \in 0..(n - 1) /\ s[i] = s[m]
      BY <1>2, <2>1
    <3>2. s[i + 1] = s[i] + Term(x, y, i) /\ s[i] \in Nat
      BY <3>1, SumGrows
    <3> QED
      BY <3>1, <3>2
  <2>2. CASE i + 1 = m \/ i + 1 < m \/ i + 1 > n
    BY <2>2
  <2> QED
    BY <2>1, <2>2
<1> HIDE DEF S
<1>3. \A i \in Nat : i \in S
  BY <1>1, <1>2, Induction
<1> QED
  BY <1>3 DEF S

\* The real size of an array part whose limit is a hint: the least power of 2 that is
\* not smaller.
LEMMA PowersApart ==
  ASSUME KeyAssumption, NEW p \in PowersOf2, NEW q \in PowersOf2, q < p
  PROVE  2 * q <= p
<1>1. PICK i \in 0..Bits : p = Pow2[i]
  BY DEF PowersOf2
<1>2. PICK j \in 0..Bits : q = Pow2[j]
  BY DEF PowersOf2
<1>3. i \in Nat /\ j \in Nat
  BY DEF KeyAssumption
<1>4. i # j /\ Pow2[i] \in Nat /\ Pow2[j] \in Nat /\ Pow2[j] > 0
  BY <1>1, <1>2, <1>3, Pow2Def
<1>5. ~(i < j)
  BY <1>1, <1>2, <1>3, <1>4, Pow2Grows
<1> QED
  BY <1>1, <1>2, <1>3, <1>4, <1>5, Pow2Grows

\* The sizes are positive numbers.
LEMMA PowersType ==
  ASSUME KeyAssumption
  PROVE  PowersOf2 \subseteq Nat \ {0} /\ 1 \in PowersOf2
<1>1. 0..Bits \subseteq Nat /\ 0 \in 0..Bits
  BY DEF KeyAssumption
<1> QED
  BY <1>1, Pow2Def DEF PowersOf2

\* The power of 2 that is not smaller than the limit, when the limit is above its half.
LEMMA PowerAbove ==
  ASSUME KeyAssumption, NEW p \in PowersOf2, NEW l \in Nat, l <= p, p < 2 * l
  PROVE  Min({q \in PowersOf2 : q >= l}) = p
<1>1. \A q \in PowersOf2 : q >= l => p <= q
  BY PowersApart, PowersType
<1> DEFINE A == {q \in PowersOf2 : q >= l}
<1>2. p \in A /\ \A q \in A : p <= q
  BY <1>1, PowersType
<1>3. A \subseteq Nat
  BY PowersType
<1> HIDE DEF A
<1>4. \A m \in A : (\A q \in A : m <= q) => m = p
  BY <1>2, <1>3
<1>5. Min(A) = p
  BY <1>2, <1>4 DEF Min
<1> QED
  BY <1>5 DEF A

\* The test on bits in luaH_getint says exactly which keys beyond the hint the array
\* part still has.
LEMMA BitTest ==
  ASSUME KeyAssumption, NEW p \in PowersOf2, NEW l \in Nat, l <= p, p < 2 * l,
         NEW k \in Nat, k > l, k - 1 < Pow2[Bits + 1]
  PROVE  AndNot(k - 1, l - 1) < l <=> k <= p
<1>1. PICK m \in 0..Bits : p = Pow2[m]
  BY DEF PowersOf2
<1>2. m \in Nat /\ Bits \in Nat /\ p \in Nat
  BY <1>1, Pow2Def DEF KeyAssumption
<1> DEFINE x == k - 1
           y == l - 1
<1>3. x \in Nat /\ y \in Nat /\ y < p /\ x >= l /\ y < x
  BY <1>2
<1>4. PICK s : IsSum(s, x, y, Bits + 1) /\ AndNot(x, y) = s[Bits + 1]
  BY AndNotIs
<1>41. PICK b \in Nat : b = Bits + 1 /\ b > 0 /\ b - 1 = Bits
  BY <1>2
<1> HIDE DEF x, y
<1>42. IsSum(s, x, y, b)
  BY <1>4, <1>41
<1>43. /\ \A i \in 0..b : s[i] \in Nat /\ s[i] < Pow2[i]
       /\ \A i, j \in 0..b : i <= j => s[i] <= s[j]
       /\ \A i \in 0..(b - 1) : s[i + 1] = s[i] + Term(x, y, i)
  <2>1. \A i \in 0..b : s[i] \in Nat /\ s[i] < Pow2[i]
    BY <1>42, SumGrows
  <2>2. \A i, j \in 0..b : i <= j => s[i] <= s[j]
    BY <1>42, SumGrows
  <2>3. \A i \in 0..(b - 1) : s[i + 1] = s[i] + Term(x, y, i)
    BY <1>42, SumGrows
  <2> QED
    BY <2>1, <2>2, <2>3
<1>5. CASE k > p
  <2>1. x >= p /\ x > 0 /\ x < Pow2[Bits + 1]
    BY <1>2, <1>3, <1>5 DEF x
  <2>2. PICK i \in 0..Bits : Pow2[i] <= x /\ x < Pow2[i + 1]
    <3>1. \E i \in 0..(b - 1) : Pow2[i] <= x /\ x < Pow2[i + 1]
      BY <1>3, <1>41, <2>1, BetweenPowers
    <3> QED
      BY <1>41, <3>1
  <2>3. i \in Nat /\ Pow2[i] \in Nat /\ Pow2[i + 1] \in Nat
    BY <1>2, <2>2, Pow2Def
  <2>4. m <= i
    <3>1. CASE i < m
      <4>1. i + 1 = m \/ i + 1 < m
        BY <1>2, <2>3, <3>1
      <4>2. Pow2[i + 1] <= p
        BY <1>1, <1>2, <2>3, <4>1, Pow2Grows
      <4> QED
        BY <1>2, <1>3, <2>1, <2>2, <2>3, <4>2
    <3> QED
      BY <1>2, <2>3, <3>1
  <2>5. p <= Pow2[i]
    <3>1. i = m \/ m < i
      BY <1>2, <2>3, <2>4
    <3> QED
      BY <1>1, <1>2, <2>3, <3>1, Pow2Grows
  <2>6. HasBit(x, i) /\ ~HasBit(y, i)
    BY <1>2, <1>3, <2>2, <2>3, <2>5, TopBit, NoBit
  <2>7. Term(x, y, i) = Pow2[i]
    BY <2>6 DEF Term
  <2>8. s[i + 1] = s[i] + Pow2[i] /\ s[i] \in Nat /\ s[i + 1] <= s[Bits + 1]
        /\ s[Bits + 1] \in Nat
    <3>1. i \in 0..(b - 1) /\ i \in 0..b /\ i + 1 \in 0..b /\ b \in 0..b /\ i + 1 <= b
      BY <1>2, <1>41, <2>2
    <3> QED
      BY <1>41, <1>43, <2>7, <3>1
  <2>9. s[Bits + 1] >= l
    BY <1>2, <2>3, <2>5, <2>8
  <2> QED
    BY <1>2, <1>4, <1>5, <2>8, <2>9 DEF x, y
<1>6. CASE k <= p
  <2>1. m > 0
    BY <1>1, <1>2, <1>6, Pow2Def
  <2>2. PICK n \in 0..(Bits - 1) : m = n + 1
    BY <1>1, <1>2, <2>1
  <2>3. n \in Nat /\ Pow2[n] \in Nat /\ p = 2 * Pow2[n]
    BY <1>1, <1>2, <2>2, Pow2Def
  <2>4. Pow2[n] < l /\ Pow2[n] <= y /\ y < Pow2[n + 1] /\ x < p
    BY <1>1, <1>2, <1>3, <1>6, <2>2, <2>3 DEF x, y
  <2>5. ASSUME NEW i \in n..Bits PROVE Term(x, y, i) = 0
    <3>1. CASE i = n
      BY <1>3, <2>3, <2>4, <3>1, TopBit DEF Term
    <3>2. CASE i > n
      <4>1. i \in Nat /\ (i = m \/ m < i) /\ Pow2[i] \in Nat
        BY <1>2, <2>2, <2>3, <3>2, Pow2Def
      <4>2. x < Pow2[i]
        BY <1>1, <1>2, <1>3, <2>4, <4>1, Pow2Grows
      <4> QED
        BY <1>3, <4>1, <4>2, NoBit DEF Term
    <3> QED
      BY <2>3, <3>1, <3>2
  <2>6. s[Bits + 1] = s[n]
    <3>1. n \in 0..(Bits + 1) /\ Bits + 1 \in Nat /\ n..((Bits + 1) - 1) = n..Bits
      BY <1>2, <2>2
    <3> QED
      BY <1>4, <2>5, <3>1, SumStays
  <2>7. s[n] \in Nat /\ s[n] < Pow2[n]
    BY <1>2, <1>41, <1>43, <2>2
  <2> QED
    BY <1>4, <1>6, <2>3, <2>4, <2>6, <2>7 DEF x, y
<1> QED
  BY <1>2, <1>5, <1>6

-----------------------------------------------------------------------------
\* Least and greatest members.
LEMMA MinOf ==
  ASSUME NEW A, A \subseteq Nat, A # {}
  PROVE  Min(A) \in A /\ \A x \in A : Min(A) <= x
<1> DEFINE S == {n \in Nat : \A m \in 0..n : m \notin A}
<1>1. SUFFICES ASSUME \A x \in A : \E y \in A : ~(x <= y) PROVE FALSE
  BY DEF Min
<1>2. 0 \in S
  BY <1>1
<1>3. ASSUME NEW n \in Nat, n \in S PROVE n + 1 \in S
  <2>1. n + 1 \notin A
    BY <1>1, <1>3
  <2> QED
    BY <1>3, <2>1
<1> HIDE DEF S
<1>4. \A n \in Nat : n \in S
  BY <1>2, <1>3, Induction
<1>5. \A n \in Nat : n \notin A
  BY <1>4 DEF S
<1> QED
  BY <1>5

\* The same for a bounded set and its greatest member.
LEMMA MaxOf ==
  ASSUME NEW n \in Nat, NEW A, A \subseteq 0..n, A # {}
  PROVE  Max(A) \in A /\ \A x \in A : x <= Max(A)
<1> DEFINE B == {n - x : x \in A}
<1>1. B \subseteq Nat /\ B # {}
  <2>1. \A x \in A : x \in 0..n /\ n - x \in Nat
    OBVIOUS
  <2> QED
    BY <2>1
<1> HIDE DEF B
<1>2. Min(B) \in B /\ \A x \in B : Min(B) <= x
  BY <1>1, MinOf
<1>3. PICK a \in A : Min(B) = n - a
  BY <1>2 DEF B
<1>4. \A x \in A : x <= a
  <2> TAKE x \in A
  <2>1. n - x \in B /\ x \in 0..n /\ a \in 0..n
    BY DEF B
  <2> QED
    BY <1>2, <1>3, <2>1
<1> QED
  BY <1>4 DEF Max

\* binsearch: a member before a non-member.
LEMMA SearchIs ==
  ASSUME NEW present, NEW from \in Nat, NEW to \in Nat, from < to, to \notin present,
         NEW b, b = BinarySearch(present, from, to)
  PROVE  /\ b \in from..(to - 1)
         /\ b = from \/ b \in present
         /\ b + 1 \notin present
<1> DEFINE halve == [p \in (from..to) \X (from..to) |-> Halve(present, p[1], p[2])]
           g == Iterated(halve, <<from, to>>, to - from)
           Around(p, i, j, n) == /\ p = <<i, j>> /\ i < j /\ (j - i <= 1 \/ j - i <= to - from - n)
                                 /\ i = from \/ i \in present
                                 /\ j \notin present
           S == {n \in Nat : n <= to - from =>
                                 \E i, j \in from..to : Around(g[n], i, j, n)}
<1>1. b = g[to - from][1]
  BY DEF BinarySearch, Iterated
<1> HIDE DEF halve
<1>2. g = [n \in 0..(to - from) |-> IF n = 0 THEN <<from, to>> ELSE halve[g[n - 1]]]
  <2>1. PICK n \in Nat : n = to - from
    OBVIOUS
  <2>2. PICK x : x = <<from, to>>
    OBVIOUS
  <2>3. Iterated(halve, x, n)
            = [i \in 0..n |-> IF i = 0 THEN x ELSE halve[Iterated(halve, x, n)[i - 1]]]
    BY IteratedIs
  <2> QED
    BY <2>1, <2>2, <2>3
<1> HIDE DEF g
<1>3. 0 \in S
  <2>1. g[0] = <<from, to>>
    BY <1>2
  <2>2. Around(g[0], from, to, 0)
    BY <2>1
  <2> QED
    BY <2>2
<1>4. ASSUME NEW n \in Nat, n \in S PROVE n + 1 \in S
  <2> SUFFICES ASSUME n + 1 <= to - from
               PROVE  \E i, j \in from..to : Around(g[n + 1], i, j, n + 1)
    OBVIOUS
  <2>1. PICK i \in from..to, j \in from..to : Around(g[n], i, j, n)
    BY <1>4
  <2>2. g[n + 1] = Halve(present, i, j)
    <3>1. n + 1 \in 0..(to - from) /\ n + 1 # 0 /\ (n + 1) - 1 = n
      OBVIOUS
    <3>2. g[n + 1] = halve[g[n]]
      BY <1>2, <3>1
    <3>3. halve[<<i, j>>] = Halve(present, i, j)
      BY DEF halve
    <3> QED
      BY <2>1, <3>2, <3>3
  <2> DEFINE m == (i + j) \div 2
  <2>3. CASE j - i <= 1
    <3>1. Around(g[n + 1], i, j, n + 1)
      BY <2>1, <2>2, <2>3 DEF Halve
    <3> QED
      BY <3>1
  <2>4. CASE j - i > 1
    <3>1. m \in from..to /\ i < m /\ m < j
      BY <2>1, <2>4
    <3>2. g[n + 1] = IF m \in present THEN <<m, j>> ELSE <<i, m>>
      BY <2>2, <2>4 DEF Halve
    <3> HIDE DEF m
    <3>3. CASE m \in present
      <4>1. Around(g[n + 1], m, j, n + 1)
        BY <2>1, <2>4, <3>1, <3>2, <3>3
      <4> QED
        BY <3>1, <4>1
    <3>4. CASE m \notin present
      <4>1. Around(g[n + 1], i, m, n + 1)
        BY <2>1, <2>4, <3>1, <3>2, <3>4
      <4> QED
        BY <3>1, <4>1
    <3> QED
      BY <3>3, <3>4
  <2> QED
    BY <2>1, <2>3, <2>4
<1> HIDE DEF S
<1>5. to - from \in S
  <2>1. to - from \in Nat
    OBVIOUS
  <2> QED
    BY <1>3, <1>4, <2>1, Induction
<1>6. PICK i \in from..to, j \in from..to : Around(g[to - from], i, j, to - from)
  BY <1>5 DEF S
<1>7. b = i /\ j = i + 1
  BY <1>1, <1>6
<1> QED
  BY <1>6, <1>7

\* hash_search: it doubles until an absent index, or the end of the integers.
LEMMA HashSearchIs ==
  ASSUME NEW u, NEW j \in Nat, MAXINTEGER \in Nat,
         NEW start, start = (IF j = 0 THEN 1 ELSE j), start <= MAXINTEGER, ByGet(u, start),
         NEW b, b = HashSearch(u, j)
  PROVE  b \in 1..MAXINTEGER /\ ByGet(u, b) /\ (b = MAXINTEGER \/ ~ByGet(u, b + 1))
<1> DEFINE top == MAXINTEGER
           double == [i \in 1..top |-> IF CanDouble(i) /\ ByGet(u, 2 * i) THEN 2 * i ELSE i]
           Stops(i) == ~(CanDouble(i) /\ ByGet(u, 2 * i))
           g == Iterated(double, start, top)
           S == {n \in Nat : n <= top =>
                    g[n] \in 1..top /\ ByGet(u, g[n]) /\ (g[n] > n \/ Stops(g[n]))}
           i == g[top]
           absent == IF CanDouble(i) THEN 2 * i ELSE top
<1>1. b = IF ~CanDouble(i) /\ ByGet(u, top) THEN top
          ELSE BinarySearch(Between(u, i, absent), i, absent)
  BY DEF HashSearch, Iterated
<1>2. top \in Nat
  OBVIOUS
<1>3. \A x \in 1..top : double[x] = IF Stops(x) THEN x ELSE 2 * x
  OBVIOUS
<1> HIDE DEF double, top
<1>4. g = [n \in 0..top |-> IF n = 0 THEN start ELSE double[g[n - 1]]]
  BY <1>2, IteratedIs
<1> HIDE DEF g
<1>5. 0 \in S
  <2>1. g[0] = start
    BY <1>2, <1>4
  <2>2. start \in 1..top
    BY DEF top
  <2> QED
    BY <2>1, <2>2
<1>6. ASSUME NEW n \in Nat, n \in S PROVE n + 1 \in S
  <2> SUFFICES ASSUME n + 1 <= top
               PROVE  g[n + 1] \in 1..top /\ ByGet(u, g[n + 1])
                      /\ (g[n + 1] > n + 1 \/ Stops(g[n + 1]))
    OBVIOUS
  <2>1. g[n] \in 1..top /\ ByGet(u, g[n]) /\ (g[n] > n \/ Stops(g[n]))
    BY <1>2, <1>6
  <2>2. g[n + 1] = double[g[n]]
    <3>1. n + 1 \in 0..top /\ n + 1 # 0 /\ (n + 1) - 1 = n
      BY <1>2
    <3> QED
      BY <1>4, <3>1
  <2>3. CASE Stops(g[n])
    BY <1>3, <2>1, <2>2, <2>3
  <2>4. CASE ~Stops(g[n])
    <3>1. g[n + 1] = 2 * g[n] /\ CanDouble(g[n]) /\ ByGet(u, 2 * g[n])
      BY <1>3, <2>1, <2>2, <2>4
    <3>2. 2 * g[n] <= top
      BY <1>2, <2>1, <3>1 DEF CanDouble, top
    <3> QED
      BY <1>2, <2>1, <2>4, <3>1, <3>2
  <2> QED
    BY <2>3, <2>4
<1> HIDE DEF S
<1>7. top \in S
  BY <1>2, <1>5, <1>6, Induction
<1>8. i \in 1..top /\ ByGet(u, i) /\ Stops(i)
  BY <1>2, <1>7 DEF S
<1> HIDE DEF i
<1>9. CASE ~CanDouble(i) /\ ByGet(u, top)
  BY <1>1, <1>2, <1>8, <1>9 DEF top
<1>10. CASE CanDouble(i) \/ ~ByGet(u, top)
  <2>1. absent \in Nat /\ i < absent /\ absent <= top /\ ~ByGet(u, absent)
    <3>1. CASE CanDouble(i)
      BY <1>2, <1>8, <3>1 DEF CanDouble, top
    <3>2. CASE ~CanDouble(i)
      BY <1>2, <1>8, <1>10, <3>2
    <3> QED
      BY <3>1, <3>2
  <2>2. b = BinarySearch(Between(u, i, absent), i, absent)
    BY <1>1, <1>10
  <2> HIDE DEF absent
  <2>3. absent \notin Between(u, i, absent)
    BY <2>1 DEF Between
  <2>4. /\ b \in i..(absent - 1)
        /\ b = i \/ b \in Between(u, i, absent)
        /\ b + 1 \notin Between(u, i, absent)
    <3>1. i \in Nat
      BY <1>8
    <3>2. PICK present : present = Between(u, i, absent)
      OBVIOUS
    <3> QED
      BY <2>1, <2>2, <2>3, <3>1, <3>2, SearchIs
  <2>5. b + 1 \in i..absent
    BY <1>2, <1>8, <2>1, <2>4
  <2>6. ByGet(u, b) /\ ~ByGet(u, b + 1)
    BY <1>8, <2>4, <2>5 DEF Between
  <2> QED
    BY <1>2, <1>8, <2>1, <2>4, <2>6 DEF top
<1> QED
  BY <1>9, <1>10

\* A power of 2 that is not 1 is twice another.
LEMMA HalfPower ==
  ASSUME KeyAssumption, NEW p \in PowersOf2, p # 1
  PROVE  \E q \in PowersOf2 : p = 2 * q
<1>1. PICK i \in 0..Bits : p = Pow2[i]
  BY DEF PowersOf2
<1>2. i # 0
  BY <1>1, Pow2Def
<1>3. i - 1 \in Nat /\ i - 1 \in 0..Bits /\ (i - 1) + 1 = i
  BY <1>2 DEF KeyAssumption
<1>4. Pow2[i] = 2 * Pow2[i - 1]
  BY <1>3, Pow2Def
<1> QED
  BY <1>1, <1>3, <1>4 DEF PowersOf2

-----------------------------------------------------------------------------
\* The limit is the size of the array part, or a hint in its upper half: then the
\* size is a power of 2.
LimitOK(u) ==
    IF u.isreal THEN u.alimit = Len(u.array)
    ELSE \E p \in PowersOf2 : Len(u.array) = p /\ p < 2 * u.alimit
\* Keys come from the program, values are where keys are, ...
KeysOK(u) ==
    /\ \A i \in 1..Len(u.array) : u.array[i] # Nil => i \in use.keys
    /\ \A i \in DOMAIN u.node :
           /\ u.node[i].key \in use.keys \cup {Nil}
           /\ u.node[i].val # Nil => u.node[i].key # Nil /\ ~u.node[i].dead
\* ... and those of integers not where the array part would hide them.
ShadowOK(u) ==
    \A i \in DOMAIN u.node :
        u.node[i].key \in IntKey /\ u.node[i].val # Nil => u.node[i].key > Len(u.array)
TableInv(u) == TableType(u) /\ LimitOK(u) /\ KeysOK(u) /\ ShadowOK(u)
IInv == TypeOK /\ use \in Uses /\ TableInv(t)

\* The constants of a use.
UseOK ==
    /\ use.keys \subseteq Key /\ use.values \subseteq Value
    /\ use.sizes \subseteq Nat \X (0..Pow2[Bits])
    /\ IsFiniteSet(use.keys) /\ Cardinality(use.keys) <= Pow2[Bits]
    /\ \A k \in use.keys \cap IntKey : k <= use.maxinteger
    /\ Bits \in Nat /\ Nil \notin Key \cup Value /\ IntKey \subseteq Nat \ {0}
    /\ \A k \in Collectable : k \notin Nat
    /\ Hash \in [Collectable -> Nat]
\* It is what the assumption says of the use that the table has.
LEMMA UseIs == ASSUME KeyAssumption, use \in Uses PROVE UseOK
  BY DEF KeyAssumption, UseOK, Key, Collectable

\* What TableType says.
LEMMA TypeIs ==
  ASSUME NEW u, TableType(u)
  PROVE  /\ u.array \in Seq(Value \cup {Nil}) /\ Len(u.array) \in Nat
         /\ DOMAIN u.array = 1..Len(u.array)
         /\ \A i \in 1..Len(u.array) : u.array[i] \in Value \cup {Nil}
         /\ u.alimit \in Nat /\ u.alimit <= Len(u.array) /\ u.isreal \in BOOLEAN
         /\ u.node \in [DOMAIN u.node -> NodeType]
         /\ \A i \in DOMAIN u.node : u.node[i] \in NodeType
         /\ u.lastfree \in Nat /\ u.lastfree <= SizeNode(u)
<1>1. /\ u.array \in Seq(Value \cup {Nil}) /\ u.alimit \in Nat /\ u.isreal \in BOOLEAN
      /\ u.node \in [DOMAIN u.node -> NodeType] /\ u.lastfree \in Nat
      /\ u.alimit <= Len(u.array) /\ u.lastfree <= SizeNode(u)
  BY DEF TableType
<1>2. /\ Len(u.array) \in Nat /\ DOMAIN u.array = 1..Len(u.array)
      /\ \A i \in 1..Len(u.array) : u.array[i] \in Value \cup {Nil}
  BY <1>1, ElementOfSeq, LenProperties
<1> QED
  BY <1>1, <1>2

\* The nodes are numbered from 0.
LEMMA SizeIs ==
  ASSUME KeyAssumption, NEW u, TableType(u)
  PROVE  /\ SizeNode(u) \in Nat /\ DOMAIN u.node = 0..(SizeNode(u) - 1)
         /\ IsDummy(u) <=> SizeNode(u) = 0
<1>1. SizeNode(u) \in Nat /\ DOMAIN u.node = 0..(SizeNode(u) - 1)
  BY PowersType DEF TableType
<1>2. u.node = << >> => SizeNode(u) = 0
  <2>1. DOMAIN << >> = {}
    OBVIOUS
  <2> QED
    BY <2>1, FS_EmptySet DEF SizeNode
<1>3. SizeNode(u) = 0 => u.node = << >>
  <2> SUFFICES ASSUME SizeNode(u) = 0 PROVE u.node = << >>
    OBVIOUS
  <2>1. DOMAIN u.node = 0..(0 - 1) /\ 0..(0 - 1) = {}
    BY <1>1
  <2>2. u.node \in [DOMAIN u.node -> NodeType]
    BY TypeIs
  <2> QED
    BY <2>1, <2>2
<1> QED
  BY <1>1, <1>2, <1>3 DEF IsDummy

-----------------------------------------------------------------------------
\* luaH_realasize: the size of the array part is never lost.
LEMMA RealSizeIs ==
  ASSUME KeyAssumption, NEW u, TableType(u), LimitOK(u)
  PROVE  RealSize(u) = Len(u.array)
<1>1. /\ u.alimit \in Nat /\ u.alimit <= Len(u.array) /\ u.isreal \in BOOLEAN
      /\ Len(u.array) \in Nat
  BY TypeIs
<1>2. CASE u.isreal
  BY <1>2 DEF LimitOK, RealSize, LimitEqualsSize
<1>3. CASE ~u.isreal
  <2>1. PICK p \in PowersOf2 : Len(u.array) = p /\ p < 2 * u.alimit
    BY <1>3 DEF LimitOK
  <2>2. p \in Nat /\ u.alimit # 0
    BY <2>1, <1>1, PowersType
  <2>3. CASE u.alimit \in PowersOf2
    <3>1. ~(u.alimit < p)
      BY <1>1, <2>1, <2>2, <2>3, PowersApart
    <3> QED
      BY <1>1, <2>1, <2>2, <2>3, <3>1 DEF RealSize, LimitEqualsSize, IsPow2
  <2>4. CASE u.alimit \notin PowersOf2
    <3>1. Min({q \in PowersOf2 : q >= u.alimit}) = p
      BY <1>1, <2>1, <2>2, PowerAbove
    <3> QED
      BY <1>3, <2>1, <2>2, <2>4, <3>1 DEF RealSize, LimitEqualsSize, IsPow2
  <2> QED
    BY <2>3, <2>4
<1> QED
  BY <1>1, <1>2, <1>3

\* A key that the array part has is found there, wherever the limit is, and no other.
LEMMA InArrayIs ==
  ASSUME KeyAssumption, NEW u, TableType(u), LimitOK(u), NEW k \in Nat \ {0}
  PROVE  InArray(u, k) <=> k <= Len(u.array)
<1>1. /\ u.alimit \in Nat /\ u.alimit <= Len(u.array) /\ u.isreal \in BOOLEAN
      /\ Len(u.array) \in Nat
  BY TypeIs
<1>2. k \notin Collectable /\ Bits \in Nat
  BY DEF KeyAssumption, Collectable
<1>3. CASE u.isreal
  BY <1>1, <1>2, <1>3 DEF InArray, BeyondLimit, LimitOK
<1>4. CASE ~u.isreal
  <2>1. PICK p \in PowersOf2 : Len(u.array) = p /\ p < 2 * u.alimit
    BY <1>4 DEF LimitOK
  <2>2. PICK m \in 0..Bits : p = Pow2[m]
    BY <2>1 DEF PowersOf2
  <2>3. p \in Nat /\ Pow2[Bits + 1] \in Nat /\ p < Pow2[Bits + 1] /\ p > 0
    <3>1. m \in Nat /\ Bits + 1 \in Nat /\ m < Bits + 1
      BY <1>2
    <3> QED
      BY <2>2, <3>1, Pow2Def, Pow2Grows
  <2>4. CASE k <= u.alimit
    BY <1>1, <1>2, <2>4 DEF InArray
  <2>5. CASE k > u.alimit /\ k - 1 < Pow2[Bits + 1]
    <3>1. AndNot(k - 1, u.alimit - 1) < u.alimit <=> k <= p
      BY <1>1, <2>1, <2>3, <2>5, BitTest
    <3> QED
      BY <1>1, <1>2, <1>4, <2>1, <2>5, <3>1 DEF InArray, BeyondLimit
  <2>6. CASE k - 1 >= Pow2[Bits + 1]
    BY <1>1, <1>2, <2>1, <2>3, <2>6 DEF InArray, BeyondLimit
  <2> QED
    BY <1>1, <2>3, <2>4, <2>5, <2>6
<1> QED
  BY <1>1, <1>3, <1>4

\* A read may move the hint, within the upper half.
LEMMA TouchInv ==
  ASSUME KeyAssumption, NEW u, TableInv(u), NEW k, k \in Collectable \/ k \in Nat \ {0}
  PROVE  /\ TableInv(Touch(u, k))
         /\ Touch(u, k).array = u.array /\ Touch(u, k).node = u.node
         /\ Touch(u, k).isreal = u.isreal
         /\ ~InArray(u, k) => Touch(u, k) = u
<1>1. CASE k \notin Collectable /\ BeyondLimit(u, k)
  <2>1. k \in Nat \ {0} /\ InArray(u, k)
    BY <1>1 DEF InArray
  <2>2. k <= Len(u.array) /\ k > u.alimit /\ ~u.isreal
    BY <1>1, <2>1, InArrayIs DEF TableInv, BeyondLimit
  <2>3. PICK w : w = Touch(u, k)
    OBVIOUS
  <2>4. w = [u EXCEPT !.alimit = k]
    BY <1>1, <2>3 DEF Touch
  <2>5. /\ w.array = u.array /\ w.node = u.node /\ w.alimit = k /\ w.isreal = u.isreal
        /\ w.lastfree = u.lastfree
    BY <2>4 DEF TableInv, TableType
  <2>6. SizeNode(w) = SizeNode(u)
    BY <2>5 DEF SizeNode
  <2>7. TableType(w)
    BY <2>1, <2>2, <2>4, <2>5, <2>6 DEF TableInv, TableType
  <2>8. LimitOK(w)
    <3>1. u.alimit \in Nat
      BY TypeIs DEF TableInv
    <3>2. PICK p \in PowersOf2 : Len(u.array) = p /\ p < 2 * u.alimit
      BY <2>2 DEF TableInv, LimitOK
    <3>3. p < 2 * k
      BY <2>1, <2>2, <3>1, <3>2, PowersType
    <3> QED
      BY <2>2, <2>5, <3>2, <3>3 DEF LimitOK
  <2>9. KeysOK(w) /\ ShadowOK(w)
    BY <2>5 DEF TableInv, KeysOK, ShadowOK
  <2> QED
    BY <2>1, <2>3, <2>5, <2>7, <2>8, <2>9 DEF TableInv
<1>2. CASE ~(k \notin Collectable /\ BeyondLimit(u, k))
  BY <1>2 DEF Touch
<1> QED
  BY <1>1, <1>2

-----------------------------------------------------------------------------
\* The node a key is searched from is a node, and the search stays among them.
LEMMA MainPositionIn ==
  ASSUME KeyAssumption, NEW u, TableType(u), ~IsDummy(u), NEW k, k \in Collectable \/ k \in Nat
  PROVE  MainPosition(u, k) \in DOMAIN u.node
<1>1. PICK s \in Nat : s = SizeNode(u) /\ s > 0 /\ DOMAIN u.node = 0..(s - 1)
  BY SizeIs
<1>2. ASSUME NEW n \in Nat PROVE n % s \in 0..(s - 1)
  BY <1>1
<1>3. ASSUME NEW n \in Nat PROVE OddMod(u, n) \in 0..(s - 1)
  <2>1. CASE s = 1
    BY <1>1, <2>1 DEF OddMod
  <2>2. CASE s > 1
    <3>1. PICK d \in Nat : d = s - 1 /\ d > 0
      BY <1>1, <2>2
    <3>2. n % d \in 0..(d - 1)
      BY <3>1
    <3>3. OddMod(u, n) = n % d
      BY <1>1, <2>2, <3>1 DEF OddMod
    <3> QED
      BY <1>1, <3>1, <3>2, <3>3
  <2> QED
    BY <1>1, <2>1, <2>2
<1>4. k \in Collectable => Hash[k] \in Nat
  BY DEF KeyAssumption, Collectable
<1>5. CASE k \in StrKey
  BY <1>1, <1>2, <1>4, <1>5 DEF MainPosition, Collectable
<1>6. CASE k \notin StrKey /\ k \in RefKey
  BY <1>1, <1>3, <1>4, <1>6 DEF MainPosition, Collectable
<1>7. CASE k \notin StrKey /\ k \notin RefKey
  BY <1>1, <1>3, <1>7 DEF MainPosition, Collectable
<1> QED
  BY <1>5, <1>6, <1>7

\* getgeneric: the search follows links from node to node.
LEMMA NodesIn ==
  ASSUME KeyAssumption, NEW u, TableType(u), NEW k, k \in Collectable \/ k \in Nat, NEW deadok,
         NEW i \in Nodes(u, k, deadok)
  PROVE  i \in DOMAIN u.node /\ EqualKey(k, u.node[i], deadok)
<1>1. ~IsDummy(u)
  BY DEF Nodes
<1>2. PICK s \in Nat : s = SizeNode(u) /\ s > 0
  BY <1>1, SizeIs
<1> DEFINE follow == [j \in DOMAIN u.node |->
                         IF EqualKey(k, u.node[j], deadok) THEN j ELSE j + u.node[j].next]
<1>3. PICK x : x = MainPosition(u, k)
  OBVIOUS
<1>4. i = Iterated(follow, x, s)[s - 1] /\ EqualKey(k, u.node[i], deadok)
  BY <1>1, <1>2, <1>3 DEF Nodes, Iterated
<1>5. \A y \in DOMAIN u.node : follow[y] \in DOMAIN u.node
  BY DEF TableType
<1> HIDE DEF follow
<1>6. x \in DOMAIN u.node
  BY <1>1, <1>3, MainPositionIn
<1>7. \A j \in 0..s : Iterated(follow, x, s)[j] \in DOMAIN u.node
  BY <1>5, <1>6, IteratedStays
<1> QED
  BY <1>2, <1>4, <1>7

\* Where a lookup that skips dead keys ends.
LEMMA FoundIs ==
  ASSUME KeyAssumption, NEW u, TableType(u), NEW k, k \in Collectable \/ k \in Nat,
         NEW i \in Found(u, k)
  PROVE  i \in DOMAIN u.node /\ u.node[i].key = k /\ ~u.node[i].dead /\ ~IsDummy(u)
<1>1. i \in DOMAIN u.node /\ EqualKey(k, u.node[i], FALSE)
  BY NodesIn DEF Found
<1> QED
  BY <1>1 DEF EqualKey, Found, Nodes

\* Get gives nothing but what is stored under the key.
LEMMA GetIs ==
  ASSUME KeyAssumption, use \in Uses, NEW u, TableInv(u), NEW k \in Nat \ {0}
  PROVE  /\ k <= Len(u.array) => Get(u, k) = u.array[k]
         /\ k > Len(u.array) /\ IsDummy(u) => Get(u, k) = Nil
         /\ Get(u, k) # Nil => k \in use.keys /\ k <= use.maxinteger
<1>1. InArray(u, k) <=> k <= Len(u.array)
  BY InArrayIs DEF TableInv
<1>2. Len(u.array) \in Nat
  BY TypeIs DEF TableInv
<1>3. CASE k <= Len(u.array)
  <2>1. Get(u, k) = u.array[k]
    BY <1>1, <1>3 DEF Get
  <2>2. u.array[k] # Nil => k \in use.keys
    BY <1>2, <1>3 DEF TableInv, KeysOK
  <2> QED
    BY <1>2, <1>3, <2>1, <2>2, UseIs DEF UseOK, Key
<1>4. CASE k > Len(u.array)
  <2>1. ~InArray(u, k)
    BY <1>1, <1>2, <1>4
  <2>2. (\A i \in Found(u, k) : u.node[i].val = Nil) => Get(u, k) = Nil
    BY <2>1 DEF Get
  <2>3. IsDummy(u) => Found(u, k) = {}
    BY DEF Found, Nodes
  <2>4. ASSUME NEW i \in Found(u, k), u.node[i].val # Nil PROVE k \in use.keys
    <3>1. i \in DOMAIN u.node /\ u.node[i].key = k
      BY FoundIs DEF TableInv
    <3> QED
      BY <2>4, <3>1 DEF TableInv, KeysOK
  <2>5. Get(u, k) # Nil => k \in use.keys
    BY <2>2, <2>4
  <2>6. IsDummy(u) => Get(u, k) = Nil
    BY <2>2, <2>3
  <2> QED
    BY <1>2, <1>3, <1>4, <2>5, <2>6, UseIs DEF UseOK, Key
<1> QED
  BY <1>2, <1>3, <1>4

-----------------------------------------------------------------------------
\* The hint may be anywhere in the upper half of an array part that is a power of 2.
LEMMA HintInv ==
  ASSUME KeyAssumption, NEW u, TableInv(u), NEW l \in Nat,
         Len(u.array) \in PowersOf2, l <= Len(u.array), Len(u.array) < 2 * l
  PROVE  TableInv(SetHint(u, l))
<1>1. PICK w : w = SetHint(u, l)
  OBVIOUS
<1>2. /\ w.array = u.array /\ w.node = u.node /\ w.alimit = l /\ w.isreal = FALSE
      /\ w.lastfree = u.lastfree
  BY <1>1 DEF SetHint, TableInv, TableType
<1>3. SizeNode(w) = SizeNode(u)
  BY <1>2 DEF SizeNode
<1>4. TableType(w)
  BY <1>1, <1>2, <1>3 DEF SetHint, TableInv, TableType
<1>5. LimitOK(w)
  BY <1>2 DEF LimitOK
<1>6. KeysOK(w) /\ ShadowOK(w)
  BY <1>2 DEF TableInv, KeysOK, ShadowOK
<1> QED
  BY <1>1, <1>4, <1>5, <1>6 DEF TableInv

\* luaH_getn, where the limit is empty.
LEMMA GetnBeforeIs ==
  ASSUME KeyAssumption, use \in Uses, NEW u, TableInv(u),
         u.alimit > 0, ~InArrayPart(u, u.alimit)
  PROVE  /\ GetnBefore(u)[1] \in 0..(u.alimit - 1)
         /\ GetnBefore(u)[1] = 0 \/ InArrayPart(u, GetnBefore(u)[1])
         /\ ~InArrayPart(u, GetnBefore(u)[1] + 1)
         /\ TableInv(GetnBefore(u)[2])
<1>1. /\ u.alimit \in Nat /\ Len(u.array) \in Nat /\ u.alimit <= Len(u.array)
      /\ DOMAIN u.array = 1..Len(u.array) /\ u.isreal \in BOOLEAN
  BY TypeIs DEF TableInv
<1>2. PICK limit \in Nat : limit = u.alimit
  BY <1>1
<1>3. RealSize(u) = Len(u.array)
  BY RealSizeIs DEF TableInv
<1>4. IsPow2RealSize(u) => Len(u.array) \in PowersOf2 /\ Len(u.array) < 2 * limit
  <2>1. CASE u.isreal
    BY <1>1, <1>2, <2>1 DEF IsPow2RealSize, IsPow2, TableInv, LimitOK
  <2>2. CASE ~u.isreal
    BY <1>2, <2>2 DEF TableInv, LimitOK
  <2> QED
    BY <1>1, <2>1, <2>2
<1>5. CASE limit >= 2 /\ InArrayPart(u, limit - 1)
  <2>1. /\ GetnBefore(u)[1] = limit - 1
        /\ GetnBefore(u)[2] = IF IsPow2RealSize(u) /\ ~IsPow2(limit - 1)
                              THEN SetHint(u, limit - 1) ELSE u
    BY <1>2, <1>5 DEF GetnBefore
  <2>2. TableInv(GetnBefore(u)[2])
    <3>1. CASE IsPow2RealSize(u) /\ ~IsPow2(limit - 1)
      <4>1. PICK p \in PowersOf2 : p = Len(u.array) /\ p < 2 * limit
        BY <1>4, <3>1
      <4>2. p # 1
        <5>1. limit <= p /\ limit >= 2 /\ p \in Nat
          BY <1>1, <1>2, <1>5, <4>1
        <5> QED
          BY <5>1
      <4>3. PICK q \in PowersOf2 : p = 2 * q
        BY <4>2, HalfPower
      <4>4. q # limit - 1 /\ q \in Nat
        BY <3>1, PowersType DEF IsPow2
      <4>5. p < 2 * (limit - 1)
        BY <4>1, <4>3, <4>4
      <4>6. limit - 1 \in Nat /\ limit - 1 <= Len(u.array)
        BY <1>1, <1>2, <1>5
      <4>7. TableInv(SetHint(u, limit - 1))
        BY <4>1, <4>5, <4>6, HintInv
      <4> QED
        BY <2>1, <3>1, <4>7
    <3>2. CASE ~(IsPow2RealSize(u) /\ ~IsPow2(limit - 1))
      BY <2>1, <3>2
    <3> QED
      BY <3>1, <3>2
  <2>3. limit - 1 \in 0..(limit - 1) /\ (limit - 1) + 1 = limit
    BY <1>5
  <2> QED
    BY <1>2, <1>5, <2>1, <2>2, <2>3
<1>6. CASE ~(limit >= 2 /\ InArrayPart(u, limit - 1))
  <2>1. PICK b : b = BinarySearch(ArrayPresent(u), 0, limit)
    OBVIOUS
  <2>2. /\ GetnBefore(u)[1] = b
        /\ GetnBefore(u)[2] = IF IsPow2RealSize(u) /\ b > RealSize(u) \div 2
                              THEN SetHint(u, b) ELSE u
    BY <1>2, <1>6, <2>1 DEF GetnBefore
  <2>3. limit > 0 /\ limit \notin ArrayPresent(u)
    BY <1>2 DEF ArrayPresent
  <2>4. /\ b \in 0..(limit - 1)
        /\ b = 0 \/ b \in ArrayPresent(u)
        /\ b + 1 \notin ArrayPresent(u)
    BY <2>1, <2>3, SearchIs
  <2>5. b = 0 \/ InArrayPart(u, b)
    BY <2>4 DEF ArrayPresent
  <2>6. b + 1 \in DOMAIN u.array /\ ~InArrayPart(u, b + 1)
    BY <1>1, <1>2, <2>4 DEF ArrayPresent
  <2>7. TableInv(GetnBefore(u)[2])
    <3>1. CASE IsPow2RealSize(u) /\ b > RealSize(u) \div 2
      <4>1. b \in Nat /\ b <= Len(u.array) /\ Len(u.array) < 2 * b
        <5>1. PICK p \in Nat : p = Len(u.array) /\ limit <= p
          BY <1>1, <1>2
        <5>2. b > p \div 2 /\ b \in 0..(limit - 1)
          BY <1>3, <2>4, <3>1, <5>1
        <5>3. b \in Nat /\ b <= p
          BY <5>1, <5>2
        <5>4. p \div 2 \in Nat /\ p <= 2 * (p \div 2) + 1
          OBVIOUS
        <5>5. p < 2 * b
          BY <5>2, <5>3, <5>4
        <5> QED
          BY <5>1, <5>3, <5>5
      <4>2. TableInv(SetHint(u, b))
        BY <1>4, <3>1, <4>1, HintInv
      <4> QED
        BY <2>2, <3>1, <4>2
    <3>2. CASE ~(IsPow2RealSize(u) /\ b > RealSize(u) \div 2)
      BY <2>2, <3>2
    <3> QED
      BY <3>1, <3>2
  <2> QED
    BY <1>2, <2>2, <2>4, <2>5, <2>6, <2>7
<1> QED
  BY <1>5, <1>6

\* luaH_getn, where the search goes beyond the array part.
LEMMA GetnHashIs ==
  ASSUME KeyAssumption, use \in Uses, NEW u, TableInv(u),
         Len(u.array) = 0 \/ InArrayPart(u, Len(u.array))
  PROVE  /\ GetnHash(u)[1] \in Nat /\ GetnHash(u)[2] = u
         /\ GetnHash(u)[1] = 0 \/ Get(u, GetnHash(u)[1]) # Nil
         /\ GetnHash(u)[1] = MAXINTEGER \/ Get(u, GetnHash(u)[1] + 1) = Nil
<1>1. PICK s \in Nat : s = Len(u.array)
  BY TypeIs DEF TableInv
<1>2. RealSize(u) = s
  BY <1>1, RealSizeIs DEF TableInv
<1>3. MAXINTEGER \in Nat
  BY DEF KeyAssumption, MAXINTEGER
<1>4. s = 0 \/ Get(u, s) # Nil
  BY <1>1, GetIs DEF InArrayPart
<1>5. CASE IsDummy(u) \/ ~ByGet(u, s + 1)
  <2>1. GetnHash(u) = <<s, u>>
    BY <1>2, <1>5 DEF GetnHash
  <2>2. IsDummy(u) => Get(u, s + 1) = Nil
    <3>1. s + 1 \in Nat \ {0} /\ s + 1 > Len(u.array)
      BY <1>1
    <3> QED
      BY <3>1, GetIs
  <2>3. Get(u, s + 1) = Nil
    BY <1>5, <2>2 DEF ByGet
  <2> QED
    BY <1>4, <2>1, <2>3
<1>6. CASE ~IsDummy(u) /\ ByGet(u, s + 1)
  <2>1. PICK b : b = HashSearch(u, s)
    OBVIOUS
  <2>2. GetnHash(u) = <<b, u>>
    BY <1>2, <1>6, <2>1 DEF GetnHash
  <2>3. s + 1 <= MAXINTEGER
    <3>1. s + 1 \in Nat \ {0}
      OBVIOUS
    <3> QED
      BY <1>6, <3>1, GetIs DEF ByGet, MAXINTEGER
  <2>4. PICK start : start = IF s = 0 THEN 1 ELSE s
    OBVIOUS
  <2>5. ByGet(u, start) /\ start <= MAXINTEGER
    <3>1. CASE s = 0
      BY <1>6, <2>3, <2>4, <3>1
    <3>2. CASE s # 0
      BY <1>3, <1>4, <2>3, <2>4, <3>2 DEF ByGet
    <3> QED
      BY <3>1, <3>2
  <2>6. b \in 1..MAXINTEGER /\ ByGet(u, b) /\ (b = MAXINTEGER \/ ~ByGet(u, b + 1))
    BY <1>3, <2>1, <2>4, <2>5, HashSearchIs
  <2> QED
    BY <1>3, <2>2, <2>6 DEF ByGet
<1> QED
  BY <1>5, <1>6

\* luaH_getn, where the limit is present and before the end of the array part.
LEMMA GetnAfterIs ==
  ASSUME KeyAssumption, use \in Uses, NEW u, TableInv(u),
         u.alimit = 0 \/ InArrayPart(u, u.alimit), ~LimitEqualsSize(u)
  PROVE  /\ GetnAfter(u)[1] \in Nat /\ TableInv(GetnAfter(u)[2])
         /\ GetnAfter(u)[1] = 0 \/ Get(u, GetnAfter(u)[1]) # Nil
         /\ GetnAfter(u)[1] = MAXINTEGER \/ Get(u, GetnAfter(u)[1] + 1) = Nil
<1>1. PICK limit \in Nat : limit = u.alimit
  BY TypeIs DEF TableInv
<1>2. limit \notin PowersOf2 /\ limit # 0 /\ u.isreal = FALSE
  BY <1>1, TypeIs DEF LimitEqualsSize, IsPow2, TableInv
<1>3. PICK p \in PowersOf2 : p = Len(u.array) /\ p < 2 * limit
  BY <1>1, <1>2 DEF TableInv, LimitOK
<1>4. p \in Nat /\ limit < p /\ RealSize(u) = p /\ DOMAIN u.array = 1..p
  <2>1. p \in Nat /\ limit <= p /\ DOMAIN u.array = 1..p
    BY <1>1, <1>3, TypeIs, PowersType DEF TableInv
  <2> QED
    BY <1>2, <1>3, <2>1, RealSizeIs DEF TableInv
<1>5. \A i \in 1..p : Get(u, i) = u.array[i]
  BY <1>3, <1>4, GetIs
<1>6. PICK b : b = BinarySearch(ArrayPresent(u), limit, p)
  OBVIOUS
<1>7. CASE ~InArrayPart(u, limit + 1)
  <2>1. GetnAfter(u) = <<limit, u>>
    BY <1>1, <1>7 DEF GetnAfter
  <2>2. limit \in 1..p /\ limit + 1 \in 1..p
    BY <1>2, <1>4
  <2>3. Get(u, limit) # Nil /\ Get(u, limit + 1) = Nil
    BY <1>1, <1>2, <1>5, <1>7, <2>2 DEF InArrayPart
  <2> QED
    BY <2>1, <2>3
<1>8. CASE InArrayPart(u, limit + 1) /\ ~InArrayPart(u, p)
  <2>1. GetnAfter(u) = <<b, [u EXCEPT !.alimit = b]>>
    BY <1>1, <1>4, <1>6, <1>8 DEF GetnAfter
  <2>2. p \notin ArrayPresent(u)
    BY <1>8 DEF ArrayPresent
  <2>3. /\ b \in limit..(p - 1)
        /\ b = limit \/ b \in ArrayPresent(u)
        /\ b + 1 \notin ArrayPresent(u)
    BY <1>4, <1>6, <2>2, SearchIs
  <2>4. b \in 1..p /\ b + 1 \in 1..p
    BY <1>2, <1>4, <2>3
  <2>5. Get(u, b) # Nil /\ Get(u, b + 1) = Nil
    BY <1>1, <1>2, <1>4, <1>5, <2>3, <2>4 DEF ArrayPresent, InArrayPart
  <2>6. [u EXCEPT !.alimit = b] = SetHint(u, b)
    BY <1>2 DEF SetHint, TableInv, TableType
  <2>7. b \in Nat /\ b <= p /\ p < 2 * b
    BY <1>3, <1>4, <2>3
  <2>8. TableInv(SetHint(u, b))
    BY <1>3, <2>7, HintInv
  <2> QED
    BY <2>1, <2>5, <2>6, <2>7, <2>8
<1>9. CASE InArrayPart(u, limit + 1) /\ InArrayPart(u, p)
  <2>1. GetnAfter(u) = GetnHash(u)
    BY <1>1, <1>4, <1>9 DEF GetnAfter
  <2> QED
    BY <1>3, <1>9, <2>1, GetnHashIs
<1> QED
  BY <1>7, <1>8, <1>9

\* luaH_getn finds a border, and leaves a hint that is in its place.
LEMMA GetnIs ==
  ASSUME KeyAssumption, use \in Uses, NEW u, TableInv(u)
  PROVE  /\ Getn(u)[1] \in Nat /\ TableInv(Getn(u)[2])
         /\ Getn(u)[1] = 0 \/ Get(u, Getn(u)[1]) # Nil
         /\ Getn(u)[1] = MAXINTEGER \/ Get(u, Getn(u)[1] + 1) = Nil
<1>1. PICK limit \in Nat : limit = u.alimit /\ limit <= Len(u.array)
  BY TypeIs DEF TableInv
<1>2. Len(u.array) \in Nat
  BY TypeIs DEF TableInv
<1>3. CASE limit > 0 /\ ~InArrayPart(u, limit)
  <2>1. Getn(u) = GetnBefore(u)
    BY <1>1, <1>3 DEF Getn
  <2>2. PICK n : n = GetnBefore(u)[1]
    OBVIOUS
  <2>3. /\ n \in 0..(limit - 1) /\ TableInv(GetnBefore(u)[2])
        /\ n = 0 \/ InArrayPart(u, n)
        /\ ~InArrayPart(u, n + 1)
    BY <1>1, <1>3, <2>2, GetnBeforeIs
  <2>4. n + 1 \in Nat \ {0} /\ n + 1 <= Len(u.array)
    BY <1>1, <1>2, <1>3, <2>3
  <2>5. n # 0 => n \in Nat \ {0} /\ n <= Len(u.array)
    BY <1>1, <1>2, <1>3, <2>3
  <2>6. Get(u, n + 1) = Nil /\ (n = 0 \/ Get(u, n) # Nil)
    BY <2>3, <2>4, <2>5, GetIs DEF InArrayPart
  <2> QED
    BY <2>1, <2>2, <2>3, <2>6
<1>4. CASE ~(limit > 0 /\ ~InArrayPart(u, limit)) /\ ~LimitEqualsSize(u)
  <2>1. Getn(u) = GetnAfter(u)
    BY <1>1, <1>4 DEF Getn
  <2> QED
    BY <1>1, <1>4, <2>1, GetnAfterIs
<1>5. CASE ~(limit > 0 /\ ~InArrayPart(u, limit)) /\ LimitEqualsSize(u)
  <2>1. Getn(u) = GetnHash(u)
    BY <1>1, <1>5 DEF Getn
  <2>2. limit = Len(u.array)
    BY <1>1, <1>5, RealSizeIs DEF RealSize, TableInv
  <2> QED
    BY <1>1, <1>5, <2>1, <2>2, GetnHashIs
<1> QED
  BY <1>3, <1>4, <1>5

-----------------------------------------------------------------------------
\* What the invariant says of one node, n at i.
NodeOK(u, i, n) ==
    /\ n \in NodeType /\ i + n.next \in DOMAIN u.node
    /\ n.key \in use.keys \cup {Nil}
    /\ n.val # Nil => n.key # Nil /\ ~n.dead /\ (n.key \in IntKey => n.key > Len(u.array))

\* Every node is of this kind.
LEMMA NodeIs ==
  ASSUME NEW u, TableInv(u), NEW i \in DOMAIN u.node
  PROVE  NodeOK(u, i, u.node[i])
<1>1. u.node[i] \in NodeType /\ i + u.node[i].next \in DOMAIN u.node
  BY TypeIs DEF TableInv, TableType
<1> QED
  BY <1>1 DEF TableInv, KeysOK, ShadowOK, NodeOK

\* Other nodes of this kind in the same places keep the invariant.
LEMMA NodesReplaced ==
  ASSUME KeyAssumption, NEW u, TableInv(u), NEW w,
         w.array = u.array, w.alimit = u.alimit, w.isreal = u.isreal,
         w.lastfree \in Nat, w.lastfree <= SizeNode(u),
         w = [array |-> w.array, alimit |-> w.alimit, isreal |-> w.isreal,
              node |-> w.node, lastfree |-> w.lastfree],
         w.node = [i \in DOMAIN u.node |-> w.node[i]],
         \A i \in DOMAIN u.node : NodeOK(u, i, w.node[i])
  PROVE  TableInv(w)
<1>1. DOMAIN w.node = DOMAIN u.node /\ SizeNode(w) = SizeNode(u)
  BY DEF SizeNode
<1>2. w.node \in [DOMAIN w.node -> NodeType]
  BY <1>1 DEF NodeOK
<1>3. /\ u.array \in Seq(Value \cup {Nil}) /\ u.alimit \in Nat /\ u.isreal \in BOOLEAN
      /\ u.alimit <= Len(u.array)
      /\ SizeNode(u) \in PowersOf2 \cup {0} /\ DOMAIN u.node = 0..(SizeNode(u) - 1)
  BY DEF TableInv, TableType
<1>4. w \in [array : Seq(Value \cup {Nil}), alimit : Nat, isreal : BOOLEAN,
             node : [DOMAIN w.node -> NodeType], lastfree : Nat]
  BY <1>2, <1>3
<1>5. \A i \in DOMAIN w.node : i + w.node[i].next \in DOMAIN w.node
  BY <1>1 DEF NodeOK
<1>6. TableType(w)
  BY <1>1, <1>3, <1>4, <1>5 DEF TableType
<1>7. LimitOK(w)
  BY DEF TableInv, LimitOK
<1>8. KeysOK(w)
  BY <1>1 DEF TableInv, KeysOK, NodeOK
<1>9. ShadowOK(w)
  BY <1>1 DEF ShadowOK, NodeOK
<1> QED
  BY <1>6, <1>7, <1>8, <1>9 DEF TableInv

\* A node for a key that the array part does not have.
LEMMA NewNodeOK ==
  ASSUME KeyAssumption, use \in Uses, NEW u, TableInv(u), NEW i,
         NEW k \in use.keys, k \in IntKey => k > Len(u.array),
         NEW v \in Value \cup {Nil}, NEW next \in Int, i + next \in DOMAIN u.node
  PROVE  NodeOK(u, i, NewNode(k, v, next))
<1>1. k \in Key /\ k # Nil
  BY UseIs DEF UseOK
<1> QED
  BY <1>1 DEF NodeOK, NodeType, NewNode

\* A node with another link.
LEMMA LinkedOK ==
  ASSUME NEW u, NEW i, NEW n, NodeOK(u, i, n), NEW j, NEW next \in Int,
         j + next \in DOMAIN u.node
  PROVE  NodeOK(u, j, [n EXCEPT !.next = next])
<1>1. PICK m : m = [n EXCEPT !.next = next]
  OBVIOUS
<1>2. /\ m.key = n.key /\ m.val = n.val /\ m.dead = n.dead /\ m.next = next
      /\ m \in NodeType
  BY <1>1 DEF NodeOK, NodeType
<1> QED
  BY <1>1, <1>2 DEF NodeOK

\* luaH_newkey: the three ways a key gets its node.
LEMMA FillOK ==
  ASSUME KeyAssumption, use \in Uses, NEW u, TableInv(u), NEW i \in DOMAIN u.node,
         NEW k \in use.keys, k \in IntKey => k > Len(u.array), NEW v \in Value \cup {Nil},
         NEW h, h = Fill(u.node, i, k, v)
  PROVE  /\ h = [j \in DOMAIN u.node |-> h[j]]
         /\ \A j \in DOMAIN u.node : NodeOK(u, j, h[j])
<1>1. u.node \in [DOMAIN u.node -> NodeType]
  BY TypeIs DEF TableInv
<1>2. h = [u.node EXCEPT ![i] = NewNode(k, v, u.node[i].next)]
  BY DEF Fill
<1>3. ASSUME NEW j \in DOMAIN u.node
      PROVE  h[j] = IF j = i THEN NewNode(k, v, u.node[i].next) ELSE u.node[j]
  BY <1>1, <1>2
<1>4. NodeOK(u, i, NewNode(k, v, u.node[i].next))
  <2>1. i + u.node[i].next \in DOMAIN u.node /\ u.node[i].next \in Int
    BY NodeIs DEF NodeOK, NodeType
  <2> QED
    BY <2>1, NewNodeOK
<1>5. \A j \in DOMAIN u.node : NodeOK(u, j, u.node[j])
  BY NodeIs
<1> QED
  BY <1>1, <1>2, <1>3, <1>4, <1>5

\* The colliding node moves to the free one.
LEMMA RelocateOK ==
  ASSUME KeyAssumption, use \in Uses, NEW u, TableInv(u),
         NEW mp \in DOMAIN u.node, NEW f \in DOMAIN u.node,
         NEW k \in use.keys, k \in IntKey => k > Len(u.array), NEW v \in Value \cup {Nil},
         NEW h, h = Relocate(u, mp, f, k, v)
  PROVE  /\ h = [j \in DOMAIN u.node |-> h[j]]
         /\ \A j \in DOMAIN u.node : NodeOK(u, j, h[j])
<1>1. u.node \in [DOMAIN u.node -> NodeType] /\ DOMAIN u.node \subseteq Int
  BY TypeIs, SizeIs DEF TableInv
<1>2. PICK old : old = u.node[mp]
  OBVIOUS
<1>3. PICK next : next = IF old.next = 0 THEN 0 ELSE (mp + old.next) - f
  OBVIOUS
<1>4. PICK prev :
        h = [u.node EXCEPT ![prev].next = f - prev,
                           ![f]  = [old EXCEPT !.next = next],
                           ![mp] = NewNode(k, v, 0)]
  BY <1>2, <1>3 DEF Relocate
<1>6. ASSUME NEW j \in DOMAIN u.node
      PROVE  h[j] = IF j = mp THEN NewNode(k, v, 0)
                    ELSE IF j = f THEN [old EXCEPT !.next = next]
                    ELSE IF j = prev THEN [u.node[j] EXCEPT !.next = f - j]
                    ELSE u.node[j]
  BY <1>1, <1>4
<1>7. NodeOK(u, mp, NewNode(k, v, 0))
  BY <1>1, NewNodeOK
<1>8. NodeOK(u, f, [old EXCEPT !.next = next])
  <2>1. NodeOK(u, mp, old)
    BY <1>2, NodeIs
  <2>2. old.next \in Int /\ mp + old.next \in DOMAIN u.node
    BY <2>1 DEF NodeOK, NodeType
  <2>3. next \in Int /\ f + next \in DOMAIN u.node
    BY <1>1, <1>3, <2>2
  <2> QED
    BY <2>1, <2>3, LinkedOK
<1>9. ASSUME NEW j \in DOMAIN u.node PROVE NodeOK(u, j, [u.node[j] EXCEPT !.next = f - j])
  <2>1. f - j \in Int /\ j + (f - j) \in DOMAIN u.node
    BY <1>1
  <2> QED
    BY <2>1, NodeIs, LinkedOK
<1>10. \A j \in DOMAIN u.node : NodeOK(u, j, u.node[j])
  BY NodeIs
<1>11. h = [j \in DOMAIN u.node |-> h[j]]
  BY <1>1, <1>4
<1>12. ASSUME NEW j \in DOMAIN u.node PROVE NodeOK(u, j, h[j])
  <2>1. CASE j = mp \/ j = f
    BY <1>6, <1>7, <1>8, <2>1
  <2>2. CASE j # mp /\ j # f
    BY <1>6, <1>9, <1>10, <2>2
  <2> QED
    BY <2>1, <2>2
<1> QED
  BY <1>11, <1>12

\* The new key goes to the free node.
LEMMA LinkOK ==
  ASSUME KeyAssumption, use \in Uses, NEW u, TableInv(u),
         NEW mp \in DOMAIN u.node, NEW f \in DOMAIN u.node,
         NEW k \in use.keys, k \in IntKey => k > Len(u.array), NEW v \in Value \cup {Nil},
         NEW h, h = Link(u, mp, f, k, v)
  PROVE  /\ h = [j \in DOMAIN u.node |-> h[j]]
         /\ \A j \in DOMAIN u.node : NodeOK(u, j, h[j])
<1>1. u.node \in [DOMAIN u.node -> NodeType] /\ DOMAIN u.node \subseteq Int
  BY TypeIs, SizeIs DEF TableInv
<1>2. PICK g : g = Fill(u.node, f, k, v)
  OBVIOUS
<1>3. g = [j \in DOMAIN u.node |-> g[j]] /\ \A j \in DOMAIN u.node : NodeOK(u, j, g[j])
  BY <1>2, FillOK
<1>4. PICK next : next = IF u.node[mp].next = 0 THEN 0 ELSE (mp + u.node[mp].next) - f
  OBVIOUS
<1>5. h = [g EXCEPT ![f].next = next, ![mp].next = f - mp]
  BY <1>2, <1>4 DEF Link
<1>6. ASSUME NEW j \in DOMAIN u.node
      PROVE  h[j] = IF j = mp /\ mp = f THEN [[g[f] EXCEPT !.next = next] EXCEPT !.next = f - mp]
                    ELSE IF j = mp THEN [g[mp] EXCEPT !.next = f - mp]
                    ELSE IF j = f THEN [g[f] EXCEPT !.next = next]
                    ELSE g[j]
  BY <1>3, <1>5
<1>7. next \in Int /\ f + next \in DOMAIN u.node
  <2>1. u.node[mp].next \in Int /\ mp + u.node[mp].next \in DOMAIN u.node
    BY NodeIs DEF NodeOK, NodeType
  <2> QED
    BY <1>1, <1>4, <2>1
<1>8. NodeOK(u, f, [g[f] EXCEPT !.next = next])
  BY <1>3, <1>7, LinkedOK
<1>9. f - mp \in Int /\ mp + (f - mp) \in DOMAIN u.node
  BY <1>1
<1>10. NodeOK(u, mp, [g[mp] EXCEPT !.next = f - mp])
  BY <1>3, <1>9, LinkedOK
<1>11. mp = f => NodeOK(u, mp, [[g[f] EXCEPT !.next = next] EXCEPT !.next = f - mp])
  BY <1>8, <1>9, LinkedOK
<1>12. DOMAIN h = DOMAIN u.node /\ h = [j \in DOMAIN h |-> h[j]]
  BY <1>3, <1>5
<1> QED
  BY <1>3, <1>6, <1>8, <1>10, <1>11, <1>12

\* The table with other nodes.
Renewed(u, f, h) == [u EXCEPT !.lastfree = f, !.node = h]
\* It keeps the invariant when each of them is of this kind.
LEMMA WithNodes ==
  ASSUME KeyAssumption, NEW u, TableInv(u), NEW h,
         h = [j \in DOMAIN u.node |-> h[j]],
         \A j \in DOMAIN u.node : NodeOK(u, j, h[j]),
         NEW f \in Nat, f <= SizeNode(u),
         NEW w, w = Renewed(u, f, h)
  PROVE  TableInv(w) /\ w.array = u.array /\ w.isreal = u.isreal
<1>1. u = [array |-> u.array, alimit |-> u.alimit, isreal |-> u.isreal,
           node |-> u.node, lastfree |-> u.lastfree]
  BY DEF TableInv, TableType
<1>2. /\ w.array = u.array /\ w.alimit = u.alimit /\ w.isreal = u.isreal
      /\ w.lastfree = f /\ w.node = h
      /\ w = [array |-> w.array, alimit |-> w.alimit, isreal |-> w.isreal,
              node |-> w.node, lastfree |-> w.lastfree]
  BY <1>1 DEF Renewed
<1>3. TableInv(w)
  BY <1>2, NodesReplaced
<1> QED
  BY <1>2, <1>3

\* One of the three happens; the free node is there when it is needed.
LEMMA NewKeyInv ==
  ASSUME KeyAssumption, use \in Uses, NEW u, TableInv(u), NEW k \in use.keys, HasRoom(u, k),
         k \in IntKey => k > Len(u.array), NEW v \in Value \cup {Nil},
         NEW w, w = NewKey(u, k, v)
  PROVE  TableInv(w) /\ w.array = u.array /\ w.isreal = u.isreal
<1>1. PICK mp \in DOMAIN u.node : mp = MainPosition(u, k)
  <2>1. k \in Collectable \/ k \in Nat
    BY UseIs DEF UseOK, Key
  <2> QED
    BY <2>1, MainPositionIn DEF TableInv, HasRoom
<1>2. CASE u.node[mp].val = Nil
  <2>1. PICK h : h = Fill(u.node, mp, k, v)
    OBVIOUS
  <2>2. h = [j \in DOMAIN u.node |-> h[j]] /\ \A j \in DOMAIN u.node : NodeOK(u, j, h[j])
    BY <2>1, FillOK
  <2>3. PICK f : f = u.lastfree
    OBVIOUS
  <2>4. f \in Nat /\ f <= SizeNode(u)
    BY <2>3, TypeIs DEF TableInv
  <2>5. w = [u EXCEPT !.node = h]
    BY <1>1, <1>2, <2>1 DEF NewKey
  <2>6. w = Renewed(u, f, h)
    BY <2>3, <2>5 DEF TableInv, TableType, Renewed
  <2> QED
    BY <2>2, <2>4, <2>6, WithNodes
<1>3. CASE u.node[mp].val # Nil
  <2>1. PICK f : f = Max(FreeBelow(u))
    OBVIOUS
  <2>2. f \in DOMAIN u.node /\ f \in Nat /\ f <= SizeNode(u)
    <3>1. FreeBelow(u) # {} /\ FreeBelow(u) \subseteq DOMAIN u.node
      BY <1>1, <1>3 DEF HasRoom, FreeBelow
    <3>2. PICK s \in Nat : s = SizeNode(u) /\ DOMAIN u.node = 0..(s - 1)
      BY SizeIs DEF TableInv
    <3>3. FreeBelow(u) \subseteq 0..s
      BY <3>1, <3>2
    <3>4. f \in FreeBelow(u)
      BY <2>1, <3>1, <3>3, MaxOf
    <3> QED
      BY <3>1, <3>2, <3>4
  <2>3. PICK h : h = IF MainPosition(u, u.node[mp].key) # mp
                     THEN Relocate(u, mp, f, k, v)
                     ELSE Link(u, mp, f, k, v)
    OBVIOUS
  <2>4. w = Renewed(u, f, h)
    BY <1>1, <1>3, <2>1, <2>3 DEF NewKey, Renewed
  <2>5. /\ h = [j \in DOMAIN u.node |-> h[j]]
        /\ \A j \in DOMAIN u.node : NodeOK(u, j, h[j])
    <3>1. CASE h = Relocate(u, mp, f, k, v)
      BY <2>2, <3>1, RelocateOK
    <3>2. CASE h = Link(u, mp, f, k, v)
      BY <2>2, <3>2, LinkOK
    <3> QED
      BY <2>3, <3>1, <3>2
  <2>6. f \in Nat /\ f <= SizeNode(u)
    BY <2>2
  <2> QED
    BY <2>4, <2>5, <2>6, WithNodes
<1> QED
  BY <1>2, <1>3

\* luaH_set, where no rehash is needed.
LEMMA SetInPlaceInv ==
  ASSUME KeyAssumption, use \in Uses, NEW u, TableInv(u), NEW k \in use.keys,
         NEW v \in Value \cup {Nil}, NEW w, w = SetInPlace(u, k, v)
  PROVE  TableInv(w) /\ Len(w.array) = Len(u.array) /\ w.isreal = u.isreal
<1>1. k \in Collectable \/ k \in Nat \ {0}
  BY UseIs DEF UseOK, Key
<1>2. k \in IntKey => k \in Nat \ {0} /\ k \notin Collectable
  BY UseIs DEF UseOK
<1>3. PICK x : x = Touch(u, k)
  OBVIOUS
<1>4. /\ TableInv(x) /\ x.array = u.array /\ x.node = u.node /\ x.isreal = u.isreal
      /\ ~InArray(u, k) => x = u
  BY <1>1, <1>3, TouchInv
<1>5. CASE InArray(u, k)
  <2>1. k \in Nat \ {0}
    BY <1>1, <1>5 DEF InArray
  <2>2. k \in 1..Len(u.array) /\ Len(u.array) \in Nat /\ DOMAIN u.array = 1..Len(u.array)
    BY <1>5, <2>1, InArrayIs, TypeIs DEF TableInv
  <2>3. w = [x EXCEPT !.array = [u.array EXCEPT ![k] = v]]
    BY <1>3, <1>4, <1>5 DEF SetInPlace
  <2>4. PICK a : a = [u.array EXCEPT ![k] = v]
    OBVIOUS
  <2>5. u.array \in Seq(Value \cup {Nil})
    BY TypeIs DEF TableInv
  <2>6. a \in Seq(Value \cup {Nil}) /\ Len(a) = Len(u.array)
    BY <2>2, <2>4, <2>5, ExceptSeq
  <2>7. \A i \in 1..Len(u.array) : a[i] = IF i = k THEN v ELSE u.array[i]
    BY <2>2, <2>4
  <2>8. /\ w.array = a /\ w.alimit = x.alimit /\ w.isreal = x.isreal
        /\ w.lastfree = x.lastfree /\ w.node = x.node
        /\ w = [array |-> a, alimit |-> x.alimit, isreal |-> x.isreal,
                node |-> x.node, lastfree |-> x.lastfree]
    BY <1>4, <2>3, <2>4 DEF TableInv, TableType
  <2>9. SizeNode(w) = SizeNode(x)
    BY <2>8 DEF SizeNode
  <2>10. TableType(w)
    <3>1. TableType(x)
      BY <1>4 DEF TableInv
    <3>2. w \in [array : Seq(Value \cup {Nil}), alimit : Nat, isreal : BOOLEAN,
                 node : [DOMAIN w.node -> NodeType], lastfree : Nat]
      BY <2>6, <2>8, <3>1 DEF TableType
    <3> QED
      BY <1>4, <2>6, <2>8, <2>9, <3>1, <3>2 DEF TableType
  <2>11. LimitOK(w)
    BY <1>4, <2>6, <2>8 DEF TableInv, LimitOK
  <2>12. KeysOK(w)
    BY <1>4, <2>2, <2>6, <2>7, <2>8 DEF TableInv, KeysOK
  <2>13. ShadowOK(w)
    BY <1>4, <2>6, <2>8 DEF TableInv, ShadowOK
  <2> QED
    BY <1>4, <2>6, <2>8, <2>10, <2>11, <2>12, <2>13 DEF TableInv
<1>6. CASE ~InArray(u, k) /\ Found(u, k) # {}
  <2>1. PICK i : i = CHOOSE j \in Found(u, k) : TRUE
    OBVIOUS
  <2>2. i \in Found(u, k)
    BY <1>6, <2>1
  <2>3. i \in DOMAIN u.node /\ u.node[i].key = k /\ ~u.node[i].dead
    BY <1>1, <2>2, FoundIs DEF TableInv
  <2>4. w = [u EXCEPT !.node[i].val = v]
    BY <1>3, <1>4, <1>6, <2>1 DEF SetInPlace
  <2>5. k \in IntKey => k > Len(u.array)
    <3>1. Len(u.array) \in Nat
      BY TypeIs DEF TableInv
    <3> QED
      BY <1>2, <1>6, <3>1, InArrayIs DEF TableInv
  <2>6. PICK n : n = [u.node[i] EXCEPT !.val = v]
    OBVIOUS
  <2>7. NodeOK(u, i, n)
    <3>1. NodeOK(u, i, u.node[i])
      BY <2>3, NodeIs
    <3>2. n \in NodeType /\ n.key = k /\ ~n.dead /\ n.next = u.node[i].next
      BY <2>3, <2>6, <3>1 DEF NodeOK, NodeType
    <3>3. k # Nil
      BY UseIs DEF UseOK
    <3> QED
      BY <2>5, <3>1, <3>2, <3>3 DEF NodeOK
  <2>8. PICK h : h = [u.node EXCEPT ![i] = n]
    OBVIOUS
  <2>9. /\ h = [j \in DOMAIN u.node |-> h[j]]
        /\ \A j \in DOMAIN u.node : NodeOK(u, j, h[j])
    <3>1. u.node \in [DOMAIN u.node -> NodeType]
      BY TypeIs DEF TableInv
    <3>2. ASSUME NEW j \in DOMAIN u.node PROVE h[j] = IF j = i THEN n ELSE u.node[j]
      BY <2>8, <3>1
    <3> QED
      BY <2>7, <2>8, <3>1, <3>2, NodeIs
  <2>10. PICK f : f = u.lastfree
    OBVIOUS
  <2>11. f \in Nat /\ f <= SizeNode(u)
    BY <2>10, TypeIs DEF TableInv
  <2>12. w = Renewed(u, f, h)
    BY <2>4, <2>6, <2>8, <2>10 DEF Renewed, TableInv, TableType
  <2>13. TableInv(w) /\ w.array = u.array /\ w.isreal = u.isreal
    BY <2>9, <2>11, <2>12, WithNodes
  <2> QED
    BY <2>13
<1>7. CASE ~InArray(u, k) /\ Found(u, k) = {}
  <2>1. k \in IntKey => k > Len(u.array)
    <3>1. Len(u.array) \in Nat
      BY TypeIs DEF TableInv
    <3> QED
      BY <1>2, <1>7, <3>1, InArrayIs DEF TableInv
  <2>2. w = IF v # Nil /\ HasRoom(u, k) THEN NewKey(u, k, v) ELSE u
    BY <1>7 DEF SetInPlace
  <2>3. CASE v # Nil /\ HasRoom(u, k)
    BY <2>1, <2>2, <2>3, NewKeyInv
  <2>4. CASE ~(v # Nil /\ HasRoom(u, k))
    BY <2>2, <2>4
  <2> QED
    BY <2>3, <2>4
<1> QED
  BY <1>5, <1>6, <1>7

-----------------------------------------------------------------------------
\* Sizes.
LEMMA PowersBounded ==
  ASSUME KeyAssumption
  PROVE  \A p \in PowersOf2 : p \in Nat /\ p <= Pow2[Bits] /\ Pow2[Bits] \in PowersOf2
<1>1. Bits \in Nat /\ Bits \in 0..Bits
  BY DEF KeyAssumption
<1>2. ASSUME NEW p \in PowersOf2 PROVE p \in Nat /\ p <= Pow2[Bits]
  <2>1. PICK i \in 0..Bits : p = Pow2[i]
    BY DEF PowersOf2
  <2>2. i \in Nat /\ (i < Bits \/ i = Bits)
    BY <1>1
  <2>3. Pow2[i] \in Nat /\ Pow2[Bits] \in Nat
    BY <1>1, <2>2, Pow2Def
  <2>4. i < Bits => 2 * Pow2[i] <= Pow2[Bits]
    BY <1>1, <2>2, Pow2Grows
  <2> QED
    BY <2>1, <2>2, <2>3, <2>4
<1> QED
  BY <1>1, <1>2 DEF PowersOf2

\* setnodevector: the size is a power of 2, or there are no nodes.
LEMMA NodeVectorIs ==
  ASSUME KeyAssumption, NEW size \in Nat, size <= Pow2[Bits]
  PROVE  \E s \in PowersOf2 \cup {0} :
            s \in Nat /\ NodeVector(size) = [i \in 0..(s - 1) |-> FreeNode]
<1>1. CASE size = 0
  <2>1. 0..(0 - 1) = {}
    OBVIOUS
  <2>2. NodeVector(size) = [i \in 0..(0 - 1) |-> FreeNode]
    BY <1>1, <2>1 DEF NodeVector
  <2> QED
    BY <2>2
<1>2. CASE size # 0
  <2> DEFINE A == {p \in PowersOf2 : p >= size}
  <2>1. A \subseteq Nat /\ A # {}
    BY PowersBounded, PowersType
  <2>2. Min(A) \in PowersOf2 /\ Min(A) \in Nat
    BY <2>1, MinOf
  <2>3. NodeVector(size) = [i \in 0..(Min(A) - 1) |-> FreeNode]
    BY <1>2 DEF NodeVector
  <2> QED
    BY <2>2, <2>3
<1> QED
  BY <1>1, <1>2

\* A table without nodes that have a key.
LEMMA NewTableInv ==
  ASSUME KeyAssumption, use \in Uses, NEW a \in Seq(Value \cup {Nil}),
         \A i \in 1..Len(a) : a[i] # Nil => i \in use.keys,
         NEW size \in Nat, size <= Pow2[Bits], NEW w, w = NewTable(a, size)
  PROVE  TableInv(w) /\ w.array = a /\ w.isreal = TRUE
<1>1. PICK s \in PowersOf2 \cup {0} :
        s \in Nat /\ NodeVector(size) = [i \in 0..(s - 1) |-> FreeNode]
  BY NodeVectorIs
<1>2. PICK h : h = NodeVector(size)
  OBVIOUS
<1>3. h = [i \in 0..(s - 1) |-> FreeNode]
  BY <1>1, <1>2
<1>4. DOMAIN h = 0..(s - 1) /\ Cardinality(DOMAIN h) = s
  <2>1. Cardinality(0..(s - 1)) = s
    BY <1>1, FS_Interval
  <2> QED
    BY <1>3, <2>1
<1>5. w = [array |-> a, alimit |-> Len(a), isreal |-> TRUE, node |-> h, lastfree |-> s]
  BY <1>2, <1>4 DEF NewTable
<1>6. /\ w.array = a /\ w.alimit = Len(a) /\ w.isreal = TRUE /\ w.node = h
      /\ w.lastfree = s /\ SizeNode(w) = s
  BY <1>4, <1>5 DEF SizeNode
<1>7. FreeNode \in NodeType /\ FreeNode.next = 0 /\ FreeNode.key = Nil /\ FreeNode.val = Nil
  BY DEF FreeNode, NodeType
<1>8. h \in [DOMAIN h -> NodeType] /\ \A i \in DOMAIN h : h[i] = FreeNode
  BY <1>3, <1>7
<1>9. Len(a) \in Nat
  BY LenProperties
<1>10. TableType(w)
  <2>1. w \in [array : Seq(Value \cup {Nil}), alimit : Nat, isreal : BOOLEAN,
               node : [DOMAIN w.node -> NodeType], lastfree : Nat]
    BY <1>1, <1>5, <1>6, <1>8, <1>9
  <2>2. \A i \in DOMAIN w.node : i + w.node[i].next \in DOMAIN w.node
    BY <1>4, <1>6, <1>7, <1>8
  <2> QED
    BY <1>1, <1>4, <1>6, <1>9, <2>1, <2>2 DEF TableType
<1>11. LimitOK(w)
  BY <1>6 DEF LimitOK
<1>12. KeysOK(w)
  BY <1>6, <1>7, <1>8 DEF KeysOK
<1>13. ShadowOK(w)
  BY <1>6, <1>7, <1>8 DEF ShadowOK
<1> QED
  BY <1>6, <1>10, <1>11, <1>12, <1>13 DEF TableInv

-----------------------------------------------------------------------------
\* What luaH_resize moves.
MovedEntry ==
    {e \in (Nat \cup Key \cup {Nil}) \X (Value \cup {Nil}) : e[2] # Nil => e[1] \in use.keys}

\* reinsert moves one entry.
LEMMA ReinsertInv ==
  ASSUME KeyAssumption, use \in Uses, NEW u, TableInv(u), NEW e \in MovedEntry
  PROVE  /\ TableInv(Reinsert(u, e)) /\ Len(Reinsert(u, e).array) = Len(u.array)
         /\ Reinsert(u, e).isreal = u.isreal
<1>1. CASE e[2] = Nil
  BY <1>1 DEF Reinsert
<1>2. CASE e[2] # Nil
  <2>1. PICK k \in use.keys : k = e[1]
    BY <1>2 DEF MovedEntry
  <2>2. PICK v \in Value \cup {Nil} : v = e[2]
    BY DEF MovedEntry
  <2>3. PICK w : w = SetInPlace(u, k, v)
    OBVIOUS
  <2>4. Reinsert(u, e) = w
    BY <1>2, <2>1, <2>2, <2>3 DEF Reinsert
  <2>5. TableInv(w) /\ Len(w.array) = Len(u.array) /\ w.isreal = u.isreal
    BY <2>3, SetInPlaceInv
  <2> QED
    BY <2>4, <2>5
<1> QED
  BY <1>1, <1>2

IsReinsertion(g, table, entries, m) ==
    g = [n \in 0..m |-> IF n = 0 THEN table ELSE Reinsert(g[n - 1], entries[n])]

\* The recursive function of ReinsertAll exists.
LEMMA ReinsertAllIs ==
  ASSUME NEW table, NEW entries, Len(entries) \in Nat
  PROVE  \E g : /\ IsReinsertion(g, table, entries, Len(entries))
                /\ ReinsertAll(table, entries) = g[Len(entries)]
<1> DEFINE S == {m \in Nat : \E g : IsReinsertion(g, table, entries, m)}
<1>1. 0 \in S
  <2> DEFINE g == [n \in 0..0 |-> table]
  <2>1. IsReinsertion(g, table, entries, 0)
    BY DEF IsReinsertion
  <2> QED
    BY <2>1
<1>2. ASSUME NEW m \in Nat, m \in S PROVE m + 1 \in S
  <2>1. PICK g : IsReinsertion(g, table, entries, m)
    BY <1>2
  <2> DEFINE h == [n \in 0..(m + 1) |-> IF n = m + 1 THEN Reinsert(g[m], entries[m + 1]) ELSE g[n]]
  <2>2. ASSUME NEW n \in 0..(m + 1)
        PROVE  h[n] = IF n = 0 THEN table ELSE Reinsert(h[n - 1], entries[n])
    <3>1. CASE n = m + 1
      BY <3>1
    <3>2. CASE n \in 0..m
      <4>1. h[n] = g[n] /\ (n # 0 => h[n - 1] = g[n - 1])
        BY <3>2
      <4>2. g[n] = IF n = 0 THEN table ELSE Reinsert(g[n - 1], entries[n])
        BY <2>1, <3>2 DEF IsReinsertion
      <4> QED
        BY <4>1, <4>2
    <3> QED
      BY <3>1, <3>2
  <2>3. h = [n \in 0..(m + 1) |-> h[n]]
    OBVIOUS
  <2> HIDE DEF h
  <2>4. IsReinsertion(h, table, entries, m + 1)
    BY <2>2, <2>3 DEF IsReinsertion
  <2> QED
    BY <2>4
<1> HIDE DEF S
<1>3. Len(entries) \in S
  BY <1>1, <1>2, Induction
<1> DEFINE g == CHOOSE g : IsReinsertion(g, table, entries, Len(entries))
<1>4. IsReinsertion(g, table, entries, Len(entries))
  BY <1>3 DEF S
<1>5. ReinsertAll(table, entries) = g[Len(entries)]
  BY DEF ReinsertAll, IsReinsertion
<1> HIDE DEF g
<1> QED
  BY <1>4, <1>5

\* All entries, one after the other.
LEMMA ReinsertAllInv ==
  ASSUME KeyAssumption, use \in Uses, NEW table, TableInv(table),
         NEW entries \in Seq(MovedEntry), NEW w, w = ReinsertAll(table, entries)
  PROVE  TableInv(w) /\ Len(w.array) = Len(table.array) /\ w.isreal = table.isreal
<1>1. PICK m \in Nat : m = Len(entries)
  BY LenProperties
<1>2. PICK g : IsReinsertion(g, table, entries, m) /\ w = g[m]
  BY <1>1, ReinsertAllIs
<1>3. \A n \in 1..m : entries[n] \in MovedEntry
  BY <1>1, ElementOfSeq
<1> DEFINE S == {n \in Nat : n <= m => /\ TableInv(g[n]) /\ g[n].isreal = table.isreal
                                       /\ Len(g[n].array) = Len(table.array)}
<1>4. 0 \in S
  <2>1. g[0] = table
    BY <1>2 DEF IsReinsertion
  <2> QED
    BY <2>1
<1>5. ASSUME NEW n \in Nat, n \in S PROVE n + 1 \in S
  <2> SUFFICES ASSUME n + 1 <= m
               PROVE  /\ TableInv(g[n + 1]) /\ g[n + 1].isreal = table.isreal
                      /\ Len(g[n + 1].array) = Len(table.array)
    OBVIOUS
  <2>1. g[n + 1] = Reinsert(g[n], entries[n + 1])
    <3>1. n + 1 \in 0..m /\ n + 1 # 0 /\ (n + 1) - 1 = n
      OBVIOUS
    <3> QED
      BY <1>2, <3>1 DEF IsReinsertion
  <2>2. /\ TableInv(g[n]) /\ g[n].isreal = table.isreal
        /\ Len(g[n].array) = Len(table.array)
    BY <1>5
  <2>3. PICK u : u = g[n]
    OBVIOUS
  <2>4. PICK e \in MovedEntry : e = entries[n + 1]
    BY <1>3
  <2>5. /\ TableInv(Reinsert(u, e)) /\ Len(Reinsert(u, e).array) = Len(u.array)
        /\ Reinsert(u, e).isreal = u.isreal
    BY <2>2, <2>3, ReinsertInv
  <2> QED
    BY <2>1, <2>2, <2>3, <2>4, <2>5
<1> HIDE DEF S
<1>6. m \in S
  BY <1>4, <1>5, Induction
<1> QED
  BY <1>2, <1>6 DEF S

\* A function on 1..n is a sequence.
LEMMA FunctionSeq ==
  ASSUME NEW S, NEW n \in Nat, NEW f \in [1..n -> S]
  PROVE  f \in Seq(S)
  BY SeqDef

\* Every entry that moves has a key of the program, or no value.
LEMMA MovedIs ==
  ASSUME KeyAssumption, use \in Uses, NEW u, TableInv(u), NEW asize \in Nat
  PROVE  Moved(u, asize) \in Seq(MovedEntry)
<1>1. PICK len \in Nat : len = Len(u.array)
  BY TypeIs DEF TableInv
<1>2. PICK s \in Nat : s = SizeNode(u) /\ DOMAIN u.node = 0..(s - 1)
  BY SizeIs DEF TableInv
<1>3. PICK cut \in Nat : /\ cut = Vanishing(u, asize)
                         /\ asize + cut <= len \/ cut = 0
  <2>1. Len(u.array) \in Int /\ asize + 1 \in Int
    BY <1>1
  <2>2. Cardinality((asize + 1)..Len(u.array))
          = IF asize + 1 > Len(u.array) THEN 0 ELSE Len(u.array) - (asize + 1) + 1
    BY <2>1, FS_Interval
  <2> QED
    BY <1>1, <2>2 DEF Vanishing
<1> DEFINE slice == [i \in 1..Vanishing(u, asize) |-> <<asize + i, u.array[asize + i]>>]
           nodes == [i \in 1..SizeNode(u) |-> <<u.node[i - 1].key, u.node[i - 1].val>>]
<1>4. Moved(u, asize) = slice \o nodes
  BY DEF Moved, VanishingSlice
<1>5. \A i \in 1..cut : slice[i] \in MovedEntry
  <2> TAKE i \in 1..cut
  <2>1. asize + i \in 1..len /\ asize + i \in Nat
    BY <1>3
  <2>2. u.array[asize + i] \in Value \cup {Nil}
    BY <1>1, <2>1, TypeIs DEF TableInv
  <2>3. u.array[asize + i] # Nil => asize + i \in use.keys
    BY <1>1, <2>1 DEF TableInv, KeysOK
  <2>4. slice[i] = <<asize + i, u.array[asize + i]>>
    BY <1>3
  <2> HIDE DEF slice
  <2> QED
    BY <2>1, <2>2, <2>3, <2>4 DEF MovedEntry
<1>6. \A i \in 1..s : nodes[i] \in MovedEntry
  <2> TAKE i \in 1..s
  <2>1. i - 1 \in DOMAIN u.node
    BY <1>2
  <2>2. u.node[i - 1].key \in Key \cup {Nil} /\ u.node[i - 1].val \in Value \cup {Nil}
    BY <2>1, NodeIs DEF NodeOK, NodeType
  <2>3. u.node[i - 1].val # Nil => u.node[i - 1].key \in use.keys
    BY <2>1 DEF TableInv, KeysOK
  <2>4. nodes[i] = <<u.node[i - 1].key, u.node[i - 1].val>>
    BY <1>2
  <2> HIDE DEF nodes
  <2> QED
    BY <2>2, <2>3, <2>4 DEF MovedEntry
<1>7. slice \in Seq(MovedEntry)
  <2>1. DOMAIN slice = 1..cut
    BY <1>3
  <2>2. slice = [i \in DOMAIN slice |-> slice[i]]
    OBVIOUS
  <2> HIDE DEF slice
  <2>3. slice \in [1..cut -> MovedEntry]
    BY <1>5, <2>1, <2>2
  <2> QED
    BY <2>3, FunctionSeq
<1>8. nodes \in Seq(MovedEntry)
  <2>1. DOMAIN nodes = 1..s
    BY <1>2
  <2>2. nodes = [i \in DOMAIN nodes |-> nodes[i]]
    OBVIOUS
  <2> HIDE DEF nodes
  <2>3. nodes \in [1..s -> MovedEntry]
    BY <1>6, <2>1, <2>2
  <2> QED
    BY <2>3, FunctionSeq
<1> HIDE DEF slice, nodes
<1> QED
  BY <1>4, <1>7, <1>8, ConcatProperties

\* luaH_resize keeps the invariant for any two sizes.
LEMMA ResizedInv ==
  ASSUME KeyAssumption, use \in Uses, NEW u, TableInv(u), NEW asize \in Nat,
         NEW hsize \in Nat, hsize <= Pow2[Bits], NEW w, w = Resized(u, asize, hsize)
  PROVE  TableInv(w) /\ w.isreal = TRUE /\ Len(w.array) = asize
<1>1. PICK len \in Nat : len = Len(u.array)
  BY TypeIs DEF TableInv
<1>2. PICK a : a = [i \in 1..asize |-> IF i <= len THEN u.array[i] ELSE Nil]
  OBVIOUS
<1>3. a \in [1..asize -> Value \cup {Nil}]
  <2>1. \A i \in 1..asize : i <= len => u.array[i] \in Value \cup {Nil}
    BY <1>1, TypeIs DEF TableInv
  <2> QED
    BY <1>2, <2>1
<1>4. a \in Seq(Value \cup {Nil}) /\ Len(a) = asize
  <2>1. a \in Seq(Value \cup {Nil})
    BY <1>3, SeqDef
  <2>2. DOMAIN a = 1..asize /\ DOMAIN a = 1..Len(a) /\ Len(a) \in Nat
    BY <1>3, <2>1, LenProperties
  <2> QED
    BY <2>1, <2>2
<1>5. \A i \in 1..Len(a) : a[i] # Nil => i \in use.keys
  BY <1>1, <1>2, <1>4 DEF TableInv, KeysOK
<1>6. PICK fresh : fresh = NewTable(a, hsize)
  OBVIOUS
<1>7. TableInv(fresh) /\ fresh.array = a /\ fresh.isreal = TRUE
  BY <1>4, <1>5, <1>6, NewTableInv
<1>8. PICK entries : entries = Moved(u, asize)
  OBVIOUS
<1>9. entries \in Seq(MovedEntry)
  BY <1>8, MovedIs
<1>10. w = ReinsertAll(fresh, entries)
  BY <1>1, <1>2, <1>6, <1>8 DEF Resized
<1>11. TableInv(w) /\ Len(w.array) = Len(fresh.array) /\ w.isreal = fresh.isreal
  BY <1>7, <1>9, <1>10, ReinsertAllInv
<1> QED
  BY <1>4, <1>7, <1>11

\* rehash: there is a node vector for the keys that do not go to the array part.
LEMMA SizesAre ==
  ASSUME KeyAssumption, use \in Uses, NEW u, TableInv(u), NEW k \in use.keys
  PROVE  Sizes(u, k)[1] \in Nat /\ Sizes(u, k)[2] \in Nat /\ Sizes(u, k)[2] <= Pow2[Bits]
<1> DEFINE keys  == ArrayKeys(u) \cup HashKeys(u) \cup {k}
           ints  == {i \in keys \cap IntKey : i <= MAXASIZE}
           sizes == {0} \cup {p \in PowersOf2 : Cardinality({i \in ints : i <= p}) > p \div 2}
           asize == ArraySize(ints)
           slots == {i \in ints : i <= asize}
           hsize == Cardinality(keys) - Cardinality(slots)
<1>1. keys \subseteq use.keys
  <2>1. ArrayKeys(u) \subseteq use.keys
    BY TypeIs DEF ArrayKeys, TableInv, KeysOK
  <2>2. HashKeys(u) \subseteq use.keys
    BY DEF HashKeys, TableInv, KeysOK
  <2> QED
    BY <2>1, <2>2
<1>2. slots \subseteq keys
  OBVIOUS
<1>3. asize \in Nat
  <2>1. Pow2[Bits] \in Nat /\ sizes \subseteq 0..Pow2[Bits] /\ sizes # {}
    <3>1. Pow2[Bits] \in Nat
      BY Pow2Def DEF KeyAssumption
    <3> QED
      BY <3>1, PowersBounded
  <2>2. asize = Max(sizes)
    BY DEF ArraySize
  <2> HIDE DEF sizes
  <2>3. Max(sizes) \in sizes
    BY <2>1, MaxOf
  <2>4. \A x \in sizes : x \in Nat
    BY <2>1
  <2> QED
    BY <2>2, <2>3, <2>4
<1>4. Sizes(u, k) = <<asize, hsize>>
  BY DEF Sizes
<1> HIDE DEF keys, slots, asize
<1>5. hsize \in Nat /\ hsize <= Pow2[Bits]
  <2>1. IsFiniteSet(use.keys) /\ Cardinality(use.keys) <= Pow2[Bits] /\ Pow2[Bits] \in Nat
    BY UseIs, Pow2Def DEF UseOK
  <2>2. /\ IsFiniteSet(keys) /\ Cardinality(keys) <= Cardinality(use.keys)
    BY <1>1, <2>1, FS_Subset
  <2>3. IsFiniteSet(slots) /\ Cardinality(slots) <= Cardinality(keys)
    BY <1>2, <2>2, FS_Subset
  <2>4. /\ Cardinality(use.keys) \in Nat /\ Cardinality(keys) \in Nat
        /\ Cardinality(slots) \in Nat
    BY <2>1, <2>2, <2>3, FS_CardinalityType
  <2> QED
    BY <2>1, <2>2, <2>3, <2>4
<1> HIDE DEF hsize
<1> QED
  BY <1>3, <1>4, <1>5

\* The rehash keeps the invariant.
LEMMA RehashInv ==
  ASSUME KeyAssumption, use \in Uses, NEW u, TableInv(u), NEW k \in use.keys
  PROVE  TableInv(Rehash(u, k))
<1>1. PICK asize, hsize : asize = Sizes(u, k)[1] /\ hsize = Sizes(u, k)[2]
  OBVIOUS
<1>2. asize \in Nat /\ hsize \in Nat /\ hsize <= Pow2[Bits]
  BY <1>1, SizesAre
<1>3. Rehash(u, k) = Resized(u, asize, hsize)
  BY <1>1 DEF Rehash
<1> QED
  BY <1>2, <1>3, ResizedInv

\* A table that pretends to have the size a: it differs from u in the limit and in the
\* hash part.
Pretending(u, a, h, f) ==
    [array |-> u.array, alimit |-> a, isreal |-> TRUE, node |-> h, lastfree |-> f]
Pretends(u, a, w) == \E h, f : w = Pretending(u, a, h, f)

\* It goes on pretending when keys beyond the limit are set: they all go to the hash part.
LEMMA SetPretends ==
  ASSUME KeyAssumption, NEW u, NEW a \in Nat, NEW w, Pretends(u, a, w),
         NEW k \in Nat, k > a, NEW v, NEW z, z = SetInPlace(w, k, v)
  PROVE  Pretends(u, a, z)
<1>0. PICK arr, h1, f1 :
      /\ arr = u.array
      /\ w = [array |-> arr, alimit |-> a, isreal |-> TRUE, node |-> h1, lastfree |-> f1]
  BY DEF Pretends, Pretending
<1>1. w.alimit = a /\ w.isreal = TRUE /\ k \notin Collectable
  BY <1>0, KeyAssumption DEF Collectable
<1>2. ~BeyondLimit(w, k)
  BY <1>1 DEF BeyondLimit
<1>3. ~InArray(w, k) /\ Touch(w, k) = w
  BY <1>1, <1>2 DEF InArray, Touch
<1>4. z = w \/ \E f, h : z = Renewed(w, f, h)
  <2>1. CASE Found(w, k) # {}
    <3>1. PICK p : p = CHOOSE i \in Found(w, k) : TRUE
      OBVIOUS
    <3>2. z = [w EXCEPT !.node[p].val = v]
      BY <1>3, <2>1, <3>1 DEF SetInPlace
    <3>3. z = Renewed(w, f1, [w.node EXCEPT ![p].val = v])
      BY <1>0, <3>2 DEF Renewed
    <3> QED
      BY <3>3
  <2>2. CASE Found(w, k) = {} /\ v # Nil /\ HasRoom(w, k)
    <3>1. z = NewKey(w, k, v)
      BY <1>3, <2>2 DEF SetInPlace
    <3>2. PICK mp : mp = MainPosition(w, k)
      OBVIOUS
    <3>3. CASE w.node[mp].val = Nil
      <4>1. PICK h : h = Fill(w.node, mp, k, v)
        OBVIOUS
      <4>2. z = [w EXCEPT !.node = h]
        BY <3>1, <3>2, <3>3, <4>1 DEF NewKey
      <4>3. z = Renewed(w, f1, h)
        BY <1>0, <4>2 DEF Renewed
      <4> QED
        BY <4>3
    <3>4. CASE w.node[mp].val # Nil
      <4>1. PICK f : f = Max(FreeBelow(w))
        OBVIOUS
      <4>2. PICK h : h = IF MainPosition(w, w.node[mp].key) # mp
                         THEN Relocate(w, mp, f, k, v) ELSE Link(w, mp, f, k, v)
        OBVIOUS
      <4>3. z = Renewed(w, f, h)
        BY <3>1, <3>2, <3>4, <4>1, <4>2 DEF NewKey, Renewed
      <4> QED
        BY <4>3
    <3> QED
      BY <3>3, <3>4
  <2>3. CASE Found(w, k) = {} /\ ~(v # Nil /\ HasRoom(w, k))
    BY <1>3, <2>3 DEF SetInPlace
  <2> QED
    BY <2>1, <2>2, <2>3
<1>5. ASSUME NEW f, NEW h PROVE Renewed(w, f, h) = Pretending(u, a, h, f)
  <2>1. Renewed(w, f, h) = [w EXCEPT !.lastfree = f, !.node = h]
    BY DEF Renewed
  <2>2. Renewed(w, f, h) = [array |-> arr, alimit |-> a, isreal |-> TRUE, node |-> h, lastfree |-> f]
    BY <1>0, <2>1
  <2> QED
    BY <1>0, <2>2 DEF Pretending
<1>6. CASE z = w
  BY <1>6
<1>7. CASE \E f, h : z = Renewed(w, f, h)
  <2>1. PICK f, h : z = Renewed(w, f, h)
    BY <1>7
  <2>2. z = Pretending(u, a, h, f)
    BY <1>5, <2>1
  <2> QED
    BY <2>2 DEF Pretends
<1> QED
  BY <1>4, <1>6, <1>7

\* So does the whole slice, and what luaH_resize restores is the table it began with.
LEMMA RestoredIs ==
  ASSUME KeyAssumption, NEW u, TableInv(u), u.isreal = TRUE, NEW a \in Nat, NEW hsize
  PROVE  Restored(u, Pretended(u, a, hsize)) = u
<1>1. PICK vector : vector = NodeVector(hsize)
  OBVIOUS
<1>2. PICK first : first = [u EXCEPT !.alimit = a, !.node = vector,
                                     !.lastfree = Cardinality(DOMAIN vector)]
  OBVIOUS
<1>3. u = [array |-> u.array, alimit |-> u.alimit, isreal |-> u.isreal,
           node |-> u.node, lastfree |-> u.lastfree]
  BY DEF TableInv, TableType
<1>4. Pretends(u, a, first)
  <2>1. first = Pretending(u, a, vector, Cardinality(DOMAIN vector))
    BY <1>2, <1>3 DEF Pretending
  <2> QED
    BY <2>1 DEF Pretends
<1>5. PICK entries : entries = VanishingSlice(u, a)
  OBVIOUS
<1>6. PICK m \in Nat : m = Len(entries) /\ \A n \in 1..m : entries[n][1] = a + n
  <2>1. Len(u.array) \in Nat
    BY TypeIs DEF TableInv
  <2>2. Vanishing(u, a) \in Nat
    <3>1. a + 1 \in Int /\ Len(u.array) \in Int
      BY <2>1
    <3>2. Cardinality((a + 1)..Len(u.array))
            = IF a + 1 > Len(u.array) THEN 0 ELSE Len(u.array) - (a + 1) + 1
      BY <3>1, FS_Interval
    <3> QED
      BY <2>1, <3>2 DEF Vanishing
  <2>3. entries \in [1..Vanishing(u, a) -> {<<a + i, u.array[a + i]>> : i \in 1..Vanishing(u, a)}]
    BY <1>5 DEF VanishingSlice
  <2>4. Len(entries) = Vanishing(u, a)
    BY <2>2, <2>3, FunctionSeq, LenProperties
  <2> QED
    BY <1>5, <2>2, <2>4 DEF VanishingSlice
<1>7. PICK w : w = Pretended(u, a, hsize)
  OBVIOUS
<1>8. w = ReinsertAll(first, entries)
  BY <1>1, <1>2, <1>5, <1>7 DEF Pretended
<1>9. PICK g : IsReinsertion(g, first, entries, m) /\ w = g[m]
  BY <1>6, <1>8, ReinsertAllIs
<1> DEFINE S == {n \in Nat : n <= m => Pretends(u, a, g[n])}
<1>10. 0 \in S
  <2>1. g[0] = first
    BY <1>9 DEF IsReinsertion
  <2> QED
    BY <1>4, <2>1
<1>11. ASSUME NEW n \in Nat, n \in S PROVE n + 1 \in S
  <2> SUFFICES ASSUME n + 1 <= m PROVE Pretends(u, a, g[n + 1])
    OBVIOUS
  <2>1. g[n + 1] = Reinsert(g[n], entries[n + 1])
    <3>1. n + 1 \in 0..m /\ n + 1 # 0 /\ (n + 1) - 1 = n
      OBVIOUS
    <3> QED
      BY <1>9, <3>1 DEF IsReinsertion
  <2>2. PICK y : y = g[n]
    OBVIOUS
  <2>3. Pretends(u, a, y)
    BY <1>11, <2>2
  <2>4. PICK k, v : k = entries[n + 1][1] /\ v = entries[n + 1][2]
    OBVIOUS
  <2>5. k \in Nat /\ k > a
    BY <1>6, <2>4
  <2>6. PICK z : z = SetInPlace(y, k, v)
    OBVIOUS
  <2>7. Pretends(u, a, z)
    BY <2>3, <2>5, <2>6, SetPretends
  <2>8. g[n + 1] = y \/ g[n + 1] = z
    BY <2>1, <2>2, <2>4, <2>6 DEF Reinsert
  <2> QED
    BY <2>3, <2>7, <2>8
<1> HIDE DEF S
<1>12. m \in S
  BY <1>10, <1>11, Induction
<1>13. Pretends(u, a, w)
  BY <1>9, <1>12 DEF S
<1>14. Restored(u, w) = u
  <2>1. PICK h, f : w = Pretending(u, a, h, f)
    BY <1>13 DEF Pretends
  <2>2. PICK arr, limit, nodes, last : arr = u.array /\ limit = u.alimit /\ nodes = u.node /\ last = u.lastfree
    OBVIOUS
  <2>3. w = [array |-> arr, alimit |-> a, isreal |-> TRUE, node |-> h, lastfree |-> f]
    BY <2>1, <2>2 DEF Pretending
  <2>4. Restored(u, w) = [w EXCEPT !.alimit = limit, !.node = nodes, !.lastfree = last]
    BY <2>2 DEF Restored
  <2>5. Restored(u, w) = [array |-> arr, alimit |-> limit, isreal |-> TRUE, node |-> nodes, lastfree |-> last]
    BY <2>3, <2>4
  <2> QED
    BY <1>3, <2>2, <2>5
<1> QED
  BY <1>7, <1>14

-----------------------------------------------------------------------------
(***************************************************************************)
(* The invariant holds at first and every step keeps it.                   *)
(***************************************************************************)
LEMMA InitInv == Init => IInv
<1> SUFFICES ASSUME Init PROVE IInv
  OBVIOUS
<1>1. use \in Uses /\ alive = {} /\ cursor = Nil /\ visited = {Nil}
  BY DEF Init, NoTraversal
<1>2. PICK s \in use.sizes : t = NewTable([i \in 1..s[1] |-> Nil], s[2])
  BY DEF Init
<1>3. s[1] \in Nat /\ s[2] \in Nat /\ s[2] <= Pow2[Bits]
  <2>1. s \in Nat \X (0..Pow2[Bits]) /\ Pow2[Bits] \in Nat
    BY <1>1, KeyAssumption, UseIs, Pow2Def DEF UseOK
  <2> QED
    BY <2>1
<1>4. PICK a : a = [i \in 1..s[1] |-> Nil]
  OBVIOUS
<1>5. a \in [1..s[1] -> Value \cup {Nil}] /\ \A i \in 1..s[1] : a[i] = Nil
  BY <1>4
<1>6. a \in Seq(Value \cup {Nil})
  BY <1>3, <1>5, FunctionSeq
<1>7. \A i \in 1..Len(a) : a[i] # Nil => i \in use.keys
  BY <1>5, <1>6, LenProperties
<1>8. TableInv(t)
  <2>1. PICK size \in Nat : size = s[2] /\ size <= Pow2[Bits]
    BY <1>3
  <2>2. PICK w : w = NewTable(a, size)
    OBVIOUS
  <2>3. use \in Uses
    BY <1>1
  <2>4. TableInv(w) /\ w.array = a /\ w.isreal = TRUE
    <3>1. a \in Seq(Value \cup {Nil}) /\ size \in Nat /\ size <= Pow2[Bits]
      BY <1>6, <2>1
    <3> QED
      BY <1>7, <2>2, <2>3, <3>1, KeyAssumption, NewTableInv
  <2> QED
    BY <1>2, <1>4, <2>1, <2>2, <2>4
<1> QED
  BY <1>1, <1>8 DEF IInv, TypeOK, TableInv

\* The limit is moved back to the end of the array part.
LEMMA LimitToSizeInv ==
  ASSUME NEW u, TableInv(u), NEW w, w = SetLimitToSize(u)
  PROVE  TableInv(w) /\ w.array = u.array /\ w.node = u.node
<1>1. RealSize(u) = Len(u.array) /\ Len(u.array) \in Nat
  BY KeyAssumption, RealSizeIs, TypeIs DEF TableInv
<1>2. /\ w.array = u.array /\ w.alimit = Len(u.array) /\ w.isreal = TRUE
      /\ w.node = u.node /\ w.lastfree = u.lastfree
  BY <1>1 DEF SetLimitToSize, TableInv, TableType
<1>3. SizeNode(w) = SizeNode(u)
  BY <1>2 DEF SizeNode
<1>4. TableType(w)
  <2>1. TableType(u)
    BY DEF TableInv
  <2>2. w = [array |-> u.array, alimit |-> Len(u.array), isreal |-> TRUE,
             node |-> u.node, lastfree |-> u.lastfree]
    BY <1>1, <2>1 DEF SetLimitToSize, TableType
  <2>3. w \in [array : Seq(Value \cup {Nil}), alimit : Nat, isreal : BOOLEAN,
               node : [DOMAIN w.node -> NodeType], lastfree : Nat]
    BY <1>1, <1>2, <2>1, <2>2 DEF TableType
  <2> QED
    BY <1>1, <1>2, <1>3, <2>1, <2>3 DEF TableType
<1>5. LimitOK(w) /\ KeysOK(w) /\ ShadowOK(w)
  BY <1>2 DEF LimitOK, KeysOK, ShadowOK, TableInv
<1> QED
  BY <1>2, <1>4, <1>5 DEF TableInv

\* t[k] = v, with a rehash and without one.
LEMMA AssignedInv ==
  ASSUME KeyAssumption, use \in Uses, NEW x, TableInv(x), NEW k \in use.keys,
         NEW v \in Value \cup {Nil}
  PROVE  TableInv(Assigned(x, k, v))
<1>1. CASE Grows(x, k, v)
  <2>1. PICK u : u = SetLimitToSize(x)
    OBVIOUS
  <2>2. PICK w : w = Rehash(u, k)
    OBVIOUS
  <2>3. TableInv(u)
    BY <2>1, LimitToSizeInv
  <2>4. TableInv(w)
    BY <2>2, <2>3, RehashInv
  <2>5. Assigned(x, k, v) = SetInPlace(w, k, v)
    BY <1>1, <2>1, <2>2 DEF Assigned
  <2> QED
    BY <2>4, <2>5, SetInPlaceInv
<1>2. CASE ~Grows(x, k, v)
  <2>1. Assigned(x, k, v) = SetInPlace(x, k, v)
    BY <1>2 DEF Assigned
  <2> QED
    BY <2>1, SetInPlaceInv
<1> QED
  BY <1>1, <1>2

\* The action.
LEMMA PutInv ==
  ASSUME IInv, NEW k, NEW v, Put(k, v)
  PROVE  TableInv(t')
<1>1. k \in use.keys /\ v \in use.values \cup {Nil} /\ use \in Uses /\ TableInv(t)
  BY DEF Put, IInv
<1>2. v \in Value \cup {Nil}
  BY <1>1, KeyAssumption, UseIs DEF UseOK
<1>3. t' = Assigned(t, k, v)
  BY DEF Put
<1> QED
  BY <1>1, <1>2, <1>3, KeyAssumption, AssignedInv

\* A failed rehash has moved the limit and lost 'lastfree', and nothing else.
LEMMA BeforeResizeInv ==
  ASSUME KeyAssumption, NEW x, TableInv(x), NEW w, w = BeforeResize(x)
  PROVE  /\ TableInv(w) /\ w.array = x.array /\ w.node = x.node /\ w.lastfree = 0
         /\ w.isreal = TRUE
<1>1. PICK u : u = SetLimitToSize(x)
  OBVIOUS
<1>2. TableInv(u) /\ u.array = x.array /\ u.node = x.node
  BY <1>1, LimitToSizeInv
<1>3. w = Renewed(u, 0, u.node)
  BY <1>1, <1>2 DEF BeforeResize, Renewed, TableInv, TableType
<1>4. /\ u.node = [j \in DOMAIN u.node |-> u.node[j]]
      /\ \A j \in DOMAIN u.node : NodeOK(u, j, u.node[j])
  <2>1. u.node \in [DOMAIN u.node -> NodeType]
    BY <1>2, TypeIs DEF TableInv
  <2> QED
    BY <1>2, <2>1, NodeIs
<1>5. 0 \in Nat /\ 0 <= SizeNode(u)
  BY <1>2, SizeIs DEF TableInv
<1>6. PICK f \in Nat : f = 0
  OBVIOUS
<1>7. PICK h : h = u.node
  OBVIOUS
<1>8. TableInv(w) /\ w.array = u.array /\ w.isreal = u.isreal
  BY <1>2, <1>3, <1>4, <1>5, <1>6, <1>7, WithNodes
<1>9. u.isreal = TRUE
  BY <1>1 DEF SetLimitToSize, TableInv, TableType
<1>10. w.node = u.node /\ w.lastfree = 0
  BY <1>2, <1>3 DEF Renewed, TableInv, TableType
<1> QED
  BY <1>2, <1>8, <1>9, <1>10

\* Whichever allocation fails.
LEMMA FailedIs ==
  ASSUME KeyAssumption, use \in Uses, NEW x, TableInv(x), NEW k \in use.keys,
         NEW w \in RehashFails(BeforeResize(x), k)
  PROVE  /\ w = BeforeResize(x) /\ TableInv(w)
         /\ w.array = x.array /\ w.node = x.node /\ w.lastfree = 0
<1>1. PICK u : u = BeforeResize(x)
  OBVIOUS
<1>2. /\ TableInv(u) /\ u.array = x.array /\ u.node = x.node /\ u.lastfree = 0
      /\ u.isreal = TRUE
  BY <1>1, BeforeResizeInv
<1>3. PICK asize, hsize : asize = Sizes(u, k)[1] /\ hsize = Sizes(u, k)[2]
  OBVIOUS
<1>4. asize \in Nat
  BY <1>2, <1>3, SizesAre
<1>5. w \in ResizeFails(u, asize, hsize)
  BY <1>1, <1>3 DEF RehashFails
<1>6. Restored(u, Pretended(u, asize, hsize)) = u
  BY <1>2, <1>4, RestoredIs
<1>7. w = u
  BY <1>5, <1>6 DEF ResizeFails, NodesFail, ArrayFails
<1> QED
  BY <1>1, <1>2, <1>7

\* The action.
LEMMA PutFailsInv ==
  ASSUME IInv, NEW k, NEW v, PutFails(k, v)
  PROVE  TableInv(t')
<1>1. /\ k \in use.keys /\ use \in Uses /\ TableInv(t)
      /\ t' \in RehashFails(BeforeResize(t), k)
  BY DEF PutFails, IInv
<1>2. PICK x : x = t
  OBVIOUS
<1>3. PICK w : w = t'
  OBVIOUS
<1>4. TableInv(w)
  BY <1>1, <1>2, <1>3, KeyAssumption, FailedIs
<1> QED
  BY <1>3, <1>4

\* A cleared entry has no value, so its key may die.
LEMMA ClearKeysInv ==
  ASSUME KeyAssumption, NEW u, TableInv(u)
  PROVE  TableInv(KeysCleared(u))
<1>1. PICK w : w = KeysCleared(u)
  OBVIOUS
<1>2. PICK h : h = [i \in DOMAIN u.node |->
                       [u.node[i] EXCEPT !.dead = \/ u.node[i].dead
                                                  \/ /\ u.node[i].val = Nil
                                                     /\ u.node[i].key \in Collectable]]
  OBVIOUS
<1>3. PICK f : f = u.lastfree
  OBVIOUS
<1>4. w = Renewed(u, f, h)
  <2>1. w = [u EXCEPT !.node = h]
    BY <1>1, <1>2 DEF KeysCleared
  <2> QED
    BY <1>3, <2>1 DEF Renewed, TableInv, TableType
<1>5. ASSUME NEW j \in DOMAIN u.node PROVE NodeOK(u, j, h[j])
  <2>1. NodeOK(u, j, u.node[j])
    BY <1>1, NodeIs
  <2>2. h[j] = [u.node[j] EXCEPT !.dead = \/ u.node[j].dead
                                          \/ /\ u.node[j].val = Nil
                                             /\ u.node[j].key \in Collectable]
    BY <1>2
  <2>3. /\ h[j] \in NodeType /\ h[j].key = u.node[j].key /\ h[j].val = u.node[j].val
        /\ h[j].next = u.node[j].next
        /\ h[j].val # Nil => h[j].dead = u.node[j].dead
    BY <2>1, <2>2 DEF NodeOK, NodeType
  <2> QED
    BY <2>1, <2>3 DEF NodeOK
<1>6. h = [j \in DOMAIN u.node |-> h[j]]
  BY <1>2
<1>7. f \in Nat /\ f <= SizeNode(u)
  BY <1>1, <1>3, TypeIs DEF TableInv
<1> QED
  BY <1>1, <1>4, <1>5, <1>6, <1>7, KeyAssumption, WithNodes

\* next() returns a key.
LEMMA NextKey ==
  ASSUME IInv, NEW i \in FindIndex(t, cursor), After(t, i) # {}
  PROVE  Entry(t, Min(After(t, i)))[1] \in Key \cup {Nil}
<1>1. /\ use \in Uses /\ TableInv(t) /\ TableType(t) /\ cursor \in Key \cup {Nil}
      /\ RealSize(t) = Len(t.array)
  BY KeyAssumption, RealSizeIs DEF IInv, TypeOK, TableInv
<1>2. PICK len \in Nat : len = RealSize(t) /\ len = Len(t.array)
  BY <1>1, TypeIs
<1>3. PICK s \in Nat : s = SizeNode(t) /\ DOMAIN t.node = 0..(s - 1)
  BY <1>1, KeyAssumption, SizeIs
<1>4. i \in Nat
  <2>1. CASE cursor = Nil
    BY <2>1 DEF FindIndex
  <2>2. CASE cursor # Nil /\ cursor \in IntKey /\ cursor <= RealSize(t)
    BY <2>2, KeyAssumption DEF FindIndex
  <2>3. CASE cursor # Nil /\ ~(cursor \in IntKey /\ cursor <= RealSize(t))
    <3>1. PICK n \in Nodes(t, cursor, TRUE) : i = RealSize(t) + n + 1
      BY <2>3 DEF FindIndex
    <3>2. cursor \in Collectable \/ cursor \in Nat
      BY <1>1, <2>3, KeyAssumption DEF Key
    <3>3. n \in DOMAIN t.node
      BY <1>1, <3>2, KeyAssumption, NodesIn
    <3> QED
      <4>1. n \in Nat
        BY <1>3, <3>3
      <4>2. i = len + n + 1
        BY <1>2, <3>1
      <4> QED
        BY <4>1, <4>2
  <2> QED
    BY <2>1, <2>2, <2>3
<1>5. After(t, i) \subseteq Nat
  BY <1>2, <1>3, <1>4 DEF After, EntryCount
<1>6. PICK j \in After(t, i) : j = Min(After(t, i))
  BY <1>5, MinOf
<1>7. j \in 1..(len + s) /\ Entry(t, j)[2] # Nil
  BY <1>2, <1>3, <1>4, <1>6 DEF After, EntryCount
<1>8. CASE j <= len
  <2>1. Entry(t, j) = <<j, t.array[j]>>
    BY <1>2, <1>8 DEF Entry
  <2>2. j \in use.keys
    BY <1>1, <1>2, <1>7, <1>8, <2>1 DEF TableInv, KeysOK
  <2> QED
    BY <1>1, <1>6, <2>1, <2>2, KeyAssumption, UseIs DEF UseOK
<1>9. CASE j > len
  <2>1. j - len - 1 \in DOMAIN t.node
    BY <1>3, <1>7, <1>9
  <2>2. Entry(t, j)[1] = t.node[j - len - 1].key
    BY <1>2, <1>7, <1>9 DEF Entry
  <2>3. t.node[j - len - 1] \in NodeType
    BY <1>1, <2>1, TypeIs
  <2> QED
    BY <1>6, <2>2, <2>3 DEF NodeType
<1> QED
  BY <1>7, <1>8, <1>9

\* Every action of the table's users and of the collector.
LEMMA NextInv == IInv /\ [Next]_vars => IInv'
<1> SUFFICES ASSUME IInv, [Next]_vars PROVE IInv'
  OBVIOUS
<1>1. /\ use \in Uses /\ TableInv(t) /\ alive \subseteq Collectable
      /\ cursor \in Key \cup {Nil} /\ visited \subseteq Key \cup {Nil}
  BY DEF IInv, TypeOK
<1>2. ASSUME use' = use, TableInv(t'), alive' \subseteq Collectable,
             cursor' \in Key \cup {Nil}, visited' \subseteq Key \cup {Nil}
      PROVE  IInv'
  BY <1>1, <1>2 DEF IInv, TypeOK, TableInv, TableType, SizeNode, LimitOK, KeysOK, ShadowOK
<1>3. ASSUME NEW k \in Key, NEW v \in Value \cup {Nil}, Put(k, v) PROVE IInv'
  <2>1. /\ use' = use /\ alive' = alive
        /\ cursor' \in {cursor, Nil} /\ visited' \in {visited, {Nil}}
    BY <1>3 DEF Put, Disturb, NoTraversal
  <2>2. TableInv(t')
    BY <1>3, PutInv
  <2> QED
    BY <1>1, <1>2, <2>1, <2>2
<1>4. ASSUME NEW k \in Key, NEW v \in Value \cup {Nil}, PutFails(k, v) PROVE IInv'
  <2>1. TableInv(t')
    BY <1>4, PutFailsInv
  <2> QED
    BY <1>1, <1>2, <1>4, <2>1 DEF PutFails
<1>5. ASSUME NEW k \in IntKey, Read(k) PROVE IInv'
  <2>1. k \in Nat \ {0} /\ t' = Touch(t, k)
    BY <1>5, KeyAssumption DEF Read
  <2>2. TableInv(t')
    BY <1>1, <2>1, KeyAssumption, TouchInv
  <2> QED
    BY <1>1, <1>2, <1>5, <2>2 DEF Read
<1>6. ASSUME NEW k \in Key, Collect(k) PROVE IInv'
  BY <1>1, <1>2, <1>6 DEF Collect
<1>7. ASSUME NEW k \in Key, Create(k) PROVE IInv'
  BY <1>1, <1>2, <1>7 DEF Create
<1>8. CASE Length
  <2>1. TableInv(t')
    BY <1>1, <1>8, KeyAssumption, GetnIs DEF Length
  <2> QED
    BY <1>1, <1>2, <1>8, <2>1 DEF Length
<1>9. CASE StartTraversal
  BY <1>1, <1>2, <1>9 DEF StartTraversal
<1>10. CASE NextEntry
  <2>1. PICK i \in FindIndex(t, cursor) :
          /\ After(t, i) # {}
          /\ cursor' = Entry(t, Min(After(t, i)))[1]
          /\ visited' = visited \cup {Entry(t, Min(After(t, i)))[1]}
    BY <1>10 DEF NextEntry
  <2>2. Entry(t, Min(After(t, i)))[1] \in Key \cup {Nil}
    BY <2>1, NextKey
  <2> QED
    BY <1>1, <1>2, <1>10, <2>1, <2>2 DEF NextEntry
<1>11. CASE NoMoreEntries
  BY <1>1, <1>2, <1>11 DEF NoMoreEntries, NoTraversal
<1>12. CASE ClearKeys
  <2>1. TableInv(t')
    BY <1>1, <1>12, KeyAssumption, ClearKeysInv DEF IInv, ClearKeys
  <2> QED
    BY <1>1, <1>2, <1>12, <2>1 DEF ClearKeys
<1>13. CASE UNCHANGED vars
  BY <1>1, <1>2, <1>13 DEF vars
<1> QED
  BY <1>3, <1>4, <1>5, <1>6, <1>7, <1>8, <1>9, <1>10, <1>11, <1>12, <1>13 DEF Next

\* Every reachable state satisfies the invariant.
LEMMA InvariantHolds == Spec => []IInv
<1>1. Init => IInv
  BY InitInv
<1>2. IInv /\ [Next]_vars => IInv'
  BY NextInv
<1> QED
  BY <1>1, <1>2, PTL DEF Spec

\* A table is always well typed: its limit is within the array part, the hash part has
\* a size that is a power of 2, and every link of a node leads to a node.
THEOREM TablesTyped == Spec => []TypeOK
<1>1. IInv => TypeOK
  BY DEF IInv
<1> QED
  BY <1>1, InvariantHolds, PTL

\* luaH_realasize computes the size of the array part from the limit alone, however
\* reads, writes and the length operator moved that hint; and no integer key has its
\* value in the hash part where the array part would hide it.
THEOREM ArrayPartIsSound == Spec => []ArrayPartSound
<1>1. IInv => ArrayPartSound
  BY KeyAssumption, RealSizeIs DEF IInv, TableInv, ShadowOK, ArrayPartSound, RealSizeKnown, NoShadow
<1> QED
  BY <1>1, InvariantHolds, PTL

\* luaH_getn returns a border: a length whose element is there and whose successor is
\* not, for every mix of holes, any position of the limit and up to the largest integer.
THEOREM LengthIsABorder == Spec => []BorderFound
<1>1. IInv => BorderFound
  BY KeyAssumption, GetnIs DEF IInv, BorderFound
<1> QED
  BY <1>1, InvariantHolds, PTL
=============================================================================
