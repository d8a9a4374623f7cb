--------------------------- MODULE TableLibProofs ---------------------------
(***************************************************************************)
(* Proofs about table.sort and the operations on lists of ltablib.c.       *)
(***************************************************************************)
EXTENDS Sort, TableLib, FiniteSetTheorems, FunctionTheorems, SequenceTheorems, TLAPS

(***************************************************************************)
(* The invariant of the sort.                                              *)
(***************************************************************************)
WaitingCall == [part : [lo : Nat, up : Nat], n : Nat, rnd : Nat]
State ==
    [given : Seq(Datum), ordered : BOOLEAN, a : Seq(Datum), lo : Nat, up : Nat, rnd : Nat, p : Nat,
     i : Nat, j : Nat, pivot : Datum \cup {0}, calls : Seq(WaitingCall),
     pc : {"ends", "low", "high", "up", "down", "return", "done", "error"}]
Working(pc) == pc \in {"ends", "low", "high", "up", "down"}

\* (n + 1) / 2^depth is enough for a part of this size
Fits(n, size, depth) == (size + 1) * Pow2[depth] <= n + 1
In(part, x) == part.lo <= x /\ x <= part.up
\* the parts that wait are in the table, and have no index in common with one another ...
PartsInside(n, calls) ==
    \A k \in 1..Len(calls) :
        /\ 1 <= calls[k].part.lo /\ calls[k].part.lo <= calls[k].part.up /\ calls[k].part.up <= n
        /\ Fits(n, calls[k].part.up - calls[k].part.lo + 1, k - 1)
PartsApart(calls) ==
    \A k, l \in 1..Len(calls) :
        k < l => calls[k].part.up < calls[l].part.lo \/ calls[l].part.up < calls[k].part.lo
\* ... nor with the indices from lo to up
OutsideParts(calls, lo, up) ==
    \A k \in 1..Len(calls) : calls[k].part.up < lo \/ up < calls[k].part.lo
Waiting(calls, x, y) == \E k \in 1..Len(calls) : In(calls[k].part, x) /\ In(calls[k].part, y)
\* two elements are in order, unless they are both in one part that waits, or from lo to up
SortedBut(a, calls, lo, up) ==
    \A x, y \in 1..Len(a) : x < y => AtMost(a[x], a[y]) \/ Waiting(calls, x, y) \/ (lo <= x /\ y <= up)
AllAtMost(a, lo, up, v) == \A x \in lo..up : AtMost(a[x], v)
AllAtLeast(a, lo, up, v) == \A x \in lo..up : AtMost(v, a[x])
SameElements(a, b) == \A x : Cardinality(Occurs(a, x)) = Cardinality(Occurs(b, x))

PartsRight ==
    /\ PartsInside(Size, sort.calls) /\ PartsApart(sort.calls)
    /\ 1 <= sort.lo /\ sort.lo <= sort.up + 1 /\ sort.up <= Size
    /\ Fits(Size, sort.up - sort.lo + 1, Len(sort.calls))
    /\ Working(sort.pc) => sort.lo < sort.up /\ OutsideParts(sort.calls, sort.lo, sort.up)
\* where the sort of one part is
StageRight ==
    /\ sort.pc \in {"low", "high"} =>
           /\ sort.up - sort.lo >= 2 /\ sort.lo < sort.p /\ sort.p < sort.up
           /\ IsRandom(sort) => PivotInMiddle
           /\ sort.ordered => AtMost(sort.a[sort.lo], sort.a[sort.up])
           /\ sort.ordered /\ sort.pc = "high" => AtMost(sort.a[sort.lo], sort.a[sort.p])
    /\ sort.pc \in {"up", "down"} =>
           /\ sort.up - sort.lo >= 3 /\ sort.a[sort.up - 1] = sort.pivot
           /\ sort.lo < sort.i /\ sort.i < sort.up
           /\ sort.ordered => AllAtMost(sort.a, sort.lo, sort.i - 1, sort.pivot)
    /\ sort.pc = "up" =>
           /\ sort.lo < sort.j /\ sort.j < sort.up
           /\ sort.ordered => AllAtLeast(sort.a, sort.j, sort.up, sort.pivot)
    /\ sort.pc = "down" =>
           /\ sort.lo <= sort.j /\ sort.j < sort.up - 1
           /\ sort.ordered => AtMost(sort.pivot, Elem(sort.i)) /\ AllAtLeast(sort.a, sort.j + 1, sort.up, sort.pivot)
OrderRight ==
    sort.ordered =>
        /\ Size < TooBig => sort.pc # "error"
        /\ Working(sort.pc) => SortedBut(sort.a, sort.calls, sort.lo, sort.up)
        /\ sort.pc \in {"return", "done"} => SortedBut(sort.a, sort.calls, 1, 0)
ElementsRight == Len(sort.a) = Size /\ SameElements(sort.a, sort.given)

SortInv ==
    /\ sort \in State /\ PartsRight /\ StageRight /\ OrderRight /\ ElementsRight
    /\ sort.pc = "done" => sort.calls = <<>>

-----------------------------------------------------------------------------
\* Induction over the natural numbers for a set: without n, the members below n
\* would have an injection into those that are not 0.
LEMMA Induction ==
  ASSUME NEW S, 0 \in S, \A n \in Nat : n \in S => n + 1 \in S
  PROVE  \A n \in Nat : n \in S
<1> SUFFICES ASSUME NEW n \in Nat, n \notin S PROVE FALSE
  OBVIOUS
<1> DEFINE A == {i \in 0..n : i \in S}
           B == A \ {0}
           f == [i \in A |-> i + 1]
<1>1. IsFiniteSet(A)
  <2>1. IsFiniteSet(0..n) /\ A \subseteq 0..n
    BY FS_Interval
  <2> QED
    BY <2>1, FS_Subset
<1>2. 0 \in A
  OBVIOUS
<1>3. IsFiniteSet(B) /\ Cardinality(B) = Cardinality(A) - 1 /\ Cardinality(A) \in Nat
  BY <1>1, <1>2, FS_RemoveElement, FS_CardinalityType
<1>4. f \in Injection(A, B)
  <2>1. \A i \in A : i + 1 \in B
    OBVIOUS
  <2> QED
    BY <2>1 DEF Injection, IsInjective
<1>5. Cardinality(A) <= Cardinality(B)
  BY <1>3, <1>4, FS_Injection
<1> QED
  BY <1>3, <1>5

\* n steps, the k-th of which is the function step[k].
Repeated(step, x, n) == CHOOSE g : g = [k \in 0..n |-> IF k = 0 THEN x ELSE step[k][g[k - 1]]]

\* There is a sequence of results, so that a recursive function is what it says.
LEMMA RepeatedIs ==
  ASSUME NEW step, NEW x, NEW n \in Nat
  PROVE  Repeated(step, x, n) = [k \in 0..n |-> IF k = 0 THEN x ELSE step[k][Repeated(step, x, n)[k - 1]]]
<1> DEFINE Is(g, m) == g = [k \in 0..m |-> IF k = 0 THEN x ELSE step[k][g[k - 1]]]
           S == {m \in Nat : \E g : Is(g, m)}
<1>1. 0 \in S
  <2> DEFINE g == [k \in 0..0 |-> x]
  <2>1. Is(g, 0)
    OBVIOUS
  <2> QED
    BY <2>1
<1>2. \A m \in Nat : m \in S => m + 1 \in S
  <2> SUFFICES ASSUME NEW m \in Nat, m \in S PROVE m + 1 \in S
    OBVIOUS
  <2>1. PICK g : Is(g, m)
    OBVIOUS
  <2> DEFINE h == [k \in 0..(m + 1) |-> IF k = m + 1 THEN step[m + 1][g[m]] ELSE g[k]]
  <2>2. ASSUME NEW k \in 0..(m + 1) PROVE h[k] = IF k = 0 THEN x ELSE step[k][h[k - 1]]
    <3>1. CASE k = m + 1
      BY <3>1
    <3>2. CASE k \in 0..m
      <4>1. h[k] = g[k] /\ (k # 0 => h[k - 1] = g[k - 1])
        BY <3>2
      <4>2. g[k] = IF k = 0 THEN x ELSE step[k][g[k - 1]]
        BY <2>1, <3>2
      <4> QED
        BY <4>1, <4>2
    <3> QED
      BY <3>1, <3>2
  <2>3. h = [k \in 0..(m + 1) |-> h[k]]
    OBVIOUS
  <2> HIDE DEF h
  <2>4. Is(h, m + 1)
    BY <2>2, <2>3
  <2> HIDE DEF Is
  <2> QED
    BY <2>4
<1> HIDE DEF S
<1>3. n \in S
  BY <1>1, <1>2, Induction
<1> QED
  BY <1>3 DEF Repeated, S

\* Powers of 2.
LEMMA Pow2Is ==
  /\ Pow2[0] = 1
  /\ \A n \in Nat : Pow2[n] \in Nat \ {0} /\ Pow2[n + 1] = 2 * Pow2[n]
<1> DEFINE Twice == [x \in Nat |-> 2 * x]
           step == [k \in Nat |-> Twice]
           R(n) == Repeated(step, 1, n)
           P == [n \in Nat |-> R(n)[n]]
<1>1. \A k \in Nat : step[k] = Twice
  OBVIOUS
<1> HIDE DEF Twice, step
<1>2. ASSUME NEW n \in Nat, NEW k \in 0..n
      PROVE  R(n)[k] = IF k = 0 THEN 1 ELSE Twice[R(n)[k - 1]]
  <2>1. R(n) = [l \in 0..n |-> IF l = 0 THEN 1 ELSE step[l][R(n)[l - 1]]]
    BY RepeatedIs
  <2> HIDE DEF R
  <2> QED
    BY <1>1, <2>1
<1> HIDE DEF R
<1>3. \A k \in Nat : \A n \in Nat : k <= n => R(n)[k] = R(k)[k] /\ R(n)[k] \in Nat \ {0}
  <2> DEFINE S == {k \in Nat : \A n \in Nat : k <= n => R(n)[k] = R(k)[k] /\ R(n)[k] \in Nat \ {0}}
  <2>1. 0 \in S
    BY <1>2
  <2>2. ASSUME NEW k \in Nat, k \in S PROVE k + 1 \in S
    <3> SUFFICES ASSUME NEW n \in Nat, k + 1 <= n
                 PROVE  R(n)[k + 1] = R(k + 1)[k + 1] /\ R(n)[k + 1] \in Nat \ {0}
      OBVIOUS
    <3>1. R(n)[k + 1] = Twice[R(n)[k]] /\ R(k + 1)[k + 1] = Twice[R(k + 1)[k]]
      BY <1>2
    <3>2. R(n)[k] = R(k)[k] /\ R(k + 1)[k] = R(k)[k] /\ R(k)[k] \in Nat \ {0}
      BY <2>2
    <3> QED
      BY <3>1, <3>2 DEF Twice
  <2> HIDE DEF S
  <2>3. \A k \in Nat : k \in S
    BY <2>1, <2>2, Induction
  <2> QED
    BY <2>3 DEF S
<1>4. ASSUME NEW n \in Nat PROVE P[n] = IF n = 0 THEN 1 ELSE 2 * P[n - 1]
  <2>1. CASE n = 0
    BY <1>2, <2>1
  <2>2. CASE n # 0
    <3>1. R(n)[n] = Twice[R(n)[n - 1]]
      BY <1>2, <2>2
    <3>2. n - 1 \in Nat /\ R(n)[n - 1] = R(n - 1)[n - 1] /\ R(n)[n - 1] \in Nat
      BY <1>3, <2>2
    <3> QED
      BY <2>2, <3>1, <3>2 DEF Twice
  <2> QED
    BY <2>1, <2>2
<1>5. P = [n \in Nat |-> P[n]]
  OBVIOUS
<1>6. \A n \in Nat : P[n] \in Nat \ {0}
  BY <1>3
<1> HIDE DEF P
<1>7. P = [n \in Nat |-> IF n = 0 THEN 1 ELSE 2 * P[n - 1]]
  BY <1>4, <1>5
<1>8. Pow2 = [n \in Nat |-> IF n = 0 THEN 1 ELSE 2 * Pow2[n - 1]]
  BY <1>7 DEF Pow2
<1> DEFINE S == {n \in Nat : Pow2[n] \in Nat \ {0}}
<1>9. 0 \in S
  BY <1>8
<1>10. ASSUME NEW n \in Nat, n \in S PROVE n + 1 \in S
  <2>1. Pow2[n + 1] = 2 * Pow2[n]
    BY <1>8
  <2> QED
    BY <1>10, <2>1
<1> HIDE DEF S
<1>11. \A n \in Nat : n \in S
  BY <1>9, <1>10, Induction
<1> QED
  BY <1>8, <1>11 DEF S

\* A smaller part fits as well, and half of a part fits one call deeper.
LEMMA SmallerFits ==
  ASSUME NEW n \in Nat, NEW size \in Nat, NEW less \in Nat, NEW depth \in Nat,
         Fits(n, size, depth), less <= size
  PROVE  Fits(n, less, depth)
<1>1. PICK x \in Nat \ {0} : x = Pow2[depth]
  BY Pow2Is
<1>2. (less + 1) * x <= (size + 1) * x
  BY SMT
<1> QED
  BY <1>1, <1>2 DEF Fits

LEMMA HalfFits ==
  ASSUME NEW n \in Nat, NEW size \in Nat, NEW half \in Nat, NEW depth \in Nat,
         Fits(n, size, depth), 2 * half + 1 <= size
  PROVE  Fits(n, half, depth + 1)
<1>1. PICK x \in Nat \ {0} : x = Pow2[depth]
  BY Pow2Is
<1>2. (2 * half + 2) * x <= (size + 1) * x
  BY SMT
<1>3. (half + 1) * (2 * x) = (2 * half + 2) * x
  BY SMT
<1>4. Pow2[depth + 1] = 2 * x
  BY <1>1, Pow2Is
<1>5. (size + 1) * x <= n + 1
  BY <1>1 DEF Fits
<1>6. (half + 1) * (2 * x) <= n + 1
  <2>1. PICK y \in Int, z \in Int : y = (2 * half + 2) * x /\ z = (size + 1) * x
    OBVIOUS
  <2> QED
    BY <1>2, <1>3, <1>5, <2>1
<1> QED
  BY <1>4, <1>6 DEF Fits

\* A call that fits is not deep.
LEMMA FitsDepth ==
  ASSUME NEW n \in Nat, NEW size \in Nat, NEW depth \in Nat, Fits(n, size, depth)
  PROVE  Pow2[depth] <= n + 1
<1>1. PICK x \in Nat \ {0} : x = Pow2[depth]
  BY Pow2Is
<1>2. x <= (size + 1) * x
  BY SMT
<1>3. (size + 1) * x <= n + 1
  BY <1>1 DEF Fits
<1>4. PICK y \in Int : y = (size + 1) * x
  OBVIOUS
<1> QED
  BY <1>1, <1>2, <1>3, <1>4

-----------------------------------------------------------------------------
(***************************************************************************)
(* Exchanging two elements.                                                *)
(***************************************************************************)
\* b is a with the elements at i and j exchanged
Exchanged(a, b, i, j) ==
    /\ b \in Seq(Datum) /\ Len(b) = Len(a) /\ b[i] = a[j] /\ b[j] = a[i]
    /\ \A k \in 1..Len(a) : k # i /\ k # j => b[k] = a[k]

LEMMA Set2Exchanges ==
  ASSUME NEW a \in Seq(Datum), NEW i \in 1..Len(a), NEW j \in 1..Len(a)
  PROVE  Exchanged(a, Set2(a, i, j), i, j)
<1>1. a \in [1..Len(a) -> Datum]
  OBVIOUS
<1>2. Set2(a, i, j) \in [1..Len(a) -> Datum]
  BY <1>1 DEF Set2
<1>3. \A k \in 1..Len(a) : Set2(a, i, j)[k] = IF k = j THEN a[i] ELSE IF k = i THEN a[j] ELSE a[k]
  BY <1>1 DEF Set2
<1>4. Set2(a, i, j) \in Seq(Datum) /\ Len(Set2(a, i, j)) = Len(a)
  BY <1>2
<1> QED
  BY <1>3, <1>4 DEF Exchanged

\* The table keeps its elements.
LEMMA ExchangeKeepsElements ==
  ASSUME NEW a \in Seq(Datum), NEW b, NEW i \in 1..Len(a), NEW j \in 1..Len(a), Exchanged(a, b, i, j)
  PROVE  SameElements(b, a)
<1> SUFFICES ASSUME NEW x PROVE Cardinality(Occurs(b, x)) = Cardinality(Occurs(a, x))
  BY DEF SameElements
<1> DEFINE A == Occurs(a, x)
           B == Occurs(b, x)
           other(k) == IF k = i THEN j ELSE IF k = j THEN i ELSE k
           f == [k \in A |-> other(k)]
<1>1. \A k \in 1..Len(a) : other(k) \in 1..Len(a) /\ b[other(k)] = a[k] /\ other(other(k)) = k
  BY DEF Exchanged
<1>2. \A k \in 1..Len(a) : b[k] = a[other(k)]
  BY DEF Exchanged
<1> HIDE DEF other
<1>3. Len(b) = Len(a)
  BY DEF Exchanged
<1>4. A = {k \in 1..Len(a) : a[k] = x} /\ B = {k \in 1..Len(a) : b[k] = x}
  BY <1>3 DEF Occurs
<1>5. IsFiniteSet(A)
  <2>1. IsFiniteSet(1..Len(a)) /\ A \subseteq 1..Len(a)
    BY <1>4, FS_Interval
  <2> QED
    BY <2>1, FS_Subset
<1> HIDE DEF A, B
<1>6. f \in [A -> B]
  BY <1>1, <1>4
<1>7. \A k, l \in A : f[k] = f[l] => k = l
  BY <1>1, <1>4
<1>8. \A l \in B : \E k \in A : f[k] = l
  <2> SUFFICES ASSUME NEW l \in B PROVE \E k \in A : f[k] = l
    OBVIOUS
  <2>1. other(l) \in A /\ other(other(l)) = l
    BY <1>1, <1>2, <1>4
  <2> QED
    BY <2>1
<1> HIDE DEF f
<1>9. f \in Bijection(A, B)
  BY <1>6, <1>7, <1>8 DEF Bijection, Injection, Surjection, IsInjective
<1>10. ExistsBijection(A, B)
  BY <1>9 DEF ExistsBijection
<1> QED
  BY <1>5, <1>10, FS_Bijection DEF A, B

LEMMA ElementsKept ==
  ASSUME NEW a \in Seq(Datum), NEW b, NEW c, NEW i \in 1..Len(a), NEW j \in 1..Len(a),
         Exchanged(a, b, i, j), SameElements(a, c)
  PROVE  SameElements(b, c)
<1>1. SameElements(b, a)
  BY ExchangeKeepsElements
<1> QED
  BY <1>1 DEF SameElements

\* Two elements of the part from lo to up are exchanged: what is in order besides stays so.
LEMMA ExchangeKeepsOrder ==
  ASSUME NEW a \in Seq(Datum), NEW b, NEW calls \in Seq(WaitingCall), NEW lo \in Nat, NEW up \in Nat,
         1 <= lo, up <= Len(a), OutsideParts(calls, lo, up), SortedBut(a, calls, lo, up),
         NEW i \in lo..up, NEW j \in lo..up, Exchanged(a, b, i, j)
  PROVE  SortedBut(b, calls, lo, up)
<1> SUFFICES ASSUME NEW x \in 1..Len(a), NEW y \in 1..Len(a), x < y, ~(lo <= x /\ y <= up)
             PROVE  AtMost(b[x], b[y]) \/ Waiting(calls, x, y)
  BY DEF SortedBut, Exchanged
<1> DEFINE other(k) == IF k = i THEN j ELSE IF k = j THEN i ELSE k
           v == other(x)
           w == other(y)
<1>1. v \in 1..Len(a) /\ w \in 1..Len(a) /\ b[x] = a[v] /\ b[y] = a[w]
  BY DEF Exchanged
<1>2. v < w /\ ~(lo <= v /\ w <= up)
  OBVIOUS
<1>3. (v = x \/ (v \in lo..up /\ x \in lo..up)) /\ (w = y \/ (w \in lo..up /\ y \in lo..up))
  OBVIOUS
<1> HIDE DEF v, w
<1>4. AtMost(a[v], a[w]) \/ Waiting(calls, v, w)
  BY <1>1, <1>2 DEF SortedBut
<1>5. ASSUME NEW k \in 1..Len(calls), In(calls[k].part, v), In(calls[k].part, w)
      PROVE  In(calls[k].part, x) /\ In(calls[k].part, y)
  <2>1. calls[k].part.up < lo \/ up < calls[k].part.lo
    BY DEF OutsideParts
  <2>2. calls[k] \in WaitingCall
    OBVIOUS
  <2>3. PICK l \in Nat, u \in Nat : l = calls[k].part.lo /\ u = calls[k].part.up
    BY <2>2 DEF WaitingCall
  <2>4. l <= v /\ v <= u /\ l <= w /\ w <= u
    BY <1>5, <2>3 DEF In
  <2>5. u < lo \/ up < l
    BY <2>1, <2>3
  <2>6. ~(v \in lo..up) /\ ~(w \in lo..up)
    BY <2>4, <2>5
  <2>7. v = x /\ w = y
    BY <1>3, <2>6
  <2> QED
    BY <2>3, <2>4, <2>7 DEF In
<1> QED
  BY <1>1, <1>4, <1>5 DEF Waiting

-----------------------------------------------------------------------------
(***************************************************************************)
(* A part becomes sorted, is split, or the one that waited is next.        *)
(***************************************************************************)
\* A single element is sorted.
LEMMA SingleIsSorted ==
  ASSUME NEW a \in Seq(Datum), NEW calls, NEW lo \in Nat, NEW up \in Nat, SortedBut(a, calls, lo, up), up <= lo
  PROVE  SortedBut(a, calls, 1, 0)
BY DEF SortedBut

\* The pivot is at p, between the parts on both sides: one of them waits.
LEMMA SplitKeepsOrder ==
  ASSUME SortAssumption,
         NEW a \in Seq(Datum), NEW calls \in Seq(WaitingCall), NEW wait \in WaitingCall,
         NEW lo \in Nat, NEW up \in Nat, 1 <= lo, up <= Len(a), NEW p \in lo..up,
         SortedBut(a, calls, lo, up), AllAtMost(a, lo, p - 1, a[p]), AllAtLeast(a, p + 1, up, a[p]),
         NEW lo2 \in Nat, NEW up2 \in Nat,
         \/ lo2 = lo /\ up2 = p - 1 /\ wait.part.lo = p + 1 /\ wait.part.up = up
         \/ lo2 = p + 1 /\ up2 = up /\ wait.part.lo = lo /\ wait.part.up = p - 1
  PROVE  SortedBut(a, Append(calls, wait), lo2, up2)
<1> DEFINE c == Append(calls, wait)
           n == Len(calls)
<1>1. Len(c) = n + 1 /\ c[n + 1] = wait /\ \A k \in 1..n : c[k] = calls[k]
  OBVIOUS
<1> HIDE DEF c
<1> SUFFICES ASSUME NEW x \in 1..Len(a), NEW y \in 1..Len(a), x < y, ~AtMost(a[x], a[y])
             PROVE  Waiting(c, x, y) \/ (lo2 <= x /\ y <= up2)
  BY DEF SortedBut, c
<1>2. CASE Waiting(calls, x, y)
  BY SMTT(60), <1>1, <1>2 DEF Waiting
<1>3. CASE lo <= x /\ y <= up
  <2>1. (x <= p => AtMost(a[x], a[p])) /\ (p <= y => AtMost(a[p], a[y]))
    BY <1>3, SortAssumption DEF AllAtMost, AllAtLeast
  <2>2. a[x] \in Datum /\ a[y] \in Datum /\ a[p] \in Datum
    OBVIOUS
  <2>3. ~(x <= p /\ p <= y)
    BY <2>1, <2>2, SortAssumption
  <2>4. (lo <= x /\ y <= p - 1) \/ (p + 1 <= x /\ y <= up)
    BY <1>3, <2>3
  <2>5. wait.part.lo \in Nat /\ wait.part.up \in Nat
    BY DEF WaitingCall
  <2>6. (lo2 <= x /\ y <= up2) \/ (In(wait.part, x) /\ In(wait.part, y))
    BY SMTT(60), <1>3, <2>4, <2>5 DEF In
  <2>7. n + 1 \in 1..Len(c)
    BY <1>1
  <2> QED
    BY <1>1, <2>6, <2>7 DEF Waiting
<1> QED
  BY <1>2, <1>3 DEF SortedBut

\* The last call that waits goes on.
LEMMA ReturnKeepsOrder ==
  ASSUME NEW a \in Seq(Datum), NEW calls \in Seq(WaitingCall), Len(calls) > 0, SortedBut(a, calls, 1, 0)
  PROVE  SortedBut(a, SubSeq(calls, 1, Len(calls) - 1), calls[Len(calls)].part.lo, calls[Len(calls)].part.up)
<1> DEFINE n == Len(calls)
           c == SubSeq(calls, 1, n - 1)
<1>1. Len(c) = n - 1 /\ \A k \in 1..(n - 1) : c[k] = calls[k]
  <2>1. n \in Nat /\ n > 0
    OBVIOUS
  <2> HIDE DEF n
  <2>2. \A k \in 1..(n - 1) : calls[k] \in WaitingCall
    BY <2>1 DEF n
  <2> QED
    BY <2>1, <2>2, SubSeqProperties
<1> HIDE DEF c
<1> SUFFICES ASSUME NEW x \in 1..Len(a), NEW y \in 1..Len(a), x < y, ~AtMost(a[x], a[y])
             PROVE  Waiting(c, x, y) \/ (calls[n].part.lo <= x /\ y <= calls[n].part.up)
  BY DEF SortedBut, c
<1>2. PICK k \in 1..n : In(calls[k].part, x) /\ In(calls[k].part, y)
  BY DEF SortedBut, Waiting
<1>3. CASE k = n
  BY <1>2, <1>3 DEF In
<1>4. CASE k < n
  BY <1>1, <1>2, <1>4 DEF Waiting
<1> QED
  BY <1>3, <1>4

-----------------------------------------------------------------------------
(***************************************************************************)
(* One lemma per action: the step keeps the invariant.                     *)
(***************************************************************************)
\* the state after a step
Becomes(a, lo, up, rnd, p, i, j, pivot, calls, pc) ==
    sort' = [given |-> sort.given, ordered |-> sort.ordered, a |-> a, lo |-> lo, up |-> up, rnd |-> rnd,
             p |-> p, i |-> i, j |-> j, pivot |-> pivot, calls |-> calls, pc |-> pc]
\* the table after an exchange in the part that is being sorted
Rearranged(b) ==
    /\ b \in Seq(Datum) /\ Len(b) = Size /\ SameElements(b, sort.given)
    /\ sort.ordered => SortedBut(b, sort.calls, sort.lo, sort.up)

LEMMA ExchangeRearranges ==
  ASSUME SortInv, Working(sort.pc), NEW a, Rearranged(a),
         NEW i \in sort.lo..sort.up, NEW j \in sort.lo..sort.up
  PROVE  Rearranged(Set2(a, i, j)) /\ Exchanged(a, Set2(a, i, j), i, j)
<1> PICK lo \in Nat, up \in Nat, calls \in Seq(WaitingCall) :
        lo = sort.lo /\ up = sort.up /\ calls = sort.calls
  BY DEF SortInv, State
<1>1. a \in Seq(Datum) /\ SameElements(a, sort.given) /\ Len(a) = Size
  BY DEF Rearranged
<1>2. 1 <= lo /\ up <= Len(a) /\ OutsideParts(calls, lo, up)
  BY <1>1 DEF SortInv, PartsRight
<1>3. i \in 1..Len(a) /\ j \in 1..Len(a) /\ i \in lo..up /\ j \in lo..up
  BY <1>2
<1> PICK b : b = Set2(a, i, j)
  OBVIOUS
<1>4. Exchanged(a, b, i, j)
  BY <1>1, <1>3, Set2Exchanges
<1>5. SameElements(b, sort.given)
  BY <1>1, <1>3, <1>4, ElementsKept
<1>6. ASSUME sort.ordered PROVE SortedBut(b, calls, lo, up)
  <2>1. SortedBut(a, calls, lo, up)
    BY <1>6 DEF Rearranged
  <2> QED
    BY <1>1, <1>2, <1>3, <1>4, <2>1, ExchangeKeepsOrder
<1> QED
  BY <1>1, <1>4, <1>5, <1>6 DEF Rearranged, Exchanged

LEMMA TableIsRearranged ==
  ASSUME SortInv, Working(sort.pc)
  PROVE  Rearranged(sort.a)
BY DEF Rearranged, SortInv, State, OrderRight, ElementsRight

\* One of two elements is at most the other.
LEMMA InOrder ==
  ASSUME NEW x \in Datum, NEW y \in Datum, Smaller(x, y)
  PROVE  AtMost(x, y)
BY SortAssumption DEF AtMost

\* The pivot is chosen between the ends, a random one in the second or third quarter.
LEMMA MiddleIsInside ==
  ASSUME SortInv, sort.up - sort.lo >= 2
  PROVE  /\ Middle(sort) \in Nat /\ sort.lo < Middle(sort) /\ Middle(sort) < sort.up
         /\ IsRandom(sort) =>
                sort.lo + Quarter(sort) <= Middle(sort) /\ Middle(sort) <= sort.up - Quarter(sort)
<1>1. PICK lo \in Nat, up \in Nat, rnd \in Nat : lo = sort.lo /\ up = sort.up /\ rnd = sort.rnd
  BY DEF SortInv, State
<1>2. PICK q \in Nat : q = Quarter(sort) /\ q = (up - lo) \div 4
  BY <1>1 DEF Quarter
<1>3. up - lo >= 2
  BY <1>1
<1>4. CASE IsRandom(sort)
  <2>1. q >= 1 /\ 4 * q <= up - lo
    <3>1. up - lo >= RanLimit /\ RanLimit \in Nat /\ RanLimit >= 4
      BY <1>1, <1>4, SortAssumption DEF IsRandom
    <3>2. PICK n \in Nat : n = up - lo /\ n >= 4
      BY <3>1
    <3>3. q = n \div 4
      BY <1>2, <3>2
    <3> QED
      BY <3>2, <3>3
  <2>2. PICK m \in Nat : m = q * 2 /\ m > 0
    BY <2>1
  <2>3. PICK r \in 0..(m - 1) : r = rnd % m
    BY <2>2
  <2>4. Middle(sort) = r + lo + q
    BY <1>1, <1>2, <1>4, <2>2, <2>3 DEF Middle, ChoosePivot
  <2> QED
    BY <1>1, <1>2, <2>1, <2>2, <2>3, <2>4
<1>5. CASE ~IsRandom(sort)
  <2>1. Middle(sort) = (lo + up) \div 2
    BY <1>1, <1>5 DEF Middle
  <2> QED
    BY <1>1, <1>3, <1>5, <2>1
<1> QED
  BY <1>4, <1>5

LEMMA EndsKeeps ==
  ASSUME SortInv, NEW less \in BOOLEAN, CompareEnds(less)
  PROVE  SortInv'
<1> PICK a \in Seq(Datum), lo \in Nat, up \in Nat, rnd \in Nat, calls \in Seq(WaitingCall) :
        a = sort.a /\ lo = sort.lo /\ up = sort.up /\ rnd = sort.rnd /\ calls = sort.calls
  BY DEF SortInv, State
<1>1. sort.pc = "ends" /\ Working(sort.pc) /\ less \in Answers(a[up], a[lo])
  BY DEF CompareEnds, Elem, Working
<1>2. 1 <= lo /\ lo < up /\ up <= Size /\ Len(a) = Size /\ Size \in Nat
  BY <1>1 DEF SortInv, PartsRight, ElementsRight, Size, State
<1> PICK b : b = IF less THEN Set2(a, lo, up) ELSE a
  OBVIOUS
<1>3. Rearranged(b)
  BY <1>1, <1>2, TableIsRearranged, ExchangeRearranges
<1>4. ASSUME sort.ordered PROVE AtMost(b[lo], b[up])
  <2>1. less = Smaller(a[up], a[lo])
    BY <1>1, <1>4 DEF Answers
  <2>2. a[lo] \in Datum /\ a[up] \in Datum
    BY <1>2
  <2>3. CASE less
    <3>1. Exchanged(a, b, lo, up)
      BY <1>1, <1>2, <2>3, TableIsRearranged, ExchangeRearranges
    <3> QED
      BY <2>1, <2>2, <2>3, <3>1, InOrder DEF Exchanged
  <2>4. CASE ~less
    BY <2>1, <2>4 DEF AtMost
  <2> QED
    BY <2>3, <2>4
<1>5. CASE up - lo = 1
  <2>1. Becomes(b, lo, up, rnd, sort.p, sort.i, sort.j, sort.pivot, calls, "return")
    BY <1>5 DEF CompareEnds, Becomes, SortInv, State
  <2>2. ASSUME sort.ordered PROVE SortedBut(b, calls, 1, 0)
    <3>1. b \in Seq(Datum) /\ SortedBut(b, calls, lo, up)
      BY <1>3, <2>2 DEF Rearranged
    <3>2. ASSUME NEW x \in 1..Len(b), NEW y \in 1..Len(b), lo <= x, x < y, y <= up
          PROVE  AtMost(b[x], b[y])
      <4>1. x = lo /\ y = up
        BY <1>5, <3>1, <3>2
      <4> QED
        BY <1>4, <2>2, <4>1
    <3> QED
      BY <3>1, <3>2 DEF SortedBut
  <2> QED
    BY <1>1, <1>3, <2>1, <2>2
    DEF Becomes, Rearranged, SortInv, State, PartsRight, StageRight, OrderRight, ElementsRight, Size, Working
<1>6. CASE up - lo # 1
  <2> PICK p : p = Middle(sort)
    OBVIOUS
  <2>1. Becomes(b, lo, up, rnd, p, sort.i, sort.j, sort.pivot, calls, "low")
    <3>1. PICK s : s = IF less THEN [sort EXCEPT !.a = Set2(@, sort.lo, sort.up)] ELSE sort
      OBVIOUS
    <3>2. sort \in State
      BY DEF SortInv
    <3>3. s = [given |-> sort.given, ordered |-> sort.ordered, a |-> b, lo |-> lo, up |-> up, rnd |-> rnd,
               p |-> sort.p, i |-> sort.i, j |-> sort.j, pivot |-> sort.pivot, calls |-> calls, pc |-> sort.pc]
      BY <3>1, <3>2 DEF State
    <3>4. s.up = sort.up /\ s.lo = sort.lo /\ s.rnd = sort.rnd
      BY <3>3
    <3>5. sort' = [s EXCEPT !.p = Middle(s), !.pc = "low"]
      BY <1>6, <3>1, <3>4 DEF CompareEnds
    <3>6. Middle(s) = p
      BY <3>4 DEF Middle, IsRandom, ChoosePivot, Quarter
    <3>7. sort' = [s EXCEPT !.p = p, !.pc = "low"]
      BY <3>5, <3>6
    <3> QED
      BY <3>3, <3>7 DEF Becomes
  <2>2. /\ p \in Nat /\ lo < p /\ p < up
        /\ IsRandom(sort) => lo + Quarter(sort) <= p /\ p <= up - Quarter(sort)
    BY <1>2, <1>6, MiddleIsInside
  <2> QED
    BY SMTT(60), <1>1, <1>2, <1>3, <1>4, <1>6, <2>1, <2>2
    DEF Becomes, Rearranged, SortInv, State, PartsRight, StageRight, OrderRight, ElementsRight, Size, Working,
        IsRandom, Quarter, PivotInMiddle
<1> QED
  BY <1>5, <1>6

\* Three elements are in order: the part is sorted, or its partition begins.
LEMMA PartitionKeeps ==
  ASSUME SortInv, sort.pc \in {"low", "high"}, NEW b, Rearranged(b),
         sort.ordered => AtMost(b[sort.lo], b[sort.p]) /\ AtMost(b[sort.p], b[sort.up]),
         sort' = Partition([sort EXCEPT !.a = b])
  PROVE  SortInv'
<1> PICK lo \in Nat, up \in Nat, p \in Nat, calls \in Seq(WaitingCall) :
        lo = sort.lo /\ up = sort.up /\ p = sort.p /\ calls = sort.calls
  BY DEF SortInv, State
<1>1. Working(sort.pc)
  BY DEF Working
<1>2. 1 <= lo /\ lo < p /\ p < up /\ up <= Size /\ Size \in Nat
  BY <1>1 DEF SortInv, PartsRight, StageRight, Size, State
<1>3. b \in Seq(Datum) /\ Len(b) = Size /\ (sort.ordered => SortedBut(b, calls, lo, up))
  BY DEF Rearranged
<1>4. b[lo] \in Datum /\ b[p] \in Datum /\ b[up] \in Datum
  BY <1>2, <1>3
<1>5. CASE up - lo = 2
  <2>1. Becomes(b, lo, up, sort.rnd, p, sort.i, sort.j, sort.pivot, calls, "return")
    BY <1>5 DEF Partition, Becomes, SortInv, State
  <2>2. ASSUME sort.ordered PROVE SortedBut(b, calls, 1, 0)
    <3>1. AtMost(b[lo], b[p]) /\ AtMost(b[p], b[up]) /\ AtMost(b[lo], b[up])
      BY <1>4, <2>2, SortAssumption
    <3>2. ASSUME NEW x \in 1..Len(b), NEW y \in 1..Len(b), lo <= x, x < y, y <= up
          PROVE  AtMost(b[x], b[y])
      <4>1. (x = lo \/ x = p) /\ (y = p \/ y = up) /\ ~(x = p /\ y = p)
        BY <1>2, <1>3, <1>5, <3>2
      <4> QED
        BY <3>1, <4>1
    <3> QED
      BY <1>3, <2>2, <3>2 DEF SortedBut
  <2>3. sort' \in State
    BY <1>3, <2>1 DEF Becomes, SortInv, State
  <2>4. PartsRight' /\ ElementsRight'
    BY SMTT(60), <1>1, <2>1 DEF Becomes, Rearranged, SortInv, PartsRight, ElementsRight, Size, Working
  <2>5. StageRight' /\ OrderRight'
    BY <2>1, <2>2 DEF Becomes, StageRight, OrderRight, Working
  <2> QED
    BY <2>1, <2>3, <2>4, <2>5 DEF Becomes, SortInv
<1>6. CASE up - lo # 2
  <2> PICK c : c = Set2(b, p, up - 1)
    OBVIOUS
  <2> PICK i \in Nat, j \in Nat, v \in Datum : i = lo + 1 /\ j = up - 1 /\ v = b[p]
    BY <1>2, <1>4
  <2>1. Becomes(c, lo, up, sort.rnd, p, i, j, v, calls, "up")
    BY <1>6 DEF Partition, Becomes, SortInv, State
  <2>2. up - lo >= 3 /\ i - 1 = lo
    BY <1>2, <1>6
  <2>3. Rearranged(c) /\ Exchanged(b, c, p, up - 1)
    BY SMTT(60), <1>1, <1>2, ExchangeRearranges
  <2>4. c[up - 1] = b[p] /\ c[lo] = b[lo] /\ c[up] = b[up]
    <3>1. lo \in 1..Len(b) /\ lo # p /\ lo # up - 1 /\ up \in 1..Len(b) /\ up # p /\ up # up - 1
      BY SMTT(60), <1>2, <1>3, <2>2
    <3> QED
      BY <2>3, <3>1 DEF Exchanged
  <2>5. ASSUME sort.ordered PROVE AllAtMost(c, lo, i - 1, v) /\ AllAtLeast(c, j, up, v)
    <3>1. AtMost(v, v)
      BY SortAssumption
    <3>2. AllAtMost(c, lo, i - 1, v)
      BY <2>2, <2>4, <2>5 DEF AllAtMost
    <3>3. \A x \in j..up : x = up - 1 \/ x = up
      OBVIOUS
    <3> QED
      BY <2>4, <2>5, <3>1, <3>2, <3>3 DEF AllAtLeast
  <2>6. sort' \in State
    BY <2>1, <2>3 DEF Becomes, Rearranged, SortInv, State
  <2>7. /\ sort'.a = c /\ sort'.lo = lo /\ sort'.up = up /\ sort'.i = i /\ sort'.j = j
        /\ sort'.pivot = v /\ sort'.pc = "up" /\ sort'.calls = calls
        /\ sort'.ordered = sort.ordered /\ sort'.given = sort.given
    BY <2>1 DEF Becomes
  <2>8. PartsRight'
    BY <1>1, <2>7 DEF SortInv, PartsRight, Size, Working
  <2>9. ElementsRight'
    BY <2>7, <2>3 DEF Rearranged, ElementsRight, Size
  <2>10. StageRight'
    <3>1. /\ c[up - 1] = v /\ lo < i /\ i < up /\ lo < j /\ j < up
      BY SMTT(60), <1>2, <2>2, <2>4
    <3> QED
      BY <2>2, <2>5, <2>7, <3>1 DEF StageRight
  <2>11. OrderRight'
    BY <1>1, <2>1, <2>3 DEF Becomes, Rearranged, OrderRight, Working
  <2> QED
    BY <2>6, <2>7, <2>8, <2>9, <2>10, <2>11 DEF SortInv
<1> QED
  BY <1>5, <1>6

LEMMA LowKeeps ==
  ASSUME SortInv, NEW less \in BOOLEAN, CompareLow(less)
  PROVE  SortInv'
<1> PICK a \in Seq(Datum), lo \in Nat, up \in Nat, p \in Nat :
        a = sort.a /\ lo = sort.lo /\ up = sort.up /\ p = sort.p
  BY DEF SortInv, State
<1>1. sort.pc = "low" /\ Working(sort.pc) /\ less \in Answers(a[p], a[lo])
  BY DEF CompareLow, Elem, Working
<1>2. 1 <= lo /\ lo < p /\ p < up /\ up <= Size /\ Len(a) = Size /\ Size \in Nat
  BY <1>1 DEF SortInv, PartsRight, StageRight, ElementsRight, Size, State
<1>3. a[lo] \in Datum /\ a[p] \in Datum /\ a[up] \in Datum
  BY <1>2
<1>4. sort.ordered => AtMost(a[lo], a[up]) /\ less = Smaller(a[p], a[lo])
  BY <1>1 DEF Answers, SortInv, StageRight
<1>5. CASE less
  <2> PICK b : b = Set2(a, p, lo)
    OBVIOUS
  <2>1. sort' = Partition([sort EXCEPT !.a = b])
    BY <1>5 DEF CompareLow
  <2>2. Rearranged(b) /\ Exchanged(a, b, p, lo)
    BY <1>1, <1>2, TableIsRearranged, ExchangeRearranges
  <2>3. b[lo] = a[p] /\ b[p] = a[lo] /\ b[up] = a[up]
    BY <1>2, <2>2 DEF Exchanged
  <2>4. sort.ordered => AtMost(b[lo], b[p]) /\ AtMost(b[p], b[up])
    BY <1>3, <1>4, <1>5, <2>3, InOrder
  <2> QED
    BY <1>1, <2>1, <2>2, <2>4, PartitionKeeps
<1>6. CASE ~less
  <2>1. Becomes(a, lo, up, sort.rnd, p, sort.i, sort.j, sort.pivot, sort.calls, "high")
    BY <1>6 DEF CompareLow, Becomes, SortInv, State
  <2>2. sort.ordered => AtMost(a[lo], a[p])
    BY <1>4, <1>6 DEF AtMost
  <2> QED
    BY <1>1, <1>2, <1>4, <2>1, <2>2
    DEF Becomes, SortInv, State, PartsRight, StageRight, OrderRight, ElementsRight, Size, Working,
        IsRandom, Quarter, PivotInMiddle
<1> QED
  BY <1>5, <1>6

LEMMA HighKeeps ==
  ASSUME SortInv, NEW less \in BOOLEAN, CompareHigh(less)
  PROVE  SortInv'
<1> PICK a \in Seq(Datum), lo \in Nat, up \in Nat, p \in Nat :
        a = sort.a /\ lo = sort.lo /\ up = sort.up /\ p = sort.p
  BY DEF SortInv, State
<1>1. sort.pc = "high" /\ Working(sort.pc) /\ less \in Answers(a[up], a[p])
  BY DEF CompareHigh, Elem, Working
<1>2. 1 <= lo /\ lo < p /\ p < up /\ up <= Size /\ Len(a) = Size /\ Size \in Nat
  BY <1>1 DEF SortInv, PartsRight, StageRight, ElementsRight, Size, State
<1>3. a[lo] \in Datum /\ a[p] \in Datum /\ a[up] \in Datum
  BY <1>2
<1>4. sort.ordered => AtMost(a[lo], a[up]) /\ AtMost(a[lo], a[p]) /\ less = Smaller(a[up], a[p])
  BY <1>1 DEF Answers, SortInv, StageRight
<1>5. CASE less
  <2> PICK b : b = Set2(a, p, up)
    OBVIOUS
  <2>1. sort' = Partition([sort EXCEPT !.a = b])
    BY <1>5 DEF CompareHigh
  <2>2. Rearranged(b) /\ Exchanged(a, b, p, up)
    BY <1>1, <1>2, TableIsRearranged, ExchangeRearranges
  <2>3. b[lo] = a[lo] /\ b[p] = a[up] /\ b[up] = a[p]
    BY <1>2, <2>2 DEF Exchanged
  <2>4. sort.ordered => AtMost(b[lo], b[p]) /\ AtMost(b[p], b[up])
    BY <1>3, <1>4, <1>5, <2>3, InOrder
  <2> QED
    BY <1>1, <2>1, <2>2, <2>4, PartitionKeeps
<1>6. CASE ~less
  <2>1. sort' = Partition(sort) /\ sort = [sort EXCEPT !.a = a]
    BY <1>6 DEF CompareHigh, SortInv, State
  <2>2. sort.ordered => AtMost(a[lo], a[p]) /\ AtMost(a[p], a[up])
    BY <1>4, <1>6 DEF AtMost
  <2> QED
    BY <1>1, <2>1, <2>2, TableIsRearranged, PartitionKeeps
<1> QED
  BY <1>5, <1>6

\* The scan from below goes on, or stops for the scan from above; it does not pass the pivot.
LEMMA UpKeeps ==
  ASSUME SortInv, NEW less \in BOOLEAN, CompareUp(less)
  PROVE  SortInv'
<1> PICK a \in Seq(Datum), lo \in Nat, up \in Nat, i \in Nat, j \in Nat :
        a = sort.a /\ lo = sort.lo /\ up = sort.up /\ i = sort.i /\ j = sort.j
  BY DEF SortInv, State
<1>1. sort.pc = "up" /\ Working(sort.pc) /\ less \in Answers(a[i], sort.pivot)
  BY DEF CompareUp, Elem, Working
<1>2. /\ 1 <= lo /\ up - lo >= 3 /\ lo < i /\ i < up /\ lo < j /\ j < up
      /\ up <= Size /\ Len(a) = Size /\ Size \in Nat /\ a[up - 1] = sort.pivot
  BY <1>1 DEF SortInv, PartsRight, StageRight, ElementsRight, Size, State
<1> PICK v \in Datum : v = sort.pivot /\ v = a[up - 1]
  BY SMTT(60), <1>2
<1>3. a[i] \in Datum
  BY <1>2
<1>4. sort.ordered => AllAtMost(a, lo, i - 1, v) /\ AllAtLeast(a, j, up, v) /\ less = Smaller(a[i], v)
  BY <1>1 DEF Answers, SortInv, StageRight
<1>5. CASE ~less
  <2> PICK k \in Nat : k = j - 1 /\ k + 1 = j
    BY <1>2
  <2>1. Becomes(a, lo, up, sort.rnd, sort.p, i, k, v, sort.calls, "down")
    BY <1>5 DEF CompareUp, Becomes, SortInv, State
  <2>2. sort.ordered => AtMost(v, a[i]) /\ AllAtLeast(a, k + 1, up, v)
    BY <1>4, <1>5 DEF AtMost
  <2>3. /\ sort'.a = a /\ sort'.lo = lo /\ sort'.up = up /\ sort'.i = i /\ sort'.j = k
        /\ sort'.pivot = v /\ sort'.pc = "down" /\ sort'.calls = sort.calls
        /\ sort'.ordered = sort.ordered /\ sort'.given = sort.given /\ sort' \in State
    BY <2>1 DEF Becomes, SortInv, State
  <2>4. PartsRight' /\ ElementsRight' /\ OrderRight'
    BY <1>1, <2>3 DEF SortInv, PartsRight, ElementsRight, OrderRight, Size, Working
  <2>5. lo <= k /\ k < up - 1
    BY SMTT(60), <1>2
  <2>6. StageRight'
    BY <1>2, <1>4, <2>2, <2>3, <2>5 DEF StageRight, Elem
  <2> QED
    BY <2>3, <2>4, <2>6 DEF SortInv
<1>6. CASE less /\ i = up - 1
  <2>1. sort' = InvalidOrder(sort)
    BY <1>6 DEF CompareUp
  <2>2. ~sort.ordered
    BY <1>3, <1>4, <1>6, SortAssumption DEF AtMost
  <2>3. /\ sort'.a = a /\ sort'.lo = lo /\ sort'.up = up /\ sort'.pc = "error" /\ sort'.calls = sort.calls
        /\ sort'.ordered = sort.ordered /\ sort'.given = sort.given /\ sort' \in State
    BY <2>1 DEF InvalidOrder, SortInv, State
  <2>4. PartsRight' /\ ElementsRight' /\ OrderRight' /\ StageRight'
    BY <1>1, <2>2, <2>3 DEF SortInv, PartsRight, ElementsRight, OrderRight, StageRight, Size, Working
  <2> QED
    BY <2>3, <2>4 DEF SortInv
<1>7. CASE less /\ i # up - 1
  <2> PICK k \in Nat : k = i + 1
    OBVIOUS
  <2>1. Becomes(a, lo, up, sort.rnd, sort.p, k, j, v, sort.calls, "up")
    BY <1>7 DEF CompareUp, Becomes, SortInv, State
  <2>2. ASSUME sort.ordered PROVE AllAtMost(a, lo, k - 1, v)
    <3>1. AtMost(a[i], v)
      BY <1>3, <1>4, <1>7, <2>2, InOrder
    <3>2. \A x \in lo..(k - 1) : x = i \/ x \in lo..(i - 1)
      BY <1>2
    <3> QED
      BY <1>4, <2>2, <3>1, <3>2 DEF AllAtMost
  <2>3. /\ sort'.a = a /\ sort'.lo = lo /\ sort'.up = up /\ sort'.i = k /\ sort'.j = j
        /\ sort'.pivot = v /\ sort'.pc = "up" /\ sort'.calls = sort.calls
        /\ sort'.ordered = sort.ordered /\ sort'.given = sort.given /\ sort' \in State
    BY <2>1 DEF Becomes, SortInv, State
  <2>4. PartsRight' /\ ElementsRight' /\ OrderRight'
    BY <1>1, <2>3 DEF SortInv, PartsRight, ElementsRight, OrderRight, Size, Working
  <2>5. lo < k /\ k < up
    BY SMTT(60), <1>2, <1>7
  <2>6. StageRight'
    BY <1>2, <1>4, <2>2, <2>3, <2>5 DEF StageRight
  <2> QED
    BY <2>3, <2>4, <2>6 DEF SortInv
<1> QED
  BY <1>5, <1>6, <1>7

-----------------------------------------------------------------------------
Bounds(part, l, u) == part.lo = l /\ part.up = u
\* A part inside of lo..up waits, and another one is next.
LEMMA OneMoreWaits ==
  ASSUME NEW n \in Nat, NEW calls \in Seq(WaitingCall), PartsInside(n, calls), PartsApart(calls),
         NEW lo \in Nat, NEW up \in Nat, 1 <= lo, up <= n, OutsideParts(calls, lo, up),
         NEW wait \in WaitingCall, NEW l \in Nat, NEW u \in Nat, Bounds(wait.part, l, u),
         lo <= l, l <= u, u <= up, Fits(n, u - l + 1, Len(calls)),
         NEW lo2 \in Nat, NEW up2 \in Nat, lo <= lo2, up2 <= up, u < lo2 \/ up2 < l
  PROVE  /\ PartsInside(n, Append(calls, wait)) /\ PartsApart(Append(calls, wait))
         /\ OutsideParts(Append(calls, wait), lo2, up2)
<1> DEFINE c == Append(calls, wait)
<1> PICK m \in Nat : m = Len(calls)
  OBVIOUS
<1>1. Len(c) = m + 1 /\ c[m + 1] = wait /\ \A k \in 1..m : c[k] = calls[k]
  OBVIOUS
<1> HIDE DEF c
<1>2. ASSUME NEW k \in 1..m
      PROVE  \E x, y \in Nat : x = calls[k].part.lo /\ y = calls[k].part.up
  <2>1. calls[k] \in WaitingCall
    OBVIOUS
  <2> QED
    BY <2>1 DEF WaitingCall
<1>3. (m + 1) - 1 = m
  OBVIOUS
<1>4. ASSUME NEW k \in 1..(m + 1)
      PROVE  /\ 1 <= c[k].part.lo /\ c[k].part.lo <= c[k].part.up /\ c[k].part.up <= n
             /\ Fits(n, c[k].part.up - c[k].part.lo + 1, k - 1)
  <2>1. CASE k = m + 1
    BY <1>1, <1>3, <2>1 DEF Bounds
  <2>2. CASE k \in 1..m
    BY <1>1, <2>2 DEF PartsInside
  <2> QED
    BY <2>1, <2>2
<1>5. PartsInside(n, c)
  BY <1>1, <1>4 DEF PartsInside
<1>6. ASSUME NEW k \in 1..m PROVE calls[k].part.up < l \/ u < calls[k].part.lo
  <2> PICK x \in Nat, y \in Nat : x = calls[k].part.lo /\ y = calls[k].part.up
    BY <1>2
  <2>1. y < lo \/ up < x
    BY DEF OutsideParts
  <2>2. y < l \/ u < x
    BY <2>1
  <2> QED
    BY <2>2
<1>7. PartsApart(c)
  <2> SUFFICES ASSUME NEW k \in 1..(m + 1), NEW q \in 1..(m + 1), k < q
               PROVE  c[k].part.up < c[q].part.lo \/ c[q].part.up < c[k].part.lo
    BY <1>1 DEF PartsApart
  <2>1. k \in 1..m /\ (q = m + 1 \/ q \in 1..m)
    OBVIOUS
  <2>2. CASE q = m + 1
    BY <1>1, <1>6, <2>1, <2>2 DEF Bounds
  <2>3. CASE q \in 1..m
    BY <1>1, <2>1, <2>3 DEF PartsApart
  <2> QED
    BY <2>1, <2>2, <2>3
<1>8. ASSUME NEW k \in 1..m PROVE calls[k].part.up < lo2 \/ up2 < calls[k].part.lo
  <2> PICK x \in Nat, y \in Nat : x = calls[k].part.lo /\ y = calls[k].part.up
    BY <1>2
  <2>1. y < lo \/ up < x
    BY DEF OutsideParts
  <2>2. y < lo2 \/ up2 < x
    BY SMTT(60), <2>1
  <2> QED
    BY <2>2
<1>9. OutsideParts(c, lo2, up2)
  <2> SUFFICES ASSUME NEW k \in 1..(m + 1) PROVE c[k].part.up < lo2 \/ up2 < c[k].part.lo
    BY <1>1 DEF OutsideParts
  <2>1. CASE k = m + 1
    BY <1>1, <2>1 DEF Bounds
  <2>2. CASE k \in 1..m
    BY <1>1, <1>8, <2>2
  <2> QED
    BY <2>1, <2>2
<1> QED
  BY <1>5, <1>7, <1>9 DEF c

\* The last part that waits is next.
LEMMA OneLessWaits ==
  ASSUME NEW n \in Nat, NEW calls \in Seq(WaitingCall), PartsInside(n, calls), PartsApart(calls),
         Len(calls) > 0
  PROVE  LET c == SubSeq(calls, 1, Len(calls) - 1)
             lo == calls[Len(calls)].part.lo
             up == calls[Len(calls)].part.up
         IN  /\ c \in Seq(WaitingCall) /\ Len(c) = Len(calls) - 1 /\ PartsInside(n, c) /\ PartsApart(c)
             /\ OutsideParts(c, lo, up) /\ 1 <= lo /\ lo <= up /\ up <= n /\ Fits(n, up - lo + 1, Len(c))
<1>1. PICK m \in Nat : m = Len(calls) /\ m > 0
  OBVIOUS
<1>2. PICK lo, up, c : lo = calls[m].part.lo /\ up = calls[m].part.up /\ c = SubSeq(calls, 1, m - 1)
  OBVIOUS
<1>3. c \in Seq(WaitingCall) /\ Len(c) = m - 1 /\ \A k \in 1..(m - 1) : c[k] = calls[k]
  <2>1. \A k \in 1..(m - 1) : calls[k] \in WaitingCall
    BY <1>1
  <2> QED
    BY <1>1, <1>2, <2>1, SubSeqProperties
<1>4. \A k \in 1..(m - 1) : k \in 1..m /\ k < m /\ m \in 1..m
  BY <1>1
<1>5. PartsInside(n, c) /\ PartsApart(c)
  BY <1>1, <1>3, <1>4 DEF PartsInside, PartsApart
<1>6. OutsideParts(c, lo, up)
  BY <1>1, <1>2, <1>3, <1>4 DEF PartsApart, OutsideParts
<1>7. 1 <= lo /\ lo <= up /\ up <= n /\ Fits(n, up - lo + 1, m - 1)
  BY <1>1, <1>2 DEF PartsInside
<1> QED
  BY <1>1, <1>2, <1>3, <1>5, <1>6, <1>7

-----------------------------------------------------------------------------
\* The part from lo to up is split at i: lo2..up2 is sorted next, and l..u, the larger one, waits.
SplitAt(lo, up, i, lo2, up2, l, u) ==
    \/ lo2 = lo /\ up2 = i - 1 /\ l = i + 1 /\ u = up /\ i - lo < up - i
    \/ lo2 = i + 1 /\ up2 = up /\ l = lo /\ u = i - 1 /\ ~(i - lo < up - i)

LEMMA SplitSizes ==
  ASSUME NEW lo \in Nat, NEW up \in Nat, NEW i \in Nat, lo < i, i < up,
         NEW lo2 \in Nat, NEW up2 \in Nat, NEW l \in Nat, NEW u \in Nat, SplitAt(lo, up, i, lo2, up2, l, u)
  PROVE  /\ lo <= l /\ l <= u /\ u <= up /\ lo <= lo2 /\ lo2 <= up2 /\ up2 <= up
         /\ (u < lo2 \/ up2 < l)
         /\ up - lo + 1 \in Nat /\ u - l + 1 \in Nat /\ up2 - lo2 + 1 \in Nat
         /\ u - l + 1 <= up - lo + 1 /\ 2 * (up2 - lo2 + 1) + 1 <= up - lo + 1
BY DEF SplitAt

LEMMA SplitFits ==
  ASSUME NEW n \in Nat, NEW d \in Nat, NEW lo \in Nat, NEW up \in Nat, NEW i \in Nat, lo < i, i < up,
         NEW lo2 \in Nat, NEW up2 \in Nat, NEW l \in Nat, NEW u \in Nat, SplitAt(lo, up, i, lo2, up2, l, u),
         Fits(n, up - lo + 1, d)
  PROVE  Fits(n, u - l + 1, d) /\ Fits(n, up2 - lo2 + 1, d + 1)
<1>1. PICK size \in Nat, large \in Nat, small \in Nat :
         /\ size = up - lo + 1 /\ large = u - l + 1 /\ small = up2 - lo2 + 1
         /\ large <= size /\ 2 * small + 1 <= size
  BY SplitSizes
<1>2. Fits(n, size, d) /\ large <= size /\ 2 * small + 1 <= size
  BY <1>1
<1>3. Fits(n, large, d) /\ Fits(n, small, d + 1)
  BY <1>2, SmallerFits, HalfFits
<1> QED
  BY <1>1, <1>3

LEMMA SplitWaits ==
  ASSUME NEW n \in Nat, NEW calls \in Seq(WaitingCall), PartsInside(n, calls), PartsApart(calls),
         NEW lo \in Nat, NEW up \in Nat, NEW i \in Nat, 1 <= lo, lo < i, i < up, up <= n,
         OutsideParts(calls, lo, up), Fits(n, up - lo + 1, Len(calls)),
         NEW wait \in WaitingCall, NEW lo2 \in Nat, NEW up2 \in Nat,
         SplitAt(lo, up, i, lo2, up2, wait.part.lo, wait.part.up)
  PROVE  /\ PartsInside(n, Append(calls, wait)) /\ PartsApart(Append(calls, wait))
         /\ OutsideParts(Append(calls, wait), lo2, up2)
         /\ Fits(n, up2 - lo2 + 1, Len(Append(calls, wait))) /\ 1 <= lo2 /\ lo2 <= up2 /\ up2 <= n
<1>1. PICK l \in Nat, u \in Nat : l = wait.part.lo /\ u = wait.part.up
  BY DEF WaitingCall
<1>2. SplitAt(lo, up, i, lo2, up2, l, u)
  BY <1>1
<1>3. /\ lo <= l /\ l <= u /\ u <= up /\ lo <= lo2 /\ lo2 <= up2 /\ up2 <= up
      /\ (u < lo2 \/ up2 < l)
  BY SMTT(60), <1>2 DEF SplitAt
<1>4. Len(calls) \in Nat /\ Len(Append(calls, wait)) = Len(calls) + 1
  OBVIOUS
<1>5. Fits(n, u - l + 1, Len(calls)) /\ Fits(n, up2 - lo2 + 1, Len(calls) + 1)
  <2>1. PICK d \in Nat : d = Len(calls)
    BY <1>4
  <2>2. Fits(n, up - lo + 1, d)
    BY <2>1
  <2>3. Fits(n, u - l + 1, d) /\ Fits(n, up2 - lo2 + 1, d + 1)
    BY <1>2, <2>2, SplitFits
  <2> QED
    BY <2>1, <2>3
<1>6. /\ PartsInside(n, Append(calls, wait)) /\ PartsApart(Append(calls, wait))
      /\ OutsideParts(Append(calls, wait), lo2, up2)
  <2>1. Bounds(wait.part, l, u)
    BY <1>1 DEF Bounds
  <2> QED
    BY <1>3, <1>5, <2>1, OneMoreWaits
<1>7. 1 <= lo2 /\ up2 <= n
  BY <1>3
<1> QED
  BY <1>3, <1>4, <1>5, <1>6, <1>7

\* The pivot is between the parts on both sides: the larger one waits.
LEMMA SplitBecomes ==
  ASSUME SortInv, NEW b, NEW i \in Nat, sort.lo < i, i < sort.up,
         sort' = Split([sort EXCEPT !.a = b], i)
  PROVE  \E lo2 \in Nat, up2 \in Nat, wait \in WaitingCall :
            /\ Becomes(b, lo2, up2, sort.rnd, sort.p, sort.i, sort.j, sort.pivot, Append(sort.calls, wait),
                       IF lo2 < up2 THEN "ends" ELSE "return")
            /\ SplitAt(sort.lo, sort.up, i, lo2, up2, wait.part.lo, wait.part.up)
<1>1. PICK lo \in Nat, up \in Nat, calls \in Seq(WaitingCall) :
        lo = sort.lo /\ up = sort.up /\ calls = sort.calls
  BY DEF SortInv, State
<1>2. lo < i /\ i < up
  BY <1>1
<1> DEFINE pc(lo2, up2) == IF lo2 < up2 THEN "ends" ELSE "return"
           Next2(lo2, up2, wait) ==
               /\ Becomes(b, lo2, up2, sort.rnd, sort.p, sort.i, sort.j, sort.pivot, Append(calls, wait), pc(lo2, up2))
               /\ SplitAt(lo, up, i, lo2, up2, wait.part.lo, wait.part.up)
<1>3. \E lo2 \in Nat, up2 \in Nat, wait \in WaitingCall : Next2(lo2, up2, wait)
  <2>1. PICK im \in Nat, ip \in Nat, below \in Nat, above \in Nat :
            im = i - 1 /\ ip = i + 1 /\ below = i - lo /\ above = up - i
    BY <1>2
  <2>2. CASE i - lo < up - i
    <3>1. PICK wait \in WaitingCall : wait = [part |-> Part(ip, up), n |-> below, rnd |-> sort.rnd]
      BY DEF WaitingCall, Part, SortInv, State
    <3>2. Becomes(b, lo, im, sort.rnd, sort.p, sort.i, sort.j, sort.pivot, Append(calls, wait), pc(lo, im))
      BY <1>1, <2>1, <2>2, <3>1 DEF Split, Lower, Upper, Part, Becomes, SortInv, State
    <3>3. SplitAt(lo, up, i, lo, im, wait.part.lo, wait.part.up)
      BY <2>1, <2>2, <3>1 DEF SplitAt, Part
    <3> QED
      BY <3>2, <3>3
  <2>3. CASE ~(i - lo < up - i)
    <3>1. PICK wait \in WaitingCall : wait = [part |-> Part(lo, im), n |-> above, rnd |-> sort.rnd]
      BY DEF WaitingCall, Part, SortInv, State
    <3>2. Becomes(b, ip, up, sort.rnd, sort.p, sort.i, sort.j, sort.pivot, Append(calls, wait), pc(ip, up))
      BY <1>1, <2>1, <2>3, <3>1 DEF Split, Lower, Upper, Part, Becomes, SortInv, State
    <3>3. SplitAt(lo, up, i, ip, up, wait.part.lo, wait.part.up)
      BY <2>1, <2>3, <3>1 DEF SplitAt, Part
    <3> QED
      BY <3>2, <3>3
  <2> QED
    BY <2>2, <2>3
<1> QED
  BY <1>1, <1>3

\* The state after a step is one, when what changes has its type.
LEMMA BecomesState ==
  ASSUME sort \in State, NEW a \in Seq(Datum), NEW lo \in Nat, NEW up \in Nat, NEW calls \in Seq(WaitingCall),
         NEW pc \in {"ends", "low", "high", "up", "down", "return", "done", "error"},
         Becomes(a, lo, up, sort.rnd, sort.p, sort.i, sort.j, sort.pivot, calls, pc)
  PROVE  sort' \in State
<1>1. /\ sort.rnd \in Nat /\ sort.p \in Nat /\ sort.i \in Nat /\ sort.j \in Nat /\ sort.pivot \in Datum \cup {0}
      /\ sort.given \in Seq(Datum) /\ sort.ordered \in BOOLEAN
  BY DEF State
<1> QED
  BY <1>1 DEF Becomes, State

\* The parts on both sides of the pivot are as the invariant wants them.
LEMMA SplitKeeps ==
  ASSUME SortInv, sort.pc = "down", NEW b, Rearranged(b), NEW i \in Nat, sort.lo < i, i < sort.up,
         sort.ordered => AllAtMost(b, sort.lo, i - 1, b[i]) /\ AllAtLeast(b, i + 1, sort.up, b[i]),
         sort' = Split([sort EXCEPT !.a = b], i)
  PROVE  SortInv'
<1>1. PICK lo \in Nat, up \in Nat, calls \in Seq(WaitingCall), n \in Nat :
        lo = sort.lo /\ up = sort.up /\ calls = sort.calls /\ n = Size
  BY DEF SortInv, State, Size
<1>2. 1 <= lo /\ lo < i /\ i < up /\ up <= n
  BY <1>1 DEF SortInv, PartsRight, StageRight
<1>3. b \in Seq(Datum) /\ Len(b) = n /\ SameElements(b, sort.given)
  BY <1>1 DEF Rearranged
<1>4. /\ PartsInside(n, calls) /\ PartsApart(calls) /\ OutsideParts(calls, lo, up)
      /\ Fits(n, up - lo + 1, Len(calls))
  BY <1>1 DEF SortInv, PartsRight, Working
<1> DEFINE pc(lo2, up2) == IF lo2 < up2 THEN "ends" ELSE "return"
           Next2(lo2, up2, wait) ==
               /\ Becomes(b, lo2, up2, sort.rnd, sort.p, sort.i, sort.j, sort.pivot, Append(calls, wait), pc(lo2, up2))
               /\ SplitAt(lo, up, i, lo2, up2, wait.part.lo, wait.part.up)
<1>5. \E lo2 \in Nat, up2 \in Nat, wait \in WaitingCall : Next2(lo2, up2, wait)
  BY <1>1, SplitBecomes
<1>6. PICK lo2 \in Nat, up2 \in Nat, wait \in WaitingCall : Next2(lo2, up2, wait)
  BY <1>5
<1> HIDE DEF pc
<1>7. PICK c : c = Append(calls, wait)
  OBVIOUS
<1>8. c \in Seq(WaitingCall)
  BY <1>7
<1>9. /\ PartsInside(n, c) /\ PartsApart(c) /\ OutsideParts(c, lo2, up2)
      /\ Fits(n, up2 - lo2 + 1, Len(c)) /\ 1 <= lo2 /\ lo2 <= up2 /\ up2 <= n
  BY <1>2, <1>4, <1>6, <1>7, SplitWaits
<1>10. ASSUME sort.ordered PROVE SortedBut(b, c, lo2, up2)
  <2>1. SortedBut(b, calls, lo, up) /\ AllAtMost(b, lo, i - 1, b[i]) /\ AllAtLeast(b, i + 1, up, b[i])
    BY <1>1, <1>10 DEF Rearranged
  <2>2. up <= Len(b) /\ i \in lo..up /\ b \in Seq(Datum)
    BY <1>2, <1>3
  <2>3. \/ lo2 = lo /\ up2 = i - 1 /\ wait.part.lo = i + 1 /\ wait.part.up = up
        \/ lo2 = i + 1 /\ up2 = up /\ wait.part.lo = lo /\ wait.part.up = i - 1
    BY <1>6 DEF SplitAt
  <2>4. SortedBut(b, Append(calls, wait), lo2, up2)
    BY <1>2, <2>1, <2>2, <2>3, SortAssumption, SplitKeepsOrder
  <2> QED
    BY <1>7, <2>4
<1>11. /\ sort'.a = b /\ sort'.lo = lo2 /\ sort'.up = up2 /\ sort'.pc = pc(lo2, up2) /\ sort'.calls = c
       /\ sort'.ordered = sort.ordered /\ sort'.given = sort.given
  <2>1. Becomes(b, lo2, up2, sort.rnd, sort.p, sort.i, sort.j, sort.pivot, c, pc(lo2, up2))
    BY <1>6, <1>7
  <2> QED
    BY <2>1 DEF Becomes
<1>12. sort' \in State
  <2>1. pc(lo2, up2) \in {"ends", "low", "high", "up", "down", "return", "done", "error"}
    BY DEF pc
  <2>2. Becomes(b, lo2, up2, sort.rnd, sort.p, sort.i, sort.j, sort.pivot, c, pc(lo2, up2))
    BY <1>6, <1>7
  <2>3. sort \in State
    BY DEF SortInv
  <2> QED
    BY SMTT(60), <1>3, <1>8, <2>1, <2>2, <2>3, BecomesState
<1>13. Size' = n
  BY <1>1, <1>11 DEF Size
<1>14. PartsRight'
  <2>1. lo2 <= up2 + 1
    BY <1>9
  <2>2. Working(pc(lo2, up2)) => lo2 < up2
    BY DEF pc, Working
  <2> QED
    BY <1>9, <1>11, <1>13, <2>1, <2>2 DEF PartsRight
<1>15. StageRight'
  BY <1>11 DEF StageRight, pc
<1>16. OrderRight'
  <2>1. CASE lo2 < up2
    BY <1>10, <1>11, <2>1 DEF OrderRight, Working, pc
  <2>2. CASE ~(lo2 < up2)
    <3>1. sort.ordered => SortedBut(b, c, 1, 0)
      <4>1. up2 <= lo2 /\ b \in Seq(Datum)
        BY <1>3, <2>2
      <4> QED
        BY <1>10, <4>1, SingleIsSorted
    <3> QED
      BY <1>11, <2>2, <3>1 DEF OrderRight, Working, pc
  <2> QED
    BY <2>1, <2>2
<1>17. ElementsRight'
  BY <1>3, <1>11, <1>13 DEF ElementsRight
<1>18. sort'.pc # "done"
  BY <1>11 DEF pc
<1> QED
  BY <1>12, <1>14, <1>15, <1>16, <1>17, <1>18 DEF SortInv

\* The scan from above goes on, or the two elements are exchanged, or the scans have met.
LEMMA DownKeeps ==
  ASSUME SortInv, NEW less \in BOOLEAN, CompareDown(less)
  PROVE  SortInv'
<1>1. PICK a \in Seq(Datum), lo \in Nat, up \in Nat, i \in Nat, j \in Nat, v \in Datum, n \in Nat :
        /\ a = sort.a /\ lo = sort.lo /\ up = sort.up /\ i = sort.i /\ j = sort.j /\ v = sort.pivot /\ n = Size
  <2>1. PICK a \in Seq(Datum), lo \in Nat, up \in Nat, i \in Nat, j \in Nat, n \in Nat :
          /\ a = sort.a /\ lo = sort.lo /\ up = sort.up /\ i = sort.i /\ j = sort.j /\ n = Size
    BY SMTT(60) DEF SortInv, State, Size
  <2>2. /\ 1 <= lo /\ up - lo >= 3 /\ up <= n /\ Len(a) = n /\ a[up - 1] = sort.pivot
    BY <2>1 DEF SortInv, PartsRight, StageRight, ElementsRight, CompareDown
  <2>3. a[up - 1] \in Datum
    BY <2>2
  <2> QED
    BY <2>1, <2>2, <2>3
<1>0. /\ 1 <= lo /\ up - lo >= 3 /\ lo < i /\ i < up /\ lo <= j /\ j < up - 1
      /\ up <= n /\ Len(a) = n /\ a[up - 1] = v
  BY <1>1 DEF SortInv, PartsRight, StageRight, ElementsRight, CompareDown
<1>2. sort.pc = "down" /\ Working(sort.pc) /\ less \in Answers(v, a[j])
  BY <1>1 DEF CompareDown, Elem, Working
<1>3. sort.ordered =>
        /\ AllAtMost(a, lo, i - 1, v) /\ AtMost(v, a[i]) /\ AllAtLeast(a, j + 1, up, v)
        /\ less = Smaller(v, a[j])
  BY <1>1, <1>2 DEF Answers, SortInv, StageRight, Elem
<1>4. CASE less /\ j < i
  <2>1. sort' = InvalidOrder(sort)
    BY <1>1, <1>4 DEF CompareDown, ScanDown
  <2>2. ~sort.ordered
    <3>1. j \in lo..(i - 1)
      BY <1>0, <1>4
    <3> QED
      BY <1>3, <1>4, <3>1 DEF AllAtMost, AtMost
  <2>3. /\ sort'.a = sort.a /\ sort'.lo = sort.lo /\ sort'.up = sort.up /\ sort'.pc = "error"
        /\ sort'.calls = sort.calls /\ sort'.ordered = sort.ordered /\ sort'.given = sort.given /\ sort' \in State
    BY <2>1 DEF InvalidOrder, SortInv, State
  <2>4. PartsRight' /\ ElementsRight' /\ OrderRight' /\ StageRight'
    BY <1>2, <2>2, <2>3 DEF SortInv, PartsRight, ElementsRight, OrderRight, StageRight, Size, Working
  <2> QED
    BY <2>3, <2>4 DEF SortInv
<1>5. CASE less /\ ~(j < i)
  <2>1. PICK k \in Nat : k = j - 1 /\ k + 1 = j /\ lo <= k /\ k < up - 1
    BY <1>0, <1>5
  <2>2. Becomes(a, lo, up, sort.rnd, sort.p, i, k, v, sort.calls, "down")
    BY <1>1, <1>5, <2>1 DEF CompareDown, ScanDown, Becomes, SortInv, State
  <2>3. ASSUME sort.ordered PROVE AllAtLeast(a, k + 1, up, v)
    <3>1. j \in 1..Len(a) /\ a[j] \in Datum
      BY <1>0
    <3>2. AtMost(v, a[j])
      BY <1>3, <1>5, <2>3, <3>1, InOrder
    <3>3. \A x \in (k + 1)..up : x = j \/ x \in (j + 1)..up
      BY <2>1
    <3> QED
      BY <1>3, <2>3, <3>2, <3>3 DEF AllAtLeast
  <2>4. /\ sort'.a = a /\ sort'.lo = lo /\ sort'.up = up /\ sort'.i = i /\ sort'.j = k
        /\ sort'.pivot = v /\ sort'.pc = "down" /\ sort'.calls = sort.calls
        /\ sort'.ordered = sort.ordered /\ sort'.given = sort.given /\ sort' \in State
    BY <2>2 DEF Becomes, SortInv, State
  <2>5. PartsRight' /\ ElementsRight' /\ OrderRight'
    BY <1>1, <1>2, <2>4 DEF SortInv, PartsRight, ElementsRight, OrderRight, Size, Working
  <2>6. StageRight'
    BY <1>0, <1>3, <2>1, <2>3, <2>4 DEF StageRight, Elem
  <2> QED
    BY <2>4, <2>5, <2>6 DEF SortInv
<1>6. CASE ~less /\ j < i
  <2>1. PICK q \in Nat : q = up - 1
    BY <1>0
  <2>2. PICK b : b = Set2(a, q, i)
    OBVIOUS
  <2>3. b = [[a EXCEPT ![up - 1] = a[i]] EXCEPT ![i] = v]
    BY <1>0, <2>1, <2>2 DEF Set2
  <2>4. sort' = Split([sort EXCEPT !.a = b], i)
    <3>1. sort' = Split([sort EXCEPT !.a[sort.up - 1] = sort.a[sort.i], !.a[sort.i] = sort.pivot], sort.i)
      BY <1>1, <1>6 DEF CompareDown, Scanned
    <3>2. [sort EXCEPT !.a[sort.up - 1] = sort.a[sort.i], !.a[sort.i] = sort.pivot] = [sort EXCEPT !.a = b]
      BY <1>1, <2>3 DEF SortInv, State
    <3> QED
      BY <1>1, <3>1, <3>2
  <2>5. Rearranged(b) /\ Exchanged(a, b, q, i)
    <3>1. Rearranged(a)
      BY <1>1, <1>2, TableIsRearranged
    <3>2. q \in lo..up /\ i \in lo..up
      BY <1>0, <2>1
    <3>3. q \in sort.lo..sort.up /\ i \in sort.lo..sort.up
      BY <1>1, <3>2
    <3> QED
      BY <1>2, <2>2, <3>1, <3>3, ExchangeRearranges
  <2>6. b[i] = v /\ b[q] = a[i] /\ (\A x \in 1..n : x # i /\ x # q => b[x] = a[x])
    BY <1>0, <2>1, <2>5 DEF Exchanged
  <2>7. ASSUME sort.ordered PROVE AllAtMost(b, lo, i - 1, v) /\ AllAtLeast(b, i + 1, up, v)
    <3>1. ASSUME NEW x \in lo..(i - 1) PROVE AtMost(b[x], v)
      <4>1. x \in 1..n /\ x # i /\ x # q
        BY <1>0, <2>1
      <4> QED
        BY <1>3, <2>6, <2>7, <4>1 DEF AllAtMost
    <3>2. ASSUME NEW x \in (i + 1)..up PROVE AtMost(v, b[x])
      <4>1. x \in 1..n /\ x # i /\ x \in (j + 1)..up
        BY <1>0, <1>6
      <4> QED
        BY <1>3, <2>6, <2>7, <4>1 DEF AllAtLeast
    <3> QED
      BY <3>1, <3>2 DEF AllAtMost, AllAtLeast
  <2> QED
    BY <1>0, <1>1, <1>2, <2>4, <2>5, <2>6, <2>7, SplitKeeps
<1>7. CASE ~less /\ ~(j < i)
  <2>1. PICK k \in Nat : k = i + 1 /\ lo < k /\ k < up
    BY <1>0, <1>7
  <2>2. PICK b : b = Set2(a, i, j)
    OBVIOUS
  <2>3. Becomes(b, lo, up, sort.rnd, sort.p, k, j, v, sort.calls, "up")
    BY <1>1, <1>7, <2>1, <2>2 DEF CompareDown, Scanned, Becomes, SortInv, State
  <2>4. Rearranged(b) /\ Exchanged(a, b, i, j)
    <3>1. Rearranged(a)
      BY <1>1, <1>2, TableIsRearranged
    <3>2. j \in lo..up /\ i \in lo..up
      BY <1>0
    <3>3. j \in sort.lo..sort.up /\ i \in sort.lo..sort.up
      BY <1>1, <3>2
    <3> QED
      BY <1>2, <2>2, <3>1, <3>3, ExchangeRearranges
  <2>5. b[i] = a[j] /\ b[j] = a[i] /\ (\A x \in 1..n : x # i /\ x # j => b[x] = a[x])
    BY <1>0, <2>4 DEF Exchanged
  <2>6. b[up - 1] = v
    <3>1. up - 1 \in 1..n /\ up - 1 # i /\ up - 1 # j
      BY <1>0, <1>7
    <3> QED
      BY <1>0, <2>5, <3>1
  <2>7. ASSUME sort.ordered PROVE AllAtMost(b, lo, k - 1, v) /\ AllAtLeast(b, j, up, v)
    <3>1. ASSUME NEW x \in lo..(k - 1) PROVE AtMost(b[x], v)
      <4>1. x = i \/ (x \in lo..(i - 1) /\ x \in 1..n /\ x # i /\ x # j)
        BY <1>0, <1>7, <2>1
      <4>2. AtMost(a[j], v)
        BY <1>3, <1>7, <2>7 DEF AtMost
      <4> QED
        BY <1>3, <2>5, <2>7, <4>1, <4>2 DEF AllAtMost
    <3>2. ASSUME NEW x \in j..up PROVE AtMost(v, b[x])
      <4>1. x = j \/ (x \in (j + 1)..up /\ x \in 1..n /\ x # i /\ x # j)
        BY <1>0, <1>7
      <4> QED
        BY <1>3, <2>5, <2>7, <4>1 DEF AllAtLeast
    <3> QED
      BY <3>1, <3>2 DEF AllAtMost, AllAtLeast
  <2>8. /\ sort'.a = b /\ sort'.lo = lo /\ sort'.up = up /\ sort'.i = k /\ sort'.j = j
        /\ sort'.pivot = v /\ sort'.pc = "up" /\ sort'.calls = sort.calls
        /\ sort'.ordered = sort.ordered /\ sort'.given = sort.given
    BY <2>3 DEF Becomes
  <2>9. sort' \in State
    BY <2>3, <2>4 DEF Becomes, Rearranged, SortInv, State
  <2>10. PartsRight'
    BY <1>1, <1>2, <2>8 DEF SortInv, PartsRight, Size, Working
  <2>11. ElementsRight' /\ OrderRight'
    BY <1>1, <1>2, <2>4, <2>8 DEF Rearranged, ElementsRight, OrderRight, Size, Working
  <2>12. lo < j /\ j < up
    BY <1>0, <1>7
  <2>13. StageRight'
    BY <1>0, <2>1, <2>6, <2>7, <2>8, <2>12 DEF StageRight
  <2> QED
    BY <2>8, <2>9, <2>10, <2>11, <2>13 DEF SortInv
<1> QED
  BY <1>4, <1>5, <1>6, <1>7

\* A part is sorted: the sort is done, or the last part that waits is next.
LEMMA ReturnKeeps ==
  ASSUME SortInv, NEW seed \in Seeds, Return(seed)
  PROVE  SortInv'
<1>1. PICK a \in Seq(Datum), calls \in Seq(WaitingCall), n \in Nat, m \in Nat :
        a = sort.a /\ calls = sort.calls /\ n = Size /\ m = Len(calls) /\ Len(a) = n
  BY DEF SortInv, State, Size, ElementsRight
<1>2. sort.pc = "return" /\ (sort.ordered => SortedBut(a, calls, 1, 0))
  BY <1>1 DEF Return, SortInv, OrderRight
<1>3. CASE calls = <<>>
  <2>1. /\ sort'.a = a /\ sort'.lo = sort.lo /\ sort'.up = sort.up /\ sort'.pc = "done" /\ sort'.calls = calls
        /\ sort'.ordered = sort.ordered /\ sort'.given = sort.given /\ sort' \in State
    <3>1. sort' = [sort EXCEPT !.pc = "done"]
      BY <1>1, <1>3 DEF Return
    <3>2. sort \in State
      BY DEF SortInv
    <3> QED
      BY <1>1, <3>1, <3>2 DEF State
  <2>2. PartsRight' /\ ElementsRight' /\ OrderRight' /\ StageRight'
    BY <1>1, <1>2, <2>1 DEF SortInv, PartsRight, ElementsRight, OrderRight, StageRight, Size, Working
  <2> QED
    BY <1>3, <2>1, <2>2 DEF SortInv
<1>4. CASE calls # <<>>
  <2>1. m > 0 /\ calls[m] \in WaitingCall
    BY <1>1, <1>4
  <2>2. PICK lo \in Nat, up \in Nat : lo = calls[m].part.lo /\ up = calls[m].part.up
    BY <2>1 DEF WaitingCall
  <2>0. PICK c : c = SubSeq(calls, 1, m - 1)
    OBVIOUS
  <2>3. PICK rnd \in Nat, pc \in {"ends", "return"} :
            /\ Becomes(a, lo, up, rnd, sort.p, sort.i, sort.j, sort.pivot, c, pc)
            /\ pc = "ends" <=> lo < up
    <3>1. PICK rnd : rnd = IF (up - lo) \div Imbalance > calls[m].n THEN seed ELSE calls[m].rnd
      OBVIOUS
    <3>2. rnd \in Nat
      BY <2>1, <3>1, SortAssumption DEF WaitingCall
    <3>3. PICK pc \in {"ends", "return"} : pc = IF lo < up THEN "ends" ELSE "return"
      OBVIOUS
    <3>4. Becomes(a, lo, up, rnd, sort.p, sort.i, sort.j, sort.pivot, c, pc)
      <4>1. sort' = [sort EXCEPT !.calls = c, !.lo = lo, !.up = up, !.rnd = rnd, !.pc = pc]
        BY <1>1, <1>4, <2>0, <2>2, <3>1, <3>3 DEF Return
      <4>2. sort \in State
        BY DEF SortInv
      <4> QED
        BY <1>1, <4>1, <4>2 DEF Becomes, State
    <3> QED
      BY <3>2, <3>3, <3>4
  <2>4. /\ c \in Seq(WaitingCall) /\ Len(c) = m - 1 /\ PartsInside(n, c) /\ PartsApart(c)
        /\ OutsideParts(c, lo, up) /\ 1 <= lo /\ lo <= up /\ up <= n /\ Fits(n, up - lo + 1, Len(c))
    <3>1. PartsInside(n, calls) /\ PartsApart(calls)
      BY <1>1 DEF SortInv, PartsRight
    <3>2. Len(calls) > 0
      BY <1>1, <2>1
    <3> QED
      BY <1>1, <2>0, <2>2, <3>1, <3>2, OneLessWaits
  <2>5. sort.ordered => SortedBut(a, c, lo, up)
    BY <1>1, <1>2, <2>0, <2>1, <2>2, ReturnKeepsOrder
  <2>6. /\ sort'.a = a /\ sort'.lo = lo /\ sort'.up = up /\ sort'.pc = pc /\ sort'.calls = c
        /\ sort'.ordered = sort.ordered /\ sort'.given = sort.given
    BY <2>3 DEF Becomes
  <2>7. sort' \in State
    BY <2>3, <2>4 DEF Becomes, SortInv, State
  <2>8. Size' = n
    BY <1>1, <2>6 DEF Size
  <2>9. PartsRight'
    <3>1. lo <= up + 1
      BY <2>4
    <3> QED
      BY <2>3, <2>4, <2>6, <2>8, <3>1 DEF PartsRight, Working
  <2>10. StageRight'
    BY <2>6 DEF StageRight
  <2>11. OrderRight'
    <3>1. CASE lo < up
      BY <2>3, <2>5, <2>6, <3>1 DEF OrderRight, Working
    <3>2. CASE ~(lo < up)
      <4>1. sort.ordered => SortedBut(a, c, 1, 0)
        BY <2>5, <3>2, SingleIsSorted
      <4> QED
        BY <2>3, <2>6, <3>2, <4>1 DEF OrderRight, Working
    <3> QED
      BY <3>1, <3>2
  <2>12. ElementsRight'
    BY <1>1, <2>6, <2>8 DEF SortInv, ElementsRight
  <2> QED
    BY <2>6, <2>7, <2>9, <2>10, <2>11, <2>12 DEF SortInv
<1> QED
  BY <1>3, <1>4

-----------------------------------------------------------------------------
LEMMA SortStarts ==
  ASSUME SortInit
  PROVE  SortInv
<1>1. PICK input \in Inputs : sort = Begin(input)
  BY DEF SortInit
<1>2. PICK a \in Seq(Datum), ordered \in BOOLEAN, n \in Nat : a = input.a /\ ordered = input.ordered /\ n = Len(a)
  BY SortAssumption
<1>3. PICK pc : pc = IF n <= 1 THEN "done" ELSE IF n >= TooBig THEN "error" ELSE "ends"
  OBVIOUS
<1>4. sort = [given |-> a, ordered |-> ordered, a |-> a, lo |-> 1, up |-> n, rnd |-> 0, p |-> 0, i |-> 0,
              j |-> 0, pivot |-> 0, calls |-> <<>>, pc |-> pc]
  BY <1>1, <1>2, <1>3 DEF Begin
<1>5. pc \in {"done", "error", "ends"}
  BY <1>3
<1>6. <<>> \in Seq(WaitingCall) /\ Len(<<>>) = 0
  OBVIOUS
<1>7. sort \in State
  BY <1>4, <1>5, <1>6 DEF State
<1>8. Size = n
  BY <1>2, <1>4 DEF Size
<1>9. PartsRight
  <2>1. Fits(n, n - 1 + 1, 0)
    BY Pow2Is DEF Fits
  <2>2. PartsInside(n, <<>>) /\ PartsApart(<<>>) /\ OutsideParts(<<>>, 1, n)
    BY <1>6 DEF PartsInside, PartsApart, OutsideParts
  <2>3. pc = "ends" => 1 < n
    BY <1>3
  <2>4. 1 <= 1 /\ 1 <= n + 1 /\ n <= n
    OBVIOUS
  <2> QED
    BY <1>4, <1>5, <1>6, <1>8, <2>1, <2>2, <2>3, <2>4 DEF PartsRight, Working
<1>10. StageRight
  BY <1>4, <1>5 DEF StageRight
<1>11. OrderRight
  <2>1. SortedBut(a, <<>>, 1, n)
    BY <1>2 DEF SortedBut
  <2>2. CASE n <= 1
    <3>1. SortedBut(a, <<>>, 1, 0)
      BY <2>1, <2>2, SingleIsSorted
    <3> QED
      BY <1>3, <1>4, <2>2, <3>1 DEF OrderRight, Working
  <2>3. CASE n > 1
    <3>1. pc = "error" => ~(n < TooBig)
      BY <1>3, SortAssumption
    <3>2. pc # "done"
      BY <1>3, <2>3
    <3> QED
      BY <1>4, <1>5, <1>8, <2>1, <3>1, <3>2 DEF OrderRight, Working
  <2> QED
    BY <2>2, <2>3
<1>12. ElementsRight
  BY <1>4, <1>8, <1>2 DEF ElementsRight, SameElements
<1> QED
  BY <1>4, <1>7, <1>9, <1>10, <1>11, <1>12 DEF SortInv

LEMMA StutterKeeps ==
  ASSUME SortInv, UNCHANGED sort
  PROVE  SortInv'
BY DEF SortInv, PartsRight, StageRight, OrderRight, ElementsRight, Size, Elem, PivotInMiddle

\* The invariant of the sort holds in every state.
THEOREM SortInvariance == SortSpec => []SortInv
<1>1. SortInit => SortInv
  BY SortStarts
<1>2. SortInv /\ [SortNext]_sort => SortInv'
  <2> SUFFICES ASSUME SortInv, [SortNext]_sort PROVE SortInv'
    OBVIOUS
  <2>1. ASSUME NEW less \in BOOLEAN, CompareEnds(less) PROVE SortInv'
    BY <2>1, EndsKeeps
  <2>2. ASSUME NEW less \in BOOLEAN, CompareLow(less) PROVE SortInv'
    BY <2>2, LowKeeps
  <2>3. ASSUME NEW less \in BOOLEAN, CompareHigh(less) PROVE SortInv'
    BY <2>3, HighKeeps
  <2>4. ASSUME NEW less \in BOOLEAN, CompareUp(less) PROVE SortInv'
    BY <2>4, UpKeeps
  <2>5. ASSUME NEW less \in BOOLEAN, CompareDown(less) PROVE SortInv'
    BY <2>5, DownKeeps
  <2>6. ASSUME NEW seed \in Seeds, Return(seed) PROVE SortInv'
    BY <2>6, ReturnKeeps
  <2>7. CASE UNCHANGED sort
    BY <2>7, StutterKeeps
  <2> QED
    BY <2>1, <2>2, <2>3, <2>4, <2>5, <2>6, <2>7 DEF SortNext
<1> QED
  BY <1>1, <1>2, PTL DEF SortSpec

\* Whatever the comparison function answers, table.sort stays inside of the part it sorts, the
\* table keeps its elements, and calls nest no deeper than the logarithm of the size; with an
\* order it ends without an error and the table is sorted.
THEOREM SortAlwaysRight == SortSpec => []SortRight
<1>1. SortInv => SortRight
  <2> SUFFICES ASSUME SortInv PROVE SortRight
    OBVIOUS
  <2>1. PICK lo \in Nat, up \in Nat, p \in Nat, i \in Nat, j \in Nat, n \in Nat, calls \in Seq(WaitingCall) :
            /\ lo = sort.lo /\ up = sort.up /\ p = sort.p /\ i = sort.i /\ j = sort.j /\ n = Size
            /\ calls = sort.calls
    <3>1. Size \in Nat
      BY DEF SortInv, State, Size
    <3>2. sort \in State
      BY DEF SortInv
    <3>3. /\ sort.lo \in Nat /\ sort.up \in Nat /\ sort.p \in Nat /\ sort.i \in Nat /\ sort.j \in Nat
          /\ sort.calls \in Seq(WaitingCall)
      BY <3>2 DEF State
    <3> QED
      BY <3>1, <3>3
  <2>2. /\ 1 <= lo /\ up <= n
        /\ Working(sort.pc) => lo < up
        /\ sort.pc \in {"low", "high"} => lo < p /\ p < up
        /\ sort.pc \in {"up", "down"} => lo < i /\ i < up
        /\ sort.pc = "down" => lo <= j /\ j < up - 1
    BY <2>1 DEF SortInv, PartsRight, StageRight
  <2>3. Touched \subseteq lo..up
    <3>1. CASE sort.pc = "ends"
      <4>1. Touched = {lo, up}
        BY <2>1, <3>1 DEF Touched
      <4>2. lo < up
        BY <2>2, <3>1 DEF Working
      <4> QED
        BY <4>1, <4>2
    <3>2. CASE sort.pc \in {"low", "high"}
      <4>1. Touched = {lo, p, up - 1, up}
        BY <2>1, <3>2 DEF Touched
      <4>2. lo < p /\ p < up
        BY <2>2, <3>2
      <4> QED
        BY <4>1, <4>2
    <3>3. CASE sort.pc = "up"
      <4>1. Touched = {i, up - 1}
        BY <2>1, <3>3 DEF Touched
      <4>2. lo < i /\ i < up
        BY <2>2, <3>3
      <4> QED
        BY <4>1, <4>2
    <3>4. CASE sort.pc = "down"
      <4>1. Touched = {i, j, up - 1}
        BY <2>1, <3>4 DEF Touched
      <4>2. lo < i /\ i < up /\ lo <= j /\ j < up - 1
        BY <2>2, <3>4
      <4> QED
        BY <4>1, <4>2
    <3>5. CASE sort.pc \notin {"ends", "low", "high", "up", "down"}
      BY <3>5 DEF Touched
    <3> QED
      BY <3>1, <3>2, <3>3, <3>4, <3>5
  <2>4. Touched \subseteq 1..n
    BY <2>2, <2>3
  <2>5. \A k \in 1..Len(calls) : calls[k].part.lo <= calls[k].part.up
    BY <2>1 DEF SortInv, PartsRight, PartsInside
  <2>6. Pow2[Len(calls)] <= n + 1
    <3>1. PICK d \in Nat : d = Len(calls)
      OBVIOUS
    <3>2. Fits(n, up - lo + 1, d) /\ lo <= up + 1
      BY <2>1, <3>1 DEF SortInv, PartsRight
    <3>3. up - lo + 1 \in Nat
      BY <3>2
    <3>4. Pow2[d] <= n + 1
      BY <3>2, <3>3, FitsDepth
    <3> QED
      BY <3>1, <3>4
  <2>7. Len(sort.a) = n /\ SameElements(sort.a, sort.given)
    BY <2>1 DEF SortInv, ElementsRight
  <2>8. ASSUME sort.ordered, n < TooBig
        PROVE  /\ sort.pc # "error"
               /\ sort.pc = "done" => \A k, l \in 1..n : k < l => AtMost(sort.a[k], sort.a[l])
    <3>1. sort.pc # "error" /\ (sort.pc = "done" => SortedBut(sort.a, <<>>, 1, 0))
      BY <2>1, <2>8 DEF SortInv, OrderRight
    <3>2. ASSUME SortedBut(sort.a, <<>>, 1, 0), NEW k \in 1..n, NEW l \in 1..n, k < l
          PROVE  AtMost(sort.a[k], sort.a[l])
      <4>1. AtMost(sort.a[k], sort.a[l]) \/ Waiting(<<>>, k, l) \/ (1 <= k /\ l <= 0)
        BY <2>7, <3>2 DEF SortedBut
      <4>2. ~Waiting(<<>>, k, l)
        BY DEF Waiting
      <4>3. ~(l <= 0)
        OBVIOUS
      <4> QED
        BY <4>1, <4>2, <4>3
    <3> QED
      BY <3>1, <3>2
  <2>9. sort.pc = "low" /\ IsRandom(sort) => PivotInMiddle
    BY DEF SortInv, StageRight
  <2> QED
    BY <2>1, <2>3, <2>4, <2>5, <2>6, <2>7, <2>8, <2>9 DEF SortRight, SameElements
<1> QED
  BY <1>1, SortInvariance, PTL

-----------------------------------------------------------------------------
(***************************************************************************)
(* The sort ends.                                                          *)
(***************************************************************************)
Waits(calls, x) == \E k \in 1..Len(calls) : x \in calls[k].part.lo..calls[k].part.up
Fewer(s, t) == Pending(t) \subseteq Pending(s) /\ Pending(t) # Pending(s)
Nearer(s, t) == Len(t.calls) = Len(s.calls) /\ Left(t) \in 0..(Left(s) - 1)
Advances(s, t) ==
    Fewer(s, t) \/ (Pending(t) = Pending(s) /\ (Len(t.calls) < Len(s.calls) \/ Nearer(s, t)))

LEMMA PendingIs ==
  ASSUME NEW s \in State, NEW x
  PROVE  x \in Pending(s) <=> (Working(s.pc) /\ x \in s.lo..s.up) \/ Waits(s.calls, x)
<1>1. s.pc \in {"return", "done", "error"} <=> ~Working(s.pc)
  BY DEF State, Working
<1>2. x \in UNION {s.calls[k].part.lo..s.calls[k].part.up : k \in 1..Len(s.calls)} <=> Waits(s.calls, x)
  BY DEF Waits
<1> QED
  BY <1>1, <1>2 DEF Pending

\* No index of the part that is sorted is in a part that waits.
LEMMA NotWaiting ==
  ASSUME SortInv, Working(sort.pc), NEW x \in sort.lo..sort.up
  PROVE  ~Waits(sort.calls, x)
<1>1. PICK lo \in Nat, up \in Nat, calls \in Seq(WaitingCall) :
        lo = sort.lo /\ up = sort.up /\ calls = sort.calls
  BY DEF SortInv, State
<1>2. x \in lo..up
  BY <1>1
<1>3. OutsideParts(calls, lo, up)
  BY <1>1 DEF SortInv, PartsRight
<1>4. ASSUME NEW k \in 1..Len(calls), x \in calls[k].part.lo..calls[k].part.up PROVE FALSE
  <2>1. calls[k] \in WaitingCall
    OBVIOUS
  <2>2. PICK l \in Nat, u \in Nat : l = calls[k].part.lo /\ u = calls[k].part.up
    BY <2>1 DEF WaitingCall
  <2>3. u < lo \/ up < l
    BY <1>3, <2>2 DEF OutsideParts
  <2>4. l <= x /\ x <= u
    BY <1>4, <2>2
  <2> QED
    BY <1>2, <2>3, <2>4
<1> QED
  BY <1>1, <1>4 DEF Waits

\* The part is sorted, or its sort goes on.
LEMMA WorkAdvances ==
  ASSUME SortInv, Working(sort.pc), NEW s \in State,
         s.lo = sort.lo, s.up = sort.up, s.calls = sort.calls,
         s.pc \in {"return", "error"} \/ (Working(s.pc) /\ Left(s) \in 0..(Left(sort) - 1))
  PROVE  Advances(sort, s)
<1>1. sort \in State
  BY DEF SortInv
<1>2. CASE Working(s.pc) /\ Left(s) \in 0..(Left(sort) - 1)
  <2>1. \A x : x \in Pending(s) <=> x \in Pending(sort)
    BY <1>1, <1>2, PendingIs
  <2>2. Pending(s) = Pending(sort)
    BY <2>1
  <2> QED
    BY <1>2, <2>2 DEF Advances, Nearer
<1>3. CASE s.pc \in {"return", "error"}
  <2>1. ~Working(s.pc)
    BY <1>3 DEF Working
  <2>2. \A x : x \in Pending(s) => x \in Pending(sort)
    BY <1>1, <2>1, PendingIs
  <2>3. PICK lo : lo = sort.lo /\ lo \in sort.lo..sort.up
    <3>1. sort.lo \in Nat /\ sort.up \in Nat
      BY <1>1 DEF State
    <3>2. sort.lo < sort.up
      BY DEF SortInv, PartsRight
    <3> QED
      BY <3>1, <3>2
  <2>4. lo \in Pending(sort) /\ lo \notin Pending(s)
    BY <1>1, <2>1, <2>3, PendingIs, NotWaiting
  <2> QED
    BY <2>2, <2>4 DEF Advances, Fewer
<1> QED
  BY <1>2, <1>3

LEMMA EndsAdvances ==
  ASSUME SortInv, SortInv', NEW less \in BOOLEAN, CompareEnds(less)
  PROVE  Advances(sort, sort')
<1>1. sort.pc = "ends" /\ Working(sort.pc) /\ sort \in State /\ sort' \in State
  BY DEF CompareEnds, Working, SortInv
<1>2. /\ sort'.lo = sort.lo /\ sort'.up = sort.up /\ sort'.calls = sort.calls
      /\ sort'.pc \in {"return", "low"}
  BY <1>1 DEF CompareEnds, State
<1>3. ASSUME sort'.pc = "low" PROVE Working(sort'.pc) /\ Left(sort') \in 0..(Left(sort) - 1)
  <2>1. PICK lo \in Nat, up \in Nat : lo = sort.lo /\ up = sort.up /\ lo < up
    BY <1>1 DEF SortInv, PartsRight, State
  <2>2. Left(sort) = 2 * (up - lo) + 2 /\ Left(sort') = 2 * (up - lo) + 1
    BY <1>1, <1>2, <1>3, <2>1 DEF Left
  <2> QED
    BY <1>3, <2>1, <2>2 DEF Working
<1> QED
  BY <1>1, <1>2, <1>3, WorkAdvances

\* A part of three elements is sorted, or its partition has less to do.
LEMMA PartitionAdvances ==
  ASSUME SortInv, SortInv', sort.pc \in {"low", "high"}, NEW b,
         sort' = Partition([sort EXCEPT !.a = b])
  PROVE  Advances(sort, sort')
<1>1. Working(sort.pc) /\ sort \in State /\ sort' \in State
  BY DEF Working, SortInv
<1>2. /\ sort'.lo = sort.lo /\ sort'.up = sort.up /\ sort'.calls = sort.calls
      /\ sort'.pc \in {"return", "up"}
      /\ sort'.pc = "up" => sort'.i = sort.lo + 1 /\ sort'.j = sort.up - 1
  BY <1>1 DEF Partition, State
<1>3. ASSUME sort'.pc = "up" PROVE Working(sort'.pc) /\ Left(sort') \in 0..(Left(sort) - 1)
  <2>1. PICK lo \in Nat, up \in Nat : lo = sort.lo /\ up = sort.up /\ up - lo >= 2
    BY <1>1 DEF SortInv, StageRight, State
  <2>2. Left(sort) \in {2 * (up - lo) + 1, 2 * (up - lo)}
    BY <2>1 DEF Left
  <2>3. Left(sort') = (up - (lo + 1)) + ((up - 1) - lo)
    BY <1>2, <1>3, <2>1 DEF Left
  <2> QED
    BY <1>3, <2>1, <2>2, <2>3 DEF Working
<1> QED
  BY <1>1, <1>2, <1>3, WorkAdvances

LEMMA LowAdvances ==
  ASSUME SortInv, SortInv', NEW less \in BOOLEAN, CompareLow(less)
  PROVE  Advances(sort, sort')
<1>1. sort.pc = "low" /\ Working(sort.pc) /\ sort \in State /\ sort' \in State
  BY DEF CompareLow, Working, SortInv
<1>2. CASE less
  <2>1. \E b : sort' = Partition([sort EXCEPT !.a = b])
    BY <1>2 DEF CompareLow
  <2> QED
    BY <1>1, <2>1, PartitionAdvances
<1>3. CASE ~less
  <2>1. sort'.lo = sort.lo /\ sort'.up = sort.up /\ sort'.calls = sort.calls /\ sort'.pc = "high"
    BY <1>1, <1>3 DEF CompareLow, State
  <2>2. PICK lo \in Nat, up \in Nat : lo = sort.lo /\ up = sort.up /\ lo < up
    BY <1>1 DEF SortInv, PartsRight, State
  <2>3. Left(sort) = 2 * (up - lo) + 1 /\ Left(sort') = 2 * (up - lo)
    BY <1>1, <2>1, <2>2 DEF Left
  <2>4. Left(sort') \in 0..(Left(sort) - 1)
    BY <2>2, <2>3
  <2> QED
    BY <1>1, <2>1, <2>4, WorkAdvances DEF Working
<1> QED
  BY <1>2, <1>3

LEMMA HighAdvances ==
  ASSUME SortInv, SortInv', NEW less \in BOOLEAN, CompareHigh(less)
  PROVE  Advances(sort, sort')
<1>1. sort.pc = "high" /\ sort \in State
  BY DEF CompareHigh, SortInv
<1>2. sort = [sort EXCEPT !.a = sort.a]
  BY <1>1 DEF State
<1>3. \E b : sort' = Partition([sort EXCEPT !.a = b])
  <2>1. CASE less
    BY <2>1 DEF CompareHigh
  <2>2. CASE ~less
    BY <1>2, <2>2 DEF CompareHigh
  <2> QED
    BY <2>1, <2>2
<1> QED
  BY <1>1, <1>3, PartitionAdvances

LEMMA UpAdvances ==
  ASSUME SortInv, SortInv', NEW less \in BOOLEAN, CompareUp(less)
  PROVE  Advances(sort, sort')
<1>1. sort.pc = "up" /\ Working(sort.pc) /\ sort \in State /\ sort' \in State
  BY DEF CompareUp, Working, SortInv
<1>2. /\ sort'.lo = sort.lo /\ sort'.up = sort.up /\ sort'.calls = sort.calls
      /\ sort'.pc \in {"error", "up", "down"}
      /\ sort'.pc = "up" => sort'.i = sort.i + 1 /\ sort'.j = sort.j
      /\ sort'.pc = "down" => sort'.i = sort.i /\ sort'.j = sort.j - 1
  BY <1>1 DEF CompareUp, InvalidOrder, State
<1>3. ASSUME sort'.pc \in {"up", "down"} PROVE Working(sort'.pc) /\ Left(sort') \in 0..(Left(sort) - 1)
  <2>1. PICK lo \in Nat, up \in Nat, i \in Nat, j \in Nat, i2 \in Nat, j2 \in Nat :
          /\ lo = sort.lo /\ up = sort.up /\ i = sort.i /\ j = sort.j /\ i2 = sort'.i /\ j2 = sort'.j
    BY <1>1 DEF State
  <2>2. i2 < up /\ lo <= j2
    BY <1>2, <1>3, <2>1 DEF SortInv, StageRight
  <2>3. (i2 = i + 1 /\ j2 = j) \/ (i2 = i /\ j2 = j - 1)
    BY <1>2, <1>3, <2>1
  <2>4. Left(sort) = (up - i) + (j - lo) /\ Left(sort') = (up - i2) + (j2 - lo)
    BY <1>1, <1>2, <1>3, <2>1 DEF Left
  <2>5. (up - i2) + (j2 - lo) \in 0..((up - i) + (j - lo) - 1)
    BY <2>2, <2>3
  <2> QED
    BY <1>3, <2>4, <2>5 DEF Working
<1> QED
  BY <1>1, <1>2, <1>3, WorkAdvances

LEMMA BecomesHas ==
  ASSUME NEW a, NEW lo, NEW up, NEW rnd, NEW p, NEW i, NEW j, NEW pivot, NEW calls, NEW pc,
         Becomes(a, lo, up, rnd, p, i, j, pivot, calls, pc)
  PROVE  sort'.lo = lo /\ sort'.up = up /\ sort'.calls = calls
BY DEF Becomes

\* The pivot is in its place.
LEMMA SplitAdvances ==
  ASSUME SortInv, SortInv', sort.pc = "down", NEW b, NEW i \in Nat, sort.lo < i, i < sort.up,
         sort' = Split([sort EXCEPT !.a = b], i)
  PROVE  Advances(sort, sort')
<1>1. PICK lo \in Nat, up \in Nat, calls \in Seq(WaitingCall) :
        lo = sort.lo /\ up = sort.up /\ calls = sort.calls
  BY DEF SortInv, State
<1>2. lo < i /\ i < up
  BY <1>1
<1>3. PICK lo2 \in Nat, up2 \in Nat, wait \in WaitingCall :
        /\ sort'.lo = lo2 /\ sort'.up = up2 /\ sort'.calls = Append(calls, wait)
        /\ SplitAt(lo, up, i, lo2, up2, wait.part.lo, wait.part.up)
  <2>1. PICK lo2 \in Nat, up2 \in Nat, wait \in WaitingCall :
            /\ Becomes(b, lo2, up2, sort.rnd, sort.p, sort.i, sort.j, sort.pivot, Append(sort.calls, wait),
                       IF lo2 < up2 THEN "ends" ELSE "return")
            /\ SplitAt(sort.lo, sort.up, i, lo2, up2, wait.part.lo, wait.part.up)
    BY SplitBecomes
  <2>2. sort'.lo = lo2 /\ sort'.up = up2 /\ sort'.calls = Append(sort.calls, wait)
    BY <2>1, BecomesHas
  <2>3. SplitAt(lo, up, i, lo2, up2, wait.part.lo, wait.part.up)
    BY <1>1, <2>1
  <2> QED
    BY <1>1, <2>2, <2>3
<1>4. PICK l \in Nat, u \in Nat : l = wait.part.lo /\ u = wait.part.up
  BY DEF WaitingCall
<1>5. SplitAt(lo, up, i, lo2, up2, l, u)
  BY <1>3, <1>4
<1>6. /\ lo <= l /\ u <= up /\ lo <= lo2 /\ up2 <= up
      /\ i \notin lo2..up2 /\ i \notin l..u
  BY <1>2, <1>5, SplitSizes DEF SplitAt
<1>7. PICK c : c = Append(calls, wait)
  OBVIOUS
<1>8. ASSUME NEW x, Waits(c, x) PROVE Waits(calls, x) \/ x \in l..u
  <2>1. PICK k \in 1..Len(c) : x \in c[k].part.lo..c[k].part.up
    BY <1>8 DEF Waits
  <2>2. (k \in 1..Len(calls) /\ c[k] = calls[k]) \/ c[k] = wait
    BY <1>7
  <2> QED
    BY <1>4, <2>1, <2>2 DEF Waits
<1>9. sort \in State /\ sort' \in State /\ Working(sort.pc)
  BY DEF SortInv, Working
<1>10. ASSUME NEW x, x \in Pending(sort') PROVE x \in Pending(sort) /\ x # i
  <2>1. x \in lo2..up2 \/ Waits(c, x)
    BY <1>3, <1>7, <1>9, <1>10, PendingIs
  <2>2. (x \in lo..up /\ x # i) \/ Waits(calls, x)
    BY <1>6, <1>8, <2>1
  <2>3. i \in lo..up
    BY <1>2
  <2>4. ~Waits(calls, i)
    BY <1>1, <1>9, <2>3, NotWaiting
  <2> QED
    BY <1>1, <1>9, <2>2, <2>4, PendingIs
<1>11. i \in Pending(sort)
  <2>1. i \in lo..up
    BY <1>2
  <2> QED
    BY <1>1, <1>9, <2>1, PendingIs
<1> QED
  BY <1>10, <1>11 DEF Advances, Fewer

LEMMA DownAdvances ==
  ASSUME SortInv, SortInv', NEW less \in BOOLEAN, CompareDown(less)
  PROVE  Advances(sort, sort')
<1>1. sort.pc = "down" /\ Working(sort.pc) /\ sort \in State /\ sort' \in State
  BY DEF CompareDown, Working, SortInv
<1>2. PICK lo \in Nat, up \in Nat, i \in Nat, j \in Nat :
        lo = sort.lo /\ up = sort.up /\ i = sort.i /\ j = sort.j
  BY <1>1 DEF State
<1>3. lo < i /\ i < up /\ lo <= j /\ j < up
  BY <1>1, <1>2 DEF SortInv, StageRight
<1>4. CASE ~less /\ j < i
  <2>1. \E b : sort' = Split([sort EXCEPT !.a = b], i)
    <3>1. sort' = Split([sort EXCEPT !.a[sort.up - 1] = sort.a[sort.i], !.a[sort.i] = sort.pivot], i)
      BY <1>2, <1>4 DEF CompareDown, Scanned
    <3>2. PICK b : [sort EXCEPT !.a[sort.up - 1] = sort.a[sort.i], !.a[sort.i] = sort.pivot] = [sort EXCEPT !.a = b]
      BY <1>1 DEF State
    <3> QED
      BY <3>1, <3>2
  <2> QED
    BY <1>1, <1>2, <1>3, <2>1, SplitAdvances
<1>5. CASE less \/ ~(j < i)
  <2>1. /\ sort'.lo = sort.lo /\ sort'.up = sort.up /\ sort'.calls = sort.calls
        /\ sort'.pc \in {"error", "up", "down"}
        /\ sort'.pc = "up" => sort'.i = sort.i + 1 /\ sort'.j = sort.j
        /\ sort'.pc = "down" => sort'.i = sort.i /\ sort'.j = sort.j - 1
    BY <1>1, <1>2, <1>5 DEF CompareDown, ScanDown, Scanned, InvalidOrder, State
  <2>2. ASSUME sort'.pc \in {"up", "down"} PROVE Working(sort'.pc) /\ Left(sort') \in 0..(Left(sort) - 1)
    <3>1. PICK i2 \in Nat, j2 \in Nat : i2 = sort'.i /\ j2 = sort'.j
      BY <1>1 DEF State
    <3>2. i2 < up /\ lo <= j2
      BY <1>2, <2>1, <2>2, <3>1 DEF SortInv, StageRight
    <3>3. (i2 = i + 1 /\ j2 = j) \/ (i2 = i /\ j2 = j - 1)
      BY <1>2, <2>1, <2>2, <3>1
    <3>4. Left(sort) = (up - i) + (j - lo) /\ Left(sort') = (up - i2) + (j2 - lo)
      BY <1>1, <1>2, <2>1, <2>2, <3>1 DEF Left
    <3>5. (up - i2) + (j2 - lo) \in 0..((up - i) + (j - lo) - 1)
      BY <3>2, <3>3
    <3> QED
      BY <2>2, <3>4, <3>5 DEF Working
  <2> QED
    BY <1>1, <2>1, <2>2, WorkAdvances
<1> QED
  BY <1>4, <1>5

LEMMA ReturnAdvances ==
  ASSUME SortInv, SortInv', NEW seed \in Seeds, Return(seed)
  PROVE  Advances(sort, sort')
<1>1. PICK calls \in Seq(WaitingCall), m \in Nat : calls = sort.calls /\ m = Len(calls)
  BY DEF SortInv, State
<1>2. sort.pc = "return" /\ ~Working(sort.pc) /\ sort \in State /\ sort' \in State
  BY DEF Return, Working, SortInv
<1>3. CASE calls = <<>>
  <2>1. sort'.pc = "done" /\ sort'.calls = sort.calls
    BY <1>1, <1>2, <1>3 DEF Return, State
  <2>2. \A x : x \in Pending(sort') <=> x \in Pending(sort)
    BY <1>2, <2>1, PendingIs DEF Working
  <2>3. Left(sort) = 1 /\ Left(sort') = 0
    BY <1>2, <2>1 DEF Left
  <2>4. Pending(sort') = Pending(sort)
    BY <2>2
  <2>5. Left(sort') \in 0..(Left(sort) - 1)
    BY <2>3
  <2> QED
    BY <2>1, <2>4, <2>5 DEF Advances, Nearer
<1>4. CASE calls # <<>>
  <2>1. m > 0 /\ calls[m] \in WaitingCall
    BY <1>1, <1>4
  <2>2. PICK lo \in Nat, up \in Nat : lo = calls[m].part.lo /\ up = calls[m].part.up
    BY <2>1 DEF WaitingCall
  <2>3. PICK c : c = SubSeq(calls, 1, m - 1)
    OBVIOUS
  <2>4. /\ sort'.lo = lo /\ sort'.up = up /\ sort'.calls = c
        /\ sort'.pc = IF lo < up THEN "ends" ELSE "return"
    <3>1. PICK rnd : sort' = [sort EXCEPT !.calls = c, !.lo = lo, !.up = up, !.rnd = rnd,
                                         !.pc = IF lo < up THEN "ends" ELSE "return"]
      BY <1>1, <1>4, <2>2, <2>3 DEF Return
    <3> QED
      BY <1>2, <3>1 DEF State
  <2>5. Len(c) = m - 1 /\ OutsideParts(c, lo, up) /\ lo <= up /\ c \in Seq(WaitingCall)
    <3>1. PartsInside(Size, calls) /\ PartsApart(calls) /\ Size \in Nat
      BY <1>1 DEF SortInv, PartsRight, Size, State
    <3> QED
      BY <1>1, <2>1, <2>2, <2>3, <3>1, OneLessWaits
  <2>6. ASSUME NEW x PROVE Waits(calls, x) <=> Waits(c, x) \/ x \in lo..up
    <3>1. \A k \in 1..m : k = m \/ (k \in 1..(m - 1) /\ c[k] = calls[k])
      BY <1>1, <2>1, <2>3
    <3>2. ASSUME Waits(calls, x) PROVE Waits(c, x) \/ x \in lo..up
      BY <1>1, <2>2, <2>5, <3>1, <3>2 DEF Waits
    <3>3. ASSUME Waits(c, x) PROVE Waits(calls, x)
      <4>1. PICK k \in 1..(m - 1) : x \in c[k].part.lo..c[k].part.up
        BY <2>5, <3>3 DEF Waits
      <4>2. k \in 1..m /\ c[k] = calls[k]
        BY <2>1, <3>1, <4>1
      <4> QED
        BY <1>1, <4>1, <4>2 DEF Waits
    <3>4. ASSUME x \in lo..up PROVE Waits(calls, x)
      <4>1. m \in 1..m
        BY <2>1
      <4> QED
        BY <1>1, <2>2, <3>4, <4>1 DEF Waits
    <3> QED
      BY <3>2, <3>3, <3>4
  <2>7. CASE lo < up
    <3>1. Working(sort'.pc)
      BY <2>4, <2>7 DEF Working
    <3>2. \A x : x \in Pending(sort') <=> x \in Pending(sort)
      BY <1>1, <1>2, <2>4, <2>6, <3>1, PendingIs
    <3>3. Pending(sort') = Pending(sort)
      BY <3>2
    <3>4. Len(sort'.calls) < Len(sort.calls)
      BY <1>1, <2>4, <2>5
    <3> QED
      BY <3>3, <3>4 DEF Advances
  <2>8. CASE ~(lo < up)
    <3>1. ~Working(sort'.pc)
      BY <2>4, <2>8 DEF Working
    <3>2. \A x : x \in Pending(sort') => x \in Pending(sort)
      BY <1>1, <1>2, <2>4, <2>6, <3>1, PendingIs
    <3>3. lo \in lo..up
      BY <2>5
    <3>4. lo \in Pending(sort)
      BY <1>1, <1>2, <2>6, <3>3, PendingIs
    <3>5. ~Waits(c, lo)
      <4>1. ASSUME NEW k \in 1..Len(c), lo \in c[k].part.lo..c[k].part.up PROVE FALSE
        <5>1. c[k] \in WaitingCall
          BY <2>5
        <5>2. PICK l \in Nat, u \in Nat : l = c[k].part.lo /\ u = c[k].part.up
          BY <5>1 DEF WaitingCall
        <5>3. u < lo \/ up < l
          BY <2>5, <5>2 DEF OutsideParts
        <5>4. l <= lo /\ lo <= u
          BY <4>1, <5>2
        <5> QED
          BY <2>5, <5>3, <5>4
      <4> QED
        BY <4>1 DEF Waits
    <3>6. lo \notin Pending(sort')
      BY <1>2, <2>4, <3>1, <3>5, PendingIs
    <3> QED
      BY <3>2, <3>4, <3>6 DEF Advances, Fewer
  <2> QED
    BY <2>7, <2>8
<1> QED
  BY <1>3, <1>4

\* Whatever the comparison function answers, every step of table.sort brings its end nearer:
\* fewer elements are to be sorted, or as many by fewer calls, or the scans of the partition
\* are nearer to each other.
THEOREM SortAlwaysEnds == SortSpec => SortEnds
<1>1. SortInv /\ SortInv' /\ [SortNext]_sort => (Advances(sort, sort') \/ UNCHANGED sort)
  <2> SUFFICES ASSUME SortInv, SortInv', SortNext PROVE Advances(sort, sort')
    OBVIOUS
  <2>1. ASSUME NEW less \in BOOLEAN, CompareEnds(less) PROVE Advances(sort, sort')
    BY <2>1, EndsAdvances
  <2>2. ASSUME NEW less \in BOOLEAN, CompareLow(less) PROVE Advances(sort, sort')
    BY <2>2, LowAdvances
  <2>3. ASSUME NEW less \in BOOLEAN, CompareHigh(less) PROVE Advances(sort, sort')
    BY <2>3, HighAdvances
  <2>4. ASSUME NEW less \in BOOLEAN, CompareUp(less) PROVE Advances(sort, sort')
    BY <2>4, UpAdvances
  <2>5. ASSUME NEW less \in BOOLEAN, CompareDown(less) PROVE Advances(sort, sort')
    BY <2>5, DownAdvances
  <2>6. ASSUME NEW seed \in Seeds, Return(seed) PROVE Advances(sort, sort')
    BY <2>6, ReturnAdvances
  <2> QED
    BY <2>1, <2>2, <2>3, <2>4, <2>5, <2>6 DEF SortNext
<1>2. Advances(sort, sort') =>
        \/ Pending(sort') \subseteq Pending(sort) /\ Pending(sort') # Pending(sort)
        \/ /\ Pending(sort') = Pending(sort)
           /\ \/ Len(sort'.calls) < Len(sort.calls)
              \/ Len(sort'.calls) = Len(sort.calls) /\ Left(sort') \in 0..(Left(sort) - 1)
  BY DEF Advances, Fewer, Nearer
<1> QED
  BY <1>1, <1>2, SortInvariance, PTL DEF SortSpec, SortEnds

-----------------------------------------------------------------------------
(***************************************************************************)
(* Lists.                                                                  *)
(***************************************************************************)
OneCopied(u, src, same, to, from, k) == [u EXCEPT ![to[k]] = IF same THEN u[from[k]] ELSE src[from[k]]]

\* elements of S are copied between tables, or in one, from and to indices of D
Copying(D, S, dst, src, same, to, from) ==
    /\ dst \in [D -> S] /\ src \in [D -> S] /\ same \in BOOLEAN
    /\ to \in Seq(D) /\ from \in Seq(D) /\ Len(from) = Len(to)
\* no element is read that was written
ReadsFirst(same, to, from) ==
    \A j, k \in 1..Len(to) : j < k => to[j] # to[k] /\ (same => from[k] # to[j])

\* There is a table after every copy.
LEMMA CopiedSteps ==
  ASSUME NEW D, NEW S, NEW dst, NEW src, NEW same, NEW to, NEW from, Copying(D, S, dst, src, same, to, from)
  PROVE  \E g : /\ Copied(dst, src, same, to, from) = g[Len(to)] /\ g[0] = dst
                /\ \A k \in 0..Len(to) : g[k] \in [D -> S]
                /\ \A k \in 1..Len(to) : g[k] = OneCopied(g[k - 1], src, same, to, from, k)
<1> dst \in [D -> S] /\ src \in [D -> S] /\ same \in BOOLEAN
  BY DEF Copying
<1>1. PICK n \in Nat : n = Len(to) /\ \A k \in 1..n : to[k] \in D /\ from[k] \in D
  BY DEF Copying
<1> DEFINE One(k) == [u \in [D -> S] |-> OneCopied(u, src, same, to, from, k)]
           step == [k \in 1..n |-> One(k)]
           g == Repeated(step, dst, n)
<1>2. \A k \in 1..n : step[k] = One(k)
  OBVIOUS
<1>3. \A k \in 1..n : \A u \in [D -> S] : One(k)[u] = OneCopied(u, src, same, to, from, k)
  OBVIOUS
<1>4. \A k \in 1..n : \A u \in [D -> S] : OneCopied(u, src, same, to, from, k) \in [D -> S]
  BY <1>1 DEF OneCopied
<1> HIDE DEF One, step
<1>5. g = [k \in 0..n |-> IF k = 0 THEN dst ELSE step[k][g[k - 1]]]
  BY RepeatedIs
<1> HIDE DEF g
<1>6. \A k \in 0..n : g[k] = IF k = 0 THEN dst ELSE step[k][g[k - 1]]
  BY <1>5
<1>7. \A k \in 1..n : g[k - 1] \in [D -> S] => g[k] = OneCopied(g[k - 1], src, same, to, from, k)
  BY <1>2, <1>3, <1>6
<1>8. \A k \in 0..n : g[k] \in [D -> S]
  <2> DEFINE T == {k \in Nat : k <= n => g[k] \in [D -> S]}
  <2>1. 0 \in T
    BY <1>6
  <2>2. ASSUME NEW k \in Nat, k \in T PROVE k + 1 \in T
    <3> SUFFICES ASSUME k + 1 <= n PROVE g[k + 1] \in [D -> S]
      OBVIOUS
    <3>1. g[k] \in [D -> S]
      BY <2>2
    <3>2. k + 1 \in 1..n /\ (k + 1) - 1 = k
      OBVIOUS
    <3>3. g[k + 1] = OneCopied(g[k], src, same, to, from, k + 1)
      BY <1>7, <3>1, <3>2
    <3> QED
      BY <1>4, <3>1, <3>2, <3>3
  <2> HIDE DEF T
  <2>3. \A k \in Nat : k \in T
    BY <2>1, <2>2, Induction
  <2> QED
    BY <2>3 DEF T
<1>9. \A k \in 1..n : g[k] = OneCopied(g[k - 1], src, same, to, from, k)
  <2>1. \A k \in 1..n : k - 1 \in 0..n
    OBVIOUS
  <2> QED
    BY <1>7, <1>8, <2>1
<1> DEFINE Next1(h, k) == [h[k - 1] EXCEPT ![to[k]] = IF same THEN h[k - 1][from[k]] ELSE src[from[k]]]
           Is(h) == h = [k \in 0..Len(to) |-> IF k = 0 THEN dst ELSE Next1(h, k)]
           after == CHOOSE h : Is(h)
<1>0. \A h, k : Next1(h, k) = OneCopied(h[k - 1], src, same, to, from, k)
  BY DEF OneCopied
<1>12. Copied(dst, src, same, to, from) = after[Len(to)]
  BY DEF Copied
<1> HIDE DEF Next1
<1>10. ASSUME NEW h, Is(h)
       PROVE  /\ h[0] = dst
              /\ \A k \in 1..n : h[k] = OneCopied(h[k - 1], src, same, to, from, k)
  <2>1. h = [k \in 0..n |-> IF k = 0 THEN dst ELSE Next1(h, k)]
    BY <1>1, <1>10
  <2>2. \A k \in 0..n : h[k] = IF k = 0 THEN dst ELSE Next1(h, k)
    BY <2>1
  <2> QED
    BY <1>0, <2>2
<1>11. Is(g)
  <2>1. g = [k \in 0..n |-> g[k]]
    BY <1>5
  <2>2. \A k \in 0..n : g[k] = IF k = 0 THEN dst ELSE Next1(g, k)
    BY <1>0, <1>6, <1>9
  <2> QED
    BY <1>1, <2>1, <2>2
<1>13. Is(after)
  BY <1>11
<1> HIDE DEF Is, after
<1>14. after[0] = dst /\ \A k \in 1..n : after[k] = OneCopied(after[k - 1], src, same, to, from, k)
  BY <1>10, <1>13
<1>15. \A k \in 0..n : after[k] \in [D -> S]
  <2> DEFINE T == {k \in Nat : k <= n => after[k] \in [D -> S]}
  <2>1. 0 \in T
    BY <1>14
  <2>2. ASSUME NEW k \in Nat, k \in T PROVE k + 1 \in T
    <3> SUFFICES ASSUME k + 1 <= n PROVE after[k + 1] \in [D -> S]
      OBVIOUS
    <3>1. after[k] \in [D -> S]
      BY <2>2
    <3>2. k + 1 \in 1..n /\ (k + 1) - 1 = k
      OBVIOUS
    <3>3. after[k + 1] = OneCopied(after[k], src, same, to, from, k + 1)
      BY <1>14, <3>2
    <3> QED
      BY <1>4, <3>1, <3>2, <3>3
  <2> HIDE DEF T
  <2>3. \A k \in Nat : k \in T
    BY <2>1, <2>2, Induction
  <2> QED
    BY <2>3 DEF T
<1> QED
  BY <1>1, <1>12, <1>14, <1>15

\* Copies that read no element which they have written do what one copy at once does.
LEMMA CopiedIs ==
  ASSUME NEW D, NEW S, NEW dst, NEW src, NEW same, NEW to, NEW from, Copying(D, S, dst, src, same, to, from),
         ReadsFirst(same, to, from)
  PROVE  /\ Copied(dst, src, same, to, from) \in [D -> S]
         /\ \A k \in 1..Len(to) :
                Copied(dst, src, same, to, from)[to[k]] = IF same THEN dst[from[k]] ELSE src[from[k]]
         /\ \A x \in D : (\A k \in 1..Len(to) : to[k] # x) => Copied(dst, src, same, to, from)[x] = dst[x]
<1>1. PICK n \in Nat : n = Len(to) /\ \A k \in 1..n : to[k] \in D /\ from[k] \in D
  BY DEF Copying
<1>2. PICK g : /\ Copied(dst, src, same, to, from) = g[n] /\ g[0] = dst
               /\ \A k \in 0..n : g[k] \in [D -> S]
               /\ \A k \in 1..n : g[k] = OneCopied(g[k - 1], src, same, to, from, k)
  <2>1. PICK g : /\ Copied(dst, src, same, to, from) = g[Len(to)] /\ g[0] = dst
                 /\ \A k \in 0..Len(to) : g[k] \in [D -> S]
                 /\ \A k \in 1..Len(to) : g[k] = OneCopied(g[k - 1], src, same, to, from, k)
    BY CopiedSteps
  <2> QED
    BY <1>1, <2>1
<1> DEFINE Original(k) == IF same THEN dst[from[k]] ELSE src[from[k]]
           Sofar(m) == /\ \A k \in 1..m : g[m][to[k]] = Original(k)
                       /\ \A x \in D : (\A k \in 1..m : to[k] # x) => g[m][x] = dst[x]
           T == {m \in Nat : m <= n => Sofar(m)}
<1>3. 0 \in T
  BY <1>2
<1>4. ASSUME NEW m \in Nat, m \in T PROVE m + 1 \in T
  <2> SUFFICES ASSUME m + 1 <= n PROVE Sofar(m + 1)
    OBVIOUS
  <2>1. Sofar(m)
    BY <1>4
  <2>2. m + 1 \in 1..n /\ m \in 0..n /\ (m + 1) - 1 = m /\ \A k \in 1..(m + 1) : k = m + 1 \/ (k \in 1..m /\ k < m + 1)
    OBVIOUS
  <2>3. \A k \in 1..m : k \in 1..n /\ k < m + 1 /\ k \in 1..(m + 1)
    OBVIOUS
  <2>4. PICK p : p = m + 1
    OBVIOUS
  <2>5. g[m] \in [D -> S] /\ g[p] = [g[m] EXCEPT ![to[p]] = IF same THEN g[m][from[p]] ELSE src[from[p]]]
    BY <1>2, <2>2, <2>4 DEF OneCopied
  <2>6. to[p] \in D /\ from[p] \in D
    BY <1>1, <2>2, <2>4
  <2>7. \A k \in 1..m : to[k] # to[p] /\ (same => from[p] # to[k])
    BY <1>1, <2>2, <2>3, <2>4 DEF ReadsFirst
  <2>8. same => g[m][from[p]] = dst[from[p]]
    BY <2>1, <2>6, <2>7
  <2>9. g[p][to[p]] = Original(p)
    BY <2>5, <2>6, <2>8
  <2>10. \A k \in 1..m : g[p][to[k]] = Original(k)
    <3> TAKE k \in 1..m
    <3>1. g[m][to[k]] = Original(k) /\ to[k] # to[p] /\ to[k] \in D
      BY <1>1, <2>1, <2>3, <2>7
    <3> HIDE DEF Original
    <3> QED
      BY <2>5, <3>1
  <2>11. ASSUME NEW x \in D, \A k \in 1..p : to[k] # x PROVE g[p][x] = dst[x]
    <3>1. to[p] # x /\ \A k \in 1..m : to[k] # x
      BY <2>2, <2>3, <2>4, <2>11
    <3>2. g[m][x] = dst[x]
      BY <2>1, <3>1
    <3> QED
      BY <2>5, <3>1, <3>2
  <2> HIDE DEF Original
  <2> QED
    BY <2>2, <2>4, <2>9, <2>10, <2>11
<1> HIDE DEF T
<1>5. \A m \in Nat : m \in T
  BY <1>3, <1>4, Induction
<1>6. Sofar(n)
  BY <1>5 DEF T
<1>7. n \in 0..n
  OBVIOUS
<1> QED
  BY <1>1, <1>2, <1>6, <1>7

\* n elements from f are copied to t
CopyingRange(D, S, dst, src, same, t, f, n) ==
    /\ D \subseteq Int /\ dst \in [D -> S] /\ src \in [D -> S] /\ same \in BOOLEAN
    /\ t \in Int /\ f \in Int /\ n \in Nat /\ t..(t + n - 1) \subseteq D /\ f..(f + n - 1) \subseteq D

\* A range that is copied upwards is not to end before the elements that are read last ...
LEMMA CopiedUp ==
  ASSUME NEW D, NEW S, NEW dst, NEW src, NEW same, NEW t, NEW f, NEW n,
         CopyingRange(D, S, dst, src, same, t, f, n), same => t <= f \/ t > f + n - 1
  PROVE  /\ Copied(dst, src, same, IndicesUp(t, n), IndicesUp(f, n)) \in [D -> S]
         /\ \A x \in D : Copied(dst, src, same, IndicesUp(t, n), IndicesUp(f, n))[x] =
                IF x \in t..(t + n - 1) THEN IF same THEN dst[f + x - t] ELSE src[f + x - t] ELSE dst[x]
<1> /\ D \subseteq Int /\ dst \in [D -> S] /\ src \in [D -> S] /\ same \in BOOLEAN
    /\ t \in Int /\ f \in Int /\ n \in Nat /\ t..(t + n - 1) \subseteq D /\ f..(f + n - 1) \subseteq D
  BY DEF CopyingRange
<1>1. PICK to, from : to = IndicesUp(t, n) /\ from = IndicesUp(f, n)
  OBVIOUS
<1>2. \A k \in 1..n : to[k] = t + k - 1 /\ from[k] = f + k - 1
  BY <1>1 DEF IndicesUp
<1>3. \A k \in 1..n : t + k - 1 \in D /\ f + k - 1 \in D
  OBVIOUS
<1>4. to \in Seq(D) /\ from \in Seq(D) /\ Len(to) = n /\ Len(from) = n
  BY <1>1, <1>3 DEF IndicesUp
<1>5. ASSUME NEW j \in 1..n, NEW k \in 1..n, j < k
      PROVE  t + j - 1 # t + k - 1 /\ (same => f + k - 1 # t + j - 1)
  BY <1>5
<1>6. \A j, k \in 1..n : j < k => to[j] # to[k] /\ (same => from[k] # to[j])
  BY <1>2, <1>5
<1>7. PICK r : r = Copied(dst, src, same, to, from)
  OBVIOUS
<1>8. /\ r \in [D -> S]
      /\ \A k \in 1..n : r[to[k]] = IF same THEN dst[from[k]] ELSE src[from[k]]
      /\ \A x \in D : (\A k \in 1..n : to[k] # x) => r[x] = dst[x]
  <2>1. Copying(D, S, dst, src, same, to, from)
    BY <1>4 DEF Copying
  <2>2. ReadsFirst(same, to, from)
    BY <1>4, <1>6 DEF ReadsFirst
  <2>3. /\ r \in [D -> S]
        /\ \A k \in 1..Len(to) : r[to[k]] = IF same THEN dst[from[k]] ELSE src[from[k]]
        /\ \A x \in D : (\A k \in 1..Len(to) : to[k] # x) => r[x] = dst[x]
    BY <1>7, <2>1, <2>2, CopiedIs
  <2> QED
    BY <1>4, <2>3
<1>9. ASSUME NEW x \in D, x \in t..(t + n - 1)
      PROVE  r[x] = IF same THEN dst[f + x - t] ELSE src[f + x - t]
  <2>1. PICK k \in 1..n : k = x - t + 1 /\ t + k - 1 = x /\ f + k - 1 = f + x - t
    BY <1>9
  <2>2. to[k] = x /\ from[k] = f + x - t
    BY <1>2, <2>1
  <2> QED
    BY <1>8, <2>2
<1>10. ASSUME NEW x \in D, x \notin t..(t + n - 1) PROVE r[x] = dst[x]
  <2>1. \A k \in 1..n : t + k - 1 # x
    BY <1>10
  <2> QED
    BY <1>2, <1>8, <2>1
<1> QED
  BY <1>1, <1>7, <1>8, <1>9, <1>10

\* ... and one that is copied downwards is not to begin before the elements that are read.
LEMMA CopiedDown ==
  ASSUME NEW D, NEW S, NEW dst, NEW src, NEW same, NEW t, NEW f, NEW n,
         CopyingRange(D, S, dst, src, same, t, f, n), same => t >= f
  PROVE  /\ Copied(dst, src, same, IndicesDown(t, n), IndicesDown(f, n)) \in [D -> S]
         /\ \A x \in D : Copied(dst, src, same, IndicesDown(t, n), IndicesDown(f, n))[x] =
                IF x \in t..(t + n - 1) THEN IF same THEN dst[f + x - t] ELSE src[f + x - t] ELSE dst[x]
<1> /\ D \subseteq Int /\ dst \in [D -> S] /\ src \in [D -> S] /\ same \in BOOLEAN
    /\ t \in Int /\ f \in Int /\ n \in Nat /\ t..(t + n - 1) \subseteq D /\ f..(f + n - 1) \subseteq D
  BY DEF CopyingRange
<1>1. PICK to, from : to = IndicesDown(t, n) /\ from = IndicesDown(f, n)
  OBVIOUS
<1>2. \A k \in 1..n : to[k] = t + n - k /\ from[k] = f + n - k
  BY <1>1 DEF IndicesDown
<1>3. \A k \in 1..n : t + n - k \in D /\ f + n - k \in D
  OBVIOUS
<1>4. to \in Seq(D) /\ from \in Seq(D) /\ Len(to) = n /\ Len(from) = n
  BY <1>1, <1>3 DEF IndicesDown
<1>5. ASSUME NEW j \in 1..n, NEW k \in 1..n, j < k
      PROVE  t + n - j # t + n - k /\ (same => f + n - k # t + n - j)
  BY <1>5
<1>6. \A j, k \in 1..n : j < k => to[j] # to[k] /\ (same => from[k] # to[j])
  BY <1>2, <1>5
<1>7. PICK r : r = Copied(dst, src, same, to, from)
  OBVIOUS
<1>8. /\ r \in [D -> S]
      /\ \A k \in 1..n : r[to[k]] = IF same THEN dst[from[k]] ELSE src[from[k]]
      /\ \A x \in D : (\A k \in 1..n : to[k] # x) => r[x] = dst[x]
  <2>1. Copying(D, S, dst, src, same, to, from)
    BY <1>4 DEF Copying
  <2>2. ReadsFirst(same, to, from)
    BY <1>4, <1>6 DEF ReadsFirst
  <2>3. /\ r \in [D -> S]
        /\ \A k \in 1..Len(to) : r[to[k]] = IF same THEN dst[from[k]] ELSE src[from[k]]
        /\ \A x \in D : (\A k \in 1..Len(to) : to[k] # x) => r[x] = dst[x]
    BY <1>7, <2>1, <2>2, CopiedIs
  <2> QED
    BY <1>4, <2>3
<1>9. ASSUME NEW x \in D, x \in t..(t + n - 1)
      PROVE  r[x] = IF same THEN dst[f + x - t] ELSE src[f + x - t]
  <2>1. PICK k \in 1..n : k = t + n - x /\ t + n - k = x /\ f + n - k = f + x - t
    BY <1>9
  <2>2. to[k] = x /\ from[k] = f + x - t
    BY <1>2, <2>1
  <2> QED
    BY <1>8, <2>2
<1>10. ASSUME NEW x \in D, x \notin t..(t + n - 1) PROVE r[x] = dst[x]
  <2>1. \A k \in 1..n : t + n - k # x
    BY <1>10
  <2> QED
    BY <1>2, <1>8, <2>1
<1> QED
  BY <1>1, <1>7, <1>8, <1>9, <1>10

\* In one table.
Shifting(D, S, u, t, f, n) ==
    /\ D \subseteq Int /\ u \in [D -> S]
    /\ t \in Int /\ f \in Int /\ n \in Nat /\ t..(t + n - 1) \subseteq D /\ f..(f + n - 1) \subseteq D
Shifted(D, S, u, t, f, n, r) ==
    r \in [D -> S] /\ \A x \in D : r[x] = IF x \in t..(t + n - 1) THEN u[f + x - t] ELSE u[x]

LEMMA ShiftedUp ==
  ASSUME NEW D, NEW S, NEW u, NEW t, NEW f, NEW n, Shifting(D, S, u, t, f, n), t <= f
  PROVE  Shifted(D, S, u, t, f, n, Copied(u, u, TRUE, IndicesUp(t, n), IndicesUp(f, n)))
<1>1. PICK same \in BOOLEAN : same = TRUE
  OBVIOUS
<1>2. CopyingRange(D, S, u, u, same, t, f, n) /\ (same => t <= f \/ t > f + n - 1)
  BY DEF CopyingRange, Shifting
<1>3. PICK r : r = Copied(u, u, same, IndicesUp(t, n), IndicesUp(f, n))
  OBVIOUS
<1>4. r \in [D -> S] /\
      \A x \in D : r[x] = IF x \in t..(t + n - 1) THEN IF same THEN u[f + x - t] ELSE u[f + x - t] ELSE u[x]
  BY <1>2, <1>3, CopiedUp
<1> QED
  BY <1>1, <1>3, <1>4 DEF Shifted

LEMMA ShiftedDown ==
  ASSUME NEW D, NEW S, NEW u, NEW t, NEW f, NEW n, Shifting(D, S, u, t, f, n), t >= f
  PROVE  Shifted(D, S, u, t, f, n, Copied(u, u, TRUE, IndicesDown(t, n), IndicesDown(f, n)))
<1>1. PICK same \in BOOLEAN : same = TRUE
  OBVIOUS
<1>2. CopyingRange(D, S, u, u, same, t, f, n) /\ (same => t >= f)
  BY DEF CopyingRange, Shifting
<1>3. PICK r : r = Copied(u, u, same, IndicesDown(t, n), IndicesDown(f, n))
  OBVIOUS
<1>4. r \in [D -> S] /\
      \A x \in D : r[x] = IF x \in t..(t + n - 1) THEN IF same THEN u[f + x - t] ELSE u[f + x - t] ELSE u[x]
  BY <1>2, <1>3, CopiedDown
<1> QED
  BY <1>1, <1>3, <1>4 DEF Shifted

-----------------------------------------------------------------------------
\* Integers as the code counts them.
LEMMA UnsignedIs ==
  ASSUME NEW x \in Int
  PROVE  /\ 0 <= x /\ x <= 2 * MaxInteger + 1 => Unsigned(x) = x
         /\ -2 * MaxInteger - 2 <= x /\ x < 0 => Unsigned(x) = x + 2 * MaxInteger + 2
<1>1. PICK m \in Nat : m = 2 * (MaxInteger + 1) /\ m > 0
  BY ListsAssumption
<1>2. Unsigned(x) = x % m
  BY <1>1 DEF Unsigned
<1>3. 0 <= x /\ x < m => x % m = x
  BY <1>1, SMT
<1>4. 0 - m <= x /\ x < 0 => x % m = x + m
  BY <1>1, SMT
<1> QED
  BY <1>1, <1>2, <1>3, <1>4, ListsAssumption

\* table.move copies the elements that were there before the call.
LEMMA MoveIsRight ==
  ASSUME NEW f \in LuaInteger, NEW e \in LuaInteger, NEW t \in LuaInteger, NEW same \in BOOLEAN
  PROVE  MoveRight(f, e, t, same)
<1>1. PICK M \in Nat : M = MaxInteger /\ M > 0
  BY ListsAssumption
<1>2. PICK D \in SUBSET Int : D = LuaInteger /\ \A x \in Int : x \in D <=> (-M - 1 <= x /\ x <= M)
  BY <1>1 DEF LuaInteger
<1>3. PICK dst : dst = IF same THEN Elements ELSE Others
  OBVIOUS
<1>4. f \in Int /\ e \in Int /\ t \in Int /\ -M - 1 <= f /\ e <= M /\ -M - 1 <= t /\ t <= M /\ f <= M /\ -M - 1 <= e
  BY <1>2
<1> DEFINE n == e - f + 1
           moved == IF Upwards(f, e, t, same)
                    THEN Copied(dst, Elements, same, IndicesUp(t, n), IndicesUp(f, n))
                    ELSE Copied(dst, Elements, same, IndicesDown(t, n), IndicesDown(f, n))
           r == TMove(Elements, dst, same, f, e, t)
           fits == e < f \/ (e - f + 1 <= MaxInteger /\ t + (e - f) <= MaxInteger)
           expected == [i \in LuaInteger |-> IF i \in t..(t + (e - f)) /\ e >= f THEN Elements[f + i - t] ELSE dst[i]]
<1>5. \E S : Elements \in [D -> S] /\ dst \in [D -> S]
  <2>1. Elements \in [D -> {"old", "other"} \X D] /\ Others \in [D -> {"old", "other"} \X D]
    BY <1>2 DEF Elements, Others
  <2> QED
    BY <1>3, <2>1
<1>6. CASE e < f
  <2>1. r = Done(dst, <<>>)
    BY <1>6 DEF TMove
  <2>2. expected = dst
    <3>1. dst = [i \in LuaInteger |-> dst[i]]
      BY <1>2, <1>5
    <3>2. ~(e >= f)
      BY <1>4, <1>6
    <3> QED
      BY <3>1, <3>2
  <2>3. TMoveComputes(f, e, t) = {}
    BY <1>4, <1>6 DEF TMoveComputes
  <2>4. r.err = "" /\ r.t = expected
    <3> HIDE DEF expected, r
    <3> QED
      BY <2>1, <2>2 DEF Done
  <2> HIDE DEF r, expected, fits
  <2> QED
    BY <1>3, <1>6, <2>3, <2>4 DEF MoveRight, fits, expected, r
<1>7. CASE e >= f /\ fits
  <2>0. n \in Nat /\ n <= M /\ t + n - 1 <= M /\ n >= 1
    BY <1>1, <1>4, <1>7
  <2>1. r = Done(moved, <<>>)
    <3>1. ~(e < f) /\ (f > 0 \/ e < M + f) /\ ~(t > M - n + 1)
      BY <1>4, <1>7, <2>0
    <3> QED
      BY <1>1, <3>1 DEF TMove
  <2>2. moved = expected
    <3>1. PICK S : Elements \in [D -> S] /\ dst \in [D -> S]
      BY <1>5
    <3>2. PICK q \in Nat : q = n
      BY <2>0
    <3>3. t..(t + q - 1) \subseteq D /\ f..(f + q - 1) \subseteq D /\ f + q - 1 = e /\ t + q - 1 = t + (e - f)
      BY <1>2, <1>4, <2>0, <3>2
    <3>0. CopyingRange(D, S, dst, Elements, same, t, f, q)
      BY <1>4, <3>1, <3>3 DEF CopyingRange
    <3>4. moved \in [D -> S] /\
          \A x \in D : moved[x] =
              IF x \in t..(t + q - 1) THEN IF same THEN dst[f + x - t] ELSE Elements[f + x - t] ELSE dst[x]
      <4>1. CASE Upwards(f, e, t, same)
        <5>1. same => t <= f \/ t > f + q - 1
          BY <1>4, <3>3, <4>1 DEF Upwards
        <5>2. moved = Copied(dst, Elements, same, IndicesUp(t, q), IndicesUp(f, q))
          BY <3>2, <4>1
        <5> HIDE DEF moved
        <5> QED
          BY <3>0, <5>1, <5>2, CopiedUp
      <4>2. CASE ~Upwards(f, e, t, same)
        <5>1. same => t >= f
          BY <1>4, <4>2 DEF Upwards
        <5>2. moved = Copied(dst, Elements, same, IndicesDown(t, q), IndicesDown(f, q))
          BY <3>2, <4>2
        <5> HIDE DEF moved
        <5> QED
          BY <3>0, <5>1, <5>2, CopiedDown
      <4> QED
        BY <4>1, <4>2
    <3> HIDE DEF moved
    <3>5. moved = [x \in D |-> moved[x]]
      BY <3>4
    <3>6. \A x \in D : moved[x] = IF x \in t..(t + (e - f)) /\ e >= f THEN Elements[f + x - t] ELSE dst[x]
      <4>1. same => dst = Elements
        BY <1>3
      <4> QED
        BY <1>7, <3>3, <3>4, <4>1
    <3> QED
      BY <1>2, <3>5, <3>6
  <2>3. TMoveComputes(f, e, t) \subseteq D
    <3>1. f <= 0 => M + f \in D
      BY <1>2, <1>4
    <3>2. {e - f, n, M - n, M - n + 1, f + n - 1, t + n - 1} \subseteq D
      BY <1>2, <1>4, <2>0
    <3>3. \A x \in TMoveComputes(f, e, t) :
             (f <= 0 /\ x = M + f) \/ x \in {e - f, n, M - n, M - n + 1, f + n - 1, t + n - 1}
      BY <1>1 DEF TMoveComputes
    <3> QED
      BY <3>1, <3>2, <3>3
  <2>4. r.err = "" /\ r.t = expected
    <3> HIDE DEF moved, expected, r
    <3> QED
      BY <2>1, <2>2 DEF Done
  <2> HIDE DEF moved, expected, r, fits
  <2> QED
    BY <1>2, <1>3, <1>7, <2>3, <2>4 DEF MoveRight, fits, expected, r
<1>8. CASE e >= f /\ ~fits
  <2>1. n \in Nat /\ (n > M \/ t + n - 1 > M)
    BY <1>1, <1>4, <1>8
  <2>2. r.err # ""
    <3>1. ~(e < f) /\ (~(f > 0 \/ e < M + f) \/ t > M - n + 1)
      BY <1>4, <1>8, <2>1
    <3> QED
      BY <1>1, <3>1 DEF TMove, Raised
  <2>3. TMoveComputes(f, e, t) \subseteq D
    <3>1. f <= 0 => M + f \in D
      BY <1>2, <1>4
    <3>2. (f > 0 \/ e < M + f) => {e - f, n, M - n, M - n + 1} \subseteq D
      BY <1>2, <1>4, <1>8, <2>1
    <3>3. CASE f > 0 \/ e < M + f
      <4>1. ~(t <= M - n + 1)
        BY <1>4, <1>8, <2>1, <3>3
      <4>2. \A x \in TMoveComputes(f, e, t) : (f <= 0 /\ x = M + f) \/ x \in {e - f, n, M - n, M - n + 1}
        BY <1>1, <4>1 DEF TMoveComputes
      <4> QED
        BY <3>1, <3>2, <3>3, <4>2
    <3>4. CASE ~(f > 0 \/ e < M + f)
      <4>1. \A x \in TMoveComputes(f, e, t) : f <= 0 /\ x = M + f
        BY <1>1, <3>4 DEF TMoveComputes
      <4> QED
        BY <3>1, <4>1
    <3> QED
      BY <3>3, <3>4
  <2> HIDE DEF r, fits
  <2> QED
    BY <1>2, <1>3, <1>8, <2>2, <2>3 DEF MoveRight, fits, r
<1> QED
  BY <1>4, <1>6, <1>7, <1>8

LEMMA ListIs ==
  ASSUME NEW len
  PROVE  ListOf(len) \in [LuaInteger -> ({"old"} \X LuaInteger) \cup {"nil", "new"}]
BY DEF ListOf

\* table.insert shifts the elements from its position on, and refuses a position outside of the list.
LEMMA InsertIsRight ==
  ASSUME NEW len \in 0..(MaxInteger - 1), NEW pos \in LuaInteger
  PROVE  InsertRight(len, pos)
<1>1. PICK M \in Nat : M = MaxInteger /\ M > 0
  BY ListsAssumption
<1>2. PICK D \in SUBSET Int : D = LuaInteger /\ \A x \in Int : x \in D <=> (-M - 1 <= x /\ x <= M)
  BY <1>1 DEF LuaInteger
<1>3. len \in Nat /\ len + 1 <= M /\ pos \in Int /\ -M - 1 <= pos /\ pos <= M
  BY <1>1, <1>2
<1>4. Wrap(len + 1) = len + 1 /\ Unsigned(len + 1) = len + 1
  <2>1. Unsigned(len + 1) = len + 1
    BY <1>1, <1>3, UnsignedIs
  <2> QED
    BY <1>1, <1>3, <2>1 DEF Wrap
<1>5. (Unsigned(pos - 1) >= len + 1) <=> pos \notin 1..(len + 1)
  <2>1. CASE pos >= 1
    <3>1. Unsigned(pos - 1) = pos - 1
      BY <1>1, <1>3, <2>1, UnsignedIs
    <3> QED
      BY <1>3, <2>1, <3>1
  <2>2. CASE pos < 1
    <3>1. Unsigned(pos - 1) = (pos - 1) + 2 * M + 2
      BY <1>1, <1>3, <2>2, UnsignedIs
    <3> QED
      BY <1>3, <2>2, <3>1
  <2> QED
    BY <1>3, <2>1, <2>2
<1> DEFINE r == TInsert(ListOf(len), len, pos, "new")
           inside == pos \in 1..(len + 1)
<1>6. CASE pos \notin 1..(len + 1)
  <2>1. r.err # ""
    BY <1>4, <1>5, <1>6 DEF TInsert, Raised
  <2> HIDE DEF r, inside
  <2>2. inside = FALSE
    BY <1>6 DEF inside
  <2>3. (r.err = "") = inside
    BY <2>1, <2>2
  <2> DEFINE shifted ==
        \A i \in LuaInteger :
            r.t[i] = IF i = pos THEN "new" ELSE IF i \in (pos + 1)..(len + 1) THEN <<"old", i - 1>> ELSE ListOf(len)[i]
  <2>4. InsertRight(len, pos) <=> ((r.err = "") = inside /\ (r.err = "" => shifted))
    BY DEF InsertRight, r, inside
  <2> HIDE DEF shifted
  <2> QED
    BY <2>1, <2>3, <2>4
<1>7. CASE pos \in 1..(len + 1)
  <2> DEFINE e == Wrap(len + 1)
             moved == IF e > pos
                      THEN Copied(ListOf(len), ListOf(len), TRUE,
                                  IndicesDown(pos + 1, e - pos), IndicesDown(pos, e - pos))
                      ELSE ListOf(len)
  <2>1. r = Done([moved EXCEPT ![pos] = "new"], <<>>)
    <3>1. ~(Unsigned(pos - 1) >= Unsigned(Wrap(len + 1)))
      BY <1>4, <1>5, <1>7
    <3> QED
      BY <3>1 DEF TInsert
  <2> HIDE DEF e
  <2>0. e = len + 1
    BY <1>4 DEF e
  <2>2. PICK S : ListOf(len) \in [D -> S] /\ "new" \in S
    BY <1>2, ListIs
  <2>3. moved \in [D -> S] /\
        \A x \in D : moved[x] = IF x \in (pos + 1)..(len + 1) THEN ListOf(len)[x - 1] ELSE ListOf(len)[x]
    <3>1. CASE len + 1 > pos
      <4>1. PICK n \in Nat, t \in Int, f \in Int :
                /\ n = len + 1 - pos /\ t = pos + 1 /\ f = pos /\ t + n - 1 = len + 1
                /\ \A x \in Int : f + x - t = x - 1
        BY <1>3, <1>7, <3>1
      <4>2. t..(t + n - 1) \subseteq D /\ f..(f + n - 1) \subseteq D /\ t >= f
        BY <1>2, <1>3, <1>7, <3>1, <4>1
      <4>3. moved = Copied(ListOf(len), ListOf(len), TRUE, IndicesDown(t, n), IndicesDown(f, n))
        BY <2>0, <3>1, <4>1
      <4> HIDE DEF moved
      <4>4. Shifting(D, S, ListOf(len), t, f, n)
        BY <2>2, <4>2 DEF Shifting
      <4>5. Shifted(D, S, ListOf(len), t, f, n, moved)
        BY <4>2, <4>3, <4>4, ShiftedDown
      <4> QED
        BY <4>1, <4>5 DEF Shifted
    <3>2. CASE ~(len + 1 > pos)
      <4>1. \A x \in D : x \notin (pos + 1)..(len + 1)
        BY <1>3, <3>2
      <4> QED
        BY <2>0, <2>2, <3>2, <4>1
    <3> QED
      BY <3>1, <3>2
  <2> HIDE DEF moved
  <2>4. r.err = "" /\ r.t = [moved EXCEPT ![pos] = "new"]
    <3> HIDE DEF r
    <3> QED
      BY <2>1 DEF Done
  <2>5. ASSUME NEW i \in D
        PROVE  r.t[i] = IF i = pos THEN "new"
                        ELSE IF i \in (pos + 1)..(len + 1) THEN <<"old", i - 1>> ELSE ListOf(len)[i]
    <3>1. CASE i = pos
      BY <2>3, <2>4, <3>1
    <3>2. CASE i # pos
      <4>1. r.t[i] = moved[i]
        BY <2>3, <2>4, <3>2
      <4>2. i \in (pos + 1)..(len + 1) => i - 1 \in 1..len /\ i - 1 \in D
        BY <1>2, <1>3, <1>7
      <4>3. i \in (pos + 1)..(len + 1) => ListOf(len)[i - 1] = <<"old", i - 1>>
        BY <1>2, <4>2 DEF ListOf
      <4> QED
        BY <2>3, <3>2, <4>1, <4>3
    <3> QED
      BY <3>1, <3>2
  <2> HIDE DEF r
  <2> QED
    BY <1>2, <1>7, <2>4, <2>5 DEF InsertRight, r
<1> QED
  BY <1>6, <1>7

\* table.remove shifts the elements after its position down, and refuses a position outside of the list.
LEMMA RemoveIsRight ==
  ASSUME NEW len \in 0..(MaxInteger - 1), NEW pos \in LuaInteger
  PROVE  RemoveRight(len, pos)
<1>1. PICK M \in Nat : M = MaxInteger /\ M > 0
  BY ListsAssumption
<1>2. PICK D \in SUBSET Int : D = LuaInteger /\ \A x \in Int : x \in D <=> (-M - 1 <= x /\ x <= M)
  BY <1>1 DEF LuaInteger
<1>3. len \in Nat /\ len + 1 <= M /\ pos \in Int /\ -M - 1 <= pos /\ pos <= M
  BY <1>1, <1>2
<1>4. (pos # len /\ Unsigned(pos - 1) > Unsigned(len)) <=> ~(pos \in 1..(len + 1) \/ pos = len)
  <2>0. Unsigned(len) = len
    BY <1>1, <1>3, UnsignedIs
  <2>1. CASE pos >= 1
    <3>1. Unsigned(pos - 1) = pos - 1
      BY <1>1, <1>3, <2>1, UnsignedIs
    <3> QED
      BY <1>3, <2>0, <2>1, <3>1
  <2>2. CASE pos < 1
    <3>1. Unsigned(pos - 1) = (pos - 1) + 2 * M + 2
      BY <1>1, <1>3, <2>2, UnsignedIs
    <3> QED
      BY <1>3, <2>0, <2>2, <3>1
  <2> QED
    BY <1>3, <2>1, <2>2
<1> DEFINE r == TRemove(ListOf(len), len, pos)
<1>5. CASE ~(pos \in 1..(len + 1) \/ pos = len)
  <2>1. r.err # ""
    BY <1>4, <1>5 DEF TRemove, Raised
  <2> HIDE DEF r
  <2> QED
    BY <1>5, <2>1 DEF RemoveRight, r
<1>6. CASE pos \in 1..(len + 1) \/ pos = len
  <2> DEFINE moved == IF pos < len
                      THEN Copied(ListOf(len), ListOf(len), TRUE,
                                  IndicesUp(pos, len - pos), IndicesUp(pos + 1, len - pos))
                      ELSE ListOf(len)
             last == IF pos < len THEN len ELSE pos
  <2>1. r = Done([moved EXCEPT ![last] = "nil"], <<ListOf(len)[pos]>>)
    BY <1>4, <1>6 DEF TRemove
  <2>2. PICK S : ListOf(len) \in [D -> S] /\ "nil" \in S
    BY <1>2, ListIs
  <2>3. moved \in [D -> S] /\
        \A x \in D : moved[x] = IF x \in pos..(len - 1) THEN ListOf(len)[x + 1] ELSE ListOf(len)[x]
    <3>1. CASE pos < len
      <4>1. PICK n \in Nat, t \in Int, f \in Int :
                /\ n = len - pos /\ t = pos /\ f = pos + 1 /\ t + n - 1 = len - 1
                /\ \A x \in Int : f + x - t = x + 1
        BY <1>3, <1>6, <3>1
      <4>2. t..(t + n - 1) \subseteq D /\ f..(f + n - 1) \subseteq D /\ t <= f
        BY <1>2, <1>3, <1>6, <3>1, <4>1
      <4>3. moved = Copied(ListOf(len), ListOf(len), TRUE, IndicesUp(t, n), IndicesUp(f, n))
        BY <3>1, <4>1
      <4> HIDE DEF moved
      <4>4. Shifting(D, S, ListOf(len), t, f, n)
        BY <2>2, <4>2 DEF Shifting
      <4>5. Shifted(D, S, ListOf(len), t, f, n, moved)
        BY <4>2, <4>3, <4>4, ShiftedUp
      <4> QED
        BY <4>1, <4>5 DEF Shifted
    <3>2. CASE ~(pos < len)
      <4>1. \A x \in D : x \notin pos..(len - 1)
        BY <1>3, <3>2
      <4> QED
        BY <2>2, <3>2, <4>1
    <3> QED
      BY <3>1, <3>2
  <2> HIDE DEF moved
  <2>4. r.err = "" /\ r.t = [moved EXCEPT ![last] = "nil"] /\ r.vals = <<ListOf(len)[pos]>>
    <3> HIDE DEF last, r
    <3> QED
      BY <2>1 DEF Done
  <2>5. last \in D
    BY <1>2, <1>3
  <2>6. ASSUME NEW i \in D
        PROVE  r.t[i] = IF i \in pos..(len - 1) /\ pos > 0 THEN <<"old", i + 1>>
                        ELSE IF i = len /\ pos <= len THEN "nil" ELSE ListOf(len)[i]
    <3>1. CASE i = last
      <4>1. r.t[i] = "nil"
        BY <2>3, <2>4, <2>5, <3>1
      <4>2. i \notin pos..(len - 1)
        BY <1>3, <1>6, <3>1
      <4>3. (i = len /\ pos <= len) \/ i \notin 1..len
        BY <1>3, <1>6, <3>1
      <4>4. i \notin 1..len => ListOf(len)[i] = "nil"
        BY <1>2 DEF ListOf
      <4> QED
        BY <4>1, <4>2, <4>3, <4>4
    <3>2. CASE i # last
      <4>1. r.t[i] = moved[i]
        BY <2>3, <2>4, <2>5, <3>2
      <4>2. i \in pos..(len - 1) => pos > 0 /\ i + 1 \in 1..len /\ i + 1 \in D
        BY <1>2, <1>3, <1>6
      <4>3. i \in pos..(len - 1) => ListOf(len)[i + 1] = <<"old", i + 1>>
        BY <1>2, <4>2 DEF ListOf
      <4>4. ~(i = len /\ pos <= len)
        BY <1>3, <3>2
      <4> QED
        BY <2>3, <4>1, <4>2, <4>3, <4>4
    <3> QED
      BY <3>1, <3>2
  <2> HIDE DEF r
  <2> QED
    BY <1>2, <1>6, <2>4, <2>6 DEF RemoveRight, r
<1> QED
  BY <1>5, <1>6

\* table.unpack returns the elements of a range, or refuses one that is too long.
LEMMA UnpackIsRight ==
  ASSUME NEW i \in LuaInteger, NEW e \in LuaInteger
  PROVE  UnpackRight(i, e)
<1>1. PICK M \in Nat, R \in Nat : M = MaxInteger /\ M > 0 /\ R = MaxResults
  BY ListsAssumption
<1>2. i \in Int /\ e \in Int /\ -M - 1 <= i /\ i <= M /\ -M - 1 <= e /\ e <= M
  BY <1>1 DEF LuaInteger
<1> DEFINE r == TUnpack(Elements, i, e, MaxResults)
<1>3. CASE e < i
  <2>1. r = Done(Elements, <<>>) /\ ~(e >= i)
    BY <1>2, <1>3 DEF TUnpack
  <2> HIDE DEF r
  <2>2. r.err = "" /\ r.vals = <<>>
    BY <2>1 DEF Done
  <2>3. <<>> = [k \in 1..0 |-> Elements[i + k - 1]]
    OBVIOUS
  <2> QED
    BY <1>3, <2>2, <2>3 DEF UnpackRight, r
<1>4. CASE e >= i
  <2>1. Unsigned(e - i) = e - i
    BY <1>1, <1>2, <1>4, UnsignedIs
  <2>2. PICK n \in Nat : n = e - i
    BY <1>2, <1>4
  <2>3. (n >= R \/ n + 1 > R) <=> ~(e - i + 1 <= R)
    BY <2>2
  <2>4. ~(i > e) /\ ~(e < i)
    BY <1>2, <1>4
  <2>5. CASE e - i + 1 <= R
    <3>1. r = Done(Elements, [k \in 1..(n + 1) |-> Elements[i + k - 1]])
      BY <1>1, <2>1, <2>2, <2>3, <2>4, <2>5 DEF TUnpack
    <3> HIDE DEF r
    <3>2. r.err = "" /\ r.vals = [k \in 1..(e - i + 1) |-> Elements[i + k - 1]]
      BY <2>2, <3>1 DEF Done
    <3> QED
      BY <1>1, <2>4, <2>5, <3>2 DEF UnpackRight, r
  <2>6. CASE ~(e - i + 1 <= R)
    <3>1. r.err # ""
      BY <1>1, <2>1, <2>2, <2>3, <2>4, <2>6 DEF TUnpack, Raised
    <3> HIDE DEF r
    <3> QED
      BY <1>1, <2>4, <2>6, <3>1 DEF UnpackRight, r
  <2> QED
    BY <2>5, <2>6
<1> QED
  BY <1>2, <1>3, <1>4

\* For integers of any width, and every call: table.move copies the elements that were there
\* before it, insert and remove shift those after the position, unpack returns its range, and a
\* position out of bounds or a count that does not fit is an error.
THEOREM ListsAlwaysRight == ListsSpec => []ListsRight
<1>1. ListsInit => ListsRight
  BY DEF ListsInit, ListsRight
<1>2. ListsRight /\ [ListsNext]_list => ListsRight'
  <2> SUFFICES ASSUME ListsRight, [ListsNext]_list PROVE ListsRight'
    OBVIOUS
  <2>1. ASSUME NEW f \in LuaInteger, NEW e \in LuaInteger, NEW t \in LuaInteger, NEW same \in BOOLEAN,
               CallMove(f, e, t, same)
        PROVE  ListsRight'
    BY <2>1, MoveIsRight DEF CallMove, ListsRight
  <2>2. ASSUME NEW len \in 0..(MaxInteger - 1), NEW pos \in LuaInteger, CallInsert(len, pos) PROVE ListsRight'
    BY <2>2, InsertIsRight DEF CallInsert, ListsRight
  <2>3. ASSUME NEW len \in 0..(MaxInteger - 1), NEW pos \in LuaInteger, CallRemove(len, pos) PROVE ListsRight'
    BY <2>3, RemoveIsRight DEF CallRemove, ListsRight
  <2>4. ASSUME NEW i \in LuaInteger, NEW e \in LuaInteger, CallUnpack(i, e) PROVE ListsRight'
    BY <2>4, UnpackIsRight DEF CallUnpack, ListsRight
  <2>5. CASE UNCHANGED list
    BY <2>5 DEF ListsRight
  <2> QED
    BY <2>1, <2>2, <2>3, <2>4, <2>5 DEF ListsNext
<1> QED
  BY <1>1, <1>2, PTL DEF ListsSpec
=============================================================================
