-------------------------------- MODULE Sort --------------------------------
(***************************************************************************)
(* table.sort of ltablib.c: a quicksort that asks a comparison function    *)
(* for every decision.  One step is one answer: the program may answer as  *)
(* an order says, or as it likes, and nothing the sort does may depend on  *)
(* more than it was told.                                                  *)
(*                                                                         *)
(* Indices are unsigned integers of the code; a table has fewer than       *)
(* TooBig elements, half of what they can count.                           *)
(***************************************************************************)
EXTENDS Integers, Sequences, FiniteSets

CONSTANTS Datum, Order,  \* values of the program, and an order: pairs of a smaller and a larger one
          Inputs,        \* tables to sort, and whether the comparison function is the order
          RanLimit,      \* RANLIMIT: longer intervals may have a random pivot
          Imbalance,     \* 128 in auxsort: how much longer the other part is
          Seeds,         \* what l_randomizePivot may return
          TooBig         \* INT_MAX

Smaller(x, y) == <<x, y>> \in Order
AtMost(x, y) == ~Smaller(y, x)

ASSUME SortAssumption ==
    /\ \A x, y, z \in Datum :
           /\ AtMost(x, x) /\ (AtMost(x, y) \/ AtMost(y, x))
           /\ AtMost(x, y) /\ AtMost(y, z) => AtMost(x, z)
    /\ \A input \in Inputs : input.a \in Seq(Datum) /\ input.ordered \in BOOLEAN
    /\ RanLimit \in Nat /\ RanLimit >= 4 /\ Imbalance \in Nat \ {0}
    /\ Seeds \subseteq Nat /\ Seeds # {} /\ TooBig \in Nat \ {0}

VARIABLE sort

(***************************************************************************)
(* The table (a), the variables of auxsort and of partition, and the calls *)
(* of auxsort that wait for another to return: what each will sort then,   *)
(* and the size of the part that is being sorted meanwhile.  pc is the     *)
(* comparison that was asked for: ends, low and high sort three elements,  *)
(* up and down are the loops of partition.  'given' is no variable of the  *)
(* code: the table as it was.                                              *)
(***************************************************************************)
Begin(input) ==
    [given |-> input.a, ordered |-> input.ordered, a |-> input.a,
     lo |-> 1, up |-> Len(input.a), rnd |-> 0, p |-> 0, i |-> 0, j |-> 0, pivot |-> 0, calls |-> <<>>,
     pc |-> IF Len(input.a) <= 1 THEN "done" ELSE IF Len(input.a) >= TooBig THEN "error" ELSE "ends"]

Set2(a, i, j) == [a EXCEPT ![i] = a[j], ![j] = a[i]]
\* sort_comp
Answers(x, y) == IF sort.ordered THEN {Smaller(x, y)} ELSE BOOLEAN
Elem(i) == sort.a[i]

Quarter(s) == (s.up - s.lo) \div 4
IsRandom(s) == s.up - s.lo >= RanLimit /\ s.rnd # 0
ChoosePivot(s) == (s.rnd % (Quarter(s) * 2)) + s.lo + Quarter(s)
Middle(s) == IF IsRandom(s) THEN ChoosePivot(s) ELSE (s.lo + s.up) \div 2

\* three elements are sorted, with the pivot in the middle: if there are more, it is moved
\* to the end but one, and partition begins with ++i
Partition(s) ==
    IF s.up - s.lo = 2 THEN [s EXCEPT !.pc = "return"]
    ELSE [s EXCEPT !.pivot = s.a[s.p], !.a = Set2(@, s.p, s.up - 1),
                   !.i = s.lo + 1, !.j = s.up - 1, !.pc = "up"]

Part(lo, up) == [lo |-> lo, up |-> up]
\* the parts on both sides of the pivot at p; mutant: with the pivot in the lower one
LowerWithPivot(s, p) == Part(s.lo, p)
Lower(s, p) == Part(s.lo, p - 1)
Upper(s, p) == Part(p + 1, s.up)
\* the pivot is at p: sorts the smaller part, and the larger one after that
Split(s, p) ==
    LET lower == p - s.lo < s.up - p
        small == IF lower THEN Lower(s, p) ELSE Upper(s, p)
        large == IF lower THEN Upper(s, p) ELSE Lower(s, p)
        wait == [part |-> large, n |-> IF lower THEN p - s.lo ELSE s.up - p, rnd |-> s.rnd]
    IN  [s EXCEPT !.calls = Append(@, wait), !.lo = small.lo, !.up = small.up,
                  !.pc = IF small.lo < small.up THEN "ends" ELSE "return"]

CompareEnds(less) ==
    /\ sort.pc = "ends" /\ less \in Answers(Elem(sort.up), Elem(sort.lo))
    /\ LET s == IF less THEN [sort EXCEPT !.a = Set2(@, sort.lo, sort.up)] ELSE sort
       IN  sort' = IF s.up - s.lo = 1 THEN [s EXCEPT !.pc = "return"]
                   ELSE [s EXCEPT !.p = Middle(s), !.pc = "low"]
CompareLow(less) ==
    /\ sort.pc = "low" /\ less \in Answers(Elem(sort.p), Elem(sort.lo))
    /\ sort' = IF less THEN Partition([sort EXCEPT !.a = Set2(@, sort.p, sort.lo)])
               ELSE [sort EXCEPT !.pc = "high"]
CompareHigh(less) ==
    /\ sort.pc = "high" /\ less \in Answers(Elem(sort.up), Elem(sort.p))
    /\ sort' = Partition(IF less THEN [sort EXCEPT !.a = Set2(@, sort.p, sort.up)] ELSE sort)
\* invalid order function
InvalidOrder(s) == [s EXCEPT !.pc = "error"]
CompareUp(less) ==
    /\ sort.pc = "up" /\ less \in Answers(Elem(sort.i), sort.pivot)
    /\ sort' = IF ~less THEN [sort EXCEPT !.j = @ - 1, !.pc = "down"]
               ELSE IF sort.i = sort.up - 1 THEN InvalidOrder(sort)
               ELSE [sort EXCEPT !.i = @ + 1]
\* a[i] and a[j] are in order or are exchanged
Scanned(s) ==
    IF s.j < s.i THEN Split([s EXCEPT !.a[s.up - 1] = s.a[s.i], !.a[s.i] = s.pivot], s.i)
    ELSE [s EXCEPT !.a = Set2(@, s.i, s.j), !.i = @ + 1, !.pc = "up"]
\* mutant: without the check for an index below the other one
ScanDownUnchecked(s) == [s EXCEPT !.j = @ - 1]
ScanDown(s) == IF s.j < s.i THEN InvalidOrder(s) ELSE [s EXCEPT !.j = @ - 1]
CompareDown(less) ==
    /\ sort.pc = "down" /\ less \in Answers(sort.pivot, Elem(sort.j))
    /\ sort' = IF less THEN ScanDown(sort) ELSE Scanned(sort)

\* a call of auxsort has sorted its part; the one that waits goes on with the larger part
Return(seed) ==
    /\ sort.pc = "return"
    /\ IF sort.calls = <<>> THEN sort' = [sort EXCEPT !.pc = "done"]
       ELSE LET last == sort.calls[Len(sort.calls)]
                lo == last.part.lo
                up == last.part.up
            IN  sort' = [sort EXCEPT !.calls = SubSeq(@, 1, Len(@) - 1), !.lo = lo, !.up = up,
                                     !.rnd = IF (up - lo) \div Imbalance > last.n THEN seed ELSE last.rnd,
                                     !.pc = IF lo < up THEN "ends" ELSE "return"]

SortInit == \E input \in Inputs : sort = Begin(input)
SortNext ==
    \/ \E less \in BOOLEAN :
           CompareEnds(less) \/ CompareLow(less) \/ CompareHigh(less) \/ CompareUp(less) \/ CompareDown(less)
    \/ \E seed \in Seeds : Return(seed)
SortSpec == SortInit /\ [][SortNext]_sort

(***************************************************************************)
(* Properties.                                                             *)
(***************************************************************************)
Size == Len(sort.given)
\* what the comparison that was asked for, and the step after it, read and write
Touched ==
    CASE sort.pc = "ends" -> {sort.lo, sort.up}
      [] sort.pc \in {"low", "high"} -> {sort.lo, sort.p, sort.up - 1, sort.up}
      [] sort.pc = "up" -> {sort.i, sort.up - 1}
      [] sort.pc = "down" -> {sort.i, sort.j, sort.up - 1}
      [] OTHER -> {}
Occurs(s, x) == {k \in 1..Len(s) : s[k] = x}
\* choosePivot: in the second or third quarter
PivotInMiddle == sort.lo + Quarter(sort) <= sort.p /\ sort.p <= sort.up - Quarter(sort)
Pow2[n \in Nat] == IF n = 0 THEN 1 ELSE 2 * Pow2[n - 1]

\* Whatever the comparison function answers, and wherever random pivots fall, table.sort
\* touches no element outside the part it sorts, and the table has the same elements as
\* before after every answer, so also when it ends with an error, its own or one of the
\* function; the unsigned sizes never wrap around, and as the smaller part is sorted first,
\* calls of auxsort nest no deeper than the logarithm of the size.
\* With an order it ends without an error and with a sorted table.
SortRight ==
    /\ Touched \subseteq sort.lo..sort.up /\ Touched \subseteq 1..Size
    /\ sort.pc = "low" /\ IsRandom(sort) => PivotInMiddle
    /\ \A k \in 1..Len(sort.calls) : sort.calls[k].part.lo <= sort.calls[k].part.up
    /\ Len(sort.a) = Size
    /\ \A k \in 1..Size : Cardinality(Occurs(sort.a, sort.given[k])) = Cardinality(Occurs(sort.given, sort.given[k]))
    /\ Pow2[Len(sort.calls)] <= Size + 1
    /\ sort.ordered /\ Size < TooBig =>
           /\ sort.pc # "error"
           /\ sort.pc = "done" => \A k, l \in 1..Size : k < l => AtMost(sort.a[k], sort.a[l])

\* the indices that are not in their place yet, and how much is left of a part
Pending(s) ==
    (IF s.pc \in {"return", "done", "error"} THEN {} ELSE s.lo..s.up) \cup
    UNION {s.calls[k].part.lo..s.calls[k].part.up : k \in 1..Len(s.calls)}
Left(s) ==
    CASE s.pc = "ends" -> 2 * (s.up - s.lo) + 2
      [] s.pc = "low" -> 2 * (s.up - s.lo) + 1
      [] s.pc = "high" -> 2 * (s.up - s.lo)
      [] s.pc \in {"up", "down"} -> (s.up - s.i) + (s.j - s.lo)
      [] s.pc = "return" -> 1
      [] OTHER -> 0
\* Whatever the comparison function answers, the sort comes to an end: with every answer
\* fewer elements are to be sorted, or as many by fewer calls, or the scans of the
\* partition are nearer to each other.
SortEnds ==
    [][\/ Pending(sort') \subseteq Pending(sort) /\ Pending(sort') # Pending(sort)
       \/ /\ Pending(sort') = Pending(sort)
          /\ \/ Len(sort'.calls) < Len(sort.calls)
             \/ Len(sort'.calls) = Len(sort.calls) /\ Left(sort') \in 0..(Left(sort) - 1)]_sort
=============================================================================
