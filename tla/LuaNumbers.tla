----------------------------- MODULE LuaNumbers -----------------------------
(***************************************************************************)
(* Numbers of lvm.c and lobject.c at the edges of their ranges: integers   *)
(* of a few bits that wrap around, floats with fewer bits than an integer, *)
(* conversions and comparisons between them, the numerical 'for' loop,     *)
(* integer division, shifts and numerals.  And l_strcmp, whose strings may *)
(* hold zeros.                                                             *)
(*                                                                         *)
(* A float is the number of its halves; Inf and NaN are numbers out of the *)
(* range of the others.                                                    *)
(***************************************************************************)
EXTENDS Integers, Sequences, SequencesExt

CONSTANTS NBits,     \* bits of lua_Integer
          NBM,       \* bits of the mantissa of lua_Number
          MaxSteps   \* bound: iterations followed of a float loop

MaxInt == 2^(NBits - 1) - 1
MinInt == -(2^(NBits - 1))
LuaInt == MinInt..MaxInt
S2U(i) == i % 2^NBits
U2S(u) == IF u % 2^NBits > MaxInt THEN (u % 2^NBits) - 2^NBits ELSE u % 2^NBits

\* twice the value of floats; every float beyond 2 * 2^NBits halves is Inf
Inf == 2^(NBits + 3)
NaN == 2^(NBits + 4)
Abs(x) == IF x < 0 THEN -x ELSE x
\* the largest power of two with which h has at most NBM significant bits
Unit(h) == CHOOSE u \in {2^k : k \in 0..(NBits + 3)} :
               Abs(h) < u * 2^NBM /\ (u = 1 \/ Abs(h) >= (u \div 2) * 2^NBM)
\* rounding to the nearest float, ties to even
RoundAbs(h) ==
    LET u == Unit(h)
        q == h \div u
        r == 2 * (h % u)
    IN  IF r < u \/ (r = u /\ q % 2 = 0) THEN q * u ELSE (q + 1) * u
Round(h) == LET r == IF h < 0 THEN -RoundAbs(-h) ELSE RoundAbs(h)
            IN  IF r > 2 * 2^NBits THEN Inf ELSE IF r < -(2 * 2^NBits) THEN -Inf ELSE r
Float == {Round(h) : h \in -(2 * 2^NBits)..(2 * 2^NBits)} \cup {Inf, -Inf, NaN}

NumLt(x, y) == x # NaN /\ y # NaN /\ x < y
NumLe(x, y) == x # NaN /\ y # NaN /\ x <= y
NumAdd(x, y) ==
    IF NaN \in {x, y} \/ {x, y} = {Inf, -Inf} THEN NaN
    ELSE IF {x, y} \cap {Inf, -Inf} # {} THEN CHOOSE i \in {x, y} : i \in {Inf, -Inf} ELSE Round(x + y)
CastNum(i) == Round(2 * i)

IntValue(i) == [tt |-> "int", v |-> i]
FltValue(h) == [tt |-> "flt", v |-> h]
IsInt(o) == o.tt = "int"
ToNumber(o) == IF IsInt(o) THEN CastNum(o.v) ELSE o.v

(***************************************************************************)
(* Conversions and comparisons.                                            *)
(***************************************************************************)
None == [tt |-> "none"]
\* lua_numbertointeger: the bounds are exact floats even where MaxInt is not
NumberToInteger(f) == IF f # NaN /\ f >= 2 * MinInt /\ f < -(2 * MinInt) THEN IntValue(f \div 2) ELSE None
Floor(n) == IF n \in {Inf, -Inf, NaN} THEN n ELSE 2 * (n \div 2)
\* luaV_flttointeger; mode is "F2Ieq", "F2Ifloor" or "F2Iceil"
FltToInteger(n, mode) ==
    LET integral == n # NaN /\ n = Floor(n)
        up == ~integral /\ mode = "F2Iceil"
    IN  IF ~integral /\ mode = "F2Ieq" THEN None
        ELSE NumberToInteger(IF up THEN NumAdd(Floor(n), 2) ELSE Floor(n))
ToIntegerNS(o, mode) == IF IsInt(o) THEN o ELSE FltToInteger(o.v, mode)

MaxIntFitsF == 2^NBM
IntFitsF(i) == S2U(MaxIntFitsF + S2U(i)) <= 2 * MaxIntFitsF
\* mutant: the integer is always converted
LTIntFloatConverts(i, f) == NumLt(CastNum(i), f)
LTIntFloat(i, f) ==
    LET fi == FltToInteger(f, "F2Iceil") IN
    IF IntFitsF(i) THEN NumLt(CastNum(i), f) ELSE IF fi # None THEN i < fi.v ELSE NumLt(0, f)
LEIntFloat(i, f) ==
    LET fi == FltToInteger(f, "F2Ifloor") IN
    IF IntFitsF(i) THEN NumLe(CastNum(i), f) ELSE IF fi # None THEN i <= fi.v ELSE NumLt(0, f)
LTFloatInt(f, i) ==
    LET fi == FltToInteger(f, "F2Ifloor") IN
    IF IntFitsF(i) THEN NumLt(f, CastNum(i)) ELSE IF fi # None THEN fi.v < i ELSE NumLt(f, 0)
LEFloatInt(f, i) ==
    LET fi == FltToInteger(f, "F2Iceil") IN
    IF IntFitsF(i) THEN NumLe(f, CastNum(i)) ELSE IF fi # None THEN fi.v <= i ELSE NumLt(f, 0)
LTNum(l, r) ==
    CASE IsInt(l) /\ IsInt(r) -> l.v < r.v
      [] IsInt(l) /\ ~IsInt(r) -> LTIntFloat(l.v, r.v)
      [] ~IsInt(l) /\ IsInt(r) -> LTFloatInt(l.v, r.v)
      [] OTHER -> NumLt(l.v, r.v)
LENum(l, r) ==
    CASE IsInt(l) /\ IsInt(r) -> l.v <= r.v
      [] IsInt(l) /\ ~IsInt(r) -> LEIntFloat(l.v, r.v)
      [] ~IsInt(l) /\ IsInt(r) -> LEFloatInt(l.v, r.v)
      [] OTHER -> NumLe(l.v, r.v)
\* luaV_equalobj on two numbers
EqualNum(l, r) ==
    IF l.tt = r.tt THEN l.v = r.v /\ l.v # NaN
    ELSE ToIntegerNS(l, "F2Ieq") # None /\ ToIntegerNS(l, "F2Ieq") = ToIntegerNS(r, "F2Ieq")

(***************************************************************************)
(* Integer arithmetic.                                                     *)
(***************************************************************************)
\* the division and remainder of C round towards zero
CDiv(m, n) == IF (m < 0) = (n < 0) THEN Abs(m) \div Abs(n) ELSE -(Abs(m) \div Abs(n))
CMod(m, n) == m - CDiv(m, n) * n
MinusOneOrZero(n) == S2U(S2U(n) + 1) <= 1
IDiv(m, n) ==
    IF MinusOneOrZero(n) THEN IF n = 0 THEN None ELSE IntValue(U2S(0 - S2U(m)))
    ELSE IntValue(IF (m < 0) # (n < 0) /\ CMod(m, n) # 0 THEN CDiv(m, n) - 1 ELSE CDiv(m, n))
Mod(m, n) ==
    IF MinusOneOrZero(n) THEN IF n = 0 THEN None ELSE IntValue(0)
    ELSE IntValue(IF CMod(m, n) # 0 /\ (CMod(m, n) < 0) # (n < 0) THEN CMod(m, n) + n ELSE CMod(m, n))
ShiftLeft(x, y) ==
    IF y < 0
    THEN IF y <= -NBits THEN 0 ELSE U2S(S2U(x) \div 2^(-y))
    ELSE IF y >= NBits THEN 0 ELSE U2S(S2U(x) * 2^y)

(***************************************************************************)
(* The numerical 'for' loop.  The result of ForPrep is None to skip the    *)
(* loop, or the index and the counter or the limit.                        *)
(***************************************************************************)
\* forlimit: None when the loop must not run
ForLimit(init, lim, step) ==
    LET p == ToIntegerNS(lim, IF step < 0 THEN "F2Iceil" ELSE "F2Ifloor")
        clipped == IF NumLt(0, ToNumber(lim)) THEN IF step < 0 THEN None ELSE IntValue(MaxInt)
                   ELSE IF step > 0 THEN None ELSE IntValue(MinInt)
        limit == IF p = None THEN clipped ELSE p
    IN  IF limit = None \/ (IF step > 0 THEN init > limit.v ELSE init < limit.v) THEN None ELSE limit
Count(init, limit, step) ==
    IF step > 0 THEN S2U(S2U(limit) - S2U(init)) \div S2U(step)
    ELSE S2U(S2U(init) - S2U(limit)) \div S2U(S2U(-(step + 1)) + 1)
ForPrep(init, limit, step) ==
    LET whole == ForLimit(init.v, limit, step.v)
        i == ToNumber(init)
        l == ToNumber(limit)
    IN  IF IsInt(init) /\ IsInt(step)
        THEN IF whole = None THEN None
             ELSE [tt |-> "int", idx |-> init.v, count |-> Count(init.v, whole.v, step.v), step |-> step.v]
        ELSE IF IF NumLt(0, ToNumber(step)) THEN NumLt(l, i) ELSE NumLt(i, l) THEN None
        ELSE [tt |-> "flt", idx |-> i, limit |-> l, step |-> ToNumber(step)]
\* OP_FORLOOP: None ends the loop
FloatForLoop(c) ==
    LET idx == NumAdd(c.idx, c.step) IN
    IF IF NumLt(0, c.step) THEN NumLe(idx, c.limit) ELSE NumLe(c.limit, idx)
    THEN [c EXCEPT !.idx = idx] ELSE None
ForLoop(c) ==
    IF c.tt = "flt" THEN FloatForLoop(c)
    ELSE IF c.count > 0 THEN [c EXCEPT !.count = @ - 1, !.idx = U2S(S2U(@) + S2U(c.step))]
    ELSE None
RECURSIVE Iterate(_, _)
Iterate(c, steps) ==
    IF c = None \/ steps = 0 THEN <<>> ELSE <<c.idx>> \o Iterate(ForLoop(c), steps - 1)
\* the values of the control variable
For(init, limit, step) ==
    Iterate(ForPrep(init, limit, step), IF IsInt(init) /\ IsInt(step) THEN 2^NBits + 1 ELSE MaxSteps)

(***************************************************************************)
(* Numerals: l_str2int, and lua_integer2str.  A digit is its value.        *)
(***************************************************************************)
MaxBy10 == MaxInt \div 10
MaxLastD == MaxInt % 10
RECURSIVE Decimal(_, _, _)
Decimal(digits, neg, a) ==
    IF digits = <<>> THEN IntValue(U2S(IF neg THEN 0 - a ELSE a))
    ELSE LET d == Head(digits) IN
         IF a >= MaxBy10 /\ (a > MaxBy10 \/ d > MaxLastD + (IF neg THEN 1 ELSE 0)) THEN None
         ELSE Decimal(Tail(digits), neg, a * 10 + d)
Hexadecimal(digits, neg) ==
    LET a == FoldLeft(LAMBDA x, d : S2U(x * 16 + d), 0, digits) IN IntValue(U2S(IF neg THEN 0 - a ELSE a))
Str2Int(neg, hexa, digits) ==
    IF digits = <<>> THEN None ELSE IF hexa THEN Hexadecimal(digits, neg) ELSE Decimal(digits, neg, 0)
RECURSIVE Digits(_)
Digits(n) == IF n < 10 THEN <<n>> ELSE Append(Digits(n \div 10), n % 10)

(***************************************************************************)
(* l_strcmp: strcoll compares up to the first zero of each.                *)
(***************************************************************************)
RECURSIVE StrColl(_, _), StrCmp(_, _)
StrColl(s, t) ==
    IF s = <<>> \/ t = <<>> THEN (IF s = t THEN 0 ELSE IF s = <<>> THEN -1 ELSE 1)
    ELSE IF Head(s) # Head(t) THEN (IF Head(s) < Head(t) THEN -1 ELSE 1) ELSE StrColl(Tail(s), Tail(t))
ZeroAt(s) == SelectInSeq(s, LAMBDA c : c = 0)
UpToZero(s) == IF ZeroAt(s) = 0 THEN s ELSE SubSeq(s, 1, ZeroAt(s) - 1)
StrCmp(s, t) ==
    LET c == StrColl(UpToZero(s), UpToZero(t))
        next == Len(UpToZero(s)) + 1
    IN  IF c # 0 THEN c
        ELSE IF ZeroAt(t) = 0 THEN (IF ZeroAt(s) = 0 THEN 0 ELSE 1)
        ELSE IF ZeroAt(s) = 0 THEN -1
        ELSE StrCmp(SubSeq(s, next + 1, Len(s)), SubSeq(t, next + 1, Len(t)))
=============================================================================
