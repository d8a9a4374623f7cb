-------------------------------- MODULE Utf8 --------------------------------
(***************************************************************************)
(* lutf8lib.c and luaO_utf8esc.  A string is a sequence of bytes; the byte *)
(* past its end is 0.  Positions are those of Lua, from 1.                 *)
(***************************************************************************)
EXTENDS Integers, FiniteSets, Sequences, SequencesExt

MaxUtf == 2147483647
MaxUnicode == 1114111
ByteAt(s, i) == IF i \in DOMAIN s THEN s[i] ELSE 0
IsCont(b) == b \div 64 = 2
IsContAt(s, i) == IsCont(ByteAt(s, i))

RECURSIVE EscTail(_, _, _)
\* the bytes before 'tail', and it; 'mfb' is the largest value that fits in a first byte
EscTail(x, mfb, tail) ==
    IF x <= mfb THEN <<(255 - (2 * mfb + 1)) + x>> \o tail
    ELSE EscTail(x \div 64, mfb \div 2, <<128 + (x % 64)>> \o tail)
Utf8Esc(x) == IF x < 128 THEN <<x>> ELSE EscTail(x \div 64, 31, <<128 + (x % 64)>>)

\* utf8_decode at position i: the value and the position after it; 0 for null.  Values
\* that need more than 31 bits count as too large.
Limits == <<128, 2048, 65536, 2097152, 67108864>>
NoCode == [val |-> 0, next |-> 0]
\* the ones of the first byte after its highest bit: how many bytes continue it
Count(c) == Cardinality({n \in 1..6 : c >= 256 - 2^(7 - n)})
Payload(c, n) == c % 2^(6 - n)
Continued(s, i, n) == FoldLeft(LAMBDA r, k : r * 64 + (ByteAt(s, i + k) % 64), Payload(s[i], n), [k \in 1..n |-> k])
\* mutant: overlong forms are accepted
LongEnoughAlways(v, n) == TRUE
LongEnough(v, n) == v >= Limits[n]
StrictOK(v) == v <= MaxUnicode /\ v \notin 55296..57343
Decode(s, i, strict) ==
    LET c == ByteAt(s, i)
        n == Count(c)
        v == IF c < 128 THEN c ELSE Continued(s, i, n)
    IN  IF /\ c >= 128 => /\ n \in 1..5
                          /\ \A k \in 1..n : IsContAt(s, i + k)
                          /\ LongEnough(v, n)
           /\ strict => StrictOK(v)
        THEN [val |-> v, next |-> i + (IF c < 128 THEN 1 ELSE n + 1)] ELSE NoCode

\* u_posrelat
PosRelat(pos, len) == IF pos >= 0 THEN pos ELSE IF -pos > len THEN 0 ELSE len + pos + 1

Raised == [kind |-> "error"]
Fail(at) == [kind |-> "fail", at |-> at]
Value(v) == [kind |-> "value", v |-> v]
RECURSIVE LenFrom(_, _, _, _, _)
LenFrom(s, i, j, strict, n) ==
    IF i > j THEN Value(n)
    ELSE LET d == Decode(s, i, strict) IN
         IF d = NoCode THEN Fail(i) ELSE LenFrom(s, d.next, j, strict, n + 1)
UtfLen(s, i, j, strict) ==
    LET posi == PosRelat(i, Len(s))
        posj == PosRelat(j, Len(s))
    IN  IF posi < 1 \/ posi > Len(s) + 1 \/ posj > Len(s) THEN Raised ELSE LenFrom(s, posi, posj, strict, 0)

RECURSIVE CodesFrom(_, _, _, _, _)
CodesFrom(s, i, e, strict, got) ==
    IF i > e THEN Value(got)
    ELSE LET d == Decode(s, i, strict) IN
         IF d = NoCode THEN Raised ELSE CodesFrom(s, d.next, e, strict, Append(got, d.val))
CodePoint(s, i, j, strict) ==
    LET posi == PosRelat(i, Len(s))
        pose == PosRelat(j, Len(s))
    IN  IF posi < 1 \/ pose > Len(s) THEN Raised ELSE CodesFrom(s, posi, pose, strict, <<>>)

RECURSIVE Back(_, _, _), Forth(_, _, _), Start(_, _), NextStart(_, _)
Start(s, p) == IF p > 1 /\ IsContAt(s, p) THEN Start(s, p - 1) ELSE p
NextStart(s, p) == IF IsContAt(s, p) THEN NextStart(s, p + 1) ELSE p
Found(n, p) == IF n = 0 THEN Value(p) ELSE Fail(0)
Back(s, n, p) == IF n < 0 /\ p > 1 THEN Back(s, n + 1, Start(s, p - 1)) ELSE Found(n, p)
Forth(s, n, p) == IF n > 0 /\ p <= Len(s) THEN Forth(s, n - 1, NextStart(s, p + 1)) ELSE Found(n, p)
ByteOffset(s, n, i) ==
    LET p == PosRelat(i, Len(s)) IN
    IF p < 1 \/ p > Len(s) + 1 THEN Raised
    ELSE IF n = 0 THEN Value(Start(s, p))
    ELSE IF IsContAt(s, p) THEN Raised
    ELSE IF n < 0 THEN Back(s, n, p) ELSE Forth(s, n - 1, p)

\* the positions that an iteration of utf8.codes visits, in order, or Raised
RECURSIVE IterFrom(_, _, _, _)
IterFrom(s, control, strict, got) ==
    LET at == IF control < Len(s) THEN NextStart(s, control + 1) ELSE control + 1
        d == Decode(s, at, strict)
    IN  IF at > Len(s) THEN Value(got)
        ELSE IF d = NoCode \/ IsContAt(s, d.next) THEN Raised
        ELSE IterFrom(s, at, strict, Append(got, at))
IterCodes(s, strict) == IF IsContAt(s, 1) THEN Raised ELSE IterFrom(s, 0, strict, <<>>)
=============================================================================
