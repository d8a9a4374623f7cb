------------------------------ MODULE Library ------------------------------
(***************************************************************************)
(* Parts of the program that compute a result from their arguments, with   *)
(* no state between calls: the pattern matcher, numbers, precompiled       *)
(* chunks, UTF-8 and the lexer.  Each has a module of                      *)
(* operators; here a caller builds an argument step by step, and every     *)
(* result on the way is compared with what it should be.                   *)
(***************************************************************************)
EXTENDS Integers, Sequences, FiniteSets, SequencesExt

CONSTANTS MaxCCalls, MaxCaptures,                      \* of LuaPattern
          NBits, NBM, MaxSteps,                        \* of LuaNumbers
          IntMax, MaxSize,                             \* of Chunk
          MaxLines                                     \* of LuaLexer
CONSTANTS Parts,       \* the parts whose arguments are built
          PatternItems, Subjects, MaxItems,  \* items of a pattern, and the strings it meets
          LastItems,   \* items that may follow them in a pattern with a capture
          Digit, MaxDigits,
          MaxPieces,   \* bound: pieces of a precompiled function
          Lines,       \* line numbers in precompiled functions
          TextByte, Utf8Byte, MaxText

P == INSTANCE PatternMeaning
N == INSTANCE LuaNumbers
C == INSTANCE Chunk
X == INSTANCE LuaLexer

VARIABLE call   \* the part and its arguments

Tuple(s) == SubSeq(s, 1, Len(s))
Count(s, x) == Cardinality({i \in DOMAIN s : s[i] = x})

NewFunction(line) ==
    [C!Blank EXCEPT !.source = <<"@", "f">>, !.linedefined = line, !.lastlinedefined = line, !.maxstacksize = 2]
Starts ==
    {[part |-> "pattern", items |-> <<>>, anchored |-> b] : b \in BOOLEAN} \cup
    {[part |-> "numbers", what |-> "none"],
     [part |-> "numbers", what |-> "numeral", digits |-> <<>>],
     [part |-> "text", s |-> <<>>], [part |-> "utf8", s |-> <<>>],
     [part |-> "sort"], [part |-> "lists"], [part |-> "lines"], [part |-> "strings"], [part |-> "require"]} \cup
    {[part |-> "chunk", f |-> NewFunction(l), pieces |-> 0] : l \in Lines}
CallInit == call \in {s \in Starts : s.part \in Parts}

In(part) == call.part = part

(***************************************************************************)
(* Patterns.                                                               *)
(***************************************************************************)
HasCaptures == \E i \in DOMAIN call.items : call.items[i].kind \in {"open", "position"}

\* a position capture is written "()", so a capture that holds nothing cannot be
AddItem(it) ==
    /\ In("pattern")
    /\ \/ Len(call.items) < MaxItems
       \/ Len(call.items) = MaxItems /\ it \in LastItems /\ HasCaptures
    /\ ~(it.kind = "close" /\ call.items # <<>> /\ Last(call.items).kind = "open")
    /\ call' = [call EXCEPT !.items = Append(@, it)]

Pattern == (IF call.anchored THEN <<"^">> ELSE <<>>) \o P!Written(call.items)
SameResult(r, m) == r.kind = m.kind /\ (r.kind = "match" => r = m)
\* find has no capture for the whole match, and a lone bracket is a character for it
PlainText == ~call.anchored /\ \A i \in DOMAIN call.items : call.items[i].text \in {<<"a">>, <<")">>}
Closed == \E i \in DOMAIN call.items : call.items[i].kind = "close"
Expected(m, find) ==
    IF find /\ PlainText /\ Closed THEN P!NoMatch
    ELSE IF find /\ m.kind = "match" /\ ~HasCaptures THEN [m EXCEPT !.captures = <<>>] ELSE m
\* match from the start; for shorter patterns, find from the second and from the last position
Searches(src) ==
    {[pos |-> 1, init |-> 1, find |-> FALSE]} \cup
    IF Len(call.items) >= MaxItems THEN {}
    ELSE {[pos |-> 2, init |-> 2, find |-> TRUE],
          [pos |-> -1, init |-> IF src = <<>> THEN 1 ELSE Len(src), find |-> TRUE]}
FindsFirst(src) ==
    \A s \in Searches(src) : \A r \in {P!StrFindAux(src, Pattern, s.pos, s.find)} :
        r = P!Error("pattern too complex")
        \/ SameResult(r, Expected(P!FirstMatch(call.items, src, call.anchored, s.init), s.find))
InOrder(ms) ==
    \A k \in 1..(Len(ms) - 1) :
        ms[k].kind = "match" /\ (ms[k + 1].kind = "match" => ms[k].upto <= ms[k + 1].from /\ ms[k].upto < ms[k + 1].upto)
IteratesInOrder(src) ==
    \A m \in {P!GMatch(src, P!Written(call.items))}, g \in {P!GSub(src, P!Written(call.items), 99)} :
        /\ InOrder(m)
        /\ \A k \in DOMAIN m : m[k].kind = "match" => m[k] = P!At(call.items, src, m[k].from)
        /\ g.err = "" => g.text = src /\ ((\A k \in DOMAIN m : m[k].kind = "match") => g.n = Len(m))

\* The backtracking matcher finds the match that the items mean, also when 'find' searches a
\* plain text and from a position counted from the end: the first position, and
\* there the first way in the order of the alternatives, with its captures, whatever was
\* captured on the ways given up; it raises an error when that way has one.  gmatch and
\* gsub visit matches from left to right, never the same empty match twice, and agree.
PatternsRight ==
    In("pattern") => \A src \in Subjects : FindsFirst(Tuple(src)) /\ IteratesInOrder(Tuple(src))

(***************************************************************************)
(* Numbers.                                                                *)
(***************************************************************************)
Number == {N!IntValue(i) : i \in N!LuaInt} \cup {N!FltValue(h) : h \in N!Float}
\* floats around which a loop may turn, stop at once or never get further
LoopFloat == {N!FltValue(h) : h \in {-N!Inf, 2 * N!MinInt, -3, 0, 1, 6, 2 * N!MaxInt + 2, N!Inf, N!NaN}}
ZeroStep(o) == o.v = 0
Choose == In("numbers") /\ call.what = "none"
ChoosePair(l, r) == call' = [part |-> "numbers", what |-> "pair", l |-> l, r |-> r]
IntegerLoop(init, limit, step) ==
    /\ step # 0
    /\ call' = [part |-> "numbers", what |-> "loop", init |-> N!IntValue(init), limit |-> limit, step |-> N!IntValue(step)]
FloatLoop(init, limit, step) ==
    /\ ~ZeroStep(step) /\ ~(N!IsInt(init) /\ N!IsInt(step))
    /\ call' = [part |-> "numbers", what |-> "loop", init |-> init, limit |-> limit, step |-> step]
ChooseStrings(s, t) == call' = [part |-> "numbers", what |-> "strings", s |-> s, t |-> t]
AddDigit(d) ==
    /\ In("numbers") /\ call.what = "numeral" /\ Len(call.digits) < MaxDigits
    /\ call' = [call EXCEPT !.digits = Append(@, d)]

Exact(o) == IF N!IsInt(o) THEN 2 * o.v ELSE o.v
Ordered(l, r) == N!NaN \notin {Exact(l), Exact(r)}
Floored(m, n) == IF n > 0 THEN m \div n ELSE (-m) \div (-n)
PairRight(l, r) ==
    /\ N!LTNum(l, r) = (Ordered(l, r) /\ Exact(l) < Exact(r))
    /\ N!LENum(l, r) = (Ordered(l, r) /\ Exact(l) <= Exact(r))
    /\ N!EqualNum(l, r) = (Ordered(l, r) /\ Exact(l) = Exact(r))
    /\ N!IsInt(l) /\ N!IsInt(r) =>
           IF r.v = 0 THEN N!IDiv(l.v, r.v) = N!None /\ N!Mod(l.v, r.v) = N!None
           ELSE /\ N!IDiv(l.v, r.v) = N!IntValue(N!U2S(Floored(l.v, r.v)))
                /\ N!Mod(l.v, r.v) = N!IntValue(l.v - Floored(l.v, r.v) * r.v)
    /\ N!IsInt(l) /\ N!IsInt(r) =>
           N!ShiftLeft(l.v, r.v) =
               IF r.v >= 0 THEN N!U2S(N!S2U(l.v) * 2^r.v) ELSE N!U2S(N!S2U(l.v) \div 2^(-r.v))

\* the values that a loop with exact integers takes
RECURSIVE Values(_, _, _)
Values(i, limit, step) ==
    IF i \notin N!LuaInt \/ (IF step > 0 THEN 2 * i > limit ELSE 2 * i < limit) THEN <<>>
    ELSE <<i>> \o Values(i + step, limit, step)
IntegerLoopRight(init, limit, step) ==
    N!For(init, limit, step) = IF Exact(limit) = N!NaN THEN <<>> ELSE Values(init.v, Exact(limit), step.v)
FloatLoopRight(init, limit, step) ==
    \A vs \in {N!For(init, limit, step)} :
        /\ \A k \in DOMAIN vs :
               IF Exact(step) > 0 THEN N!NumLe(vs[k], N!ToNumber(limit)) ELSE N!NumLe(N!ToNumber(limit), vs[k])
        /\ vs = <<>> \/ vs[1] = N!ToNumber(init)
        /\ (vs = <<>>) = ~(IF Exact(step) > 0 THEN N!NumLe(N!ToNumber(init), N!ToNumber(limit))
                                              ELSE N!NumLe(N!ToNumber(limit), N!ToNumber(init)))
HasNaN(init, limit, step) == N!NaN \in {Exact(init), Exact(limit), Exact(step)}
\* with a NaN: an integer loop is not entered upwards, a loop over floats is left after one value
NaNLoopRight(init, limit, step) ==
    \A vs \in {N!For(init, limit, step)} :
        IF N!IsInt(init) /\ N!IsInt(step) THEN step.v > 0 => vs = <<>>
        ELSE vs \in {<<>>, <<N!ToNumber(init)>>}
LoopRight(init, limit, step) ==
    IF N!IsInt(init) /\ N!IsInt(step) THEN IntegerLoopRight(init, limit, step) ELSE FloatLoopRight(init, limit, step)

InTen(digits) == FoldLeft(LAMBDA a, d : 10 * a + d, 0, digits)
InSixteen(digits) == FoldLeft(LAMBDA a, d : 16 * a + d, 0, digits)
NumeralRight(digits, neg) ==
    LET v == IF neg THEN -InTen(digits) ELSE InTen(digits)
        h == IF neg THEN -InSixteen(digits) ELSE InSixteen(digits)
    IN  /\ N!Str2Int(neg, FALSE, digits) = IF digits # <<>> /\ v \in N!LuaInt THEN N!IntValue(v) ELSE N!None
        /\ N!Str2Int(neg, TRUE, digits) = IF digits # <<>> THEN N!IntValue(N!U2S(h)) ELSE N!None
RECURSIVE Lexicographic(_, _)
Lexicographic(s, t) ==
    IF s = <<>> \/ t = <<>> THEN (IF s = t THEN 0 ELSE IF s = <<>> THEN -1 ELSE 1)
    ELSE IF Head(s) # Head(t) THEN (IF Head(s) < Head(t) THEN -1 ELSE 1) ELSE Lexicographic(Tail(s), Tail(t))

\* Comparing an integer with a float is exact although neither type holds the other;
\* division, remainder and shifts are those of integers that wrap around; an integer loop
\* takes the values that exact arithmetic says, at the ends of the range and with steps of
\* minint too, and never wraps around; a decimal numeral is an integer if and only if it
\* fits; strings with zeros inside compare element by element.  Where one of the three
\* values of a loop is not a number, an ascending integer loop does not run, and a loop
\* over floats runs its body once or not at all; see ForLoopAsDocumented for the manual.
NumbersRight ==
    In("numbers") =>
        CASE call.what = "pair" -> PairRight(call.l, call.r)
          [] call.what = "loop" -> IF HasNaN(call.init, call.limit, call.step)
                                   THEN NaNLoopRight(call.init, call.limit, call.step)
                                   ELSE LoopRight(call.init, call.limit, call.step)
          [] call.what = "numeral" -> NumeralRight(call.digits, FALSE) /\ NumeralRight(call.digits, TRUE)
          [] call.what = "strings" -> N!StrCmp(call.s, call.t) = Lexicographic(call.s, call.t)
          [] OTHER -> TRUE

\* The manual (3.3.5) says of a numerical loop that it continues while the value is less
\* than or equal to the limit, greater than or equal to it for a negative step.  With a
\* limit or an initial value that is not a number neither ever holds, and no value of the
\* variable would be in the loop; a step that is not a number is neither of the two.
ForLoopAsDocumented ==
    In("numbers") /\ call.what = "loop" /\ Exact(call.step) # N!NaN
        => LoopRight(call.init, call.limit, call.step)

(***************************************************************************)
(* Precompiled chunks: a function grows by pieces of every kind.           *)
(***************************************************************************)
Text127 == Tuple([i \in 1..127 |-> "c"])
Constant == {[tt |-> 0], [tt |-> 17], [tt |-> 3, v |-> "int"], [tt |-> 4, v |-> <<>>],
             [tt |-> 4, v |-> <<"k">>], [tt |-> 20, v |-> Text127]}
UpvalDesc == {[instack |-> 1, idx |-> 0, kind |-> 0, name |-> <<"_", "E">>],
              [instack |-> 0, idx |-> 3, kind |-> 1, name |-> <<>>]}
Leaf(line, source) ==
    [NewFunction(line) EXCEPT !.source = source, !.k = <<[tt |-> 4, v |-> <<"k">>]>>,
                              !.upvalues = <<[instack |-> 1, idx |-> 0, kind |-> 0, name |-> <<"u">>]>>]
Growing == In("chunk") /\ call.pieces < MaxPieces
Grow(f) == call' = [call EXCEPT !.f = f, !.pieces = @ + 1]
AddConstant(k) == Growing /\ Grow([call.f EXCEPT !.k = Append(@, k)])
AddUpvalue(u) == Growing /\ Grow([call.f EXCEPT !.upvalues = Append(@, u)])
AddCode(line) ==
    Growing /\ Grow([call.f EXCEPT !.code = Append(@, "op"), !.lineinfo = Append(@, -2),
                                   !.abslineinfo = Append(@, [pc |-> 0, line |-> line])])
AddLocal(endpc) == Growing /\ Grow([call.f EXCEPT !.locvars = Append(@, [varname |-> <<"x">>, startpc |-> 0, endpc |-> endpc])])
AddProto(line) == Growing /\ Grow([call.f EXCEPT !.p = Append(@, Leaf(line, call.f.source))])
\* a function of a stripped chunk has no source, and neither have those inside it
LoseSource ==
    Growing /\ Grow([call.f EXCEPT !.source = C!NullString,
                                   !.p = Tuple([i \in DOMAIN @ |-> [@[i] EXCEPT !.source = C!NullString]])])

RECURSIVE Stripped(_)
Stripped(f) ==
    [f EXCEPT !.source = C!NullString, !.lineinfo = <<>>, !.abslineinfo = <<>>, !.locvars = <<>>,
              !.upvalues = Tuple([i \in DOMAIN @ |-> [@[i] EXCEPT !.name = C!NullString]]),
              !.p = Tuple([i \in DOMAIN @ |-> Stripped(@[i])])]
\* loadUnsigned refuses the last 128 values below its limit
TooLarge(n) == n >= (IntMax \div 128) * 128
RECURSIVE HasTooLarge(_, _)
HasTooLarge(f, strip) ==
    \/ TooLarge(f.linedefined)
    \/ ~strip /\ \E i \in DOMAIN f.abslineinfo : TooLarge(f.abslineinfo[i].line)
    \/ ~strip /\ \E i \in DOMAIN f.locvars : TooLarge(f.locvars[i].endpc)
    \/ \E i \in DOMAIN f.p : HasTooLarge(f.p[i], strip)
Comes(u, f, strip) ==
    IF HasTooLarge(f, strip) THEN u.err = "integer overflow"
    ELSE /\ u.err = "" /\ u.rest = <<>> /\ u.nupvalues = Len(f.upvalues)
         /\ u.f = IF strip THEN Stripped(f) ELSE f
RoundTrip(f, strip) ==
    \A d \in {C!Dump(f, strip, 100000)} :
        /\ Comes(C!Undump(d.out), f, strip)
        /\ Len(d.out) < 70 => \A n \in 1..(Len(d.out) - 1) : C!Undump(SubSeq(d.out, 1, n)).err # ""
        /\ \A room \in {1, Len(d.out) - 1} :
               C!Dump(f, strip, room) = [out |-> SubSeq(d.out, 1, room), status |-> 1]

\* A dumped function loads as it was, or as it was without its debug information when it
\* is stripped, with the sources of inner functions inherited; numbers that the reader
\* cannot take are an error and not another number; a writer that fails leaves a prefix,
\* and every proper prefix is refused.
ChunksRight == In("chunk") => RoundTrip(call.f, TRUE) /\ RoundTrip(call.f, FALSE)

(***************************************************************************)
(* Texts: the lexer, and UTF-8.                                            *)
(***************************************************************************)
AppendByte(b) ==
    /\ In("text") /\ b \in TextByte /\ Len(call.s) < MaxText
    /\ call' = [call EXCEPT !.s = Append(@, b)]
AppendUtf8(b) ==
    /\ In("utf8") /\ b \in Utf8Byte /\ Len(call.s) < MaxText
    /\ call' = [call EXCEPT !.s = Append(@, b)]

PairBreak(s) == Len(s) >= 2 /\ {s[1], s[2]} = {X!LF, X!CR}
After(s, n) == SubSeq(s, n + 1, Len(s))
\* the text with one LF for every line break
RECURSIVE Normal(_)
Normal(s) ==
    IF s = <<>> THEN <<>>
    ELSE <<IF X!IsNewline(Head(s)) THEN X!LF ELSE Head(s)>> \o Normal(After(s, IF PairBreak(s) THEN 2 ELSE 1))
Breaks(s) == Count(Normal(s), X!LF)

\* a token written back, and a text of tokens
TextOf(t) == (IF t.token = "string" THEN X!AddQuoted(t.v) ELSE t.v) \o <<X!Space>>
Rewritten(toks) == FlattenSeq([i \in 1..Len(toks) |-> TextOf(toks[i])])
Bracket(b, level) == <<b>> \o Tuple([i \in 1..level |-> X!Equals]) \o <<b>>
ClosesAt(s, level, i) == SubSeq(s, i, i + level + 1) = Bracket(X!RBracket, level)
LongContents(s, level) ==
    LET all == s \o Bracket(X!RBracket, level)
        ends == {i \in 1..(Len(all) - level - 1) : ClosesAt(all, level, i)}
        at == CHOOSE i \in ends : \A j \in ends : i <= j
        contents == Normal(SubSeq(all, 1, at - 1))
    IN  IF contents # <<>> /\ Head(contents) = X!LF THEN Tail(contents) ELSE contents

QuotedComesBack(s) ==
    \A r \in {X!Tokens(X!AddQuoted(s), 0)} : r.ls.err = "" /\ r.toks = <<X!Tok("string", s)>>
LongStringRight(s) ==
    \A level \in 0..2 :
        \A r \in {X!NextToken(X!SetInput(Bracket(X!LBracket, level) \o s \o Bracket(X!RBracket, level)))} :
            r.err = "" /\ r.t = X!Tok("string", LongContents(s, level))
TokensRight(s) ==
    \A r \in {X!Tokens(s, 0)} :
        r.ls.err = "" =>
            /\ r.ls.linenumber = 1 + Breaks(s)
            /\ X!Tokens(Rewritten(r.toks), 0).toks = r.toks
            /\ \A k \in DOMAIN r.toks : X!Tokens(s, k).toks = r.toks

\* Any string quoted with %q is read back as itself; a long bracket of any level holds the
\* text up to the first bracket that closes its level, line breaks normalised and the first
\* one dropped; the line number counts every kind of line break once, in strings and
\* comments too; the tokens written down again give the same tokens; and looking ahead
\* after any token changes none of them.
TextRight == In("text") => QuotedComesBack(call.s) /\ LongStringRight(call.s) /\ TokensRight(call.s)

SameCodes(s, strict) ==
    \A len \in {X!UtfLen(s, 1, -1, strict)}, codes \in {X!CodePoint(s, 1, -1, strict)}, iter \in {X!IterCodes(s, strict)} :
        /\ (len.kind = "value") = (codes.kind = "value")
        /\ (len.kind = "value") = (iter.kind = "value")
        /\ len.kind = "value" =>
               /\ len.v = Len(codes.v) /\ len.v = Len(iter.v)
               /\ FlattenSeq([i \in DOMAIN codes.v |-> X!Utf8Esc(codes.v[i])]) = s
               /\ \A n \in 1..len.v :
                      /\ X!ByteOffset(s, n, 1) = X!Value(iter.v[n])
                      /\ X!ByteOffset(s, n - 1 - len.v, Len(s) + 1) = X!Value(iter.v[n])
                      /\ X!CodePoint(s, iter.v[n], iter.v[n], strict) = X!Value(<<codes.v[n]>>)
        /\ len.kind = "fail" => X!UtfLen(s, 1, len.at - 1, strict).kind = "value"
\* utf8.len, codepoint, codes and offset agree on what is valid and where characters
\* start, forwards and backwards; encoding the codes gives the bytes back, so that no
\* overlong form is accepted; the position of the first error is right.
Utf8Right == In("utf8") => SameCodes(call.s, TRUE) /\ SameCodes(call.s, FALSE)

(***************************************************************************)
(* The caller.                                                             *)
(***************************************************************************)
CallNumbers ==
    /\ Choose
    /\ \/ \E l, r \in Number : ChoosePair(l, r)
       \/ \E init, step \in N!LuaInt, limit \in Number : IntegerLoop(init, limit, step)
       \/ \E init, step \in LoopFloat \cup {N!IntValue(2)}, limit \in LoopFloat : FloatLoop(init, limit, step)
       \/ \E s, t \in UNION {[1..n -> 0..1] : n \in 0..3} : ChooseStrings(Tuple(s), Tuple(t))
CallChunk ==
    \/ \E k \in Constant : AddConstant(k)
    \/ \E u \in UpvalDesc : AddUpvalue(u)
    \/ \E n \in Lines : AddCode(n) \/ AddLocal(n) \/ AddProto(n)
    \/ LoseSource
CallNext ==
    \/ \E it \in PatternItems : AddItem(it)
    \/ CallNumbers
    \/ \E d \in Digit : AddDigit(d)
    \/ CallChunk
    \/ \E b \in TextByte : AppendByte(b)
    \/ \E b \in Utf8Byte : AppendUtf8(b)
CallSpec == CallInit /\ [][CallNext]_call
=============================================================================
