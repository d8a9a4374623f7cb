------------------------------ MODULE LuaLexer ------------------------------
(***************************************************************************)
(* The lexer, llex.c, and what string.format("%q") writes for it to read   *)
(* (addquoted in lstrlib.c).  A text is a sequence of bytes; a token is    *)
(* its kind and its text, or for a string its contents.                    *)
(***************************************************************************)
EXTENDS Utf8

CONSTANT MaxLines    \* MAX_INT: too many lines

EOZ == -1
LF == 10
CR == 13
Space == 32
DQuote == 34
SQuote == 39
Minus == 45
Dot == 46
Equals == 61
LBracket == 91
Backslash == 92
RBracket == 93
IsNewline(c) == c \in {LF, CR}
IsSpace(c) == c \in {9, LF, 11, 12, CR, Space}
IsDigit(c) == c \in 48..57
IsXDigit(c) == IsDigit(c) \/ c \in 65..70 \/ c \in 97..102
IsAlpha(c) == c \in 65..90 \/ c \in 97..122 \/ c = 95
IsAlnum(c) == IsAlpha(c) \/ IsDigit(c)
HexaValue(c) == IF IsDigit(c) THEN c - 48 ELSE IF c >= 97 THEN c - 87 ELSE c - 55

Tok(token, v) == [token |-> token, v |-> v]
EOS == Tok("eos", <<>>)
\* luaX_setinput
SetInput(src) ==
    [src |-> src, at |-> 1, buff |-> <<>>, linenumber |-> 1, lastline |-> 1, t |-> EOS, lookahead |-> EOS, err |-> ""]
Cur(ls) == IF ls.at \in DOMAIN ls.src THEN ls.src[ls.at] ELSE EOZ
Skip(ls) == [ls EXCEPT !.at = @ + 1]
Save(ls, c) == [ls EXCEPT !.buff = Append(@, c)]
SaveAndNext(ls) == Skip(Save(ls, Cur(ls)))
BuffRemove(ls, n) == [ls EXCEPT !.buff = SubSeq(@, 1, Len(@) - n)]
ResetBuffer(ls) == [ls EXCEPT !.buff = <<>>]
LexError(ls, why) == [ls EXCEPT !.err = why]
Returns(ls, token, v) == [ls EXCEPT !.t = Tok(token, v)]

\* mutant: a pair of characters is two line breaks
IncLineNumberTwice(ls) ==
    IF ls.linenumber + 1 >= MaxLines THEN LexError(Skip(ls), "chunk has too many lines")
    ELSE [Skip(ls) EXCEPT !.linenumber = @ + 1]
IncLineNumber(ls) ==
    LET a == Skip(ls)
        b == IF IsNewline(Cur(a)) /\ Cur(a) # Cur(ls) THEN Skip(a) ELSE a
    IN  IF b.linenumber + 1 >= MaxLines THEN LexError(b, "chunk has too many lines")
        ELSE [b EXCEPT !.linenumber = @ + 1]

(***************************************************************************)
(* Numerals.                                                               *)
(***************************************************************************)
CheckNext2(ls, set) == IF Cur(ls) \in set THEN SaveAndNext(ls) ELSE ls
RECURSIVE NumeralRest(_, _)
NumeralRest(ls, expo) ==
    IF Cur(ls) \in expo THEN NumeralRest(CheckNext2(SaveAndNext(ls), {Minus, 43}), expo)
    ELSE IF IsXDigit(Cur(ls)) \/ Cur(ls) = Dot THEN NumeralRest(SaveAndNext(ls), expo)
    ELSE IF IsAlpha(Cur(ls)) THEN SaveAndNext(ls) ELSE ls

\* what luaO_str2num accepts: a mantissa and an exponent
IsMantissa(m, digit(_)) ==
    /\ \A i \in DOMAIN m : m[i] = Dot \/ digit(m[i])
    /\ Len(SelectSeq(m, LAMBDA c : c = Dot)) <= 1
    /\ \E i \in DOMAIN m : digit(m[i])
IsExponent(e) ==
    LET d == IF e # <<>> /\ Head(e) \in {Minus, 43} THEN Tail(e) ELSE e
    IN  d # <<>> /\ \A i \in DOMAIN d : IsDigit(d[i])
Str2Num(s) ==
    LET hexa == Len(s) >= 2 /\ s[1] = 48 /\ s[2] \in {120, 88}
        body == IF hexa THEN SubSeq(s, 3, Len(s)) ELSE s
        e == SelectInSeq(body, LAMBDA c : c \in (IF hexa THEN {112, 80} ELSE {101, 69}))
        digit(c) == IF hexa THEN IsXDigit(c) ELSE IsDigit(c)
    IN  IF e = 0 THEN IsMantissa(body, digit)
        ELSE IsMantissa(SubSeq(body, 1, e - 1), digit) /\ IsExponent(SubSeq(body, e + 1, Len(body)))
Numeral(ls) == IF Str2Num(ls.buff) THEN Returns(ls, "number", ls.buff) ELSE LexError(ls, "malformed number")
AfterZero(ls) == IF Cur(ls) \in {120, 88} THEN NumeralRest(SaveAndNext(ls), {112, 80}) ELSE NumeralRest(ls, {101, 69})
ReadNumeral(ls) ==
    Numeral(IF Cur(ls) = 48 THEN AfterZero(SaveAndNext(ls)) ELSE NumeralRest(SaveAndNext(ls), {101, 69}))

(***************************************************************************)
(* Long brackets.                                                          *)
(***************************************************************************)
RECURSIVE SaveEquals(_)
SaveEquals(ls) == IF Cur(ls) = Equals THEN SaveEquals(SaveAndNext(ls)) ELSE ls
SkipSep(ls) == SaveEquals(SaveAndNext(ls))
\* skip_sep returns this number, for the state before and after it
Sep(before, after) ==
    LET count == after.at - before.at - 1 IN
    IF Cur(after) = Cur(before) THEN count + 2 ELSE IF count = 0 THEN 1 ELSE 0

RECURSIVE LongText(_, _, _)
Bracketed(ls, after, sep, string) ==
    IF Sep(ls, after) = sep THEN SaveAndNext(after) ELSE LongText(after, sep, string)
LongText(ls, sep, string) ==
    CASE ls.err # "" -> ls
      [] ls.err = "" /\ Cur(ls) = EOZ -> LexError(ls, "unfinished long string/comment")
      [] ls.err = "" /\ Cur(ls) = RBracket -> Bracketed(ls, SkipSep(ls), sep, string)
      [] ls.err = "" /\ IsNewline(Cur(ls)) -> LongText(IncLineNumber(IF string THEN Save(ls, LF) ELSE ResetBuffer(ls)), sep, string)
      [] OTHER -> LongText(IF string THEN SaveAndNext(ls) ELSE Skip(ls), sep, string)
FirstNewline(ls) == IF IsNewline(Cur(ls)) THEN IncLineNumber(ls) ELSE ls
ReadLongString(ls, sep, string) == LongText(FirstNewline(SaveAndNext(ls)), sep, string)

(***************************************************************************)
(* Short strings.  Every escape leaves the buffer without the characters   *)
(* that were saved for an error message.                                   *)
(***************************************************************************)
EscCheck(ls, ok, why) == IF ls.err = "" /\ ~ok THEN LexError(ls, why) ELSE ls
HexaDigitNext(ls) == EscCheck(SaveAndNext(ls), IsXDigit(Cur(Skip(ls))), "hexadecimal digit expected")
\* 'x' is current; two digits follow
HexaEsc(ls) ==
    LET a == HexaDigitNext(ls)
        b == HexaDigitNext(a)
        c == HexaValue(Cur(a)) * 16 + HexaValue(Cur(b))
    IN  IF a.err # "" THEN a ELSE IF b.err # "" THEN b
        ELSE Save(BuffRemove(Skip(b), 3), c)

RECURSIVE Utf8Digits(_, _, _)
Utf8Digits(ls, r, i) ==
    LET a == SaveAndNext(ls) IN
    IF ls.err # "" THEN ls
    ELSE IF IsXDigit(Cur(a))
    THEN IF r > 134217727 THEN LexError(a, "UTF-8 value too large") ELSE Utf8Digits(a, r * 16 + HexaValue(Cur(a)), i + 1)
    ELSE IF Cur(a) # 125 THEN LexError(a, "missing '}'")
    ELSE [BuffRemove(Skip(a), i) EXCEPT !.buff = @ \o Utf8Esc(r)]
Utf8Escape(ls) ==
    LET a == EscCheck(SaveAndNext(ls), Cur(Skip(ls)) = 123, "missing '{'")
        b == HexaDigitNext(a)
    IN  IF a.err # "" THEN a ELSE IF b.err # "" THEN b ELSE Utf8Digits(b, HexaValue(Cur(b)), 4)

RECURSIVE DecDigits(_, _, _)
DecDigits(ls, r, i) ==
    IF i < 3 /\ IsDigit(Cur(ls)) THEN DecDigits(SaveAndNext(ls), 10 * r + Cur(ls) - 48, i + 1)
    ELSE IF r > 255 THEN LexError(ls, "decimal escape too large")
    ELSE Save(BuffRemove(ls, i + 1), r)

RECURSIVE Zap(_)
Zap(ls) == IF ls.err = "" /\ IsSpace(Cur(ls)) THEN Zap(IF IsNewline(Cur(ls)) THEN IncLineNumber(ls) ELSE Skip(ls)) ELSE ls
Simple == [c \in {97, 98, 102, 110, 114, 116, 118, Backslash, DQuote, SQuote} |->
              CASE c = 97 -> 7 [] c = 98 -> 8 [] c = 102 -> 12 [] c = 110 -> LF [] c = 114 -> CR
                [] c = 116 -> 9 [] c = 118 -> 11 [] OTHER -> c]
\* the backslash is in the buffer and the character after it is current
Escape(ls) ==
    LET c == Cur(ls) IN
    CASE c \in DOMAIN Simple -> Save(BuffRemove(Skip(ls), 1), Simple[c])
      [] c = 120 -> HexaEsc(ls)
      [] c = 117 -> Utf8Escape(ls)
      [] IsNewline(c) -> Save(BuffRemove(IncLineNumber(ls), 1), LF)
      [] c = EOZ -> ls
      [] c = 122 -> Zap(Skip(BuffRemove(ls, 1)))
      [] IsDigit(c) -> DecDigits(ls, 0, 0)
      [] OTHER -> LexError(ls, "invalid escape sequence")
RECURSIVE StringRest(_, _)
StringRest(ls, del) ==
    LET c == Cur(ls) IN
    CASE ls.err # "" -> ls
      [] ls.err = "" /\ c = del -> Returns(ls, "string", Tail(ls.buff))
      [] ls.err = "" /\ c # del /\ c \in {EOZ, LF, CR} -> LexError(ls, "unfinished string")
      [] ls.err = "" /\ c # del /\ c = Backslash -> StringRest(Escape(SaveAndNext(ls)), del)
      [] OTHER -> StringRest(SaveAndNext(ls), del)
ReadString(ls) == LET s == StringRest(SaveAndNext(ls), Cur(ls)) IN IF s.err # "" THEN s ELSE Skip(s)

(***************************************************************************)
(* llex: the next token.                                                   *)
(***************************************************************************)
RECURSIVE LLex(_), ToEndOfLine(_), ReadName(_)
ToEndOfLine(ls) == IF IsNewline(Cur(ls)) \/ Cur(ls) = EOZ THEN ls ELSE ToEndOfLine(Skip(ls))
AfterLongComment(ls) == IF ls.err # "" THEN ls ELSE LLex(ResetBuffer(ls))
LongComment(ls, after) ==
    IF Sep(ls, after) >= 2 THEN AfterLongComment(ReadLongString(ResetBuffer(after), Sep(ls, after), FALSE))
    ELSE LLex(ToEndOfLine(ResetBuffer(after)))
Comment(ls) == IF Cur(ls) = LBracket THEN LongComment(ls, SkipSep(ls)) ELSE LLex(ToEndOfLine(ls))
LongString(s, sep) ==
    IF s.err # "" THEN s ELSE Returns(s, "string", SubSeq(s.buff, sep + 1, Len(s.buff) - sep))
Bracket(ls, after) ==
    IF Sep(ls, after) >= 2 THEN LongString(ReadLongString(after, Sep(ls, after), TRUE), Sep(ls, after))
    ELSE IF Sep(ls, after) = 0 THEN LexError(after, "invalid long string delimiter")
    ELSE Returns(after, "op", <<LBracket>>)
\* '=', '<', '>', '/', '~' and ':' with the second characters that make another token of them
Second == [c \in {Equals, 60, 62, 47, 126, 58} |->
              CASE c = 60 -> {Equals, 60} [] c = 62 -> {Equals, 62} [] c = 47 -> {47} [] c = 58 -> {58} [] OTHER -> {Equals}]
Operator(ls, c) ==
    IF Cur(Skip(ls)) \in Second[c] THEN Returns(Skip(Skip(ls)), "op", <<c, Cur(Skip(ls))>>) ELSE Returns(Skip(ls), "op", <<c>>)
Dots(ls) ==
    LET a == SaveAndNext(ls)
        b == Skip(a)
    IN  IF Cur(a) = Dot
        THEN IF Cur(b) = Dot THEN Returns(Skip(b), "op", <<Dot, Dot, Dot>>) ELSE Returns(b, "op", <<Dot, Dot>>)
        ELSE IF IsDigit(Cur(a)) THEN ReadNumeral(a) ELSE Returns(a, "op", <<Dot>>)
ReadName(ls) == IF IsAlnum(Cur(ls)) THEN ReadName(SaveAndNext(ls)) ELSE Returns(ls, "name", ls.buff)
LLex(ls) ==
    LET c == Cur(ls) IN
    CASE ls.err # "" -> ls
      [] ls.err = "" /\ IsNewline(c) -> LLex(IncLineNumber(ls))
      [] ls.err = "" /\ c \in {Space, 9, 11, 12} -> LLex(Skip(ls))
      [] ls.err = "" /\ c = Minus -> IF Cur(Skip(ls)) = Minus THEN Comment(Skip(Skip(ls))) ELSE Returns(Skip(ls), "op", <<Minus>>)
      [] ls.err = "" /\ c = LBracket -> Bracket(ls, SkipSep(ls))
      [] ls.err = "" /\ c \in DOMAIN Second -> Operator(ls, c)
      [] ls.err = "" /\ c \in {DQuote, SQuote} -> ReadString(ls)
      [] ls.err = "" /\ c = Dot -> Dots(ls)
      [] ls.err = "" /\ IsDigit(c) -> ReadNumeral(ls)
      [] ls.err = "" /\ c = EOZ -> [ls EXCEPT !.t = EOS]
      [] ls.err = "" /\ IsAlpha(c) -> ReadName(ls)
      [] OTHER -> Returns(Skip(ls), "op", <<c>>)

\* luaX_next and luaX_lookahead
NextToken(ls) ==
    LET l == [ls EXCEPT !.lastline = ls.linenumber] IN
    IF ls.lookahead # EOS THEN [l EXCEPT !.t = ls.lookahead, !.lookahead = EOS] ELSE LLex(ResetBuffer(l))
LookAhead(ls) == LET a == LLex(ResetBuffer(ls)) IN [a EXCEPT !.t = ls.t, !.lookahead = a.t]

\* a whole text: its tokens and the state at its end; 'peek' is the number of
\* the token after which the parser looks ahead, 0 for none
RECURSIVE TokensFrom(_, _, _)
Peeked(ls, n, peek) == IF n = peek /\ ls.err = "" /\ ls.t # EOS THEN LookAhead(ls) ELSE ls
AndMore(ls, toks, peek) ==
    IF ls.err # "" \/ ls.t = EOS THEN [toks |-> toks, ls |-> ls]
    ELSE TokensFrom(Peeked(ls, Len(toks) + 1, peek), Append(toks, ls.t), peek)
TokensFrom(ls, toks, peek) == IF ls.err # "" THEN [toks |-> toks, ls |-> ls] ELSE AndMore(NextToken(ls), toks, peek)
Tokens(src, peek) == TokensFrom(SetInput(src), <<>>, peek)

(***************************************************************************)
(* addquoted.                                                              *)
(***************************************************************************)
IsCntrl(c) == c < 32 \/ c = 127
DecimalText(n, width) ==
    LET d == IF n >= 100 THEN <<n \div 100, (n \div 10) % 10, n % 10>> ELSE IF n >= 10 THEN <<n \div 10, n % 10>> ELSE <<n>>
        padded == IF Len(d) < width THEN [i \in 1..width |-> IF i <= width - Len(d) THEN 0 ELSE d[i - (width - Len(d))]] ELSE d
    IN  [i \in 1..Len(padded) |-> padded[i] + 48]
QuoteChar(s, i) ==
    IF s[i] \in {DQuote, Backslash, LF} THEN <<Backslash, s[i]>>
    ELSE IF IsCntrl(s[i]) THEN <<Backslash>> \o DecimalText(s[i], IF IsDigit(ByteAt(s, i + 1)) THEN 3 ELSE 1)
    ELSE <<s[i]>>
AddQuoted(s) == <<DQuote>> \o FlattenSeq([i \in 1..Len(s) |-> QuoteChar(s, i)]) \o <<DQuote>>
=============================================================================
