----------------------------- MODULE LuaPattern -----------------------------
(***************************************************************************)
(* The pattern matcher of lstrlib.c: match with its backtracking over one  *)
(* MatchState, and find, match, gmatch and gsub on top of it.              *)
(*                                                                         *)
(* A string is a sequence of characters, a pointer into it an index; the   *)
(* index past its end reads the terminating NUL.  A null pointer is 0.     *)
(***************************************************************************)
EXTENDS Integers, Sequences, SequencesExt

CONSTANTS MaxCCalls,    \* MAXCCALLS: nested calls of 'match'
          MaxCaptures   \* LUA_MAXCAPTURES

Null == 0
CAP_UNFINISHED == -1
CAP_POSITION == -2
NUL == "NUL"
Esc == "%"

Char(str, i) == IF i \in DOMAIN str THEN str[i] ELSE NUL
End(str) == Len(str) + 1
Code(c) == SelectInSeq(<<"$", "%", "(", ")", "1", "A", "a", "b">>, LAMBDA x : x = c)
IsAlpha(c) == c \in {"A", "a", "b"}
IsDigit(c) == c = "1"

\* prepstate
PrepState(src, pat) ==
    [src |-> src, pat |-> pat, level |-> 0, depth |-> MaxCCalls, err |-> "",
     capture |-> [l \in 1..MaxCaptures |-> [init |-> 1, len |-> 0]]]
Found(ms, s) == [ms |-> ms, s |-> s]
Failed(ms) == Found(ms, Null)
Raise(ms, e) == Failed([ms EXCEPT !.err = e])

(***************************************************************************)
(* Single characters and classes.                                          *)
(***************************************************************************)
MatchClass(c, cl) ==
    CASE cl = "a" -> IsAlpha(c)
      [] cl = "A" -> ~IsAlpha(c)
      [] cl = "d" -> IsDigit(c)
      [] cl = "D" -> ~IsDigit(c)
      [] OTHER -> cl = c

\* where the class at 'p' ends; Null when the pattern is malformed
RECURSIVE BracketEnd(_, _)
BracketEnd(pat, p) ==
    IF p = End(pat) THEN Null
    ELSE LET next == IF pat[p] = Esc /\ p + 1 < End(pat) THEN p + 2 ELSE p + 1 IN
         IF Char(pat, next) = "]" THEN next + 1 ELSE BracketEnd(pat, next)
ClassEnd(pat, p) ==
    CASE pat[p] = Esc -> IF p + 1 = End(pat) THEN Null ELSE p + 2
      [] pat[p] = "[" -> BracketEnd(pat, IF Char(pat, p + 1) = "^" THEN p + 2 ELSE p + 1)
      [] OTHER -> p + 1

\* is 'c' one of the members that 'p' up to 'ec', the closing bracket, lists?
RECURSIVE Listed(_, _, _, _)
Listed(c, pat, p, ec) ==
    /\ p < ec
    /\ IF pat[p] = Esc THEN MatchClass(c, pat[p + 1]) \/ Listed(c, pat, p + 2, ec)
       ELSE IF Char(pat, p + 1) = "-" /\ p + 2 < ec
       THEN (Code(pat[p]) <= Code(c) /\ Code(c) <= Code(pat[p + 2])) \/ Listed(c, pat, p + 3, ec)
       ELSE pat[p] = c \/ Listed(c, pat, p + 1, ec)
MatchBracketClass(c, pat, p, ec) ==
    IF Char(pat, p + 1) = "^" THEN ~Listed(c, pat, p + 2, ec) ELSE Listed(c, pat, p + 1, ec)

SingleMatch(ms, s, p, ep) ==
    /\ s < End(ms.src)
    /\ CASE ms.pat[p] = "." -> TRUE
         [] ms.pat[p] = Esc -> MatchClass(ms.src[s], ms.pat[p + 1])
         [] ms.pat[p] = "[" -> MatchBracketClass(ms.src[s], ms.pat, p, ep - 1)
         [] OTHER -> ms.pat[p] = ms.src[s]

RECURSIVE Balance(_, _, _, _, _)
Balance(src, s, b, e, cont) ==
    IF s >= End(src) THEN Null
    ELSE IF src[s] = e THEN IF cont = 1 THEN s + 1 ELSE Balance(src, s + 1, b, e, cont - 1)
    ELSE Balance(src, s + 1, b, e, IF src[s] = b THEN cont + 1 ELSE cont)
MatchBalance(ms, s, p) ==
    IF p >= Len(ms.pat) THEN Raise(ms, "missing arguments")
    ELSE IF Char(ms.src, s) # ms.pat[p] THEN Failed(ms)
    ELSE Found(ms, Balance(ms.src, s + 1, ms.pat[p], ms.pat[p + 1], 1))

(***************************************************************************)
(* Captures.                                                               *)
(***************************************************************************)
CaptureToClose(ms) ==
    LET open == {l \in 1..ms.level : ms.capture[l].len = CAP_UNFINISHED} IN
    IF open = {} THEN Null ELSE CHOOSE l \in open : \A o \in open : o <= l
CheckCapture(ms, l) == l \in 1..ms.level /\ ms.capture[l].len # CAP_UNFINISHED

\* a position capture has no text: its length is too large to match
MatchCapture(ms, s, l) ==
    IF ~CheckCapture(ms, l) THEN Raise(ms, "invalid capture index")
    ELSE LET len == ms.capture[l].len
             init == ms.capture[l].init
         IN  IF /\ len # CAP_POSITION /\ End(ms.src) - s >= len
                /\ \A i \in 0..(len - 1) : ms.src[init + i] = ms.src[s + i]
             THEN Found(ms, s + len) ELSE Failed(ms)

(***************************************************************************)
(* match.                                                                  *)
(***************************************************************************)
RECURSIVE Match(_, _, _), DoMatch(_, _, _), Shrink(_, _, _, _), Lengthen(_, _, _, _), Reach(_, _, _, _)
Ended(r) == r.s # Null \/ r.ms.err # ""

UndoStart(r) == IF r.s = Null THEN [r EXCEPT !.ms.level = @ - 1] ELSE r
StartCapture(ms, s, p, what) ==
    IF ms.level >= MaxCaptures THEN Raise(ms, "too many captures")
    ELSE UndoStart(Match([ms EXCEPT !.capture[ms.level + 1] = [init |-> s, len |-> what], !.level = @ + 1], s, p))

\* mutant: the capture stays closed when the rest does not match
EndCaptureStays(ms, s, p) ==
    LET l == CaptureToClose(ms) IN
    IF l = Null THEN Raise(ms, "invalid pattern capture")
    ELSE Match([ms EXCEPT !.capture[l].len = s - ms.capture[l].init], s, p)
UndoEnd(r, l) == IF r.s = Null THEN [r EXCEPT !.ms.capture[l].len = CAP_UNFINISHED] ELSE r
EndCapture(ms, s, p) ==
    LET l == CaptureToClose(ms) IN
    IF l = Null THEN Raise(ms, "invalid pattern capture")
    ELSE UndoEnd(Match([ms EXCEPT !.capture[l].len = s - ms.capture[l].init], s, p), l)

\* max_expand: how far the item goes; then one repetition less until the rest matches
Reach(ms, s, p, ep) == IF SingleMatch(ms, s, p, ep) THEN Reach(ms, s + 1, p, ep) ELSE s
Shorter(r, s, low, p) == IF Ended(r) \/ s = low THEN r ELSE Shrink(r.ms, s - 1, low, p)
Shrink(ms, s, low, p) == Shorter(Match(ms, s, p), s, low, p)
MaxExpand(ms, s, p, ep) == Shrink(ms, Reach(ms, s, p, ep), s, ep + 1)
\* min_expand: one repetition more until the rest matches
Lengthen(r, s, p, ep) ==
    IF Ended(r) \/ ~SingleMatch(r.ms, s, p, ep) THEN r ELSE Lengthen(Match(r.ms, s + 1, ep + 1), s + 1, p, ep)
MinExpand(ms, s, p, ep) == Lengthen(Match(ms, s, ep + 1), s, p, ep)

Then(r, p) == IF r.s = Null THEN r ELSE DoMatch(r.ms, r.s, p)

OrWithout(r, s, ep) == IF Ended(r) THEN r ELSE DoMatch(r.ms, s, ep + 1)
Optional(ms, s, ep) == OrWithout(Match(ms, s + 1, ep + 1), s, ep)
Default(ms, s, p) ==
    LET ep == ClassEnd(ms.pat, p)
        suffix == Char(ms.pat, ep)
    IN  IF ep = Null THEN Raise(ms, "malformed pattern")
        ELSE IF ~SingleMatch(ms, s, p, ep)
        THEN IF suffix \in {"*", "?", "-"} THEN DoMatch(ms, s, ep + 1) ELSE Failed(ms)
        ELSE CASE suffix = "?" -> Optional(ms, s, ep)
               [] suffix \in {"+", "*"} -> MaxExpand(ms, IF suffix = "+" THEN s + 1 ELSE s, p, ep)
               [] suffix = "-" -> MinExpand(ms, s, p, ep)
               [] OTHER -> DoMatch(ms, s + 1, ep)
Frontier(ms, s, p) ==
    LET ep == ClassEnd(ms.pat, p) IN
    IF Char(ms.pat, p) # "[" THEN Raise(ms, "missing '['")
    ELSE IF ep = Null THEN Raise(ms, "malformed pattern")
    ELSE IF /\ ~MatchBracketClass(Char(ms.src, s - 1), ms.pat, p, ep - 1)
            /\ MatchBracketClass(Char(ms.src, s), ms.pat, p, ep - 1)
    THEN DoMatch(ms, s, ep) ELSE Failed(ms)
DoMatch(ms, s, p) ==
    LET c == Char(ms.pat, p)
        d == Char(ms.pat, p + 1)
    IN  CASE p = End(ms.pat) -> Found(ms, s)
          [] c = "(" -> StartCapture(ms, s, IF d = ")" THEN p + 2 ELSE p + 1, IF d = ")" THEN CAP_POSITION ELSE CAP_UNFINISHED)
          [] c = ")" -> EndCapture(ms, s, p + 1)
          [] c = "$" /\ p = Len(ms.pat) -> IF s = End(ms.src) THEN Found(ms, s) ELSE Failed(ms)
          [] c = Esc /\ d = "b" -> Then(MatchBalance(ms, s, p + 2), p + 4)
          [] c = Esc /\ d = "f" -> Frontier(ms, s, p + 2)
          [] c = Esc /\ d \in {"1", "2"} -> Then(MatchCapture(ms, s, IF d = "1" THEN 1 ELSE 2), p + 2)
          [] OTHER -> Default(ms, s, p)
Leave(r) == [r EXCEPT !.ms.depth = @ + 1]
Match(ms, s, p) ==
    IF ms.depth = 0 THEN Raise(ms, "pattern too complex") ELSE Leave(DoMatch([ms EXCEPT !.depth = @ - 1], s, p))

(***************************************************************************)
(* The functions of the library.  A result is an error, no match, or the   *)
(* match with its captures.                                                *)
(***************************************************************************)
Error(e) == [kind |-> "error", what |-> e]
NoMatch == [kind |-> "fail"]

\* get_onecapture: the text from 'init' up to 'upto', or a position
Text(from, upto) == [kind |-> "text", from |-> from, upto |-> upto]
OneCapture(ms, l, s, e) ==
    LET c == ms.capture[l] IN
    IF l > ms.level THEN Text(s, e)
    ELSE IF c.len = CAP_POSITION THEN [kind |-> "position", at |-> c.init]
    ELSE Text(c.init, c.init + c.len)
Unfinished(ms) == \E l \in 1..ms.level : ms.capture[l].len = CAP_UNFINISHED
\* 'whole': without captures, the whole match counts as one
PushCaptures(ms, s, e, whole) ==
    IF Unfinished(ms) THEN Error("unfinished capture")
    ELSE [kind |-> "match", from |-> s, upto |-> e,
          captures |-> [l \in 1..(IF ms.level = 0 /\ whole THEN 1 ELSE ms.level) |-> OneCapture(ms, l, s, e)]]

Specials == {"^", "$", "*", "+", "?", ".", "(", "[", "%", "-"}
NoSpecials(pat) == \A i \in DOMAIN pat : pat[i] \notin Specials
\* lmemfind
MemFind(src, init, pat) ==
    LET at == {i \in init..(End(src) - Len(pat)) : SubSeq(src, i, i + Len(pat) - 1) = pat} IN
    IF at = {} THEN Null ELSE CHOOSE i \in at : \A j \in at : i <= j

\* posrelatI
PosRelatI(pos, len) ==
    CASE pos > 0 -> pos
      [] pos = 0 \/ pos < -len -> 1
      [] OTHER -> len + pos + 1

\* a match at s with no capture open yet
Fresh(ms, s, p) == Match([ms EXCEPT !.level = 0], s, p)

RECURSIVE Scan(_, _, _, _, _)
\* r is the match at s
Scan(r, s, p, anchor, find) ==
    IF r.ms.err # "" THEN Error(r.ms.err)
    ELSE IF r.s # Null THEN PushCaptures(r.ms, s, r.s, ~find)
    ELSE IF s < End(r.ms.src) /\ ~anchor THEN Scan(Fresh(r.ms, s + 1, p), s + 1, p, anchor, find)
    ELSE NoMatch
Anchored(pat) == Char(pat, 1) = "^"
StrFindAux(src, pat, pos, find) ==
    LET init == PosRelatI(pos, Len(src))
        at == MemFind(src, init, pat)
    IN  IF init > End(src) THEN NoMatch
        ELSE IF find /\ NoSpecials(pat)
        THEN IF at = Null THEN NoMatch ELSE PushCaptures(PrepState(src, pat), at, at + Len(pat), FALSE)
        ELSE LET p == IF Anchored(pat) THEN 2 ELSE 1 IN
             Scan(Fresh(PrepState(src, pat), init, p), init, p, Anchored(pat), find)

\* the matches of an iteration of gmatch, in order; an error ends it
RECURSIVE GMatchFrom(_, _, _)
\* gmatch_aux, from the match r at src on
GMatchNext(r, src, lastmatch) ==
    IF r.ms.err # "" THEN <<Error(r.ms.err)>>
    ELSE IF r.s = Null \/ r.s = lastmatch THEN GMatchFrom(r.ms, src + 1, lastmatch)
    ELSE IF Unfinished(r.ms) THEN <<Error("unfinished capture")>>
    ELSE <<PushCaptures(r.ms, src, r.s, TRUE)>> \o GMatchFrom(r.ms, r.s, r.s)
GMatchFrom(ms, src, lastmatch) == IF src > End(ms.src) THEN <<>> ELSE GMatchNext(Fresh(ms, src, 1), src, lastmatch)
GMatch(src, pat) == GMatchFrom(PrepState(src, pat), 1, Null)

\* gsub with the replacement "%0": the text, as the pieces appended to the buffer, and the count
Rest(ms, src) == SubSeq(ms.src, src, Len(ms.src))
Sub(text, n, err) == [text |-> text, n |-> n, err |-> err]
RECURSIVE GSubFrom(_, _, _, _, _, _, _)
\* add_s of the piece, and the loop of str_gsub, from s on; an anchored pattern matches once
AddPiece(r, s, p, last, out, n, max) ==
    IF p = 2 THEN Sub(out \o Rest(r.ms, s), n, "") ELSE GSubFrom(r.ms, s, p, last, out, n, max)
GSubNext(r, src, p, lastmatch, out, n, max) ==
    LET matched == r.s # Null /\ r.s # lastmatch IN
    CASE r.ms.err # "" -> Sub(out, n, r.ms.err)
      [] r.ms.err = "" /\ ~matched /\ src >= End(r.ms.src) -> Sub(out, n, "")
      [] OTHER ->
             AddPiece(r, IF matched THEN r.s ELSE src + 1, p, IF matched THEN r.s ELSE lastmatch,
                      out \o SubSeq(r.ms.src, src, IF matched THEN r.s - 1 ELSE src),
                      IF matched THEN n + 1 ELSE n, max)
GSubFrom(ms, src, p, lastmatch, out, n, max) ==
    IF n >= max THEN Sub(out \o Rest(ms, src), n, "") ELSE GSubNext(Fresh(ms, src, p), src, p, lastmatch, out, n, max)
GSub(src, pat, max) == GSubFrom(PrepState(src, pat), 1, IF Anchored(pat) THEN 2 ELSE 1, Null, <<>>, 0, max)
=============================================================================
