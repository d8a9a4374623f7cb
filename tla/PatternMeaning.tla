--------------------------- MODULE PatternMeaning ---------------------------
(***************************************************************************)
(* What a pattern means, from its items and not from its text: an item has *)
(* ways to go on from a position, in the order in which they are tried;    *)
(* the match is the first way through all items.                           *)
(***************************************************************************)
EXTENDS LuaPattern, FiniteSets

Alphabet == {"a", "b", "1"}

\* single characters out of 'set', between min and max times
Class(text, set, min, max, greedy) ==
    [kind |-> "class", text |-> text, set |-> set, min |-> min, max |-> max, greedy |-> greedy]
Special(kind, text) == [kind |-> kind, text |-> text]
Balanced(x, y) == [kind |-> "balanced", text |-> <<Esc, "b", x, y>>, x |-> x, y |-> y]
Border(text, set) == [kind |-> "frontier", text |-> <<Esc, "f">> \o text, set |-> set]
BackTo(n) == [kind |-> "back", text |-> <<Esc, IF n = 1 THEN "1" ELSE "2">>, n |-> n]

Written(items) == FlattenSeq([k \in 1..Len(items) |-> items[k].text])

Err == [err |-> TRUE]
IsErr(w) == "err" \in DOMAIN w
Open == -1
Position == -2
OpenOnes(caps) == {c \in DOMAIN caps : caps[c].upto = Open}
LastOpen(caps) == CHOOSE c \in OpenOnes(caps) : \A d \in OpenOnes(caps) : d <= c
TextOf(src, c) == SubSeq(src, c.from, c.upto - 1)
Occurs(x, src, from, upto) == Len(SelectSeq(SubSeq(src, from, upto), LAMBDA c : c = x))
BalancedEnds(src, i, x, y) ==
    {j \in i..Len(src) : src[i] = x /\ j > i /\ Occurs(x, src, i, j) = Occurs(y, src, i, j)}
Least(S) == CHOOSE x \in S : \A y \in S : x <= y

\* the positions an item leads to, in order
Repeats(item, src, i) == {n \in item.min..item.max : i + n <= Len(src) + 1 /\ \A k \in 0..(n - 1) : src[i + k] \in item.set}
AtMostOne(S) == IF S = {} THEN <<>> ELSE <<CHOOSE x \in S : TRUE>>
\* the ends of the repetitions, which are a range of numbers, in the order in which they are tried
EndsOf(item, src, i) ==
    LET R == Repeats(item, src, i) IN
    IF R = {} THEN <<>>
    ELSE [k \in 1..Cardinality(R) |-> i + IF item.greedy THEN item.min + Cardinality(R) - k ELSE item.min + k - 1]

RECURSIVE Ways(_, _, _, _)
Each(items, src, ends, caps) == FlattenSeq([n \in DOMAIN ends |-> Ways(Tail(items), src, ends[n], caps)])
Ways(items, src, i, caps) ==
    IF items = <<>> THEN << [err |-> OpenOnes(caps) # {}, upto |-> i, caps |-> caps] >>
    ELSE LET it == Head(items)
             go(S) == Each(items, src, AtMostOne(S), caps)
             with(c) == Ways(Tail(items), src, i, c)
             fails == << [err |-> TRUE] >>
         IN  CASE it.kind = "class" ->
                    Each(items, src, EndsOf(it, src, i), caps)
               [] it.kind = "open" ->
                    IF Len(caps) = MaxCaptures THEN fails ELSE with(Append(caps, [from |-> i, upto |-> Open]))
               [] it.kind = "position" ->
                    IF Len(caps) = MaxCaptures THEN fails ELSE with(Append(caps, [from |-> i, upto |-> Position]))
               [] it.kind = "close" ->
                    IF OpenOnes(caps) = {} THEN fails ELSE with([caps EXCEPT ![LastOpen(caps)].upto = i])
               [] it.kind = "back" ->
                    IF it.n \notin DOMAIN caps \/ it.n \in OpenOnes(caps) THEN fails
                    ELSE go({j \in i..(Len(src) + 1) :
                                caps[it.n].upto # Position /\ SubSeq(src, i, j - 1) = TextOf(src, caps[it.n])})
               [] it.kind = "balanced" ->
                    go(IF i \notin DOMAIN src \/ BalancedEnds(src, i, it.x, it.y) = {} THEN {}
                       ELSE {Least(BalancedEnds(src, i, it.x, it.y)) + 1})
               [] it.kind = "frontier" ->
                    go(IF Char(src, i - 1) \notin it.set /\ Char(src, i) \in it.set THEN {i} ELSE {})
               [] it.kind = "end" ->
                    go(IF Len(items) > 1 THEN {} ELSE {Len(src) + 1} \cap {i})

\* the result of a match that starts at i
Capture(c) ==
    IF c.upto = Position THEN [kind |-> "position", at |-> c.from] ELSE Text(c.from, c.upto)
At(items, src, i) ==
    LET ways == Ways(items, src, i, <<>>) IN
    IF ways = <<>> THEN NoMatch
    ELSE IF ways[1].err THEN [kind |-> "error"]
    ELSE [kind |-> "match", from |-> i, upto |-> ways[1].upto,
          captures |-> IF ways[1].caps = <<>> THEN <<Text(i, ways[1].upto)>>
                       ELSE [c \in DOMAIN ways[1].caps |-> Capture(ways[1].caps[c])]]
\* the first position from 'init' on where there is one, or an error
FirstMatch(items, src, anchored, init) ==
    LET starts == {i \in init..(IF anchored THEN init ELSE Len(src) + 1) : At(items, src, i) # NoMatch} IN
    IF starts = {} \/ init > Len(src) + 1 THEN NoMatch ELSE At(items, src, Least(starts))
=============================================================================
