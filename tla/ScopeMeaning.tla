---------------------------- MODULE ScopeMeaning ----------------------------
(***************************************************************************)
(* What a program of Scopes means, by the manual's rules of visibility     *)
(* (3.3 and 3.5, with one exception for labels, see LabelsAsDocumented)    *)
(* and with no registers, and the properties that compare the compiled     *)
(* code with it.                                                           *)
(*                                                                         *)
(* A source src is the tokens t with the blocks that enclose each: enc[p]  *)
(* holds the positions of their openers; 0 stands for the whole chunk.     *)
(***************************************************************************)
EXTENDS ScopeRun

Openers == {"func", "localfunc", "do", "while", "repeat", "fornum", "forin", "if"}
Functions0 == {"func", "localfunc"}
Loops == {"while", "repeat", "fornum", "forin"}

After(enc, p, k) ==
    CASE k \in Openers -> Append(enc, p)
      [] k = "else" -> Append(Front(enc), p)
      [] k \in {"end", "until"} -> Front(enc)
      [] OTHER -> enc
Source(t) ==
    [t |-> t, enc |-> FoldLeft(LAMBDA e, p : Append(e, After(e[p], p, t[p][1])), << <<>> >>, [p \in DOMAIN t |-> p])]

Positions(src) == DOMAIN src.t
At(src, p) == IF p \in DOMAIN src.t THEN src.t[p][1] ELSE "eos"
Block(src, p) == IF src.enc[p] = <<>> THEN 0 ELSE Last(src.enc[p])
Blocks(src, p) == {0} \cup ToSet(src.enc[p])
CloseOf(src, b) ==
    Min({Len(src.t) + 1} \cup {q \in Positions(src) : b > 0 /\ At(src, q) \in {"end", "until", "else"} /\ Block(src, q) = b})
FuncOf(src, p) == Max({0} \cup {b \in ToSet(src.enc[p]) : At(src, b) \in Functions0})

(***************************************************************************)
(* Scopes: up to the last non-void statement of the block, or through the  *)
(* condition of a repeat.                                                  *)
(***************************************************************************)
Declarations == {"local", "close", "const", "localfunc", "fornum", "forin"}
Decls(src) == {p \in Positions(src) : At(src, p) \in Declarations}
DeclBlock(src, d) == IF At(src, d) \in {"fornum", "forin"} THEN d ELSE Block(src, d)

ScopeEnd(src, d, e) ==
    IF At(src, e) = "until" THEN e ELSE Max({q \in d .. e - 1 : At(src, q) # "label"})
InScopeOf(src, q, d) == d < q /\ q <= ScopeEnd(src, d, CloseOf(src, DeclBlock(src, d)))

\* the declaration a name refers to, or 0
Resolve(src, x, q) == Max({0} \cup {d \in Decls(src) : src.t[d][2] = x /\ InScopeOf(src, q, d)})

(***************************************************************************)
(* Programs that must be rejected.                                         *)
(***************************************************************************)
LabelsFor(src, p, x) ==
    {q \in Positions(src) : src.t[q] = <<"label", x>> /\ FuncOf(src, q) = FuncOf(src, p) /\ Block(src, q) \in Blocks(src, p)}
\* the innermost visible label, or 0
Target(src, p) ==
    LET L == LabelsFor(src, p, src.t[p][2]) IN
    IF L = {} THEN 0 ELSE CHOOSE q \in L : \A r \in L : Len(src.enc[r]) <= Len(src.enc[q])
LoopAround(src, p) ==
    Max({0} \cup {b \in ToSet(src.enc[p]) : At(src, b) \in Loops /\ FuncOf(src, b) = FuncOf(src, p)})

IntoScope(src, p, q) ==
    q # 0 /\ \E d \in Decls(src) : FuncOf(src, d) = FuncOf(src, q) /\ InScopeOf(src, q, d) /\ ~InScopeOf(src, p, d)
Ended(src, p) == FuncOf(src, p) = 0 \/ CloseOf(src, FuncOf(src, p)) <= Len(src.t)

IllegalJump(src, p) ==
    \/ At(src, p) = "goto" /\ (IntoScope(src, p, Target(src, p)) \/ (Target(src, p) = 0 /\ Ended(src, p)))
    \/ At(src, p) = "break" /\ LoopAround(src, p) = 0 /\ Ended(src, p)
IllegalSet(src, p) ==
    At(src, p) = "set" /\ Resolve(src, src.t[p][2], p) # 0 /\ At(src, Resolve(src, src.t[p][2], p)) \in {"const", "close"}
\* the visible labels of the same name as the one at p
SameLabels(src, p) == IF At(src, p) = "label" THEN LabelsFor(src, p, src.t[p][2]) \ {p} ELSE {}
\* what checkrepeated takes for a repeated label: the other one comes first.  It is less
\* than what the manual forbids, see LabelsAsDocumented
RepeatedLabel(src, p) == \E q \in SameLabels(src, p) : q < p
Illegal(src) == \E p \in Positions(src) : IllegalJump(src, p) \/ IllegalSet(src, p) \/ RepeatedLabel(src, p)

(***************************************************************************)
(* Running the source: a call is at position p, its variables are cells,   *)
(* again says that it is at its statement for the second time.            *)
(***************************************************************************)
Call(p, env) == [p |-> p, env |-> env, tbc |-> <<>>, again |-> FALSE]
Begin(src) ==
    [src |-> src, fr |-> <<Call(1, [p \in Positions(src) |-> 0])>>, cells |-> <<>>, f |-> Plain(0), fresh |-> 1,
     ev |-> <<>>, choices |-> 0, idle |-> 0, over |-> FALSE]

Fr(c) == c.fr[Len(c.fr)]
Here0(c) == Fr(c).p
Word(c) == At(c.src, Here0(c))

TbcLives(src, q, d) ==
    IF At(src, d) = "forin" THEN d <= q /\ q <= CloseOf(src, d) ELSE InScopeOf(src, q, d)
RECURSIVE MoveTo(_, _)
MoveTo(c, q) ==
    LET tbc == Fr(c).tbc IN
    IF tbc # <<>> /\ ~TbcLives(c.src, q, Last(tbc)[1])
    THEN MoveTo(Event([c EXCEPT !.fr[Len(c.fr)].tbc = Front(@)], <<"close", Shown(Last(tbc)[2])>>), q)
    ELSE [c EXCEPT !.fr[Len(c.fr)].p = q, !.fr[Len(c.fr)].again = FALSE]
Onward(c) == MoveTo(c, Here0(c) + 1)
Past(c) == MoveTo(c, CloseOf(c.src, Here0(c)) + 1)
Again(c) == [c EXCEPT !.fr[Len(c.fr)].again = TRUE]

Fresh(c) == [c EXCEPT !.fresh = @ + 1]
\* a new variable for the declaration
Bind(c, d, v) == [c EXCEPT !.cells = Append(@, v), !.fr[Len(c.fr)].env[d] = Len(c.cells) + 1]
Declare(c) == Fresh(Bind(c, Here0(c), Plain(c.fresh)))
ToClose(c) == [c EXCEPT !.fr[Len(c.fr)].tbc = Append(@, <<Here0(c), Plain(c.fresh)>>)]

Lambda(c) == [fn |-> TRUE, id |-> Here0(c), env |-> Fr(c).env]
LocalLambda(c) == LET b == Bind(c, Here0(c), Plain(0)) IN [b EXCEPT !.cells[Len(b.cells)] = Lambda(b)]

Name(c) == c.src.t[Here0(c)][2]
Referent(c) == Resolve(c.src, Name(c), Here0(c))
Value(c, d) ==
    IF d = 0 THEN IF Name(c) = "f" THEN c.f ELSE Plain(0)
    ELSE IF At(c.src, d) = "const" THEN Plain(-1) ELSE c.cells[Fr(c).env[d]]
Use(c) == Event(c, <<"use", Shown(Value(c, Referent(c)))>>)
SetTo(c, d) == Fresh(IF d = 0 THEN Event(c, <<"set", Name(c)>>) ELSE [c EXCEPT !.cells[Fr(c).env[d]] = Plain(c.fresh)])

Return(c) ==
    LET closed == MoveTo([c EXCEPT !.fr[Len(c.fr)].p = 0], 0) IN
    IF Len(c.fr) = 1 THEN [Event(closed, <<"end">>) EXCEPT !.over = TRUE]
    ELSE [closed EXCEPT !.fr = Front(@)]
Apply(c, v) ==
    LET called == Event(Again(c), <<"call", Shown(v)>>)
    IN  IF IsClosure(v) THEN [called EXCEPT !.fr = Append(@, Call(v.id + 1, v.env))] ELSE called

AtEnd(c) ==
    LET b == Block(c.src, Here0(c)) IN
    CASE At(c.src, b) \in Functions0 -> Return(c)
      [] At(c.src, b) = "while" -> MoveTo(c, b)
      [] At(c.src, b) \in {"fornum", "forin"} -> Again(MoveTo(c, b))
      [] OTHER -> Onward(c)

\* at a place where a condition is evaluated, its outcome is b
Asks(c) ==
    \/ Word(c) \in {"while", "if"}
    \/ Word(c) \in {"fornum", "forin", "until"} /\ Fr(c).again
Answer(c, b) == [Event(c, <<"choice", b>>) EXCEPT !.choices = @ + 1]
Branch(c, b) ==
    CASE Word(c) = "until" -> IF b THEN Onward(c) ELSE MoveTo(c, Block(c.src, Here0(c)) + 1)
      [] Word(c) \in {"fornum", "forin"} -> IF b THEN Onward(Declare(c)) ELSE Past(c)
      [] OTHER -> IF b THEN Onward(c) ELSE Past(c)

Statement(c) ==
    CASE Word(c) = "local" -> Onward(Declare(c))
      [] Word(c) = "close" -> Onward(Declare(ToClose(c)))
      [] Word(c) = "localfunc" -> Past(LocalLambda(c))
      [] Word(c) = "func" -> Past([c EXCEPT !.f = Lambda(c)])
      [] Word(c) = "use" -> Onward(Use(c))
      [] Word(c) = "until" -> Again(Use(c))
      [] Word(c) = "set" -> Onward(SetTo(c, Referent(c)))
      [] Word(c) = "call" -> IF Fr(c).again THEN Onward(c) ELSE Apply(c, Value(c, Referent(c)))
      [] Word(c) = "returncall" -> IF Fr(c).again THEN Return(c) ELSE Apply(c, Value(c, Referent(c)))
      [] Word(c) \in {"return", "eos"} -> Return(c)
      [] Word(c) = "goto" -> MoveTo(c, Target(c.src, Here0(c)))
      [] Word(c) = "break" -> MoveTo(c, CloseOf(c.src, LoopAround(c.src, Here0(c))) + 1)
      [] Word(c) = "fornum" -> Again(Fresh(c))
      [] Word(c) = "forin" -> Again(Fresh(ToClose(c)))
      [] Word(c) = "else" -> Past(c)
      [] Word(c) = "end" -> AtEnd(c)
      [] Word(c) \in {"const", "do", "repeat", "label"} -> Onward(c)

Halted(c) ==
    c.over \/ Len(c.ev) >= MaxEvents \/ c.idle > MaxIdle \/ (Asks(c) /\ c.choices = MaxChoices)

RECURSIVE SourceRuns(_)
SourceRuns(c) ==
    IF Halted(c) THEN {SubSeq(c.ev, 1, Min({Len(c.ev), MaxEvents}))}
    ELSE IF Asks(c) THEN UNION {SourceRuns(Branch(Answer(c, b), b)) : b \in BOOLEAN}
    ELSE SourceRuns(Statement([c EXCEPT !.idle = @ + 1]))

(***************************************************************************)
(* Properties.                                                             *)
(***************************************************************************)
\* The code shows what the source says, for every outcome of the conditions:
\* each use, each call and each closing method gets the value of the variable
\* that the rules of visibility name, however blocks are left (end, break, goto,
\* return, repetition), whoever shares the variable; and the assertions of the
\* virtual machine hold on the way.
RunsAsWritten ==
    ls.done /\ Err(ls) = "" =>
        \A src \in {Source(toks)} : Runs(Machine(ls.protos)) = SourceRuns(Begin(src))

\* A program is rejected exactly when it jumps into the scope of a variable, to no
\* visible label or out of no loop, assigns a constant, or repeats a visible label that
\* is before it in the text (not one that comes after it: that is checkrepeated's rule
\* and not the manual's); and the assertions of the parser never fail.
RejectsWhatItMust ==
    /\ Fs(ls).ok
    /\ \A src \in {Source(toks)} :
          /\ Err(ls) # "" => Illegal(src)
          /\ ls.done /\ Err(ls) = "" => ~Illegal(src)

\* The manual (3.5) says of labels: "A label is visible in the entire block where it is
\* defined" and "A label should not be declared where a label with the same name is
\* visible, even if this other label has been declared in an enclosing block".
LabelsAsDocumented ==
    ls.done /\ Err(ls) = "" =>
        \A src \in {Source(toks)} : \A p \in Positions(src) : SameLabels(src, p) = {}

\* luaF_getlocalname
LocalName(locvars, n, pc) ==
    LET started == SelectInSeq(locvars, LAMBDA v : v.startpc > pc)
        active == SelectSeq(IF started = 0 THEN locvars ELSE SubSeq(locvars, 1, started - 1), LAMBDA v : pc < v.endpc)
    IN  IF n <= Len(active) THEN active[n].name ELSE "?"

\* Wherever the code reads a local variable, the debug information names that
\* variable for its register (luaF_getlocalname counts the active ones in order).
LocalNamesRight ==
    ls.done /\ Err(ls) = "" =>
        \A p \in ToSet(ls.protos) : \A pc \in DOMAIN p.code :
            p.code[pc][1] = "GET" /\ p.code[pc][3] = "local" =>
                LocalName(p.locvars, p.code[pc][4] + 1, pc) = p.code[pc][5]
=============================================================================
