------------------------------- MODULE Scopes -------------------------------
(***************************************************************************)
(* The compiler of blocks, local variables, upvalues, labels and loops     *)
(* (lparser.c), as a machine that reads one statement head at a time.      *)
(*                                                                         *)
(* A token is <<kind, name>>.  Expressions are reduced to what scopes have *)
(* to do with: an initial or assigned value is a new one (NEW), a use      *)
(* loads the variable and shows it, a condition is a test that jumps.      *)
(* Positions count instructions from 1; a jump holds its destination.      *)
(***************************************************************************)
EXTENDS Integers, Sequences, SequencesExt, FiniteSetsExt

CONSTANT Shapes         \* the programs to compile: sequences of sets of words; None in one makes it optional

VARIABLES shape,        \* the shape of the program
          toks,         \* the tokens read
          ls            \* state of the compiler

vars == <<shape, toks, ls>>

(***************************************************************************)
(* A function being compiled.  vars[1 .. n] are the variables created,     *)
(* vars[1 .. nactvar] those in scope; removed ones stay in the array until *)
(* they are overwritten.  "const" is a compile-time constant: no register. *)
(***************************************************************************)
NewFunc(id) ==
    [id |-> id, code |-> <<>>, vars |-> <<>>, n |-> 0, nactvar |-> 0, freereg |-> 0,
     locvars |-> <<>>, ups |-> <<>>, bl |-> <<>>, labels |-> <<>>, gotos |-> <<>>,
     needclose |-> FALSE, err |-> "", ok |-> TRUE]

Here(fs) == Len(fs.code) + 1
Emit(fs, i) == [fs EXCEPT !.code = Append(@, i)]
Patch(fs, pc, dest) == [fs EXCEPT !.code[pc][2] = dest]
Error(fs, what) == [fs EXCEPT !.err = IF @ = "" THEN what ELSE @]

\* registers used by the first n variables
RegLevel(fs, n) ==
    LET inReg == {i \in 1..n : fs.vars[i].kind # "const"}
    IN  IF inReg = {} THEN 0 ELSE fs.vars[Max(inReg)].ridx + 1
NVarStack(fs) == RegLevel(fs, fs.nactvar)

NewLocalVar(fs, name, kind) ==
    [fs EXCEPT !.n = @ + 1,
               !.vars = Append(SubSeq(@, 1, fs.n), [name |-> name, kind |-> kind, ridx |-> 0, pidx |-> 0])]
NewLocalVars(fs, names) == FoldLeft(LAMBDA f, x : NewLocalVar(f, x, "reg"), fs, names)

\* the next k variables created come into scope
InScope(fs, v, k) == [v EXCEPT !.ridx = NVarStack(fs) + k - 1, !.pidx = Len(fs.locvars) + k]
AdjustLocalVars(fs, k) ==
    LET a == fs.nactvar IN
    [fs EXCEPT !.nactvar = a + k,
               !.vars = SubSeq(@, 1, a) \o [i \in 1..k |-> InScope(fs, @[a + i], i)] \o SubSeq(@, a + k + 1, Len(@)),
               !.locvars = @ \o [i \in 1..k |-> [name |-> fs.vars[a + i].name, startpc |-> Here(fs), endpc |-> 0]]]
ReserveRegs(fs, k) == [fs EXCEPT !.freereg = @ + k]

RemoveVarsForgets(fs, tolevel) == [fs EXCEPT !.n = @ - (fs.nactvar - tolevel), !.nactvar = tolevel]
RemoveVars(fs, tolevel) ==
    LET ending == {fs.vars[i].pidx : i \in {j \in tolevel + 1 .. fs.nactvar : fs.vars[j].kind # "const"}} IN
    [fs EXCEPT !.n = @ - (fs.nactvar - tolevel), !.nactvar = tolevel,
               !.locvars = SubSeq([i \in DOMAIN @ |-> IF i \in ending THEN [@[i] EXCEPT !.endpc = Here(fs)] ELSE @[i]],
                                  1, Len(@))]

(***************************************************************************)
(* Resolving a name, through the functions that enclose its use.           *)
(***************************************************************************)
Var(k, i) == [k |-> k, i |-> i]
SearchVar(fs, x) == Max({0} \cup {i \in 1 .. fs.nactvar : fs.vars[i].name = x})
SearchUpvalue(fs, x) == Max({0} \cup {i \in DOMAIN fs.ups : fs.ups[i].name = x})

\* the block of variable i must close it
MarkUpval(fs, i) ==
    [fs EXCEPT !.bl[Max({b \in DOMAIN fs.bl : fs.bl[b].nactvar < i})].upval = TRUE, !.needclose = TRUE]
MarkToBeClosed(fs) ==
    [fs EXCEPT !.bl[Len(fs.bl)].upval = TRUE, !.bl[Len(fs.bl)].insidetbc = TRUE, !.needclose = TRUE]

Upvaldesc(prev, x, v) ==
    IF v.k = "local" THEN [name |-> x, instack |-> TRUE, idx |-> prev.vars[v.i].ridx, kind |-> prev.vars[v.i].kind]
    ELSE [name |-> x, instack |-> FALSE, idx |-> v.i, kind |-> prev.ups[v.i].kind]

\* r: the result of the search in the functions that enclose function d
NewUpvalue(r, d, x) ==
    IF r.v.k \notin {"local", "upval"} THEN r
    ELSE [fss |-> [r.fss EXCEPT ![d].ups = Append(@, Upvaldesc(r.fss[d - 1], x, r.v))],
          v |-> Var("upval", Len(r.fss[d].ups) + 1)]

RECURSIVE SingleVarAux(_, _, _, _)
SingleVarAux(fss, d, x, base) ==
    IF d = 0 THEN [fss |-> fss, v |-> Var("void", 0)]
    ELSE IF SearchVar(fss[d], x) # 0
    THEN LET i == SearchVar(fss[d], x) IN
         IF fss[d].vars[i].kind = "const" THEN [fss |-> fss, v |-> Var("const", i)]
         ELSE [fss |-> IF base THEN fss ELSE [fss EXCEPT ![d] = MarkUpval(@, i)], v |-> Var("local", i)]
    ELSE IF SearchUpvalue(fss[d], x) # 0 THEN [fss |-> fss, v |-> Var("upval", SearchUpvalue(fss[d], x))]
    ELSE NewUpvalue(SingleVarAux(fss, d - 1, x, FALSE), d, x)

ReadOnly(fs, v) ==
    \/ v.k = "const"
    \/ v.k = "local" /\ fs.vars[v.i].kind # "reg"
    \/ v.k = "upval" /\ fs.ups[v.i].kind # "reg"
CheckReadonly(fs, v) == IF ReadOnly(fs, v) THEN Error(fs, "assignment to a constant") ELSE fs

(***************************************************************************)
(* Labels, gotos and blocks.                                               *)
(***************************************************************************)
Bl(fs) == fs.bl[Len(fs.bl)]
Labeldesc(fs, name, pc) == [name |-> name, nactvar |-> fs.nactvar, close |-> FALSE, pc |-> pc]

NewGoto(fs, name, pc) == [fs EXCEPT !.gotos = Append(@, Labeldesc(fs, name, pc))]
FindLabel(fs, name) == {i \in DOMAIN fs.labels : fs.labels[i].name = name}

\* the gotos of the current block that wait for a label
Waiting(fs, name) == {i \in Bl(fs).firstgoto + 1 .. Len(fs.gotos) : fs.gotos[i].name = name}

SolveGotoUnchecked(fs, gt, label) == Patch(fs, gt.pc, label.pc)
SolveGoto(fs, gt, label) ==
    Patch(IF gt.nactvar < label.nactvar THEN Error(fs, "goto into a scope") ELSE fs, gt.pc, label.pc)
SolveGotos(fs, label) ==
    LET mine == Waiting(fs, label.name) IN
    [FoldSet(LAMBDA i, f : SolveGoto(f, fs.gotos[i], label), fs, mine)
        EXCEPT !.gotos = LET rest == SetToSortSeq(DOMAIN fs.gotos \ mine, <)
                         IN  [i \in DOMAIN rest |-> fs.gotos[rest[i]]]]

Place(fs, label) ==
    LET solved == SolveGotos([fs EXCEPT !.labels = Append(@, label)], label) IN
    IF \E i \in Waiting(fs, label.name) : fs.gotos[i].close
    THEN Emit(solved, <<"CLOSE", NVarStack(fs)>>)
    ELSE solved

\* last: only void statements follow in the block, whose locals count as gone
CreateLabel(fs, name, last) ==
    Place(fs, [Labeldesc(fs, name, Here(fs)) EXCEPT !.nactvar = IF last THEN Bl(fs).nactvar ELSE @])

EnterBlock(fs, kind, isloop, start, exit) ==
    [fs EXCEPT !.bl = Append(@,
        [kind |-> kind, isloop |-> isloop, nactvar |-> fs.nactvar, firstlabel |-> Len(fs.labels),
         firstgoto |-> Len(fs.gotos), upval |-> FALSE, insidetbc |-> fs.bl # <<>> /\ Bl(fs).insidetbc,
         start |-> start, exit |-> exit]),
               !.ok = @ /\ fs.freereg = NVarStack(fs)]

\* a goto that leaves the scope of a variable may need a close
MoveOutKeepsOpen(fs, gt, bl) == [gt EXCEPT !.nactvar = bl.nactvar]
MoveOut(fs, gt, bl) ==
    [gt EXCEPT !.close = @ \/ (RegLevel(fs, gt.nactvar) > RegLevel(fs, bl.nactvar) /\ bl.upval),
               !.nactvar = bl.nactvar]
MoveGotosOut(fs, bl) ==
    [fs EXCEPT !.gotos = SubSeq([i \in DOMAIN @ |-> IF i > bl.firstgoto THEN MoveOut(fs, @[i], bl) ELSE @[i]],
                                1, Len(@))]

Left(fs, bl) ==
    [fs EXCEPT !.freereg = RegLevel(fs, bl.nactvar), !.labels = SubSeq(@, 1, bl.firstlabel), !.bl = Front(@)]
Outside(fs, bl) ==
    IF fs.bl # <<>> THEN MoveGotosOut(fs, bl)
    ELSE IF Len(fs.gotos) > bl.firstgoto THEN Error(fs, "no visible label") ELSE fs
Closing(fs, before, bl) ==
    IF Len(fs.code) = before /\ Len(fs.bl) > 1 /\ bl.upval
    THEN Emit(fs, <<"CLOSE", RegLevel(fs, bl.nactvar)>>) ELSE fs
Breaks(fs, bl) == IF bl.isloop THEN CreateLabel(fs, "break", FALSE) ELSE fs
LeaveBlock(fs) ==
    LET bl == Bl(fs) IN
    Outside(Left(Closing(Breaks(RemoveVars(fs, bl.nactvar), bl), Len(fs.code), bl), bl), bl)

(***************************************************************************)
(* The compiler: the functions being compiled, innermost last, those       *)
(* finished, the labels read whose block may be about to end, and what the *)
(* last token restricts ("if": condition read; "return": the block ends).  *)
(***************************************************************************)
Fs(l) == l.fss[Len(l.fss)]
OnFs(l, fs) == [l EXCEPT !.fss[Len(l.fss)] = fs]
Err(l) == Fs(l).err

OpenFunc(l, kind, id) == [l EXCEPT !.fss = Append(@, EnterBlock(NewFunc(id), kind, FALSE, 0, 0))]

\* luaK_finish: a return of a function with upvalues or variables to close closes them
Finished(code, needclose) ==
    [i \in DOMAIN code |-> IF code[i][1] \in {"RETURN", "TAILCALL"} THEN [code[i] EXCEPT ![3] = needclose] ELSE code[i]]
Proto(fs) == [id |-> fs.id, code |-> Finished(fs.code, fs.needclose), ups |-> fs.ups, locvars |-> fs.locvars]

\* the function ends; its error, if any, stays
CloseFunc(l, fs) ==
    [l EXCEPT !.fss = IF Len(@) = 1 \/ fs.err # "" THEN [@ EXCEPT ![Len(@)] = fs]
                      ELSE [Front(@) EXCEPT ![Len(@) - 1].ok = @ /\ fs.ok],
              !.protos = Append(@, Proto(fs))]
EndFunc(l) == CloseFunc(l, LeaveBlock(Emit(Fs(l), <<"RETURN", NVarStack(Fs(l)), FALSE>>)))

Named(l, x) == SingleVarAux(l.fss, Len(l.fss), x, TRUE)
Load(fs, v, r, x) == Emit(fs, <<"GET", r, v.k, IF v.k = "local" THEN fs.vars[v.i].ridx ELSE v.i, x>>)
\* the variable in the next register, then the instruction that takes it there
Take(l, r, x, op) ==
    OnFs([l EXCEPT !.fss = r.fss],
         Emit(Load(r.fss[Len(r.fss)], r.v, Fs(l).freereg, x), <<op, Fs(l).freereg, FALSE>>))

Store(fs, v, x) ==
    IF v.k = "local" THEN Emit(fs, <<"NEW", fs.vars[v.i].ridx, x>>)
    ELSE Emit(Emit(fs, <<"NEW", fs.freereg, "">>), <<"SET", fs.freereg, v.k, v.i, x>>)
Assign(l, r, x) ==
    LET fs == r.fss[Len(r.fss)] IN OnFs([l EXCEPT !.fss = r.fss], Store(CheckReadonly(fs, r.v), r.v, x))

Local(fs, x, kind) ==
    AdjustLocalVars(ReserveRegs(Emit(NewLocalVar(fs, x, kind), <<"NEW", fs.freereg, "">>), 1), 1)
LocalClose(fs) == Emit(MarkToBeClosed(fs), <<"TBC", RegLevel(fs, fs.nactvar - 1)>>)
LocalConst(fs, x) == LET new == NewLocalVar(fs, x, "const") IN [new EXCEPT !.nactvar = @ + 1]

LocalFunc(fs, x) == AdjustLocalVars(NewLocalVar(fs, x, "reg"), 1)
LocalFuncEnd(fs) == [fs EXCEPT !.locvars[fs.vars[fs.nactvar].pidx].startpc = Here(fs)]

Goto(fs, name) ==
    IF FindLabel(fs, name) = {} THEN NewGoto(Emit(fs, <<"JMP", 0>>), name, Here(fs))
    ELSE LET lb == fs.labels[Min(FindLabel(fs, name))]
             level == RegLevel(fs, lb.nactvar)
         IN  Emit(IF NVarStack(fs) > level THEN Emit(fs, <<"CLOSE", level>>) ELSE fs, <<"JMP", lb.pc>>)
Break(fs) == IF Bl(fs).kind = "ifbreak" THEN fs ELSE NewGoto(Emit(fs, <<"JMP", 0>>), "break", Here(fs))

CheckRepeated(fs, name) == IF FindLabel(fs, name) # {} THEN Error(fs, "label repeated") ELSE fs
Label(fs, name, last) == CreateLabel(CheckRepeated(fs, name), name, last)
\* labels in a row are created from the last to the first
Labels(fs, names, last) == FoldRight(LAMBDA x, f : Label(f, x, last), names, fs)

Test(fs, op) == Emit(fs, <<op, 0>>)
While(fs) ==
    LET body == EnterBlock(Test(fs, "TESTF"), "while", TRUE, Here(fs), Here(fs))
    IN  EnterBlock(body, "whilebody", FALSE, 0, 0)
Loop(fs, bl) == LeaveBlock(Emit(fs, <<"JMP", bl.start>>))
PatchToHere(fs, pc) == Patch(fs, pc, Here(fs))
EndWhile(fs) == LET body == LeaveBlock(fs) IN PatchToHere(Loop(body, Bl(body)), Bl(body).exit)

Repeat(fs) == EnterBlock(EnterBlock(fs, "repeat", TRUE, Here(fs), 0), "repeatbody", FALSE, Here(fs), 0)
\* exit, fix, repetition: the latter must close upvalues too
CloseAndRepeat(fs, condexit, bl) ==
    LET fix == Emit(PatchToHere(Emit(fs, <<"JMP", 0>>), condexit), <<"CLOSE", RegLevel(fs, bl.nactvar)>>)
    IN  PatchToHere(Emit(fix, <<"JMP", bl.start>>), Here(fs))
Until(fs) ==
    LET body == LeaveBlock(Test(fs, "TESTF"))
    IN  LeaveBlock(IF Bl(fs).upval THEN CloseAndRepeat(body, Here(fs), Bl(fs)) ELSE Patch(body, Here(fs), Bl(fs).start))

(***************************************************************************)
(* For loops: k hidden variables, then the declared one in its own scope.  *)
(***************************************************************************)
ForState == "(for state)"
ForHead(fs, x, k) ==
    LET hidden == [i \in 1..k |-> ForState]
        made == NewLocalVars(EnterBlock(fs, "for", TRUE, 0, 0), Append(hidden, x))
    IN  AdjustLocalVars(ReserveRegs(Emit(made, <<"NEW", fs.freereg + k - 1, "">>), k), k)
ForScope(fs) == ReserveRegs(AdjustLocalVars(fs, 1), 1)
ForBody(fs, op, base) ==
    EnterBlock(ForScope(EnterBlock(Emit(fs, <<op, 0, base>>), "forscope", FALSE, Here(fs), 0)), "forbody", FALSE, 0, 0)
ForNum(fs, x) == ForBody(ForHead(fs, x, 3), "FORPREP", fs.freereg)
ForIn(fs, x) == ForBody(MarkToBeClosed(ForHead(fs, x, 4)), "TFORPREP", fs.freereg)
ForLoop(fs, prep) ==
    Emit(PatchToHere(fs, prep),
         <<IF fs.code[prep][1] = "FORPREP" THEN "FORLOOP" ELSE "TFORLOOP", prep + 1, fs.code[prep][3]>>)
EndFor(fs) == LET scope == LeaveBlock(fs) IN LeaveBlock(ForLoop(LeaveBlock(scope), Bl(scope).start))

Then(fs) == EnterBlock(Test(fs, "TESTF"), "if", FALSE, 0, Here(fs))
\* 'if c then break': the test itself is the jump of the break
ThenBreak(fs) ==
    LET test == Test(fs, "TESTT") IN NewGoto(EnterBlock(test, "ifbreak", FALSE, 0, 0), "break", Here(fs))
\* something follows the break
SkipThen(fs) == [Emit(fs, <<"JMP", 0>>) EXCEPT !.bl[Len(fs.bl)].kind = "if", !.bl[Len(fs.bl)].exit = Here(fs)]
Else(fs) ==
    LET left == LeaveBlock(fs)
        jump == PatchToHere(Emit(left, <<"JMP", 0>>), Bl(fs).exit)
    IN  IF Bl(fs).kind = "ifbreak" THEN EnterBlock(left, "do", FALSE, 0, 0)
        ELSE EnterBlock(jump, "else", FALSE, 0, Here(left))

EndBlock(fs) ==
    LET bl == Bl(fs) IN
    CASE bl.kind \in {"do", "ifbreak"} -> LeaveBlock(fs)
      [] bl.kind \in {"if", "else"} -> PatchToHere(LeaveBlock(fs), bl.exit)
      [] bl.kind = "whilebody" -> EndWhile(fs)
      [] bl.kind = "forbody" -> EndFor(fs)

Ret(fs) == Emit(fs, <<"RETURN", NVarStack(fs), FALSE>>)
TailCall(fs) ==
    Ret(IF Bl(fs).insidetbc THEN fs ELSE [fs EXCEPT !.code[Len(fs.code)][1] = "TAILCALL"])

(***************************************************************************)
(* Reading a token.                                                        *)
(***************************************************************************)
BlockFollow == {"end", "else", "eos"}

\* what waited for the next token: labels, or a condition just read
Settle(l, t) ==
    LET fs == Fs(l) IN
    [OnFs(l, CASE l.mode = "if" -> IF t = "break" THEN ThenBreak(fs) ELSE Then(fs)
               [] l.mode = "ifbreak" /\ t \notin {"end", "else"} -> SkipThen(fs)
               [] t = "label" -> fs
               [] OTHER -> Labels(fs, l.labels, t \in BlockFollow))
        EXCEPT !.labels = IF t = "label" THEN @ ELSE <<>>, !.mode = IF l.mode = "if" /\ t = "break" THEN "ifbreak" ELSE ""]

\* the closure of a finished function goes to the global f or stays in its variable
CodeClosure(fs, id) == ReserveRegs(Emit(fs, <<"CLOSURE", fs.freereg, id>>), 1)
Closure(fs, kind, id) ==
    IF kind = "func" THEN Emit(CodeClosure(fs, id), <<"SETF", fs.freereg>>) ELSE LocalFuncEnd(CodeClosure(fs, id))

EndNested(l, closed, fs) ==
    IF Err(closed) # "" THEN closed ELSE OnFs(closed, Closure(Fs(closed), Bl(fs).kind, fs.id))
End(l) ==
    IF Bl(Fs(l)).kind \in {"func", "localfunc"} THEN EndNested(l, EndFunc(l), Fs(l))
    ELSE OnFs(l, EndBlock(Fs(l)))

StatementDone(fs) == [fs EXCEPT !.ok = @ /\ fs.freereg >= NVarStack(fs), !.freereg = NVarStack(fs)]

None == <<"none", "">>
\* the places of the shape where the next word may stand
NextSlots == {i \in ls.slot + 1 .. Len(shape) : \A j \in ls.slot + 1 .. i - 1 : None \in shape[j]}
Words(t) == {w \in UNION {shape[i] : i \in NextSlots} : w[1] = t}

Read(w, l, opened) ==
    /\ ls.depth + opened >= 0
    /\ toks' = Append(toks, w)
    /\ \E i \in NextSlots :
          /\ w \in shape[i]
          /\ ls' = [OnFs(l, StatementDone(Fs(l))) EXCEPT !.depth = @ + opened, !.slot = i]
    /\ UNCHANGED shape

\* the state in which token t finds the compiler
Ready(t) ==
    IF ls.done \/ Err(ls) # "" \/ (ls.mode = "return" /\ t \notin {"end", "else", "until", "eos"}) THEN {}
    ELSE {Settle(ls, t)}

Unless(l, next) == IF Err(l) # "" THEN l ELSE next

ReadLocal == \E w \in Words("local"), l \in Ready("local") : Read(w, Unless(l, OnFs(l, Local(Fs(l), w[2], "reg"))), 0)
ReadLocalClose == \E w \in Words("close"), l \in Ready("close") : Read(w, Unless(l, OnFs(l, LocalClose(Local(Fs(l), w[2], "close")))), 0)
ReadLocalConst == \E w \in Words("const"), l \in Ready("const") : Read(w, Unless(l, OnFs(l, LocalConst(Fs(l), w[2]))), 0)
ReadGoto == \E w \in Words("goto"), l \in Ready("goto") : Read(w, Unless(l, OnFs(l, Goto(Fs(l), w[2]))), 0)
ReadBreak == \E w \in Words("break"), l \in Ready("break") : Read(w, Unless(l, OnFs(l, Break(Fs(l)))), 0)
ReadDo == \E w \in Words("do"), l \in Ready("do") : Read(w, Unless(l, OnFs(l, EnterBlock(Fs(l), "do", FALSE, 0, 0))), 1)
ReadWhile == \E w \in Words("while"), l \in Ready("while") : Read(w, Unless(l, OnFs(l, While(Fs(l)))), 1)
ReadRepeat == \E w \in Words("repeat"), l \in Ready("repeat") : Read(w, Unless(l, OnFs(l, Repeat(Fs(l)))), 1)
ReadForNum == \E w \in Words("fornum"), l \in Ready("fornum") : Read(w, Unless(l, OnFs(l, ForNum(Fs(l), w[2]))), 1)
ReadForIn == \E w \in Words("forin"), l \in Ready("forin") : Read(w, Unless(l, OnFs(l, ForIn(Fs(l), w[2]))), 1)

ReadElse ==
    \E w \in Words("else"), l \in Ready("else") :
        Bl(Fs(l)).kind \in {"if", "ifbreak"} /\ Read(w, Unless(l, OnFs(l, Else(Fs(l)))), 0)

ReadIf ==
    \E w \in Words("if"), l \in Ready("if") : Read(w, Unless(l, [l EXCEPT !.mode = "if"]), 1)
ReadLabel ==
    \E w \in Words("label"), l \in Ready("label") : Read(w, [l EXCEPT !.labels = Append(@, w[2])], 0)

\* f(x), x = new, and return f(x) for a variable x
ReadUse == \E w \in Words("use"), l \in Ready("use") : Read(w, Unless(l, Take(l, Named(l, w[2]), w[2], "SHOW")), 0)
ReadCall == \E w \in Words("call"), l \in Ready("call") : Read(w, Unless(l, Take(l, Named(l, w[2]), w[2], "CALL")), 0)
ReadSet == \E w \in Words("set"), l \in Ready("set") : Read(w, Unless(l, Assign(l, Named(l, w[2]), w[2])), 0)
ReadReturn ==
    \E w \in Words("return"), l \in Ready("return") :
        Read(w, Unless(l, [OnFs(l, Ret(Fs(l))) EXCEPT !.mode = "return"]), 0)
ReturnCall(l) == [OnFs(l, TailCall(Fs(l))) EXCEPT !.mode = "return"]
ReadReturnCall ==
    \E w \in Words("returncall"), l \in Ready("returncall") :
        Read(w, Unless(l, ReturnCall(Take(l, Named(l, w[2]), w[2], "CALL"))), 0)

ReadFunc ==
    \/ \E w \in Words("func"), l \in Ready("func") : Read(w, Unless(l, OpenFunc(l, "func", Len(toks) + 1)), 1)
    \/ \E w \in Words("localfunc"), l \in Ready("localfunc") :
          Read(w, Unless(l, OpenFunc(OnFs(l, LocalFunc(Fs(l), w[2])), "localfunc", Len(toks) + 1)), 1)

\* the condition after until is in the scope of the block
UntilUse(l, r, x) == LET take == Take(l, r, x, "SHOW") IN OnFs(take, Until(Fs(take)))
ReadUntil ==
    \E w \in Words("until"), l \in Ready("until") :
        Bl(Fs(l)).kind = "repeatbody" /\ Read(w, Unless(l, UntilUse(l, Named(l, w[2]), w[2])), -1)
ReadEnd ==
    \E w \in Words("end"), l \in Ready("end") :
        Bl(Fs(l)).kind # "repeatbody" /\ Read(w, Unless(l, End(l)), -1)

ReadEOS ==
    /\ ls.depth = 0 /\ \A i \in ls.slot + 1 .. Len(shape) : None \in shape[i]
    /\ \E l \in Ready("eos") : ls' = [Unless(l, EndFunc(l)) EXCEPT !.done = TRUE]
    /\ UNCHANGED <<shape, toks>>

Init ==
    /\ shape \in Shapes
    /\ toks = <<>>
    /\ ls = OpenFunc([fss |-> <<>>, protos |-> <<>>, labels |-> <<>>, mode |-> "", depth |-> 0, slot |-> 0,
                    done |-> FALSE], "main", 0)

Next ==
    \/ ReadLocal \/ ReadLocalClose \/ ReadLocalConst \/ ReadUse \/ ReadSet
    \/ ReadGoto \/ ReadLabel \/ ReadBreak
    \/ ReadDo \/ ReadWhile \/ ReadRepeat \/ ReadUntil \/ ReadForNum \/ ReadForIn
    \/ ReadIf \/ ReadElse \/ ReadEnd
    \/ ReadFunc \/ ReadCall \/ ReadReturn \/ ReadReturnCall \/ ReadEOS

Spec == Init /\ [][Next]_vars
=============================================================================
