----------------------------- MODULE ExprParser -----------------------------
(***************************************************************************)
(* The parser of expressions and of the statements that use them           *)
(* (lparser.c), as a machine that reads one token at a time.  The stack    *)
(* holds what the recursive functions of the parser have pending: a frame  *)
(* is a call that waits for a subexpression.  Tokens that the parser tells *)
(* apart by the rule it is in have names of their own ("neg" and "-").     *)
(***************************************************************************)
EXTENDS ExprCode

CONSTANTS Grammars,     \* the token sets and the statements to try
          CompileTime   \* the value of the compile-time constant c

VARIABLES g,            \* the grammar in use
          stmt,         \* the statement being compiled
          toks,         \* the tokens read
          ls            \* state of the parser

vars == <<g, stmt, toks, ls>>

(***************************************************************************)
(* Priorities of the binary operators; those to the right of a             *)
(* right-associative one are lower.                                        *)
(***************************************************************************)
Left == [o \in ArithOps \cup OrderOps \cup EqOps \cup {"and", "or", ".."} |->
    CASE o \in {"+", "-"} -> 10 [] o = "//" -> 11 [] o = "&" -> 6
      [] o \in {"<<", ">>"} -> 7 [] o = ".." -> 9
      [] o \in OrderOps \cup EqOps -> 3 [] o = "and" -> 2 [] o = "or" -> 1]
Right == [Left EXCEPT ![".."] = 8]
UNARY_PRIORITY == 12

(***************************************************************************)
(* The state: the code so far, the expression just read, the calls         *)
(* pending, whether an operand is wanted, whether the expression may take  *)
(* a suffix, and the targets of an assignment.                             *)
(***************************************************************************)
Void == Exp("VOID", 0)
NoCons == [pc |-> 0, t |-> 0, na |-> 0, nh |-> 0, tostore |-> 0]
Frame(f, op, e, n) == [f |-> f, op |-> op, e |-> e, n |-> n, c |-> NoCons]

Top(l) == l.stack[Len(l.stack)]
Push(l, fr) == [l EXCEPT !.stack = Append(@, fr), !.mode = "want"]
Pop(l) == [l EXCEPT !.stack = SubSeq(@, 1, Len(@) - 1)]
SetTop(l, fr) == [l EXCEPT !.stack[Len(l.stack)] = fr]
With(l, x) == [l EXCEPT !.fs = x.fs, !.e = x.e]
Have(l, x, suf) == [With(l, x) EXCEPT !.mode = "have", !.suf = suf]

Start(kind) ==
    [fs |-> NewFunc(2), e |-> Void, mode |-> "want", suf |-> FALSE, lhs |-> <<>>,
     stack |-> <<Frame(IF kind = "assign" THEN "lhs" ELSE "list", "", Void, 1)>>]

HasMultRet(e) == e.k \in {"CALL", "VARARG"}
IsIndexed(e) == e.k \in {"INDEXUP", "INDEXI", "INDEXSTR", "INDEXED"}
IsVar(e) == e.k \in {"LOCAL", "UPVAL"} \/ IsIndexed(e)

(***************************************************************************)
(* Operands.                                                               *)
(***************************************************************************)
VStr(s) == <<"str", <<s>>>>
KStr(s) == ExpVal("KSTR", VStr(s))

Literals == [t \in {"1", "2", "7", "0", "1.0"} |->
    CASE t = "1" -> VInt(1) [] t = "2" -> VInt(2) [] t = "7" -> VInt(7) [] t = "0" -> VInt(0)
      [] t = "1.0" -> VFlt(1)]

Names == {"a", "b", "c", "u", "g"}

\* locals, upvalue 1, or a field of the environment, which is upvalue 0
SingleVar(fs, name) ==
    CASE name = "a" -> X(fs, Exp("LOCAL", 0))
      [] name = "b" -> X(fs, Exp("LOCAL", 1))
      [] name = "c" -> X(fs, ExpVal("CONST", CompileTime))
      [] name = "u" -> X(fs, Exp("UPVAL", 1))
      [] name = "g" -> Indexed(fs, Exp("UPVAL", 0), KStr("g"))

SimpleExp(fs, t) ==
    CASE t \in Names -> SingleVar(fs, t)
      [] t \in DOMAIN Literals ->
             X(fs, ExpVal(IF Literals[t][1] = "int" THEN "KINT" ELSE "KFLT", Literals[t]))
      [] t = "s" -> X(fs, KStr("s"))
      [] t = "nil" -> X(fs, Exp("NIL", 0))
      [] t = "true" -> X(fs, Exp("TRUE", 0))
      [] t = "false" -> X(fs, Exp("FALSE", 0))
      [] t = "..." -> X(Code(fs, "VARARG", 0, 0, 1, 0), Exp("VARARG", Pc(fs) + 1))
      [] t = "function" -> Exp2NextReg(Code(fs, "CLOSURE", 0, 0, 0, 0), Exp("RELOC", Pc(fs) + 1))

(***************************************************************************)
(* Table constructors.                                                     *)
(***************************************************************************)
\* put the last item in its register; store the pending ones when there are enough
FlushItems(fs, c) == IF c.tostore = LFIELDS_PER_FLUSH THEN SetList(fs, c.t, c.na, c.tostore) ELSE fs
Flushed(c) == IF c.tostore = LFIELDS_PER_FLUSH THEN [c EXCEPT !.na = @ + c.tostore, !.tostore = 0] ELSE c
CloseListField(l) ==
    IF Top(l).f # "cons" \/ Top(l).e.k = "VOID" THEN l
    ELSE SetTop([l EXCEPT !.fs = FlushItems(Exp2NextReg(@, Top(l).e).fs, Top(l).c)],
                [Top(l) EXCEPT !.e = Void, !.c = Flushed(@)])

OpenTable(l) ==
    LET r == l.fs.freereg
        fr == [Frame("cons", "", Void, 0) EXCEPT !.c.pc = Pc(l.fs) + 1, !.c.t = r]
        code == Code(Code(l.fs, "NEWTABLE", 0, 0, 0, 0), "EXTRAARG", 0, 0, 0, 0)
    IN  Push([l EXCEPT !.fs = ReserveRegs(code, 1)], fr)

LastListField(fs, fr) ==
    LET c == fr.c IN
    IF c.tostore = 0 THEN [fs |-> fs, na |-> c.na]
    ELSE IF HasMultRet(fr.e)
         THEN [fs |-> SetList(SetReturns(fs, fr.e, MULTRET), c.t, c.na, 0), na |-> c.na - 1 + c.tostore]
         ELSE [fs |-> SetList(IF fr.e.k = "VOID" THEN fs ELSE Exp2NextReg(fs, fr.e).fs,
                              c.t, c.na, c.tostore), na |-> c.na + c.tostore]

SizedTable(last, c) == X(SetTableSize(last.fs, c.pc, c.t, last.na, c.nh), Exp("NONRELOC", c.t))
CloseTable(l) == Have(Pop(l), SizedTable(LastListField(l.fs, Top(l)), Top(l).c), FALSE)

\* the key of a field is read; its value follows
RecValue(l, reg, x) ==
    Push([l EXCEPT !.fs = x.fs, !.stack[Len(l.stack)].c.nh = @ + 1], Frame("rec", "", x.e, reg))
RecField(l, reg, fs, key) == RecValue(l, reg, Indexed(fs, Exp("NONRELOC", Top(l).c.t), key))

CloseRecField(l) ==
    [Pop(l) EXCEPT !.fs = [StoreVar(l.fs, Top(l).e, l.e) EXCEPT !.freereg = Top(l).n],
                   !.e = Void, !.mode = "want"]

\* an item just read becomes the pending one
ListField(l) ==
    [l EXCEPT !.stack[Len(l.stack)].e = l.e, !.stack[Len(l.stack)].c.tostore = @ + 1,
              !.e = Void, !.mode = "want"]

(***************************************************************************)
(* Suffixes and calls.                                                     *)
(***************************************************************************)
FieldOf(x, name) == Indexed(x.fs, x.e, KStr(name))
FieldSel(l, name) == Have(l, FieldOf(Exp2AnyRegUp(l.fs, l.e), name), TRUE)

\* wait for a subexpression with x.e pending
Open(l, frame, x) == Push([l EXCEPT !.fs = x.fs], Frame(frame, "", x.e, 0))

OpenIndex(l) == Open(l, "index", Exp2AnyRegUp(l.fs, l.e))

IndexOf(x, t) == Indexed(x.fs, t, x.e)
CloseIndex(l) == Have(Pop(l), IndexOf(Exp2Val(l.fs, l.e), Top(l).e), TRUE)

OpenArgs(l, frame) == Open(l, frame, Exp2NextReg(l.fs, l.e))

OpenMethod(l, name) == Open(l, "args", Self(l.fs, l.e, KStr(name)))

\* the last argument is args; the call leaves one result unless changed later
CodeCall(fs, base, nparams) ==
    X([Code(fs, "CALL", base, nparams + 1, 2, 0) EXCEPT !.freereg = base + 1], Exp("CALL", Pc(fs) + 1))
FixedCall(fs, base) == CodeCall(fs, base, fs.freereg - (base + 1))
CallOf(fs, f, args) ==
    IF HasMultRet(args) THEN CodeCall(SetReturns(fs, args, MULTRET), f.info, MULTRET)
    ELSE FixedCall(IF args.k = "VOID" THEN fs ELSE Exp2NextReg(fs, args).fs, f.info)
FinishCall(l, fs, f, args) ==
    Have(l, CallOf([fs EXCEPT !.ok = @ /\ f.k = "NONRELOC"], f, args), TRUE)

CallStrOf(l, x) == FinishCall(l, x.fs, x.e, KStr("s"))
CallStr(l) == CallStrOf(l, Exp2NextReg(l.fs, l.e))

CloseArgs(l) == FinishCall(Pop(l), l.fs, Top(l).e, l.e)

CloseParen(l) == Have(Pop(l), DischargeVars(l.fs, l.e), TRUE)

(***************************************************************************)
(* subexpr: what returns when the next operator has priority lim.          *)
(***************************************************************************)
Unwind(l, lim) ==
    CASE Top(l).f = "unop" /\ lim <= UNARY_PRIORITY ->
             Have(Pop(l), Prefix(l.fs, Top(l).op, l.e), FALSE)
      [] Top(l).f = "binop" /\ lim <= Right[Top(l).op] ->
             Have(Pop(l), Posfix(l.fs, Top(l).op, Top(l).e, l.e), FALSE)
      [] OTHER -> l

Reduce(l, lim) ==
    LET r[n \in 0..Len(l.stack)] == IF n = 0 THEN l ELSE Unwind(r[n - 1], lim)
    IN  r[Len(l.stack)]

PushBinOp(l, op, x) == Push([l EXCEPT !.fs = x.fs], Frame("binop", op, x.e, 0))
InfixTop(l, op) == PushBinOp(l, op, Infix(l.fs, op, l.e))
BinOp(l, op) == InfixTop(Reduce(l, Left[op]), op)

\* an operand begins a list item, inside a constructor
Want(l) == CloseListField(l)

(***************************************************************************)
(* Assignments.                                                            *)
(***************************************************************************)
LoadNils(fs, n) == IF n > 0 THEN LoadNil(fs, fs.freereg, n) ELSE fs
AdjustAssign(fs, nvars, nexps, e) ==
    LET needed == nvars - nexps IN
    ReserveRegs(IF HasMultRet(e) THEN SetReturns(fs, e, IF needed + 1 < 0 THEN 0 ELSE needed + 1)
                ELSE LoadNils(IF e.k = "VOID" THEN fs ELSE Exp2NextReg(fs, e).fs, needed),
                needed)

\* targets that use the register or upvalue that v assigns get a copy of it
CheckConflict(fs, lhs, v) ==
    LET extra == fs.freereg
        clashUp(l) == l.k = "INDEXUP" /\ v.k = "UPVAL" /\ l.t = v.info
        clashT(l) == IsIndexed(l) /\ l.k # "INDEXUP" /\ v.k = "LOCAL" /\ l.t = v.info
        clashI(l) == l.k = "INDEXED" /\ v.k = "LOCAL" /\ l.idx = v.info
        fix(l) == IF clashUp(l) THEN [l EXCEPT !.k = "INDEXSTR", !.t = extra]
                  ELSE [l EXCEPT !.t = IF clashT(l) THEN extra ELSE @,
                                 !.idx = IF clashI(l) THEN extra ELSE @]
        conflict == \E i \in DOMAIN lhs : clashUp(lhs[i]) \/ clashT(lhs[i]) \/ clashI(lhs[i])
        copy == Code(fs, IF v.k = "LOCAL" THEN "MOVE" ELSE "GETUPVAL", extra, v.info, 0, 0)
    IN  [fs |-> IF conflict THEN ReserveRegs(copy, 1) ELSE fs,
         lhs |-> [i \in DOMAIN lhs |-> fix(lhs[i])]]

\* one more target of the assignment
AddTarget(l, c) == [l EXCEPT !.fs = c.fs, !.lhs = Append(c.lhs, l.e), !.e = Void, !.mode = "want"]
Target(l) ==
    AddTarget(l, IF IsIndexed(l.e) THEN [fs |-> l.fs, lhs |-> l.lhs] ELSE CheckConflict(l.fs, l.lhs, l.e))

\* the stores, from the last target to the first
StoreOne(x, var) == StoreVar(x.fs, var, x.e)
StoreTop(fs, var) == StoreVar(fs, var, Exp("NONRELOC", fs.freereg - 1))
RestAssign(fs, lhs, nexps, e) ==
    LET nvars == Len(lhs)
        store[n \in 0..nvars] ==        \* after the stores to targets n+1 .. nvars
            IF n = nvars THEN AdjustAssign(fs, nvars, nexps, e)
            ELSE IF n = nvars - 1 /\ nexps = nvars THEN StoreOne(SetOneRet(fs, e), lhs[nvars])
            ELSE StoreTop(store[n + 1], lhs[n + 1])
    IN  store[0]

(***************************************************************************)
(* The ends of statements.                                                 *)
(***************************************************************************)
RetOne(x) == Ret(x.fs, x.e.info, 1)
RetList(fs, n) == Ret([fs EXCEPT !.ok = @ /\ n = fs.freereg - fs.nvar], fs.nvar, n)
RetOpen(fs, e, n) ==
    Ret(IF e.k = "CALL" /\ n = 1
        THEN [fs EXCEPT !.code[e.info].op = "TAILCALL", !.ok = @ /\ fs.code[e.info].a = fs.nvar]
        ELSE fs,
        fs.nvar, MULTRET)
RetStat(fs, n, e) ==
    CASE HasMultRet(e) -> RetOpen(SetReturns(fs, e, MULTRET), e, n)
      [] ~HasMultRet(e) /\ n = 1 -> RetOne(Exp2AnyReg(fs, e))
      [] OTHER -> RetList(Exp2NextReg(fs, e).fs, n)

\* return one boolean
RetBool(fs, b) ==
    Ret(Code(fs, IF b THEN "LOADTRUE" ELSE "LOADFALSE", fs.freereg, 0, 0, 0), fs.freereg, 1)

\* if e then return true end return false
IfOf(x) == RetBool(PatchToHere(RetBool(x.fs, TRUE), x.e.fj), FALSE)
IfStat(fs, e) == IfOf(GoIfTrue(fs, e))

\* a loop around: if e then break end; do return false end -- then return true
IfBreakOf(x) == RetBool(PatchToHere(RetBool(x.fs, FALSE), x.e.tj), TRUE)
IfBreak(fs, e) == IfBreakOf(GoIfFalse(fs, e))

\* local x <const> = e: no code when the value is known
LocalConst(fs, e) ==
    IF Exp2Const(e)[1] # "none" THEN fs
    ELSE [AdjustAssign(fs, 1, 1, e) EXCEPT !.nvar = @ + 1]

LocalStat(fs, nvars, nexps, e) ==
    [AdjustAssign(fs, nvars, nexps, e) EXCEPT !.nvar = @ + nvars]

CallStat(fs, e) == [fs EXCEPT !.code[e.info].c = 1]

Compiled(l, st) ==
    LET n == Top(l).n IN
    CASE Top(l).f = "lhs" -> CallStat(l.fs, l.e)
      [] st.k = "assign" /\ Top(l).f = "list" -> RestAssign(l.fs, l.lhs, n, l.e)
      [] st.k = "local" -> LocalStat(l.fs, st.n, n, l.e)
      [] st.k = "const" -> LocalConst(l.fs, l.e)
      [] st.k = "return" -> RetStat(l.fs, n, l.e)
      [] st.k = "if" -> IfStat(l.fs, l.e)
      [] st.k = "break" -> IfBreak(l.fs, l.e)

\* statements with one expression
Single == {"const", "if", "break"}

EndStat(l, st) ==
    [l EXCEPT !.fs = Finish(Compiled(l, st)), !.mode = "done"]

(***************************************************************************)
(* One token.                                                              *)
(***************************************************************************)
Closers == {",", ")", "]", "}", "=", "]="}
Size == Cardinality({i \in DOMAIN toks : toks[i] \notin Closers})

Read(t, l) ==
    /\ t \in g.tokens /\ (t \notin Closers => Size < g.size)
    /\ toks' = Append(toks, t)
    /\ ls' = l
    /\ UNCHANGED <<g, stmt>>

Wanted == ls.mode = "want"
InTargets == Top(ls).f = "lhs"
InTable == Top(ls).f = "cons"

\* a target of an assignment begins with a name
ReadOperand(t) ==
    /\ Wanted
    /\ InTargets => t \in Names
    /\ \E l \in {Want(ls)} : Read(t, Have(l, SimpleExp(l.fs, t), t \in Names))

ReadUnary(op) == Wanted /\ ~InTargets /\ Read(op, Push(Want(ls), Frame("unop", op, Void, 0)))

ReadParen == Wanted /\ ~InTargets /\ Read("(", Push(Want(ls), Frame("paren", "", Void, 0)))

ReadTable == Wanted /\ ~InTargets /\ Read("{", OpenTable(Want(ls)))

\* a field name=, or [ that begins the key of a field
ReadFieldName ==
    /\ Wanted /\ InTable
    /\ \E l \in {Want(ls)} : Read("x=", RecField(l, l.fs.freereg, l.fs, KStr("x")))

ReadKeyOpen ==
    /\ Wanted /\ InTable
    /\ \E l \in {Want(ls)} : Read("[[", Push(l, Frame("key", "", Void, l.fs.freereg)))

ReadBinary(op) ==
    /\ ls.mode = "have" /\ ~InTargets
    /\ Read(op, BinOp(ls, op))

ReadSuffix ==
    /\ ls.mode = "have" /\ ls.suf
    /\ \/ Read(".x", FieldSel(ls, "x"))
       \/ Read("[", OpenIndex(ls))
       \/ Read("call(", OpenArgs(ls, "args"))
       \/ Read("call{", OpenTable(OpenArgs(ls, "argtab")))
       \/ Read("call's'", CallStr(ls))
       \/ Read(":m(", OpenMethod(ls, "m"))

\* the expression has ended
Ended == IF ls.mode = "have" THEN {Reduce(ls, 0)} ELSE {}

\* an expression of a list is done: its value goes to the next register
NextInList(l) ==
    [SetTop(l, [Top(l) EXCEPT !.n = @ + 1])
        EXCEPT !.fs = Exp2NextReg(l.fs, l.e).fs, !.e = Void, !.mode = "want"]

ReadComma ==
    \E l \in Ended :
        \/ /\ Top(l).f = "args" \/ (Top(l).f = "list" /\ stmt.k \notin Single)
           /\ Read(",", NextInList(l))
        \/ Top(l).f = "cons" /\ Read(",", ListField(l))
        \/ Top(l).f = "rec" /\ Read(",", CloseRecField(l))
        \/ Top(l).f = "lhs" /\ IsVar(l.e) /\ Read(",", Target(l))

ReadAssign ==
    /\ ls.mode = "have" /\ InTargets /\ IsVar(ls.e)
    /\ Read("=", SetTop(Target(ls), Frame("list", "", Void, 1)))

ReadCloseParen ==
    \/ /\ Wanted /\ Top(ls).f = "args" /\ Top(ls).n = 0       \* no arguments
       /\ Read(")", FinishCall(Pop(ls), ls.fs, Top(ls).e, Void))
    \/ \E l \in Ended :
          \/ Top(l).f = "paren" /\ Read(")", CloseParen(l))
          \/ Top(l).f = "args" /\ Read(")", CloseArgs(l))

ReadCloseBracket ==
    \E l \in Ended :
        \/ Top(l).f = "index" /\ Read("]", CloseIndex(l))
        \/ /\ Top(l).f = "key"
           /\ \E k \in {Exp2Val(l.fs, l.e)} : Read("]=", RecField(Pop(l), Top(l).n, k.fs, k.e))

\* after the constructor, the call it is the argument of
TableArg(l) == IF Top(l).f = "argtab" THEN FinishCall(Pop(l), l.fs, Top(l).e, l.e) ELSE l
TableDone(l) == TableArg(CloseTable(l))

ReadCloseBrace ==
    \/ Wanted /\ InTable /\ Read("}", TableDone(ls))
    \/ \E l \in Ended :
          \/ Top(l).f = "cons" /\ Read("}", TableDone(ListField(l)))
          \/ Top(l).f = "rec" /\ Read("}", TableDone(CloseRecField(l)))

ReadEnd ==
    /\ \E l \in Ended :
          /\ Len(l.stack) = 1
          /\ Top(l).f = "lhs" => l.e.k = "CALL" /\ l.lhs = <<>>
          /\ ls' = EndStat(l, stmt)
    /\ UNCHANGED <<g, stmt, toks>>

Init ==
    /\ g \in Grammars
    /\ stmt \in g.stmts
    /\ toks = <<>>
    /\ ls = Start(stmt.k)

Next ==
    \/ \E t \in g.tokens \cap (Names \cup DOMAIN Literals \cup {"s", "nil", "true", "false", "...", "function"}) :
           ReadOperand(t)
    \/ \E op \in g.tokens \cap {"not", "neg", "bnot", "#"} : ReadUnary(op)
    \/ \E op \in g.tokens \cap DOMAIN Left : ReadBinary(op)
    \/ ReadParen \/ ReadTable \/ ReadFieldName \/ ReadKeyOpen \/ ReadSuffix
    \/ ReadComma \/ ReadAssign \/ ReadCloseParen \/ ReadCloseBracket \/ ReadCloseBrace
    \/ ReadEnd

Spec == Init /\ [][Next]_vars
=============================================================================
