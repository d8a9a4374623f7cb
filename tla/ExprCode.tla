------------------------------ MODULE ExprCode ------------------------------
(***************************************************************************)
(* The code generator for expressions (lcode.c).                           *)
(*                                                                         *)
(* An operator takes the function being compiled (fs) and expression       *)
(* descriptions, and returns what the C function leaves behind: fs, or     *)
(* [fs, e].  Code is a sequence of instructions; a jump holds its absolute *)
(* destination in b, or the next jump of its list while it is pending.     *)
(* An assertion of the C code clears fs.ok when it fails.                  *)
(***************************************************************************)
EXTENDS Integers, Sequences, FiniteSets, FiniteSetsExt

CONSTANTS MAXARG_C,     \* largest operand C
          OFFSET_sC,    \* excess of signed operands
          MAXARG_Bx,    \* largest constant index of OP_LOADK
          MAXINT_sBx,   \* OP_LOADI and OP_LOADF take -MAXINT_sBx .. MAXINT_sBx
          MAXINDEXRK,   \* largest constant index of an R/K operand
          LFIELDS_PER_FLUSH,
          Bits          \* width of integers

ASSUME WidthsOK ==
    /\ {MAXARG_C, OFFSET_sC, MAXARG_Bx, MAXINT_sBx, MAXINDEXRK} \subseteq Nat
    /\ Bits \in Nat \ {0} /\ LFIELDS_PER_FLUSH \in Nat \ {0}

NO_JUMP == 0
NO_REG == -1
MULTRET == -1

(***************************************************************************)
(* Values are tuples headed by their type.  Integers wrap around; floats   *)
(* are those with an integral value, enough to tell the two types apart.   *)
(***************************************************************************)
Wrap(n) == LET m == n % 2^Bits IN IF m < 2^(Bits - 1) THEN m ELSE m - 2^Bits
VInt(n) == <<"int", Wrap(n)>>
VFlt(n) == <<"flt", n>>
VNil == <<"nil">>
VBool(b) == IF b THEN <<"true">> ELSE <<"false">>
IsNum(v) == v[1] \in {"int", "flt"}
IsFalse(v) == v[1] \in {"nil", "false"}

ArithOps == {"+", "-", "//", "&", "<<", ">>"}
BitOps == {"&", "<<", ">>"}
OrderOps == {"<", "<=", ">", ">="}
EqOps == {"==", "~="}

\* shift left; a negative distance shifts right without sign
ShiftL(x, y) ==
    IF y < 0 THEN (IF y <= -Bits THEN 0 ELSE (x % 2^Bits) \div 2^(-y))
    ELSE IF y >= Bits THEN 0 ELSE x * 2^y

RECURSIVE And(_, _)
And(x, y) == IF x = 0 \/ y = 0 THEN 0
             ELSE (IF x % 2 = 1 /\ y % 2 = 1 THEN 1 ELSE 0) + 2 * And(x \div 2, y \div 2)

Number(op, x, y) ==
    CASE op = "+"  -> x + y
      [] op = "-"  -> x - y
      [] op = "//" -> IF y > 0 THEN x \div y ELSE (-x) \div (-y)
      [] op = "&"  -> And(x % 2^Bits, y % 2^Bits)
      [] op = "<<" -> ShiftL(x, y)
      [] op = ">>" -> ShiftL(x, -y)

\* an operation that has no primitive result is left to a metamethod or an error
RawArith(op, v, w) ==
    IF ~IsNum(v) \/ ~IsNum(w) \/ (op = "//" /\ w[2] = 0) THEN <<"none">>
    ELSE IF (v[1] = "int" /\ w[1] = "int") \/ op \in BitOps
         THEN VInt(Number(op, Wrap(v[2]), Wrap(w[2])))
         ELSE VFlt(Number(op, v[2], w[2]))

RawUnary(op, v) ==
    CASE op = "neg" /\ v[1] = "int" -> VInt(-v[2])
      [] op = "neg" /\ v[1] = "flt" -> VFlt(-v[2])
      [] op = "bnot" /\ IsNum(v) -> VInt(-1 - v[2])
      [] op = "#" /\ v[1] = "str" -> VInt(Len(v[2]))
      [] OTHER -> <<"none">>

(***************************************************************************)
(* Emission.                                                               *)
(***************************************************************************)
Instr(op, a, b, c, k) == [op |-> op, a |-> a, b |-> b, c |-> c, k |-> k]

NewFunc(nvar) == [code |-> <<>>, k |-> <<>>, nvar |-> nvar, freereg |-> nvar,
                  lasttarget |-> 0, ok |-> TRUE]

Pc(fs) == Len(fs.code)                  \* the last instruction

Code(fs, op, a, b, c, k) == [fs EXCEPT !.code = Append(@, Instr(op, a, b, c, k))]

GetLabel(fs) == [fs EXCEPT !.lasttarget = Pc(fs)]

RemoveLast(fs) == [fs EXCEPT !.code = SubSeq(@, 1, Len(@) - 1)]

SetInstr(fs, i, ins) == [fs EXCEPT !.code[i] = ins]

\* the previous instruction can be changed only when no jump arrives after it
PrevIs(fs, op) == Pc(fs) > fs.lasttarget /\ fs.code[Pc(fs)].op = op

LoadNil(fs, from, n) ==
    LET l == from + n - 1
        prev == fs.code[Pc(fs)]
        pl == prev.a + prev.b
        lo == IF prev.a < from THEN prev.a ELSE from
        hi == IF pl > l THEN pl ELSE l
    IN  IF /\ PrevIs(fs, "LOADNIL")
           /\ \/ prev.a <= from /\ from <= pl + 1
              \/ from <= prev.a /\ prev.a <= l + 1
        THEN SetInstr(fs, Pc(fs), Instr("LOADNIL", lo, hi - lo, 0, 0))
        ELSE Code(fs, "LOADNIL", from, n - 1, 0, 0)

ReserveRegs(fs, n) == [fs EXCEPT !.freereg = @ + n]

FreeReg(fs, r) ==
    IF r >= fs.nvar
    THEN [fs EXCEPT !.freereg = @ - 1, !.ok = @ /\ r = fs.freereg - 1]
    ELSE fs

FreeRegsInOrder(fs, r1, r2) == FreeReg(FreeReg(fs, r1), r2)
FreeRegs(fs, r1, r2) ==
    IF r1 > r2 THEN FreeReg(FreeReg(fs, r1), r2) ELSE FreeReg(FreeReg(fs, r2), r1)

RegOf(e) == IF e.k = "NONRELOC" THEN e.info ELSE NO_REG
FreeExp(fs, e) == FreeReg(fs, RegOf(e))
FreeExps(fs, e1, e2) == FreeRegs(fs, RegOf(e1), RegOf(e2))

(***************************************************************************)
(* Jump lists: a list is named by its first jump and linked through b.     *)
(***************************************************************************)
JumpsOf(code, list) ==
    LET from[j \in 0..Len(code)] ==
            IF j = NO_JUMP THEN {} ELSE {j} \cup from[code[j].b]
    IN  from[list]

TestOps == {"EQ", "LT", "LE", "EQK", "EQI", "LTI", "LEI", "GTI", "GEI", "TEST", "TESTSET"}

\* the instruction that decides whether jump j is taken
JumpControl(code, j) == IF j > 1 /\ code[j - 1].op \in TestOps THEN j - 1 ELSE j

IsTestSet(code, j) == code[JumpControl(code, j)].op = "TESTSET"

JumpConcat(fs, l1, l2) ==
    IF l1 = NO_JUMP \/ l2 = NO_JUMP THEN fs
    ELSE LET last == CHOOSE j \in JumpsOf(fs.code, l1) : fs.code[j].b = NO_JUMP
         IN  [fs EXCEPT !.code[last].b = l2]
Joined(l1, l2) == IF l1 = NO_JUMP THEN l2 ELSE l1       \* the name of the list

Jump(fs) == Code(fs, "JMP", 0, NO_JUMP, 0, 0)

\* a test followed by its jump
CondJump(fs, op, a, b, c, k) == Jump(Code(fs, op, a, b, c, k))

\* give a TESTSET its register, or turn it into a TEST
PatchTest(ins, reg) ==
    IF reg # NO_REG /\ reg # ins.b THEN [ins EXCEPT !.a = reg]
    ELSE Instr("TEST", ins.b, 0, 0, ins.k)

\* jumps that produce values go to vtarget with the value in reg, the others to dtarget
Patched(ins, i, js, istest, vtarget, reg, dtarget) ==
    IF i \in js THEN [ins EXCEPT !.b = IF istest THEN vtarget ELSE dtarget]
    ELSE IF i + 1 \in js /\ ins.op = "TESTSET" THEN PatchTest(ins, reg)
    ELSE ins
PatchJumps(fs, js, vtarget, reg, dtarget) ==
    [fs EXCEPT !.code = SubSeq([i \in DOMAIN fs.code |->
        Patched(fs.code[i], i, js, IsTestSet(fs.code, i), vtarget, reg, dtarget)], 1, Len(fs.code))]
PatchListAux(fs, list, vtarget, reg, dtarget) ==
    PatchJumps(fs, JumpsOf(fs.code, list), vtarget, reg, dtarget)

PatchList(fs, list, target) == PatchListAux(fs, list, target, NO_REG, target)

PatchToHere(fs, list) == LET f == GetLabel(fs) IN PatchList(f, list, Pc(f) + 1)

\* tests in the list no longer produce values
PlainTests(fs, js) ==
    [fs EXCEPT !.code = SubSeq([i \in DOMAIN fs.code |->
        IF i + 1 \in js /\ fs.code[i].op = "TESTSET" THEN PatchTest(fs.code[i], NO_REG)
        ELSE fs.code[i]], 1, Len(fs.code))]
RemoveValues(fs, list) == PlainTests(fs, JumpsOf(fs.code, list))

NeedValue(fs, list) == \E j \in JumpsOf(fs.code, list) : ~IsTestSet(fs.code, j)

(***************************************************************************)
(* Expression descriptions and constants.                                  *)
(***************************************************************************)
Exp(k, info) == [k |-> k, info |-> info, t |-> 0, idx |-> 0, v |-> VNil,
                 tj |-> NO_JUMP, fj |-> NO_JUMP]
ExpVal(k, v) == [Exp(k, 0) EXCEPT !.v = v]
X(fs, e) == [fs |-> fs, e |-> e]

HasJumps(e) == e.tj # e.fj
ToNumeral(e) == e.k \in {"KINT", "KFLT"} /\ ~HasJumps(e)

\* a constant is entered once
AddK(fs, v) ==
    LET at == {i \in DOMAIN fs.k : fs.k[i] = v} IN
    IF at # {} THEN [fs |-> fs, i |-> Min(at) - 1]
    ELSE [fs |-> [fs EXCEPT !.k = Append(@, v)], i |-> Len(fs.k)]

FitsC(i) == i >= -OFFSET_sC /\ i <= MAXARG_C - OFFSET_sC
FitsBx(i) == -MAXINT_sBx <= i /\ i <= MAXINT_sBx
IsKint(e) == e.k = "KINT" /\ ~HasJumps(e)
IsCint(e) == IsKint(e) /\ e.v[2] \in 0..MAXARG_C
IsSCint(e) == IsKint(e) /\ FitsC(e.v[2])
IsSCnumber(e) == ToNumeral(e) /\ FitsC(e.v[2])
IsKstr(fs, e) == e.k = "K" /\ ~HasJumps(e) /\ e.info <= MAXINDEXRK /\ fs.k[e.info + 1][1] = "str"

Const2Exp(e) ==
    CASE e.v[1] = "int" -> [e EXCEPT !.k = "KINT"]
      [] e.v[1] = "flt" -> [e EXCEPT !.k = "KFLT"]
      [] e.v[1] = "str" -> [e EXCEPT !.k = "KSTR"]
      [] e.v[1] = "nil" -> [e EXCEPT !.k = "NIL"]
      [] e.v[1] = "true" -> [e EXCEPT !.k = "TRUE"]
      [] e.v[1] = "false" -> [e EXCEPT !.k = "FALSE"]

Kst(r, e) == X(r.fs, [e EXCEPT !.k = "K", !.info = r.i])
Str2K(fs, e) == Kst(AddK(fs, e.v), e)

CodeK(fs, reg, i) ==
    IF i <= MAXARG_Bx THEN Code(fs, "LOADK", reg, i, 0, 0)
    ELSE Code(Code(fs, "LOADKX", reg, 0, 0, 0), "EXTRAARG", i, 0, 0, 0)

CodeEntry(r, reg) == CodeK(r.fs, reg, r.i)

CodeNumber(fs, reg, v) ==
    IF FitsBx(v[2]) THEN Code(fs, IF v[1] = "int" THEN "LOADI" ELSE "LOADF", reg, v[2], 0, 0)
    ELSE CodeEntry(AddK(fs, v), reg)

SetReturns(fs, e, n) ==
    IF e.k = "CALL" THEN [fs EXCEPT !.code[e.info].c = n + 1]
    ELSE ReserveRegs([fs EXCEPT !.code[e.info].c = n + 1, !.code[e.info].a = fs.freereg], 1)

SetOneRet(fs, e) ==
    CASE e.k = "CALL" -> X([fs EXCEPT !.ok = @ /\ fs.code[e.info].c = 2],
                           [e EXCEPT !.k = "NONRELOC", !.info = fs.code[e.info].a])
      [] e.k = "VARARG" -> X([fs EXCEPT !.code[e.info].c = 2], [e EXCEPT !.k = "RELOC"])
      [] OTHER -> X(fs, e)

\* e becomes the result of the instruction just emitted
Reloc(fs, e) == X(fs, [e EXCEPT !.k = "RELOC", !.info = Pc(fs)])

DischargeVars(fs, e) ==
    CASE e.k = "CONST" -> X(fs, Const2Exp(e))
      [] e.k = "LOCAL" -> X(fs, [e EXCEPT !.k = "NONRELOC"])
      [] e.k = "UPVAL" -> Reloc(Code(fs, "GETUPVAL", 0, e.info, 0, 0), e)
      [] e.k = "INDEXUP" -> Reloc(Code(fs, "GETTABUP", 0, e.t, e.idx, 0), e)
      [] e.k = "INDEXI" -> Reloc(Code(FreeReg(fs, e.t), "GETI", 0, e.t, e.idx, 0), e)
      [] e.k = "INDEXSTR" -> Reloc(Code(FreeReg(fs, e.t), "GETFIELD", 0, e.t, e.idx, 0), e)
      [] e.k = "INDEXED" -> Reloc(Code(FreeRegs(fs, e.t, e.idx), "GETTABLE", 0, e.t, e.idx, 0), e)
      [] e.k \in {"CALL", "VARARG"} -> SetOneRet(fs, e)
      [] OTHER -> X(fs, e)

\* emit what puts the value of e, jumps apart, into reg
LoadInto(fs, e, reg) ==
    CASE e.k = "NIL" -> LoadNil(fs, reg, 1)
      [] e.k = "FALSE" -> Code(fs, "LOADFALSE", reg, 0, 0, 0)
      [] e.k = "TRUE" -> Code(fs, "LOADTRUE", reg, 0, 0, 0)
      [] e.k = "KSTR" -> CodeEntry(AddK(fs, e.v), reg)
      [] e.k = "K" -> CodeK(fs, reg, e.info)
      [] e.k \in {"KINT", "KFLT"} -> CodeNumber(fs, reg, e.v)
      [] e.k = "RELOC" -> [fs EXCEPT !.code[e.info].a = reg]
      [] e.k = "NONRELOC" -> IF reg # e.info THEN Code(fs, "MOVE", reg, e.info, 0, 0) ELSE fs
      [] OTHER -> fs

LoadReg(x, reg) == X(LoadInto(x.fs, x.e, reg),
                     IF x.e.k = "JMP" THEN x.e ELSE [x.e EXCEPT !.k = "NONRELOC", !.info = reg])
Discharge2Reg(fs, e, reg) == LoadReg(DischargeVars(fs, e), reg)

Discharge2AnyReg(fs, e) ==
    IF e.k = "NONRELOC" THEN X(fs, e) ELSE Discharge2Reg(ReserveRegs(fs, 1), e, fs.freereg)

CodeLoadBool(fs, reg, op) == Code(GetLabel(fs), op, reg, 0, 0, 0)

\* the two loads that jumps without a value go to; a value already loaded skips them
BothLoads(fs, reg) == CodeLoadBool(CodeLoadBool(fs, reg, "LFALSESKIP"), reg, "LOADTRUE")
BoolLoads(fs, reg, skip) ==
    IF skip THEN PatchToHere(BothLoads(Jump(fs), reg), Pc(fs) + 1) ELSE BothLoads(fs, reg)

\* every jump of e ends here, after the value is in reg; those without a value at pf and pt
EndAt(fs, e, reg, pf, pt) ==
    PatchListAux(PatchListAux(GetLabel(fs), e.fj, Pc(fs) + 1, reg, pf), e.tj, Pc(fs) + 1, reg, pt)
EndAtLoads(fs, e, reg) == EndAt(fs, e, reg, Pc(fs) - 1, Pc(fs))
EndJumps(fs, e, reg) ==
    IF NeedValue(fs, e.tj) \/ NeedValue(fs, e.fj)
    THEN EndAtLoads(BoolLoads(fs, reg, e.k # "JMP"), e, reg)
    ELSE EndAt(fs, e, reg, NO_JUMP, NO_JUMP)

\* a test becomes one more jump of its list of exits when true
WithTest(x) ==
    IF x.e.k # "JMP" THEN x
    ELSE X(JumpConcat(x.fs, x.e.tj, x.e.info), [x.e EXCEPT !.tj = Joined(x.e.tj, x.e.info)])

InReg(x, reg) ==
    X(IF HasJumps(x.e) THEN EndJumps(x.fs, x.e, reg) ELSE x.fs,
      [x.e EXCEPT !.k = "NONRELOC", !.info = reg, !.tj = NO_JUMP, !.fj = NO_JUMP])
Exp2Reg(fs, e, reg) == InReg(WithTest(Discharge2Reg(fs, e, reg)), reg)

\* the operand's register, if it is temporary, is the one used next
InTop(fs, e) == Exp2Reg(ReserveRegs(fs, 1), e, fs.freereg)
NextReg(x) == InTop(FreeExp(x.fs, x.e), x.e)
Exp2NextReg(fs, e) == NextReg(DischargeVars(fs, e))

AnyReg(x) ==
    IF x.e.k = "NONRELOC" /\ ~HasJumps(x.e) THEN x
    ELSE IF x.e.k = "NONRELOC" /\ x.e.info >= x.fs.nvar THEN Exp2Reg(x.fs, x.e, x.e.info)
    ELSE NextReg(x)
Exp2AnyReg(fs, e) == AnyReg(DischargeVars(fs, e))

Exp2AnyRegUp(fs, e) == IF e.k # "UPVAL" \/ HasJumps(e) THEN Exp2AnyReg(fs, e) ELSE X(fs, e)

Exp2Val(fs, e) == IF e.k = "JMP" \/ HasJumps(e) THEN Exp2AnyReg(fs, e) ELSE DischargeVars(fs, e)

\* the value of a constant expression, for the table of constants
KValue(e) == CASE e.k \in {"KINT", "KFLT", "KSTR"} -> e.v
               [] e.k = "TRUE" -> VBool(TRUE)
               [] e.k = "FALSE" -> VBool(FALSE)
               [] e.k = "NIL" -> VNil

\* 'k' tells whether e became a constant that fits an R/K operand
FitK(r, e) == IF r.i <= MAXINDEXRK
              THEN [fs |-> r.fs, e |-> [e EXCEPT !.k = "K", !.info = r.i], k |-> 1]
              ELSE [fs |-> r.fs, e |-> e, k |-> 0]
Exp2K(fs, e) ==
    CASE e.k = "K" /\ ~HasJumps(e) -> FitK([fs |-> fs, i |-> e.info], e)
      [] e.k \in {"TRUE", "FALSE", "NIL", "KINT", "KFLT", "KSTR"} /\ ~HasJumps(e) ->
             FitK(AddK(fs, KValue(e)), e)
      [] OTHER -> [fs |-> fs, e |-> e, k |-> 0]

NoK(x) == [fs |-> x.fs, e |-> x.e, k |-> 0]
KOrReg(r) == IF r.k = 1 THEN r ELSE NoK(Exp2AnyReg(r.fs, r.e))
Exp2RK(fs, e) == KOrReg(Exp2K(fs, e))

\* an instruction whose last operand is register or constant; e is then free
CodeLast(r, op, a, b) == FreeExp(Code(r.fs, op, a, b, r.e.info, r.k), r.e)
CodeABRK(fs, op, a, b, e) == CodeLast(Exp2RK(fs, e), op, a, b)

SetUpval(x, up) == FreeExp(Code(x.fs, "SETUPVAL", x.e.info, up, 0, 0), x.e)
StoreOp == [INDEXUP |-> "SETTABUP", INDEXI |-> "SETI", INDEXSTR |-> "SETFIELD", INDEXED |-> "SETTABLE"]
StoreVar(fs, var, ex) ==
    CASE var.k = "LOCAL" -> Exp2Reg(FreeExp(fs, ex), ex, var.info).fs
      [] var.k = "UPVAL" -> SetUpval(Exp2AnyReg(fs, ex), var.info)
      [] var.k \in DOMAIN StoreOp -> CodeABRK(fs, StoreOp[var.k], var.t, var.idx, ex)

\* e:key( -- the function and its first argument in two consecutive registers
SelfTop(fs, e, key) == X(CodeABRK(ReserveRegs(fs, 2), "SELF", fs.freereg, e.info, key),
                         Exp("NONRELOC", fs.freereg))
SelfReg(x, key) == SelfTop(FreeExp(x.fs, x.e), x.e, key)
Self(fs, e, key) == SelfReg(Exp2AnyReg(fs, e), key)

(***************************************************************************)
(* Conditions.                                                             *)
(***************************************************************************)
AlwaysTrue == {"K", "KINT", "KFLT", "KSTR", "TRUE"}

NegateCondition(fs, e) ==
    LET i == JumpControl(fs.code, e.info) IN
    [fs EXCEPT !.code[i].k = 1 - @, !.ok = @ /\ fs.code[i].op \in TestOps \ {"TEST", "TESTSET"}]

TestReg(x, cond) == CondJump(FreeExp(x.fs, x.e), "TESTSET", NO_REG, x.e.info, 0, cond)
JumpOnCond(fs, e, cond) ==
    IF e.k = "RELOC" /\ fs.code[e.info].op = "NOT"
    THEN CondJump(RemoveLast(fs), "TEST", fs.code[e.info].b, 0, 0, 1 - cond)
    ELSE TestReg(Discharge2AnyReg(fs, e), cond)

\* the code goes on when e is true; jump pc, when there is one, exits when it is false
OnTrue(fs, e, pc) == X(PatchToHere(JumpConcat(fs, e.fj, pc), e.tj),
                       [e EXCEPT !.fj = Joined(@, pc), !.tj = NO_JUMP])
LastOnTrue(fs, e) == OnTrue(fs, e, Pc(fs))
GoTrue(x) == CASE x.e.k = "JMP" -> OnTrue(NegateCondition(x.fs, x.e), x.e, x.e.info)
               [] x.e.k \in AlwaysTrue -> OnTrue(x.fs, x.e, NO_JUMP)
               [] OTHER -> LastOnTrue(JumpOnCond(x.fs, x.e, 0), x.e)
GoIfTrue(fs, e) == GoTrue(DischargeVars(fs, e))

OnFalse(fs, e, pc) == X(PatchToHere(JumpConcat(fs, e.tj, pc), e.fj),
                        [e EXCEPT !.tj = Joined(@, pc), !.fj = NO_JUMP])
LastOnFalse(fs, e) == OnFalse(fs, e, Pc(fs))
GoFalse(x) == CASE x.e.k = "JMP" -> OnFalse(x.fs, x.e, x.e.info)
                [] x.e.k \in {"NIL", "FALSE"} -> OnFalse(x.fs, x.e, NO_JUMP)
                [] OTHER -> LastOnFalse(JumpOnCond(x.fs, x.e, 1), x.e)
GoIfFalse(fs, e) == GoFalse(DischargeVars(fs, e))

\* a negated test keeps its jumps, with the two lists exchanged and no values
SwapListsOnly(x) == X(x.fs, [x.e EXCEPT !.tj = x.e.fj, !.fj = x.e.tj])
SwapLists(x) == X(RemoveValues(RemoveValues(x.fs, x.e.tj), x.e.fj),
                  [x.e EXCEPT !.tj = x.e.fj, !.fj = x.e.tj])

NotReg(x) == Reloc(Code(FreeExp(x.fs, x.e), "NOT", 0, x.e.info, 0, 0), x.e)
CodeNot(fs, e) ==
    SwapLists(
        CASE e.k \in {"NIL", "FALSE"} -> X(fs, [e EXCEPT !.k = "TRUE"])
          [] e.k \in AlwaysTrue -> X(fs, [e EXCEPT !.k = "FALSE"])
          [] e.k = "JMP" -> X(NegateCondition(fs, e), e)
          [] OTHER -> NotReg(Discharge2AnyReg(fs, e)))

\* t[k]: t is in a register or an upvalue; short keys become operands
Element(fs, t, k, idx) == X(fs, [t EXCEPT !.k = k, !.t = t.info, !.idx = idx])
ByReg(r, t) == Element(r.fs, t, "INDEXED", r.e.info)
Index(fs, t, k) ==
    CASE t.k = "UPVAL" -> Element(fs, t, "INDEXUP", k.info)
      [] t.k # "UPVAL" /\ IsKstr(fs, k) -> Element(fs, t, "INDEXSTR", k.info)
      [] t.k # "UPVAL" /\ IsCint(k) -> Element(fs, t, "INDEXI", k.v[2])
      [] OTHER -> ByReg(Exp2AnyReg(fs, k), t)
IndexReg(x, k) == Index(x.fs, x.e, k)
IndexBy(kx, t) ==
    IF t.k = "UPVAL" /\ ~IsKstr(kx.fs, kx.e) THEN IndexReg(Exp2AnyReg(kx.fs, t), kx.e)
    ELSE Index(kx.fs, t, kx.e)
Indexed(fs, t, key) == IndexBy(IF key.k = "KSTR" THEN Str2K(fs, key) ELSE X(fs, key), t)

(***************************************************************************)
(* Operators.                                                              *)
(***************************************************************************)
\* only what can be done safely is folded, and neither NaN nor 0.0
Fold(op, e1, e2) ==
    IF op \in ArithOps /\ ToNumeral(e1) /\ ToNumeral(e2) THEN RawArith(op, e1.v, e2.v)
    ELSE <<"none">>
FoldUnary(op, e) == IF op # "#" /\ ToNumeral(e) THEN RawUnary(op, e.v) ELSE <<"none">>
Folds(v) == IsNum(v) /\ v # VFlt(0)
Folded(e, v) == [e EXCEPT !.k = IF v[1] = "int" THEN "KINT" ELSE "KFLT", !.v = v]

\* an operation on e1 in a register, followed by the call of its metamethod
CodeMM(fs, e1, e2, mmop, mmv2, event, flip) ==
    X(Code(FreeExps(fs, e1, e2), mmop, e1.info, mmv2, event, flip),
      [e1 EXCEPT !.k = "RELOC", !.info = Pc(fs)])
BinReg(x, e2, op, v2, mmv2, mmop, event, flip) ==
    CodeMM(Code(x.fs, op, 0, x.e.info, v2, 0), x.e, e2, mmop, mmv2, event, flip)
FinishBin(fs, e1, e2, op, v2, mmv2, mmop, event, flip) ==
    BinReg(Exp2AnyReg(fs, e1), e2, op, v2, mmv2, mmop, event, flip)

BinRegs(y, op, e1) == FinishBin(y.fs, e1, y.e, op, y.e.info, y.e.info, "MMBIN", op, 0)
CodeBinRegs(fs, op, e1, e2) == BinRegs(Exp2AnyReg(fs, e2), op, e1)

\* e2 becomes a constant operand when it may be one; else the operands return to their order
BinK(r, op, e1, e2, flip) ==
    IF r.k = 1 THEN FinishBin(r.fs, e1, r.e, op \o "K", r.e.info, r.e.info, "MMBINK", op, flip)
    ELSE CodeBinRegs(r.fs, op, IF flip = 1 THEN e2 ELSE e1, IF flip = 1 THEN e1 ELSE e2)
CodeBinK(fs, op, e1, e2, mayBeK, flip) ==
    BinK(IF mayBeK THEN Exp2K(fs, e2) ELSE NoK(X(fs, e2)), op, e1, e2, flip)

CodeArith(fs, op, e1, e2, flip) == CodeBinK(fs, op, e1, e2, ToNumeral(e2), flip)

\* an immediate operand
CodeImm(fs, op, mm, e1, i, mmi, flip) ==
    FinishBin(fs, e1, Exp("VOID", 0), op, i, mmi, "MMBINI", mm, flip)

\* a constant goes to the right, and flip tells that the operands were swapped
AddImmOrReg(fs, e1, e2, flip) ==
    IF IsSCint(e2) THEN CodeImm(fs, "+I", "+", e1, e2.v[2], e2.v[2], flip)
    ELSE CodeArith(fs, "+", e1, e2, flip)
CodeCommutative(fs, e1, e2) ==
    LET swap == ToNumeral(e1) IN
    AddImmOrReg(fs, IF swap THEN e2 ELSE e1, IF swap THEN e1 ELSE e2, IF swap THEN 1 ELSE 0)

CodeBitwise(fs, op, e1, e2) ==
    LET swap == e1.k = "KINT" IN
    CodeBinK(fs, op, IF swap THEN e2 ELSE e1, IF swap THEN e1 ELSE e2,
             swap \/ e2.k = "KINT", IF swap THEN 1 ELSE 0)

\* x - i is coded as x + -i; the metamethod gets the original operand
CanNegate(e2) == IsKint(e2) /\ FitsC(e2.v[2]) /\ FitsC(-e2.v[2])
FinishNeg(fs, op, mm, e1, e2) == CodeImm(fs, op, mm, e1, -e2.v[2], e2.v[2], 0)

CodeSub(fs, e1, e2) ==
    IF CanNegate(e2) THEN FinishNeg(fs, "+I", "-", e1, e2) ELSE CodeArith(fs, "-", e1, e2, 0)

CodeShiftLeft(fs, e1, e2) ==
    IF IsSCint(e1) THEN CodeImm(fs, "<<I", "<<", e2, e1.v[2], e1.v[2], 1)
    ELSE IF CanNegate(e2) THEN FinishNeg(fs, ">>I", "<<", e1, e2)
    ELSE CodeBinRegs(fs, "<<", e1, e2)

CodeShiftRight(fs, e1, e2) ==
    IF IsSCint(e2) THEN CodeImm(fs, ">>I", ">>", e1, e2.v[2], e2.v[2], 0)
    ELSE CodeBinRegs(fs, ">>", e1, e2)

\* a test and the jump it controls
TestExp(fs) == X(fs, Exp("JMP", Pc(fs)))

\* the operand order of (a < 1) is kept, that of (1 < a) becomes (a > 1)
OrderTest(fs, a, b, op, r1, r2, isfloat) ==
    TestExp(CondJump(FreeExps(fs, a, b), op, r1, r2, isfloat, 1))
OrderImm(x, e, op, isfloat) == OrderTest(x.fs, x.e, e, op, x.e.info, e.v[2], isfloat)
OrderRegs(x, y, op) == OrderTest(y.fs, x.e, y.e, op, x.e.info, y.e.info, 0)
OrderReg(x, e2, op) == OrderRegs(x, Exp2AnyReg(x.fs, e2), op)
IsFlt(e) == IF e.k = "KFLT" THEN 1 ELSE 0
CodeOrder(fs, op, e1, e2) ==
    IF IsSCnumber(e2)
    THEN OrderImm(Exp2AnyReg(fs, e1), e2, IF op = "<" THEN "LTI" ELSE "LEI", IsFlt(e2))
    ELSE IF IsSCnumber(e1)
    THEN OrderImm(Exp2AnyReg(fs, e2), e1, IF op = "<" THEN "GTI" ELSE "GEI", IsFlt(e1))
    ELSE OrderReg(Exp2AnyReg(fs, e1), e2, IF op = "<" THEN "LT" ELSE "LE")

\* the first operand is not constant; k is the wanted result
EqTest(fs, a, b, op, v2, k) == TestExp(CondJump(FreeExps(fs, a, b), op, a.info, v2, 0, k))
EqRK(x, r, k) == EqTest(r.fs, x.e, r.e, IF r.k = 1 THEN "EQK" ELSE "EQ", r.e.info, k)
EqReg(x, e, k) == IF IsSCnumber(e) THEN EqTest(x.fs, x.e, e, "EQI", e.v[2], k)
                  ELSE EqRK(x, Exp2RK(x.fs, e), k)
CodeEq(fs, op, e1, e2) ==
    LET swap == e1.k # "NONRELOC" IN
    EqReg(Exp2AnyReg(fs, IF swap THEN e2 ELSE e1), IF swap THEN e1 ELSE e2, IF op = "==" THEN 1 ELSE 0)

UnaryReg(x, op) == Reloc(Code(FreeExp(x.fs, x.e), op, 0, x.e.info, 0, 0), x.e)
CodeUnary(fs, op, e) == UnaryReg(Exp2AnyReg(fs, e), op)

PrefixOf(x, op) ==
    CASE op = "not" -> CodeNot(x.fs, x.e)
      [] op # "not" /\ Folds(FoldUnary(op, x.e)) -> X(x.fs, Folded(x.e, FoldUnary(op, x.e)))
      [] OTHER -> CodeUnary(x.fs, op, x.e)
Prefix(fs, op, e) == PrefixOf(DischargeVars(fs, e), op)

InfixOf(x, op) ==
    CASE op = "and" -> GoTrue(x)
      [] op = "or" -> GoFalse(x)
      [] op = ".." -> NextReg(x)
      [] op \in ArithOps -> IF ToNumeral(x.e) THEN x ELSE AnyReg(x)
      [] op \in EqOps -> IF ToNumeral(x.e) THEN x ELSE Exp2RK(x.fs, x.e)
      [] op \in OrderOps -> IF IsSCnumber(x.e) THEN x ELSE AnyReg(x)
Infix(fs, op, e) == InfixOf(DischargeVars(fs, e), op)

\* a .. (b .. c) is one instruction over three registers
CodeConcat(fs, e1, e2) ==
    LET ie2 == fs.code[Pc(fs)] IN
    IF PrevIs(fs, "CONCAT")
    THEN X([FreeExp(fs, e2) EXCEPT !.code[Pc(fs)] = Instr("CONCAT", e1.info, ie2.b + 1, 0, 0),
                                   !.ok = @ /\ e1.info + 1 = ie2.a], e1)
    ELSE X(FreeExp(Code(fs, "CONCAT", e1.info, 2, 0, 0), e2), e1)

PosfixAnd(fs, e1, e2) ==
    X(JumpConcat([fs EXCEPT !.ok = @ /\ e1.tj = NO_JUMP], e2.fj, e1.fj),
      [e2 EXCEPT !.fj = Joined(@, e1.fj)])
PosfixOr(fs, e1, e2) ==
    X(JumpConcat([fs EXCEPT !.ok = @ /\ e1.fj = NO_JUMP], e2.tj, e1.tj),
      [e2 EXCEPT !.tj = Joined(@, e1.tj)])

ConcatTop(x, e1) == CodeConcat(x.fs, e1, x.e)
PosfixOf(x, op, e1) ==
    CASE Folds(Fold(op, e1, x.e)) -> X(x.fs, Folded(e1, Fold(op, e1, x.e)))
      [] op = "and" -> PosfixAnd(x.fs, e1, x.e)
      [] op = "or" -> PosfixOr(x.fs, e1, x.e)
      [] op = ".." -> ConcatTop(NextReg(x), e1)
      [] op \in EqOps -> CodeEq(x.fs, op, e1, x.e)
      [] op \in {"<", "<="} -> CodeOrder(x.fs, op, e1, x.e)
      [] op \in {">", ">="} -> CodeOrder(x.fs, IF op = ">" THEN "<" ELSE "<=", x.e, e1)
      [] OTHER ->
             CASE op = "+" -> CodeCommutative(x.fs, e1, x.e)
               [] op = "-" -> CodeSub(x.fs, e1, x.e)
               [] op = "//" -> CodeArith(x.fs, op, e1, x.e, 0)
               [] op = "&" -> CodeBitwise(x.fs, op, e1, x.e)
               [] op = "<<" -> CodeShiftLeft(x.fs, e1, x.e)
               [] op = ">>" -> CodeShiftRight(x.fs, e1, x.e)
Posfix(fs, op, e1, e2) == PosfixOf(DischargeVars(fs, e2), op, e1)

SetList(fs, base, nelems, tostore) ==
    LET f == IF nelems <= MAXARG_C THEN Code(fs, "SETLIST", base, tostore, nelems, 0)
             ELSE Code(Code(fs, "SETLIST", base, tostore, nelems % (MAXARG_C + 1), 1),
                       "EXTRAARG", nelems \div (MAXARG_C + 1), 0, 0, 0)
    IN  [f EXCEPT !.freereg = base + 1]

\* the sizes a new table starts with
SetTableSize(fs, pc, r, asize, hsize) ==
    LET log[n \in 0..hsize] == IF n <= 1 THEN 0 ELSE 1 + log[(n + 1) \div 2]
        b == IF hsize # 0 THEN log[hsize] + 1 ELSE 0
        extra == asize \div (MAXARG_C + 1)
    IN  [fs EXCEPT !.code[pc] = Instr("NEWTABLE", r, b, asize % (MAXARG_C + 1), IF extra > 0 THEN 1 ELSE 0),
                   !.code[pc + 1] = Instr("EXTRAARG", extra, 0, 0, 0)]

\* e as the value of a compile-time constant, or "none"
Exp2Const(e) ==
    IF HasJumps(e) THEN <<"none">>
    ELSE CASE e.k \in {"KINT", "KFLT", "KSTR", "CONST"} -> e.v
           [] e.k = "TRUE" -> VBool(TRUE)
           [] e.k = "FALSE" -> VBool(FALSE)
           [] e.k = "NIL" -> VNil
           [] OTHER -> <<"none">>

Ret(fs, first, nret) ==
    Code(fs, IF nret = 0 THEN "RETURN0" ELSE IF nret = 1 THEN "RETURN1" ELSE "RETURN",
         first, nret + 1, 0, 0)

\* jumps to jumps go to the final target
FinalTarget(code) ==
    LET t[i \in 1..Len(code) + 1] ==
            IF i > Len(code) \/ code[i].op # "JMP" THEN i ELSE t[code[i].b]
    IN  t

\* the function is a vararg one: its returns have more to do
FinalInstr(ins, final) ==
    CASE ins.op \in {"RETURN0", "RETURN1", "RETURN"} -> [ins EXCEPT !.op = "RETURN", !.c = 1]
      [] ins.op = "TAILCALL" -> [ins EXCEPT !.c = 1]
      [] ins.op = "JMP" -> [ins EXCEPT !.b = final[ins.b]]
      [] OTHER -> ins
FinalCode(code, final) == SubSeq([i \in DOMAIN code |-> FinalInstr(code[i], final)], 1, Len(code))
Finish(fs) == [fs EXCEPT !.code = FinalCode(@, FinalTarget(@))]
=============================================================================
