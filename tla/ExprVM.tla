------------------------------- MODULE ExprVM -------------------------------
(***************************************************************************)
(* The interpreter (lvm.c) on the code of one expression statement.        *)
(*                                                                         *)
(* What a metamethod, a function or a foreign table answers is up to the   *)
(* environment; what the interpreter asks of them, with which operands and *)
(* in which order, is the trace s.tr.  Stores do not answer: they go to    *)
(* the set s.mem, because the manual leaves their order open.              *)
(***************************************************************************)
EXTENDS ExprCode, TLC

CONSTANT NumRegs

(***************************************************************************)
(* An environment: the locals a and b, the upvalue u, what indexing        *)
(* answers, how comparisons of foreign values end, and how many values     *)
(* calls and '...' produce.                                                *)
(***************************************************************************)
Garbage == <<"garbage">>

VMState(env) ==
    [pc |-> 1, R |-> [r \in 0..NumRegs - 1 |-> IF r = 0 THEN env.a ELSE IF r = 1 THEN env.b ELSE Garbage],
     up |-> <<<<"env">>, env.u>>, top |-> 0, tr |-> <<>>, mem |-> {}, out |-> <<"none">>]

Ask(s, what) == [s EXCEPT !.tr = Append(@, what)]
Fresh(s) == <<"obj", Len(s.tr)>>            \* the answer to the last question

IndexAnswer(s, env) == IF env.idx = "nil" THEN VNil ELSE Fresh(s)
Results(s, env) == [i \in 1..env.n |-> <<"result", Len(s.tr), i>>]
Varargs(env) == [i \in 1..env.n |-> <<"vararg", i>>]

ValAt(vs, i) == IF i <= Len(vs) THEN vs[i] ELSE VNil

(***************************************************************************)
(* Operations on values, each with the question it may have to ask.  To    *)
(* compare two strings is a question too.                                  *)
(***************************************************************************)
BinArith(s, op, v, w) ==
    LET a == Ask(s, <<op, v, w>>) IN
    IF RawArith(op, v, w)[1] = "none" THEN [s |-> a, v |-> Fresh(a)]
    ELSE [s |-> s, v |-> RawArith(op, v, w)]

Unary(s, op, v) ==
    LET a == Ask(s, <<op, v>>) IN
    IF RawUnary(op, v)[1] = "none" THEN [s |-> a, v |-> Fresh(a)]
    ELSE [s |-> s, v |-> RawUnary(op, v)]

IsText(v) == v[1] = "str" \/ IsNum(v)
Text(v) == IF v[1] = "str" THEN v[2] ELSE <<ToString(v)>>

\* the values of a concatenation are joined from the right
Concat(s0, vs) ==
    LET join[i \in 1..Len(vs)] ==
            LET r == join[i + 1]
                a == Ask(r.s, <<"..", vs[i], r.v>>)
            IN  IF i = Len(vs) THEN [s |-> s0, v |-> vs[i]]
                ELSE IF IsText(vs[i]) /\ IsText(r.v)
                     THEN [s |-> r.s, v |-> <<"str", Text(vs[i]) \o Text(r.v)>>]
                     ELSE [s |-> a, v |-> Fresh(a)]
    IN  join[1]

IsForeign(v) == v[1] \in {"obj", "result", "vararg", "env", "local"}

Equal(s, v, w, env) ==
    IF IsNum(v) /\ IsNum(w) THEN [s |-> s, v |-> v[2] = w[2]]
    ELSE IF v # w /\ IsForeign(v) /\ IsForeign(w)
         THEN [s |-> Ask(s, <<"==", v, w>>), v |-> env.cmp]
         ELSE [s |-> s, v |-> v = w]

Less(s, op, v, w, env) ==
    IF IsNum(v) /\ IsNum(w) THEN [s |-> s, v |-> IF op = "<" THEN v[2] < w[2] ELSE v[2] <= w[2]]
    ELSE [s |-> Ask(s, <<op, v, w>>), v |-> env.cmp]

(***************************************************************************)
(* Instructions.                                                           *)
(***************************************************************************)
Put(s, r, v) == [s EXCEPT !.R[r] = v, !.pc = @ + 1]
K(fs, i) == fs.k[i + 1]
RKC(fs, s, ins) == IF ins.k = 1 THEN K(fs, ins.c) ELSE s.R[ins.c]

\* registers from r on get vs; what is above is no longer valid
PutAll(s, r, vs) ==
    [s EXCEPT !.R = [x \in DOMAIN s.R |-> IF x < r THEN s.R[x]
                                          ELSE IF x - r + 1 <= Len(vs) THEN vs[x - r + 1]
                                          ELSE Garbage],
              !.top = r + Len(vs), !.pc = @ + 1]

LoadOps == {"MOVE", "LOADI", "LOADF", "LOADK", "LOADKX", "LOADFALSE", "LFALSESKIP",
            "LOADTRUE", "LOADNIL", "GETUPVAL", "CLOSURE", "NOT"}

LoadStep(fs, s, ins) ==
    LET a == ins.a IN
    CASE ins.op = "MOVE" -> Put(s, a, s.R[ins.b])
      [] ins.op = "LOADI" -> Put(s, a, VInt(ins.b))
      [] ins.op = "LOADF" -> Put(s, a, VFlt(ins.b))
      [] ins.op = "LOADK" -> Put(s, a, K(fs, ins.b))
      [] ins.op = "LOADKX" -> [Put(s, a, K(fs, fs.code[s.pc + 1].a)) EXCEPT !.pc = s.pc + 2]
      [] ins.op = "LOADFALSE" -> Put(s, a, VBool(FALSE))
      [] ins.op = "LFALSESKIP" -> [Put(s, a, VBool(FALSE)) EXCEPT !.pc = s.pc + 2]
      [] ins.op = "LOADTRUE" -> Put(s, a, VBool(TRUE))
      [] ins.op = "LOADNIL" ->
             [s EXCEPT !.R = [r \in DOMAIN @ |-> IF r \in a..a + ins.b THEN VNil ELSE @[r]],
                       !.pc = @ + 1]
      [] ins.op = "GETUPVAL" -> Put(s, a, s.up[ins.b + 1])
      [] ins.op = "CLOSURE" -> LET q == Ask(s, <<"function">>) IN Put(q, a, Fresh(q))
      [] ins.op = "NOT" -> Put(s, a, VBool(IsFalse(s.R[ins.b])))

GetOps == {"GETTABUP", "GETTABLE", "GETI", "GETFIELD", "SELF"}

GetStep(fs, s, ins, env) ==
    LET t == IF ins.op = "GETTABUP" THEN s.up[ins.b + 1] ELSE s.R[ins.b]
        key == CASE ins.op \in {"GETTABUP", "GETFIELD"} -> K(fs, ins.c)
                 [] ins.op = "GETTABLE" -> s.R[ins.c]
                 [] ins.op = "GETI" -> VInt(ins.c)
                 [] ins.op = "SELF" -> RKC(fs, s, ins)
        q == Ask(s, <<"index", t, key>>)
        q1 == IF ins.op = "SELF" THEN [q EXCEPT !.R[ins.a + 1] = t] ELSE q
    IN  Put(q1, ins.a, IndexAnswer(q, env))

SetOps == {"SETUPVAL", "SETTABUP", "SETTABLE", "SETI", "SETFIELD"}

SetStep(fs, s, ins) ==
    LET t == IF ins.op = "SETTABUP" THEN s.up[ins.a + 1] ELSE s.R[ins.a]
        key == CASE ins.op \in {"SETTABUP", "SETFIELD"} -> K(fs, ins.b)
                 [] ins.op = "SETTABLE" -> s.R[ins.b]
                 [] ins.op = "SETI" -> VInt(ins.b)
    IN  IF ins.op = "SETUPVAL" THEN [s EXCEPT !.up[ins.b + 1] = s.R[ins.a], !.pc = @ + 1]
        ELSE [s EXCEPT !.mem = @ \cup {<<t, key, RKC(fs, s, ins)>>}, !.pc = @ + 1]

\* the operation of an instruction and where its second operand is
ArithOf == [o \in ArithOps \cup {p \o "K" : p \in ArithOps} \cup {"+I", "<<I", ">>I"} |->
               CHOOSE p \in ArithOps : o \in {p, p \o "K", p \o "I"}]

\* a primitive result skips the instruction that calls the metamethod
ArithStep(fs, s, ins) ==
    LET op == ArithOf[ins.op]
        w == CASE ins.op = op -> s.R[ins.c]
               [] ins.op = op \o "K" -> K(fs, ins.c)
               [] OTHER -> VInt(ins.c)
        v == s.R[ins.b]
        imm == ins.op = op \o "I"
        r == IF ins.op = "<<I" THEN RawArith(op, w, v)
             ELSE IF imm /\ v[1] = "flt" /\ op = "+" THEN RawArith(op, v, VFlt(ins.c))
             ELSE RawArith(op, v, w)
    IN  IF r[1] = "none" THEN [s EXCEPT !.pc = @ + 1]
        ELSE [Put(s, ins.a, r) EXCEPT !.pc = s.pc + 2]

MetaStep(fs, s, ins) ==
    LET result == fs.code[s.pc - 1].a
        v == s.R[ins.a]
        w == CASE ins.op = "MMBIN" -> s.R[ins.b]
               [] ins.op = "MMBINI" -> VInt(ins.b)
               [] ins.op = "MMBINK" -> K(fs, ins.b)
        q == Ask(s, IF ins.k = 1 THEN <<ins.c, w, v>> ELSE <<ins.c, v, w>>)
    IN  Put(q, result, Fresh(q))

\* the instruction after a test is its jump
CondJumpStep(fs, s, ins, cond) ==
    IF cond # (ins.k = 1) THEN [s EXCEPT !.pc = @ + 2]
    ELSE [s EXCEPT !.pc = fs.code[s.pc + 1].b]

TestStep(fs, s, ins, env) ==
    LET v == s.R[ins.a]
        imm == IF ins.c = 1 THEN VFlt(ins.b) ELSE VInt(ins.b)
        r == CASE ins.op = "EQ" -> Equal(s, v, s.R[ins.b], env)
               [] ins.op = "EQK" -> Equal(s, v, K(fs, ins.b), env)
               [] ins.op = "EQI" -> Equal(s, v, VInt(ins.b), env)
               [] ins.op = "LT" -> Less(s, "<", v, s.R[ins.b], env)
               [] ins.op = "LE" -> Less(s, "<=", v, s.R[ins.b], env)
               [] ins.op = "LTI" -> Less(s, "<", v, imm, env)
               [] ins.op = "LEI" -> Less(s, "<=", v, imm, env)
               [] ins.op = "GTI" -> Less(s, "<", imm, v, env)
               [] ins.op = "GEI" -> Less(s, "<=", imm, v, env)
               [] ins.op = "TEST" -> [s |-> s, v |-> ~IsFalse(v)]
    IN  CondJumpStep(fs, r.s, ins, r.v)

TestSetStep(fs, s, ins) ==
    LET v == s.R[ins.b] IN
    IF IsFalse(v) = (ins.k = 1) THEN [s EXCEPT !.pc = @ + 2]
    ELSE [s EXCEPT !.R[ins.a] = v, !.pc = fs.code[s.pc + 1].b]

\* operand B counts the function; 0 means up to the top
Args(s, ins) == LET last == IF ins.b = 0 THEN s.top - 1 ELSE ins.a + ins.b - 1
                IN  [i \in 1..last - ins.a |-> s.R[ins.a + i]]

CallStep(s, ins, env) ==
    LET q == Ask(s, <<"call", s.R[ins.a], Args(s, ins)>>)
        rs == Results(q, env)
    IN  IF ins.op = "TAILCALL" THEN [q EXCEPT !.out = <<"return", rs>>]
        ELSE PutAll(q, ins.a, IF ins.c = 0 THEN rs ELSE [i \in 1..ins.c - 1 |-> ValAt(rs, i)])

VarargStep(s, ins, env) ==
    LET vs == IF ins.c = 0 THEN Varargs(env) ELSE [i \in 1..ins.c - 1 |-> ValAt(Varargs(env), i)]
        p == PutAll(s, ins.a, vs)
    IN  IF ins.c = 0 THEN p
        ELSE [p EXCEPT !.R = [x \in DOMAIN @ |-> IF x >= ins.a + Len(vs) THEN s.R[x] ELSE @[x]]]

ReturnStep(s, ins) ==
    LET n == IF ins.b = 0 THEN s.top - ins.a ELSE ins.b - 1
    IN  [s EXCEPT !.out = <<"return", [i \in 1..n |-> s.R[ins.a + i - 1]]>>]

NewTableStep(fs, s, ins) ==
    LET q == Ask(s, <<"table">>) IN [Put(q, ins.a, Fresh(q)) EXCEPT !.pc = s.pc + 2]

SetListStep(fs, s, ins) ==
    LET n == IF ins.b = 0 THEN s.top - ins.a - 1 ELSE ins.b
        from == ins.c + (IF ins.k = 1 THEN (MAXARG_C + 1) * fs.code[s.pc + 1].a ELSE 0)
    IN  [s EXCEPT !.mem = @ \cup {<<s.R[ins.a], VInt(from + i), s.R[ins.a + i]>> : i \in 1..n},
                  !.pc = @ + 1 + ins.k]

Step(fs, s, env) ==
    LET ins == fs.code[s.pc] IN
    CASE ins.op \in LoadOps -> LoadStep(fs, s, ins)
      [] ins.op \in GetOps -> GetStep(fs, s, ins, env)
      [] ins.op \in SetOps -> SetStep(fs, s, ins)
      [] ins.op \in DOMAIN ArithOf -> ArithStep(fs, s, ins)
      [] ins.op \in {"MMBIN", "MMBINI", "MMBINK"} -> MetaStep(fs, s, ins)
      [] ins.op \in {"neg", "bnot", "#"} -> LET r == Unary(s, ins.op, s.R[ins.b])
                                            IN  Put(r.s, ins.a, r.v)
      [] ins.op = "CONCAT" -> LET r == Concat(s, [i \in 1..ins.b |-> s.R[ins.a + i - 1]])
                              IN  PutAll(r.s, ins.a, <<r.v>>)
      [] ins.op \in TestOps \ {"TESTSET"} -> TestStep(fs, s, ins, env)
      [] ins.op = "TESTSET" -> TestSetStep(fs, s, ins)
      [] ins.op = "JMP" -> [s EXCEPT !.pc = ins.b]
      [] ins.op \in {"CALL", "TAILCALL"} -> CallStep(s, ins, env)
      [] ins.op = "VARARG" -> VarargStep(s, ins, env)
      [] ins.op \in {"RETURN0", "RETURN1", "RETURN"} -> ReturnStep(s, ins)
      [] ins.op = "NEWTABLE" -> NewTableStep(fs, s, ins)
      [] ins.op = "SETLIST" -> SetListStep(fs, s, ins)

RECURSIVE Execute(_, _, _)
Execute(fs, s, env) ==
    IF s.pc > Len(fs.code) \/ s.out # <<"none">> THEN s
    ELSE Execute(fs, Step(fs, s, env), env)
=============================================================================
