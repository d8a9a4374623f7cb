---------------------------- MODULE ExprMeaning ----------------------------
(***************************************************************************)
(* What a sequence of tokens means (manual, sections 3.3 and 3.4), without *)
(* a parser: an interval of tokens is split at its operator of lowest      *)
(* priority and evaluated from left to right.  Values, questions and       *)
(* stores are those of ExprVM.                                             *)
(***************************************************************************)
EXTENDS ExprVM, ExprParser

CONSTANT Envs       \* the environments in which compiled code is run

Levels == <<{"or"}, {"and"}, OrderOps \cup EqOps, {"&"}, {"<<", ">>"}, {".."}, {"+", "-"}, {"//"}>>
LevelOf(op) == CHOOSE i \in DOMAIN Levels : op \in Levels[i]
Unaries == {"not", "neg", "bnot", "#"}
Opening == {"(", "{", "[[", "[", "call(", "call{", ":m("}
Closing == {")", "}", "]", "]="}

\* brackets open before each token
Depths(tk) ==
    LET d[i \in 1..Len(tk) + 1] ==
            IF i = 1 THEN 0
            ELSE d[i - 1] + (IF tk[i - 1] \in Opening THEN 1 ELSE 0)
                          - (IF tk[i - 1] \in Closing THEN 1 ELSE 0)
    IN  d

\* positions in i..j outside brackets, and the bracket that j closes
Outside(tk, i, j) == LET d == Depths(tk) IN {p \in i..j : d[p] = d[i]}
Opener(tk, j) == LET d == Depths(tk) IN CHOOSE p \in 1..j : d[p] = d[j + 1] /\ \A q \in p + 1..j : d[q] > d[p]

Commas(tk, i, j) == {p \in Outside(tk, i, j) : tk[p] = ","}

Res(s, vs) == [s |-> s, vs |-> vs]
One(r) == [s |-> r.s, v |-> ValAt(r.vs, 1)]

RECURSIVE Mean(_, _, _, _, _), MeanList(_, _, _, _, _), MeanFields(_, _, _, _, _, _, _)

Answered(q, v) == Res(q, <<v>>)
Indexing(q, env) == Answered(q, IndexAnswer(q, env))
Made(q) == Answered(q, Fresh(q))

Operand(t, s, env) ==
    CASE t = "a" -> Res(s, <<env.a>>)
      [] t = "b" -> Res(s, <<env.b>>)
      [] t = "u" -> Res(s, <<env.u>>)
      [] t = "c" -> Res(s, <<CompileTime>>)
      [] t = "g" -> Indexing(Ask(s, <<"index", <<"env">>, VStr("g")>>), env)
      [] t \in DOMAIN Literals -> Res(s, <<Literals[t]>>)
      [] t = "s" -> Res(s, <<VStr("s")>>)
      [] t = "nil" -> Res(s, <<VNil>>)
      [] t = "true" -> Res(s, <<VBool(TRUE)>>)
      [] t = "false" -> Res(s, <<VBool(FALSE)>>)
      [] t = "..." -> Res(s, Varargs(env))
      [] t = "function" -> Made(Ask(s, <<"function">>))

Single1(r) == Res(r.s, <<r.v>>)
Bool1(r, yes) == Res(r.s, <<VBool(r.v = yes)>>)

\* an operator on v and the value of y, which was computed last
Binary(op, v, y, env) ==
    CASE op \in ArithOps -> Single1(BinArith(y.s, op, v, y.v))
      [] op \in {"<", "<="} -> Bool1(Less(y.s, op, v, y.v, env), TRUE)
      [] op = ">" -> Bool1(Less(y.s, "<", y.v, v, env), TRUE)
      [] op = ">=" -> Bool1(Less(y.s, "<=", y.v, v, env), TRUE)
      [] op \in EqOps -> Bool1(Equal(y.s, v, y.v, env), op = "==")

UnaryOn(op, x) == IF op = "not" THEN Res(x.s, <<VBool(IsFalse(x.v))>>) ELSE Single1(Unary(x.s, op, x.v))

\* the operator after x, whose right operand is i..j
After(op, x, tk, i, j, env) ==
    IF op \in {"and", "or"} /\ IsFalse(x.v) = (op = "and") THEN Res(x.s, <<x.v>>)
    ELSE IF op \in {"and", "or"} THEN Single1(One(Mean(tk, i, j, x.s, env)))
    ELSE Binary(op, x.v, One(Mean(tk, i, j, x.s, env)), env)

\* operators of lowest priority outside brackets
OpsIn(tk, i, j) == {p \in Outside(tk, i, j) : tk[p] \in DOMAIN Left}
Lowest(tk, ops) == LET lvl == Min({LevelOf(tk[p]) : p \in ops}) IN {p \in ops : LevelOf(tk[p]) = lvl}

\* all the operands of a chain of .. come before the first joining
AddPart(s0, r) == [s |-> r.s, vs |-> Append(s0.vs, r.v)]
Parts(tk, cuts, s, env) ==
    LET part[c \in cuts] ==
            IF c = Min(cuts) THEN [s |-> s, vs |-> <<>>]
            ELSE LET b == Max({d \in cuts : d < c})
                 IN  AddPart(part[b], One(Mean(tk, b + 1, c - 1, part[b].s, env)))
    IN  part[Max(cuts)]
Joining(r) == Single1(Concat(r.s, r.vs))

Split(tk, i, j, low, s, env) ==
    LET p == Max(low) IN
    IF tk[p] = ".." THEN Joining(Parts(tk, low \cup {i - 1, j + 1}, s, env))
    ELSE After(tk[p], One(Mean(tk, i, p - 1, s, env)), tk, p + 1, j, env)

\* expressions separated by commas: all but the last give one value
Appended(vs, n, r) == Res(r.s, [k \in 1..n |-> ValAt(vs, k)] \o r.vs)
LastOf(before, tk, i, j, n, env) == Appended(before.vs, n, Mean(tk, i, j, before.s, env))
MeanList(tk, i, j, s, env) ==
    LET cs == Commas(tk, i, j)
        p == Max(cs)
    IN  IF i > j THEN Res(s, <<>>)
        ELSE IF cs = {} THEN Mean(tk, i, j, s, env)
        ELSE LastOf(MeanList(tk, i, p - 1, s, env), tk, p + 1, j, Cardinality(cs), env)

\* a field of the constructor t; an item is number n + 1 and has several values when last
Stored(s, ws) == [s EXCEPT !.mem = @ \cup ws]
Rec(t, k, v) == Stored(v.s, {<<t, k, v.v>>})
RecOf(t, k, tk, i, j, env) == Rec(t, k.v, One(Mean(tk, i, j, k.s, env)))
Item(t, n, r, vs) == Stored(r.s, {<<t, VInt(n + m), vs[m]>> : m \in DOMAIN vs})
ItemOf(t, n, r, last) == Item(t, n, r, IF last THEN r.vs ELSE <<ValAt(r.vs, 1)>>)

\* the fields from token i on; n items come before them
MeanFields(tk, i, j, s, t, n, env) ==
    LET cs == Commas(tk, i, j)
        e == IF cs = {} THEN j ELSE Min(cs) - 1
        close == CHOOSE p \in i..j : tk[p] = "]=" /\ Opener(tk, p) = i
    IN  CASE i > j -> s
          [] i <= j /\ tk[i] = "[[" ->
                 MeanFields(tk, e + 2, j,
                            RecOf(t, One(Mean(tk, i + 1, close - 1, s, env)), tk, close + 1, e, env),
                            t, n, env)
          [] i <= j /\ tk[i] = "x=" ->
                 MeanFields(tk, e + 2, j, RecOf(t, [s |-> s, v |-> VStr("x")], tk, i + 1, e, env), t, n, env)
          [] OTHER -> MeanFields(tk, e + 2, j, ItemOf(t, n, Mean(tk, i, e, s, env), e >= j - 1), t, n + 1, env)

NewTable(q, tk, i, j, env) == Res(MeanFields(tk, i, j, q, Fresh(q), 0, env), <<Fresh(q)>>)
MeanTable(tk, i, j, s, env) == NewTable(Ask(s, <<"table">>), tk, i + 1, j - 1, env)

\* what t..j, the last suffix, does to x
Answer(q, env) == Res(q, Results(q, env))
Called(f, r, env) == Answer(Ask(r.s, <<"call", f, r.vs>>), env)
WithSelf(x, r) == Res(r.s, <<x>> \o r.vs)
Method(x, q, tk, i, j, env) == Called(IndexAnswer(q, env), WithSelf(x, MeanList(tk, i, j, q, env)), env)
Elem(v, k, env) == Indexing(Ask(k.s, <<"index", v, k.v>>), env)

Suffix(x, tk, p, j, env) ==
    CASE tk[p] = ".x" -> Elem(x.v, [s |-> x.s, v |-> VStr("x")], env)
      [] tk[p] = "[" -> Elem(x.v, One(Mean(tk, p + 1, j - 1, x.s, env)), env)
      [] tk[p] = "call(" -> Called(x.v, MeanList(tk, p + 1, j - 1, x.s, env), env)
      [] tk[p] = "call's'" -> Called(x.v, Res(x.s, <<VStr("s")>>), env)
      [] tk[p] = "call{" -> Called(x.v, MeanTable(tk, p, j, x.s, env), env)
      [] tk[p] = ":m(" -> Method(x.v, Ask(x.s, <<"index", x.v, VStr("m")>>), tk, p + 1, j - 1, env)

Mean(tk, i, j, s, env) ==
    LET ops == OpsIn(tk, i, j)
        p == IF tk[j] \in Closing THEN Opener(tk, j) ELSE j
    IN  IF ops # {} THEN Split(tk, i, j, Lowest(tk, ops), s, env)
        ELSE IF tk[i] \in Unaries THEN UnaryOn(tk[i], One(Mean(tk, i + 1, j, s, env)))
        ELSE IF i = j THEN Operand(tk[i], s, env)
        ELSE IF tk[p] = "(" THEN Single1(One(Mean(tk, i + 1, j - 1, s, env)))
        ELSE IF tk[p] = "{" THEN MeanTable(tk, i, j, s, env)
        ELSE Suffix(One(Mean(tk, i, p - 1, s, env)), tk, p, j, env)

(***************************************************************************)
(* Statements.                                                             *)
(***************************************************************************)
Adjusted(vs, n) == [i \in 1..n |-> ValAt(vs, i)]

\* a target: the place it stands for, after its subexpressions; variables have theirs in the frame
Frame0 == <<"frame">>
Place(r, t, k) == [s |-> r.s, t |-> t, k |-> k]
PlaceAt(x, tk, p, j, env) ==
    LET at(k) == Place(k, x.v, k.v) IN
    at(IF tk[j] = "]" THEN One(Mean(tk, p + 1, j - 1, x.s, env)) ELSE [s |-> x.s, v |-> VStr("x")])
MeanTarget(tk, i, j, s, env) ==
    LET p == IF tk[j] = "]" THEN Opener(tk, j) ELSE j IN
    IF i < j THEN PlaceAt(One(Mean(tk, i, p - 1, s, env)), tk, p, j, env)
    ELSE IF tk[i] = "g" THEN [s |-> s, t |-> <<"env">>, k |-> VStr("g")]
    ELSE [s |-> s, t |-> Frame0, k |-> <<tk[i]>>]

\* the targets of an assignment, whose = is at position eq
AddPlace(m, r) == [s |-> r.s, ts |-> Append(m.ts, <<r.t, r.k>>)]
MeanTargets(tk, eq, env) ==
    LET cuts == Commas(tk, 1, eq - 1) \cup {0, eq}
        m[c \in cuts] ==
            IF c = 0 THEN [s |-> VMState(env), ts |-> <<>>]
            ELSE LET b == Max({d \in cuts : d < c})
                 IN  AddPlace(m[b], MeanTarget(tk, b + 1, c - 1, m[b].s, env))
    IN  m[eq]

\* all values are computed before the first store
Assigned(ts, s, vs, env) ==
    LET new(name, old) == LET at == {i \in DOMAIN ts : ts[i] = <<Frame0, <<name>>>>}
                          IN  IF at = {} THEN old ELSE vs[Min(at)]
    IN  [s |-> Stored(s, {<<ts[i][1], ts[i][2], vs[i]>> : i \in {j \in DOMAIN vs : ts[j][1] # Frame0}}),
         a |-> new("a", env.a), b |-> new("b", env.b), u |-> new("u", env.u),
         twice |-> \E i, j \in DOMAIN ts : i # j /\ ts[i] = ts[j]]
AssignedOf(t, r, env) == Assigned(t.ts, r.s, Adjusted(r.vs, Len(t.ts)), env)
ValuesOf(t, tk, eq, env) == AssignedOf(t, MeanList(tk, eq + 1, Len(tk), t.s, env), env)
AssignAt(tk, eq, env) == ValuesOf(MeanTargets(tk, eq, env), tk, eq, env)
MeanAssign(tk, env) == AssignAt(tk, CHOOSE p \in DOMAIN tk : tk[p] = "=", env)

(***************************************************************************)
(* The code of a statement does what the statement means, in every         *)
(* environment: the same questions in the same order, the same stores, the *)
(* same results.  (luaK_ and luaV_execute together.)                       *)
(***************************************************************************)
Same(run, s) == run.tr = s.tr /\ run.mem = s.mem

LocalsAre(run, first, vs) == \A i \in DOMAIN vs : run.R[first + i - 1] = vs[i]

AssignAgrees(run, m) ==
    m.twice \/ (Same(run, m.s) /\ LocalsAre(run, 0, <<m.a, m.b>>) /\ run.up[2] = m.u)

IsCall == "=" \notin {toks[i] : i \in DOMAIN toks}

ListAgrees(run, m) ==
    /\ Same(run, m.s)
    /\ CASE stmt.k = "assign" -> TRUE       \* a call as a statement
         [] stmt.k = "local" -> LocalsAre(run, 2, Adjusted(m.vs, stmt.n))
         [] stmt.k = "const" ->
                IF ls.fs.nvar = 3 THEN LocalsAre(run, 2, Adjusted(m.vs, 1))
                ELSE Exp2Const(ls.e) = ValAt(m.vs, 1)
         [] stmt.k = "return" -> run.out = <<"return", m.vs>>
         [] stmt.k \in {"if", "break"} -> run.out = <<"return", <<VBool(~IsFalse(ValAt(m.vs, 1)))>>>>

Agrees(env, run) ==
    IF stmt.k = "assign" /\ ~IsCall THEN AssignAgrees(run, MeanAssign(toks, env))
    ELSE ListAgrees(run, MeanList(toks, 1, Len(toks), VMState(env), env))

ExprRight ==
    ls.mode = "done" => \A env \in Envs : Agrees(env, Execute(ls.fs, VMState(env), env))

(***************************************************************************)
(* The assertions of the code generator hold: registers are freed in stack *)
(* order and all of them by the end, jump lists are closed where they must *)
(* be, every jump has a target.  (freereg, luaK_posfix, funcargs, retstat.) *)
(***************************************************************************)
AssertsHold ==
    /\ ls.fs.ok
    /\ ls.mode = "done" =>
       /\ ls.fs.freereg >= ls.fs.nvar
       /\ \A i \in DOMAIN ls.fs.code :
              ls.fs.code[i].op = "JMP" => ls.fs.code[i].b \in 1..Len(ls.fs.code) + 1
=============================================================================
