------------------------------- MODULE MCExpr -------------------------------
EXTENDS ExprMeaning

St(k, n) == [k |-> k, n |-> n]
Grammar(tokens, size, stmts) == [tokens |-> tokens, size |-> size, stmts |-> stmts]

MCGrammars == {
    \* conditions and their jumps
    Grammar({"a", "g", "1", "and", "or", "not", "<"}, 6, {St("local", 1), St("if", 0)}),
    Grammar({"a", "u", "false", "s", "and", "or", "not", "==", "(", ")"}, 5, {St("break", 0), St("return", 0)}),
    \* comparisons, operands swapped or not
    Grammar({"a", "b", "1", "7", "1.0", "s", "nil", "<", "<=", ">", ">=", "==", "~="}, 3, {St("local", 1), St("if", 0)}),
    \* arithmetic: folding, immediate and constant operands
    Grammar({"a", "1", "7", "1.0", "0", "c", "+", "-", "//"}, 5, {St("local", 1)}),
    Grammar({"a", "2", "7", "1.0", "0", "&", "<<", ">>", "bnot", "neg"}, 4, {St("local", 1), St("const", 1)}),
    Grammar({"a", "2", "s", "#", "neg", "..", "+", "(", ")"}, 5, {St("local", 1), St("const", 1)}),
    \* suffixes and calls
    Grammar({"a", "g", "s", ".x", "[", "]", "call(", ")", "call's'", ":m(", ",", "..."}, 4, {St("local", 2), St("return", 0)}),
    Grammar({"u", "...", "1", "2", "call(", ")", "call{", "}", ",", "+", "(", "function"}, 4, {St("local", 2), St("return", 0)}),
    \* constructors
    Grammar({"a", "1", "...", "{", "}", ",", "x=", "[[", "]=", "and"}, 4, {St("local", 1)}),
    Grammar({"1", "...", "{", "}", ","}, 5, {St("local", 1)}),
    \* assignments
    Grammar({"a", "b", "u", "g", ".x", "[", "]", ",", "=", "1"}, 5, {St("assign", 0)}),
    Grammar({"a", "g", "...", "call(", ")", ",", "=", "nil"}, 5, {St("assign", 0)})
}

Env(a, u, idx, n, cmp) == [a |-> a, b |-> <<"local", "b">>, u |-> u, idx |-> idx, n |-> n, cmp |-> cmp]

MCEnvs == {Env(VNil, VInt(3), "obj", 2, TRUE), Env(VInt(2), VFlt(1), "nil", 0, FALSE),
           Env(<<"local", "a">>, VStr("v"), "obj", 1, FALSE)}

MCCompileTime == VInt(2)
=============================================================================
