------------------------------ MODULE MCScopes ------------------------------
EXTENDS ScopeMeaning

W(kind) == <<kind, "">>
X(kind) == <<kind, "x">>
Y(kind) == <<kind, "y">>
A(kind) == <<kind, "a">>
B(kind) == <<kind, "b">>
CallF == <<"call", "f">>
E == W("end")

MCShapes == {
    \* a loop or block whose body makes a closure, left and repeated in every way
    <<{X("local"), None}, {W("while"), W("repeat"), X("fornum"), W("do")}, {X("local"), None},
      {W("do"), None}, {W("func")}, {X("use")}, {X("set"), None}, {E}, {E, None}, {W("if"), None}, {W("break"), A("goto"), W("return"), CallF, None},
      {E, None}, {CallF, X("set"), None}, {A("label"), None}, {E, X("until")}, {CallF, None}, {A("label"), None}>>,
    \* labels, gotos and scopes
    <<{A("goto"), B("goto"), None}, {W("do"), W("func"), W("if"), W("while"), None}, {X("local"), A("label"), None},
      {A("goto"), W("break"), A("label"), B("label"), None}, {B("label"), None}, {E, None}, {A("label"), X("local"), None}, {B("label"), None},
      {W("do"), W("repeat"), None}, {A("label"), B("goto"), X("set"), None}, {E, X("until"), None}, {E, None}>>,
    \* a function left with variables to close
    <<{X("close"), None}, {W("func")}, {Y("close"), Y("local"), X("forin"), None}, {X("local"), None}, {W("do"), W("if"), None},
      {X("close"), None}, {W("return"), W("break"), A("goto"), <<"returncall", "f">>, CallF}, {E, None}, {Y("use"), None},
      {E, None}, {A("label"), None}, {E}, {CallF}, {X("use"), None}>>,
    \* functions that share variables at several depths
    <<{X("local"), X("fornum"), X("const")}, {Y("localfunc")}, {X("local"), X("const"), X("close"), None}, {W("func")}, {X("use")},
      {X("set"), <<"call", "y">>, None}, {E}, {CallF, X("use"), None}, {E}, {X("set"), None}, {<<"call", "y">>, None}, {CallF},
      {X("use"), None}, {E, None}>>,
    <<{W("do"), W("repeat")}, {X("local")}, {<<"localfunc", "y">>}, {X("use"), X("set")}, {E}, {W("func")}, {X("set"), None},
      {<<"call", "y">>}, {X("use"), None}, {E}, {CallF, None}, {E, X("until")}, {CallF}>>,
    \* branches that leave a loop
    <<{W("while"), X("forin"), W("repeat")}, {X("local"), X("close"), None}, {W("if")}, {W("break"), A("goto"), None},
      {X("use"), Y("local"), None}, {W("else"), None}, {W("break"), A("goto"), Y("close"), None}, {X("use"), None}, {E},
      {X("use"), None}, {A("label"), None}, {E, X("until")}, {X("use"), None}>>,
    \* gaps between variables to close
    <<{X("close"), None}, {X("local"), None}, {Y("local"), None}, {Y("local"), None}, {X("close"), None}, {W("func"), W("do"), None},
      {Y("local"), None}, {Y("local"), None}, {Y("close")}, {Y("use"), W("return")}, {E, None}, {CallF, None}, {X("close"), None}>>
}
=============================================================================
