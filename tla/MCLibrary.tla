----------------------------- MODULE MCLibrary -----------------------------
(***************************************************************************)
(* Small arguments for the parts of Library, and next to them parts that   *)
(* have a state of their own: table.sort, the functions on lists, line     *)
(* information, the table of strings and require.                          *)
(***************************************************************************)
EXTENDS Library, Sort, TableLib, LineInfo, Require, StringTable

Greedy == 9    \* more than any string is long
MCItems ==
    LET any == P!Alphabet IN
    {P!Class(<<"a">>, {"a"}, 1, 1, TRUE),
     P!Class(<<".", "*">>, any, 0, Greedy, TRUE),
     P!Class(<<".", "-">>, any, 0, Greedy, FALSE),
     P!Class(<<"%", "a", "+">>, {"a", "b"}, 1, Greedy, TRUE),
     P!Class(<<"b", "?">>, {"b"}, 0, 1, TRUE),
     P!Class(<<"[", "^", "a", "-", "b", "]">>, {"1"}, 1, 1, TRUE),
     P!Special("open", <<"(">>), P!Special("close", <<")">>), P!Special("position", <<"(", ")">>),
     P!BackTo(1), P!Balanced("a", "b"), P!Border(<<"[", "%", "D", "]">>, {P!NUL, "a", "b"}),
     P!Special("end", <<"$">>)}
MCLastItems == {it \in MCItems : it.text \in {<<"a">>, <<"$">>}}
MCSubjects ==
    UNION {[1..n -> {"a", "b"}] : n \in 0..2} \cup
    {<<"a", "a", "b">>, <<"a", "b", "a">>, <<"a", "b", "b">>, <<"1">>, <<"1", "a", "b">>}

MCDigit == {0, 1, 7, 8, 9, 15}
\* line numbers of one and two groups of seven bits, the largest that can be read, and the next
MCLines == {127, 128, 2147483519, 2147483520}
AllParts == {"pattern", "sort", "lists", "numbers", "lines", "chunk", "text", "utf8", "strings", "require"}
OnlyNumbers == {"numbers"}
OnlyStrings == {"strings"}
\* 2 and 3 are equal to the order
MCDatum == 1..7
MCOrder == {<<x, y>> \in MCDatum \X MCDatum : x \div 2 < y \div 2}
MCInputs ==
    {[a |-> Tuple(a), ordered |-> TRUE] : a \in UNION {[1..n -> 1..3] : n \in 0..7}} \cup
    {[a |-> Tuple([i \in 1..n |-> i]), ordered |-> FALSE] : n \in 0..7}
MCSourceLines == {0, 1, 2}
\* LF, CR, NUL, ", \, [, ], =, -, 1, ., e
MCTextByte == {10, 13, 0, 34, 92, 91, 93, 61, 45, 49, 46, 101}
\* ASCII, continuation bytes, first bytes of two, three and four bytes
MCUtf8Byte == {65, 128, 159, 160, 191, 192, 194, 224, 237, 240, 244}

\* strings that share a chain of a small table, and are apart in a larger one
MCStr == {"a", "b", "c"}
MCHash == [s \in MCStr |-> CASE s = "a" -> 0 [] s = "b" -> 5 [] OTHER -> 4]
\* a module, and a submodule whose name has an ignore mark
MCMod == {"a", "a.v-b"}
MCRoot == [m \in MCMod |-> IF m = "a" THEN "no root" ELSE "a"]
MCOpenFuncs == [m \in MCMod |-> IF m = "a" THEN <<"luaopen_a">> ELSE <<"luaopen_a_v", "luaopen_b">>]
Lib(syms) == [loads |-> TRUE, syms |-> syms]
BadLib == [loads |-> FALSE, syms |-> {}]
NoFiles == [f \in {} |-> "good"]
GoodLua == [f \in {<<"p", "a">>, <<"q", "a">>} |-> IF f[1] = "p" THEN "good" ELSE "broken"]
BrokenLua == [f \in {<<"p", "a">>, <<"q", "a.v-b">>} |-> IF f[2] = "a" THEN "broken" ELSE "good"]
NoLibs == [f \in {} |-> BadLib]
RootLib(lib) == [f \in {<<"p", "a">>} |-> lib]
BothLib == Lib({"luaopen_a", "luaopen_b"})
SubLib == [f \in {<<"p", "a.v-b">>, <<"q", "a">>} |-> Lib(IF f[1] = "p" THEN {"luaopen_a_v"} ELSE {})]
LastLib == [f \in {<<"q", "a">>} |-> Lib({"luaopen_a"})]
Preload(v, w) == [m \in MCMod |-> IF m = "a" THEN v ELSE w]
World(preload, path, cpath, lua, libs) == [preload |-> preload, path |-> path, cpath |-> cpath, lua |-> lua, libs |-> libs]
Both == <<"p", "q">>
NotAString == <<"not a string">>
MCWorlds ==
    {World(Preload("nil", "nil"), Both, Both, files[1], files[2]) :
        files \in {<<NoFiles, RootLib(BothLib)>>, <<BrokenLua, RootLib(BothLib)>>, <<NoFiles, SubLib>>, <<GoodLua, LastLib>>}} \cup
    {World(Preload("function", "other"), <<"q">>, <<"p">>, GoodLua, RootLib(BadLib)),
     World(Preload("function", "other"), NotAString, <<"p">>, GoodLua, RootLib(BothLib)),
     World(Preload("function", "nil"), <<"p">>, NotAString, NoFiles, NoLibs)}
MCLibFiles == {<<"q", "a">>}

requireVars == vars
\* in other parts than these, their states are there and stay as they are
MCInit ==
    /\ CallInit
    /\ SortInit /\ (~In("sort") => sort.a = <<>> /\ sort.ordered)
    /\ ListsInit
    /\ LinesInit /\ (~In("lines") => fs = OpenFunc(0))
    /\ StringsInit /\ (~In("strings") => g = CHOOSE h \in {InitG(kind, size) : kind \in Kinds, size \in StartSizes} : TRUE)
    /\ Init /\ (~In("require") => world = CHOOSE w \in Worlds : TRUE)
CallLibrary == CallNext /\ UNCHANGED <<sort, list, linesVars, stringVars, requireVars>>
UseSort == In("sort") /\ SortNext /\ UNCHANGED <<call, list, linesVars, stringVars, requireVars>>
UseLists == In("lists") /\ ListsNext /\ UNCHANGED <<call, sort, linesVars, stringVars, requireVars>>
UseLines == In("lines") /\ LinesNext /\ UNCHANGED <<call, sort, list, stringVars, requireVars>>
UseStrings == In("strings") /\ StringsNext /\ UNCHANGED <<call, sort, list, linesVars, requireVars>>
UseRequire == In("require") /\ Next /\ UNCHANGED <<call, sort, list, linesVars, stringVars>>
MCNext == CallLibrary \/ UseSort \/ UseLists \/ UseLines \/ UseStrings \/ UseRequire
MCSpec == MCInit /\ [][MCNext]_<<call, sort, list, linesVars, stringVars, requireVars>>
=============================================================================
