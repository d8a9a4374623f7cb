------------------------------- MODULE Chunk --------------------------------
(***************************************************************************)
(* Precompiled chunks: ldump.c writes a function, lundump.c reads it back. *)
(*                                                                         *)
(* A stream is a sequence of items; an item is a byte, or an element of a  *)
(* block that is copied as it is (a character, an instruction, a number).  *)
(* A function (Proto) is a record with the fields of lobject.h; a null     *)
(* string is NullString.                                                   *)
(***************************************************************************)
EXTENDS Integers, Sequences, SequencesExt

CONSTANTS IntMax,     \* INT_MAX
          MaxSize     \* MAX_SIZET, for the lengths of strings

Byte(n) == [is |-> "byte", v |-> n]
Item(v) == [is |-> "item", v |-> v]
Items(s) == [i \in 1..Len(s) |-> Item(s[i])]
NullString == <<"no string">>

\* LUA_SIGNATURE, LUAC_VERSION, LUAC_FORMAT, LUAC_DATA, the three sizes, LUAC_INT, LUAC_NUM
Header == <<Item("ESC"), Item("Lua"), Byte(84), Byte(0), Item("DATA"), Byte(4), Byte(8), Byte(8), Item("INT"), Item("NUM")>>

(***************************************************************************)
(* ldump.c.                                                                *)
(***************************************************************************)
RECURSIVE Groups(_)
\* the groups of seven bits, the first one first
Groups(x) == IF x < 128 THEN <<x>> ELSE Append(Groups(x \div 128), x % 128)
DumpSize(x) == LET g == Groups(x) IN [i \in 1..Len(g) |-> Byte(IF i = Len(g) THEN g[i] + 128 ELSE g[i])]
DumpInt(x) == DumpSize(x)
\* mutant: an empty string is written as no string
DumpStringEmpty(s) == IF s \in {NullString, <<>>} THEN DumpSize(0) ELSE DumpSize(Len(s) + 1) \o Items(s)
DumpString(s) == IF s = NullString THEN DumpSize(0) ELSE DumpSize(Len(s) + 1) \o Items(s)
Each(s, Dump(_)) == FlattenSeq([i \in 1..Len(s) |-> Dump(s[i])])
DumpVector(s, Dump(_)) == DumpInt(Len(s)) \o Each(s, Dump)
DumpItem(v) == <<Item(v)>>

\* a constant is [tt, v]; nil, false and true have no value in the stream
DumpConstant(o) ==
    <<Byte(o.tt)>> \o (CASE o.tt \in {3, 19} -> <<Item(o.v)>>
                         [] o.tt \in {4, 20} -> DumpString(o.v)
                         [] OTHER -> <<>>)
DumpUpvalue(u) == <<Byte(u.instack), Byte(u.idx), Byte(u.kind)>>
DumpName(u) == DumpString(u.name)
DumpAbsLine(a) == DumpInt(a.pc) \o DumpInt(a.line)
DumpLocVar(v) == DumpString(v.varname) \o DumpInt(v.startpc) \o DumpInt(v.endpc)
DumpDebug(f, strip) ==
    IF strip THEN DumpInt(0) \o DumpInt(0) \o DumpInt(0) \o DumpInt(0)
    ELSE DumpVector(f.lineinfo, DumpItem) \o DumpVector(f.abslineinfo, DumpAbsLine)
         \o DumpVector(f.locvars, DumpLocVar) \o DumpVector(f.upvalues, DumpName)

RECURSIVE DumpFunction(_, _, _)
DumpProtos(f, strip) ==
    DumpInt(Len(f.p)) \o FlattenSeq([i \in 1..Len(f.p) |-> DumpFunction(f.p[i], f.source, strip)])
DumpSource(f, psource, strip) == DumpString(IF strip \/ f.source = psource THEN NullString ELSE f.source)
DumpFunction(f, psource, strip) ==
    DumpSource(f, psource, strip) \o DumpInt(f.linedefined) \o DumpInt(f.lastlinedefined)
    \o <<Byte(f.numparams), Byte(f.is_vararg), Byte(f.maxstacksize)>>
    \o DumpVector(f.code, DumpItem) \o DumpVector(f.k, DumpConstant) \o DumpVector(f.upvalues, DumpUpvalue)
    \o DumpProtos(f, strip) \o DumpDebug(f, strip)
\* luaU_dump, with a writer that accepts at most 'room' items and then fails
Dump(f, strip, room) ==
    LET whole == Header \o <<Byte(Len(f.upvalues))>> \o DumpFunction(f, NullString, strip)
    IN  [out |-> SubSeq(whole, 1, IF room < Len(whole) THEN room ELSE Len(whole)),
         status |-> IF room < Len(whole) THEN 1 ELSE 0]

(***************************************************************************)
(* lundump.c.  A load state is the rest of the stream, the last value      *)
(* loaded, the function in progress, and the error that ends the load.     *)
(***************************************************************************)
Fail(S, why) == [S EXCEPT !.err = IF @ = "" THEN why ELSE @, !.v = 0]
Broken(S) == S.err # ""
\* one item, loadByte or an element of a block
LoadItem(S) ==
    IF Broken(S) THEN S
    ELSE IF S.z = <<>> THEN Fail(S, "truncated chunk")
    ELSE [S EXCEPT !.v = Head(S.z).v, !.z = Tail(@)]

RECURSIVE LoadGroups(_, _, _)
Last7(S, x, limit) ==
    IF Broken(S) THEN S
    ELSE IF x >= limit THEN Fail(S, "integer overflow")
    ELSE IF S.v >= 128 THEN [S EXCEPT !.v = x * 128 + @ - 128]
    ELSE LoadGroups(S, x * 128 + S.v, limit)
LoadGroups(S, x, limit) == Last7(LoadItem(S), x, limit)
LoadSize(S) == LoadGroups(S, 0, MaxSize \div 128)
LoadInt(S) == LoadGroups(S, 0, IntMax \div 128)

\* luaZ_read takes all items of a block or fails
LoadBlock(S, n) ==
    IF Broken(S) THEN S
    ELSE IF Len(S.z) < n THEN Fail(S, "truncated chunk")
    ELSE [S EXCEPT !.v = [i \in 1..n |-> S.z[i].v], !.z = SubSeq(@, n + 1, Len(@))]
StringOfSize(S) == IF Broken(S) THEN S ELSE IF S.v = 0 THEN [S EXCEPT !.v = NullString] ELSE LoadBlock(S, S.v - 1)
LoadStringN(S) == StringOfSize(LoadSize(S))
NotNull(S) == IF ~Broken(S) /\ S.v = NullString THEN Fail(S, "bad format for constant string") ELSE S
LoadString(S) == NotNull(LoadStringN(S))

\* what a loader left in v becomes a field of the function
Into(S, field) == IF Broken(S) THEN S ELSE [S EXCEPT !.f[field] = S.v]
\* vectors: a loader is applied n times and its values are collected
CodeOf(S) == IF Broken(S) THEN S ELSE LoadBlock(S, S.v)
LoadCode(S) == CodeOf(LoadInt(S))

ConstantOf(S) ==
    CASE Broken(S) -> S
      [] ~Broken(S) /\ S.v \in {3, 19} -> LET T == LoadItem(S) IN [T EXCEPT !.v = [tt |-> S.v, v |-> T.v]]
      [] ~Broken(S) /\ S.v \in {4, 20} -> LET T == LoadString(S) IN [T EXCEPT !.v = [tt |-> S.v, v |-> T.v]]
      [] OTHER -> [S EXCEPT !.v = [tt |-> S.v]]
LoadConstant(S) == ConstantOf(LoadItem(S))
LoadUpvalue(S) ==
    LET a == LoadItem(S)
        b == LoadItem(a)
        c == LoadItem(b)
    IN  [c EXCEPT !.v = [instack |-> a.v, idx |-> b.v, kind |-> c.v, name |-> NullString]]
LoadAbsLine(S) ==
    LET a == LoadInt(S)
        b == LoadInt(a)
    IN  [b EXCEPT !.v = [pc |-> a.v, line |-> b.v]]
LoadLocVar(S) ==
    LET a == LoadStringN(S)
        b == LoadInt(a)
        c == LoadInt(b)
    IN  [c EXCEPT !.v = [varname |-> a.v, startpc |-> b.v, endpc |-> c.v]]

RECURSIVE LoadN(_, _, _, _), LoadFunction(_, _), LoadFields(_, _)
BackIn(T, f) == [T EXCEPT !.f = f, !.v = T.f]
LoadProto(S, psource) == BackIn(LoadFunction([S EXCEPT !.f = [source |-> psource]], psource), S.f)
\* the next element of the vector 'what' of the function
LoadOne(S, what) ==
    CASE what = "k" -> LoadConstant(S)
      [] what = "upvalues" -> LoadUpvalue(S)
      [] what = "abslineinfo" -> LoadAbsLine(S)
      [] what = "locvars" -> LoadLocVar(S)
      [] what = "names" -> LoadStringN(S)
      [] what = "p" -> LoadProto(S, S.f.source)
Another(S, what, n, got) == LoadN(S, what, n, Append(got, S.v))
LoadN(S, what, n, got) ==
    IF Broken(S) THEN S
    ELSE IF n = 0 THEN [S EXCEPT !.v = got]
    ELSE Another(LoadOne(S, what), what, n - 1, got)
VectorOf(S, what) == IF Broken(S) THEN S ELSE LoadN(S, what, S.v, <<>>)
LoadVector(S, what) == VectorOf(LoadInt(S), what)

\* the upvalue names: none, or as many as there are upvalues
Named(S) == IF Broken(S) THEN S ELSE [S EXCEPT !.f.upvalues = [i \in 1..Len(@) |-> [@[i] EXCEPT !.name = S.v[i]]]]
NamesOf(S) == IF Broken(S) \/ S.v = 0 THEN S ELSE Named(LoadN(S, "names", Len(S.f.upvalues), <<>>))
SourceOf(S, psource) == IF ~Broken(S) /\ S.v = NullString THEN [S EXCEPT !.v = psource] ELSE S

Blank == [source |-> NullString, linedefined |-> 0, lastlinedefined |-> 0, numparams |-> 0, is_vararg |-> 0,
          maxstacksize |-> 0, code |-> <<>>, k |-> <<>>, upvalues |-> <<>>, p |-> <<>>,
          lineinfo |-> <<>>, abslineinfo |-> <<>>, locvars |-> <<>>]
LoadField(S, field) ==
    CASE field \in {"linedefined", "lastlinedefined"} -> Into(LoadInt(S), field)
      [] field \in {"numparams", "is_vararg", "maxstacksize"} -> Into(LoadItem(S), field)
      [] field \in {"code", "lineinfo"} -> Into(LoadCode(S), field)
      [] field \in {"k", "upvalues", "p", "abslineinfo", "locvars"} -> Into(LoadVector(S, field), field)
      [] field = "names" -> NamesOf(LoadInt(S))
LoadOrder == <<"linedefined", "lastlinedefined", "numparams", "is_vararg", "maxstacksize", "code", "k",
               "upvalues", "p", "lineinfo", "abslineinfo", "locvars", "names">>
LoadFields(S, i) == IF i > Len(LoadOrder) THEN S ELSE LoadFields(LoadField(S, LoadOrder[i]), i + 1)
LoadFunction(S, psource) ==
    LoadFields(Into(SourceOf(LoadStringN([S EXCEPT !.f = Blank]), psource), "source"), 1)

\* checkHeader; its first character is already checked
HeaderErrors == <<"", "not a binary chunk", "version mismatch", "format mismatch", "corrupted chunk", "Instruction size mismatch",
                  "lua_Integer size mismatch", "lua_Number size mismatch", "integer format mismatch", "float format mismatch">>
CheckOne(S, i) ==
    LET T == LoadItem(S) IN
    IF ~Broken(T) /\ (Head(S.z) # Header[i]) THEN Fail(T, HeaderErrors[i]) ELSE T
CheckHeader(S) == FoldLeft(CheckOne, S, [i \in 1..(Len(Header) - 1) |-> i + 1])
Loaded(S, n) == [f |-> S.f, err |-> S.err, nupvalues |-> n, rest |-> S.z]
Closure(S) == Loaded(LoadFunction(S, NullString), S.v)
Undump(z) == Closure(LoadItem(CheckHeader([z |-> Tail(z), v |-> 0, f |-> Blank, err |-> ""])))
=============================================================================
