------------------------------ MODULE ScopeRun ------------------------------
(***************************************************************************)
(* The virtual machine that runs the code of Scopes (lvm.c), with its open *)
(* upvalues and its list of variables to be closed (lfunc.c).              *)
(*                                                                         *)
(* All functions share one stack; level 0 is its bottom.  A fresh number   *)
(* stands for each value made.  The trace ev is what a program shows: the  *)
(* values used, closed and called, and the outcome of its conditions.      *)
(***************************************************************************)
EXTENDS Scopes

CONSTANTS MaxDelta,     \* longest distance one entry of the tbc list spans
          StackSize,
          MaxEvents,    \* bounds of a run: events,
          MaxChoices,   \* conditions,
          MaxIdle       \* and instructions between two events

\* a value is a number or a closure, which shows as its function
Plain(n) == [fn |-> FALSE, id |-> n]
IsClosure(v) == v.fn
Shown(v) == <<v.fn, v.id>>

Machine(protos) ==
    [protos |-> protos, stack |-> [i \in 0..StackSize |-> Plain(0)],
     ci |-> <<[base |-> 1, pc |-> 1, id |-> 0, upvals |-> <<>>]>>,
     uvs |-> <<>>, open |-> <<>>, tbc |-> 0, delta |-> [i \in 0..StackSize |-> 0],
     f |-> Plain(0), fresh |-> 1, ev |-> <<>>, choices |-> 0, idle |-> 0, over |-> FALSE]

ProtoOf(m, id) == CHOOSE p \in ToSet(m.protos) : p.id = id
Ci(m) == m.ci[Len(m.ci)]
CodeOf(m) == ProtoOf(m, Ci(m).id).code
Jump(m, pc) == [m EXCEPT !.ci[Len(m.ci)].pc = pc]

Event(m, e) == [m EXCEPT !.ev = Append(@, e), !.idle = 0]
\* an assertion that fails shows
LuaAssert(m, c) == IF c THEN m ELSE Event(m, <<"assertion">>)
\* a C function called at level runs over what is there
Clobber(m, level) ==
    [m EXCEPT !.stack = [i \in 0..StackSize |-> IF i \in level .. level + 2 THEN Plain(0) ELSE @[i]]]

(***************************************************************************)
(* Upvalues: open ones are listed from the highest level down.             *)
(***************************************************************************)
Level(m, u) == m.uvs[u].level
UpValue(m, u) == IF m.uvs[u].open THEN m.stack[Level(m, u)] ELSE m.uvs[u].value
SetUpValue(m, u, v) == IF m.uvs[u].open THEN [m EXCEPT !.stack[Level(m, u)] = v] ELSE [m EXCEPT !.uvs[u].value = v]

\* how many open upvalues are above the level
Above(m, level) == Cardinality({i \in DOMAIN m.open : Level(m, m.open[i]) > level})
FindUpval(m, level) ==
    LET i == Above(m, level) + 1 IN
    IF i <= Len(m.open) /\ Level(m, m.open[i]) = level THEN [m |-> m, u |-> m.open[i]]
    ELSE [m |-> [m EXCEPT !.uvs = Append(@, [open |-> TRUE, level |-> level, value |-> Plain(0)]),
                          !.open = InsertAt(@, i, Len(m.uvs) + 1)],
          u |-> Len(m.uvs) + 1]

CloseUpval(m, level) ==
    LET closing == {i \in DOMAIN m.open : Level(m, m.open[i]) >= level} IN
    [m EXCEPT !.uvs = SubSeq([u \in DOMAIN @ |-> IF u \in {m.open[i] : i \in closing}
                                                THEN [@[u] EXCEPT !.open = FALSE, !.value = m.stack[Level(m, u)]]
                                                ELSE @[u]], 1, Len(@)),
              !.open = SubSeq(@, Cardinality(closing) + 1, Len(@))]

(***************************************************************************)
(* Variables to be closed: each entry holds the distance to the one below; *)
(* dummy entries, with distance 0, fill gaps longer than MaxDelta.         *)
(***************************************************************************)
RECURSIVE NewTbc(_, _)
NewTbc(m, level) ==
    IF level - m.tbc > MaxDelta
    THEN NewTbc([m EXCEPT !.tbc = @ + MaxDelta, !.delta[m.tbc + MaxDelta] = 0], level)
    ELSE [m EXCEPT !.delta[level] = level - m.tbc, !.tbc = level]

RECURSIVE SkipDummies(_, _)
SkipDummies(m, level) ==
    IF level > 0 /\ m.delta[level] = 0 THEN SkipDummies(m, level - MaxDelta) ELSE level
PopTbc(m) == [LuaAssert(m, m.delta[m.tbc] > 0) EXCEPT !.tbc = SkipDummies(m, @ - m.delta[@])]

\* the closing method is called above the variable, or at the top in a return
RECURSIVE CloseTbc(_, _, _)
CloseTbc(m, level, top) ==
    IF m.tbc < level THEN m
    ELSE CloseTbc(Event(Clobber(PopTbc(m), IF top > 0 THEN top ELSE m.tbc + 1), <<"close", Shown(m.stack[m.tbc])>>), level, top)
Close(m, level, top) == CloseTbc(CloseUpval(m, level), level, top)

(***************************************************************************)
(* Calls.                                                                  *)
(***************************************************************************)
RECURSIVE Capture(_, _, _, _)
Capture(m, ups, base, got) ==
    IF Len(got) = Len(ups) THEN [m |-> m, upvals |-> got]
    ELSE LET up == ups[Len(got) + 1] IN
         IF ~up.instack THEN Capture(m, ups, base, Append(got, Ci(m).upvals[up.idx]))
         ELSE LET r == FindUpval(m, base + up.idx) IN Capture(r.m, ups, base, Append(got, r.u))
PushClosure(m, r, id) ==
    LET c == Capture(m, ProtoOf(m, id).ups, Ci(m).base, <<>>)
    IN  [c.m EXCEPT !.stack[Ci(m).base + r] = [fn |-> TRUE, id |-> id, upvals |-> c.upvals]]

Called(m, v) == Event(m, <<"call", Shown(v)>>)
Frame(v, base) == [base |-> base, pc |-> 1, id |-> v.id, upvals |-> v.upvals]
Precall(m, v, base) ==
    IF IsClosure(v) THEN [Called(m, v) EXCEPT !.ci = Append(@, Frame(v, base))] ELSE Called(Clobber(m, base), v)

PosCall(m) == IF Len(m.ci) = 1 THEN Jump([Event(m, <<"end">>) EXCEPT !.over = TRUE], 1) ELSE [m EXCEPT !.ci = Front(@)]
PreTailCall(m, v) ==
    IF IsClosure(v) THEN [Called(m, v) EXCEPT !.ci[Len(m.ci)] = Frame(v, Ci(m).base)] ELSE PosCall(Called(m, v))

(***************************************************************************)
(* One instruction; b decides a condition.                                 *)
(***************************************************************************)
Reg(m, r) == m.stack[Ci(m).base + r]
SetReg(m, r, v) == [m EXCEPT !.stack[Ci(m).base + r] = v]
New(m, r) == [SetReg(m, r, Plain(m.fresh)) EXCEPT !.fresh = @ + 1]
Fetch(m, k, i, x) ==
    CASE k = "local" -> Reg(m, i) [] k = "upval" -> UpValue(m, Ci(m).upvals[i])
      [] k = "const" -> Plain(-1) [] k = "void" -> IF x = "f" THEN m.f ELSE Plain(0)

Conditional == {"TESTF", "TESTT", "FORPREP", "FORLOOP", "TFORLOOP"}

ExecCall(m, i, r) ==
    CASE i[1] = "CLOSURE" -> PushClosure(m, r, i[3])
      [] i[1] = "CALL" -> Precall(m, Reg(m, r), Ci(m).base + r + 1)
      [] i[1] = "TAILCALL" -> PreTailCall(IF i[3] THEN CloseUpval(LuaAssert(m, m.tbc < Ci(m).base), Ci(m).base)
                                          ELSE m, Reg(m, r))
      [] i[1] = "RETURN" -> PosCall(IF i[3] THEN Close(m, Ci(m).base, Ci(m).base + r) ELSE m)

ExecFor(m, i, r, b) ==
    CASE i[1] = "FORPREP" -> IF b THEN New(m, i[3] + 3) ELSE Jump(m, r + 1)
      [] i[1] = "FORLOOP" -> IF b THEN Jump(New(m, i[3] + 3), r) ELSE m
      [] i[1] = "TFORPREP" -> Jump(NewTbc(m, Ci(m).base + i[3] + 3), r)
      [] i[1] = "TFORLOOP" -> IF b THEN Jump(New(Clobber(m, Ci(m).base + i[3] + 4), i[3] + 4), r) ELSE m

Exec(m, i, r, b) ==
    CASE i[1] = "NEW" -> New(m, r)
      [] i[1] = "GET" -> SetReg(m, r, Fetch(m, i[3], i[4], i[5]))
      [] i[1] = "SET" -> IF i[3] = "upval" THEN SetUpValue(m, Ci(m).upvals[i[4]], Reg(m, r))
                         ELSE Event(m, <<"set", i[5]>>)
      [] i[1] = "SETF" -> [m EXCEPT !.f = Reg(m, r)]
      [] i[1] = "SHOW" -> Event(Clobber(m, Ci(m).base + r), <<"use", Shown(Reg(m, r))>>)
      [] i[1] = "TBC" -> NewTbc(m, Ci(m).base + r)
      [] i[1] = "CLOSE" -> Close(m, Ci(m).base + r, 0)
      [] i[1] = "JMP" -> Jump(m, r)
      [] i[1] = "TESTF" -> IF b THEN m ELSE Jump(m, r)
      [] i[1] = "TESTT" -> IF b THEN Jump(m, r) ELSE m
      [] i[1] \in {"CLOSURE", "CALL", "TAILCALL", "RETURN"} -> ExecCall(m, i, r)
      [] i[1] \in {"FORPREP", "FORLOOP", "TFORPREP", "TFORLOOP"} -> ExecFor(m, i, r, b)

Chosen(m, b) == [Event(m, <<"choice", b>>) EXCEPT !.choices = @ + 1]
Step(m, i, b) == Exec(Jump(IF i[1] \in Conditional THEN Chosen(m, b) ELSE [m EXCEPT !.idle = @ + 1], Ci(m).pc + 1), i, i[2], b)

Stopped(m, i) ==
    \/ m.over \/ Len(m.ev) >= MaxEvents \/ m.idle > MaxIdle
    \/ i[1] \in Conditional /\ m.choices = MaxChoices

\* the traces of every run of the machine
RECURSIVE Runs(_), RunFrom(_, _)
Runs(m) == RunFrom(m, CodeOf(m)[Ci(m).pc])
RunFrom(m, i) ==
    IF Stopped(m, i) THEN {SubSeq(m.ev, 1, Min({Len(m.ev), MaxEvents}))}
    ELSE UNION {Runs(Step(m, i, b)) : b \in IF i[1] \in Conditional THEN BOOLEAN ELSE {TRUE}}
=============================================================================
