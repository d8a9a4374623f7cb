--------------------------- MODULE GenerationalGC ---------------------------
(***************************************************************************)
(* The generational mode of the collector (lgc.c), with weak tables,       *)
(* ephemerons, finalizers and the upvalues of coroutines.                  *)
(*                                                                         *)
(* A collection runs from its start to the calls of finalizers without the *)
(* program, so it is one step here.  The record g is global_State: the     *)
(* lists with age marks are sequences, gray lists are sets.  Between two   *)
(* collections there is one white: the other one means dead.               *)
(***************************************************************************)
EXTENDS Integers, Sequences, SequencesExt, FiniteSets, FiniteSetsExt

CONSTANTS Worlds,       \* the types of what may be created, and what is built before the mode
                        \* is entered; bound: the program only takes out of what is built
          MaxEntries,   \* bound: entries of one table
          MaxStack      \* bound: references the running thread holds

VARIABLES world,        \* the member of Worlds
          g             \* the state of the collector and the heap

vars == <<world, g>>

Nil == "nil"
Main == "main"          \* g->mainthread, the running thread
Reg == "reg"            \* the registry; as a metatable it has a __gc field
type == world.type
Obj == DOMAIN type
Tables == {"table", "weakv", "ephemeron", "allweak"}
WithMeta == {"udata", "weakv", "ephemeron"}     \* bound: the types that get metatables
IsTable(o) == type[o] \in Tables
Coroutine == "co"       \* owns all upvalues that are open

\* ages
G_NEW == 0
G_SURVIVAL == 1
G_OLD0 == 2
G_OLD1 == 3
G_OLD == 4
G_TOUCHED1 == 5
G_TOUCHED2 == 6
NextAge == <<G_SURVIVAL, G_OLD1, G_OLD1, G_OLD, G_OLD, G_TOUCHED1, G_TOUCHED2>>

(***************************************************************************)
(* The heap.  refs: the stack of a thread, the upvalue of a closure, the   *)
(* value of a closed upvalue.  ents: the pairs of a table.                 *)
(***************************************************************************)
Alloc(h) == ToSet(h.allgc) \cup ToSet(h.finobj) \cup ToSet(h.tobefnz)
White(h, o) == h.color[o] = "white"
Black(h, o) == h.color[o] = "black"
Gray(h, o) == h.color[o] = "gray"
IsOld(h, o) == h.age[o] > G_SURVIVAL
Paint(h, o, c) == [h EXCEPT !.color[o] = c]
Asserted(h, c) == [h EXCEPT !.ok = @ /\ c]

Keys(h, o) == {e[1] : e \in h.ents[o]} \ {Nil}
Values(h, o) == {e[2] : e \in h.ents[o]} \ {Nil}
Meta(h, o) == {h.meta[o]} \ {Nil}
OpenUpvals(h, t) == IF t = Coroutine THEN h.open ELSE {}
\* what an upvalue holds: a slot of its thread's stack while it is open
UpvalValue(h, u) == IF u \in h.open THEN h.refs[Coroutine] ELSE h.refs[u]

(***************************************************************************)
(* Marking.                                                                *)
(***************************************************************************)
LinkGray(h, o, list) ==
    [Asserted(h, ~Gray(h, o)) EXCEPT !.color[o] = "gray", ![list] = @ \cup {o}]

RECURSIVE ReallyMark(_, _), MarkAll(_, _)
ReallyMark(h, o) ==
    IF type[o] = "udata" THEN MarkAll(Paint(h, o, "black"), Meta(h, o))
    ELSE IF type[o] # "upval" THEN LinkGray(h, o, "gray")
    ELSE MarkAll(Paint(h, o, IF o \in h.open THEN "gray" ELSE "black"), UpvalValue(h, o))
MarkAll(h, S) ==
    LET whites == {o \in S : White(h, o)} IN
    IF whites = {} THEN h ELSE LET o == CHOOSE x \in whites : TRUE IN MarkAll(ReallyMark(h, o), whites \ {o})

\* objects touched in this cycle are seen again by correctgraylists
GenLink(h, o) ==
    CASE h.age[o] = G_TOUCHED1 -> LinkGray(h, o, "grayagain")
      [] h.age[o] = G_TOUCHED2 -> [h EXCEPT !.age[o] = G_OLD]
      [] OTHER -> h

TraverseWeakValue(h, o) ==
    LinkGray(MarkAll(h, Keys(h, o)), o,
             IF h.state = "atomic" /\ \E v \in Values(h, o) : White(MarkAll(h, Keys(h, o)), v) THEN "weak" ELSE "grayagain")

\* a white key stays white while its own table is traversed: the pairs are seen as they were
EphemeronValues(h, o) == {e[2] : e \in {x \in h.ents[o] : x[1] = Nil \/ ~White(h, x[1])}} \ {Nil}
WhiteKeys(h, o) == {e \in h.ents[o] : e[1] # Nil /\ White(h, e[1])}
LinkEphemeron(h, o, cleared) ==
    IF h.state = "propagate" THEN LinkGray(h, o, "grayagain")
    ELSE IF \E e \in cleared : e[2] # Nil /\ White(h, e[2]) THEN LinkGray(h, o, "ephemeron")
    ELSE IF cleared # {} THEN LinkGray(h, o, "allweak")
    ELSE GenLink(h, o)
TraverseEphemeron(h, o) == LinkEphemeron(MarkAll(h, EphemeronValues(h, o)), o, WhiteKeys(h, o))
MarksSome(h, o) == \E v \in EphemeronValues(h, o) : White(h, v)

TraverseStrong(h, o) == GenLink(MarkAll(h, Keys(h, o) \cup Values(h, o)), o)

TraverseTable(h, o) ==
    CASE type[o] = "table" -> TraverseStrong(h, o)
      [] type[o] = "weakv" -> TraverseWeakValue(h, o)
      [] type[o] = "ephemeron" -> TraverseEphemeron(h, o)
      [] type[o] = "allweak" -> LinkGray(h, o, "allweak")

TraverseThread(h, o) ==
    LET watched == IF IsOld(h, o) \/ h.state = "propagate" THEN LinkGray(h, o, "grayagain") ELSE h
        ok == Asserted(watched, h.state = "atomic" \/ OpenUpvals(h, o) = {} \/ o \in h.twups)
        marked == MarkAll(ok, h.refs[o] \cup OpenUpvals(h, o))
    IN  [marked EXCEPT !.twups = IF h.state = "atomic" /\ OpenUpvals(h, o) # {} THEN @ \cup {o} ELSE @]

PropagateMark(h0, o) ==
    LET h == [h0 EXCEPT !.gray = @ \ {o}, !.color[o] = "black"] IN
    CASE IsTable(o) -> TraverseTable(MarkAll(h, Meta(h, o)), o)
      [] type[o] = "closure" -> MarkAll(h, h.refs[o])
      [] type[o] = "thread" -> TraverseThread(h, o)

RECURSIVE PropagateAll(_)
PropagateAll(h) == IF h.gray = {} THEN h ELSE PropagateAll(PropagateMark(h, CHOOSE o \in h.gray : TRUE))

\* one visit to each table of the list; then all again while something was marked
RECURSIVE VisitEphemerons(_, _, _)
VisitEphemerons(h, list, changed) ==
    IF list = {} THEN [h |-> h, changed |-> changed]
    ELSE LET o == CHOOSE x \in list : TRUE
             black == Paint(h, o, "black")
         IN  IF MarksSome(black, o)
             THEN VisitEphemerons(PropagateAll(TraverseEphemeron(black, o)), list \ {o}, TRUE)
             ELSE VisitEphemerons(TraverseEphemeron(black, o), list \ {o}, changed)
\* variant of ConvergeEphemerons: one round
ConvergeOnce(h) == VisitEphemerons([h EXCEPT !.ephemeron = {}], h.ephemeron, FALSE).h
RECURSIVE ConvergeEphemerons(_)
ConvergeEphemerons(h) ==
    LET r == VisitEphemerons([h EXCEPT !.ephemeron = {}], h.ephemeron, FALSE) IN
    IF r.changed THEN ConvergeEphemerons(r.h) ELSE r.h

\* a thread about to die no longer speaks for its open upvalues: their values are marked here
RemarkUpvals(h) ==
    LET t == Coroutine
        visited == {u \in h.open : ~White(h, u)}
        ok == Asserted(h, /\ ~IsOld(h, t) \/ h.open = {}
                          /\ \A u \in h.open : h.age[u] <= h.age[t]
                          /\ \A u \in visited : Gray(h, u))
    IN  IF t \notin h.twups \/ (~White(h, t) /\ h.open # {}) THEN h
        ELSE MarkAll([ok EXCEPT !.twups = {}], IF visited = {} THEN {} ELSE h.refs[t])

ClearByKeys(h, list) ==
    [h EXCEPT !.ents = [o \in Obj |-> IF o \in list THEN {e \in @[o] : e[1] = Nil \/ ~White(h, e[1])} ELSE @[o]]]
ClearByValues(h, list) ==
    [h EXCEPT !.ents = [o \in Obj |-> IF o \in list THEN {e \in @[o] : e[2] = Nil \/ ~White(h, e[2])} ELSE @[o]]]

(***************************************************************************)
(* Lists and the marks in them.  A mark is the first object of its         *)
(* generation; the objects before it are younger.                          *)
(***************************************************************************)
At(list, mark) == SelectInSeq(list, LAMBDA x : x = mark)
Before(list, mark) == IF At(list, mark) = 0 THEN list ELSE SubSeq(list, 1, At(list, mark) - 1)
From(list, mark) == IF At(list, mark) = 0 THEN <<>> ELSE SubSeq(list, At(list, mark), Len(list))
First(list) == IF list = <<>> THEN Nil ELSE list[1]
NextOf(list, o) == First(Tail(From(list, o)))

\* objects that will be finalized; all of them when the state closes
SeparateToBeFnz(h, all) ==
    LET young == Before(h.finobj, h.finobjold1)
        goes(o) == White(h, o) \/ all
        stays(o) == ~goes(o)
    IN  [h EXCEPT !.tobefnz = @ \o SelectSeq(young, goes),
                  !.finobj = SelectSeq(young, stays) \o From(@, h.finobjold1),
                  !.finobjsur = IF @ = h.finobjold1 THEN @
                                ELSE First(SelectSeq(From(young, @), stays) \o From(h.finobj, h.finobjold1))]

Mature(h) ==        \* what is strongly reachable is marked; values of weak tables go
    LET marked == PropagateAll(MarkAll([h EXCEPT !.grayagain = {}, !.state = "atomic"], {Main, Reg}))
        upvals == PropagateAll(RemarkUpvals(marked))
        strong == ConvergeEphemerons(PropagateAll([upvals EXCEPT !.gray = h.grayagain]))
    IN  ClearByValues(strong, strong.weak \cup strong.allweak)
Resurrect(h) ==     \* what finalizers need is marked; keys go, and the values of resurrected tables
    LET marked == PropagateAll(MarkAll(SeparateToBeFnz(h, FALSE), ToSet(SeparateToBeFnz(h, FALSE).tobefnz)))
        all == ConvergeEphemerons(marked)
        keys == ClearByKeys(all, all.ephemeron \cup all.allweak)
    IN  ClearByValues(keys, (all.weak \ h.weak) \cup (all.allweak \ h.allweak))
Atomic(h) == Resurrect(Mature(Asserted(h, h.ephemeron = {} /\ h.weak = {} /\ ~White(h, Main))))

(***************************************************************************)
(* Sweeping.                                                               *)
(***************************************************************************)
\* luaF_closeupval: no barrier can act while sweeping
CloseUpvals(h) ==
    [h EXCEPT !.refs = [o \in Obj |-> IF o \in h.open THEN h.refs[Coroutine] ELSE @[o]], !.open = {},
              !.color = [o \in Obj |-> IF o \in h.open /\ ~White(h, o) THEN "black" ELSE @[o]]]
FreeObj(h0, o) ==
    LET h == IF type[o] = "thread" THEN CloseUpvals(h0) ELSE h0 IN
    [h EXCEPT !.refs[o] = {}, !.ents[o] = {}, !.meta[o] = Nil, !.age[o] = G_NEW, !.color[o] = "white",
              !.open = @ \ {o}, !.twups = @ \ {o}]
FreeAll(h, list) == FoldLeft(FreeObj, h, SelectSeq(list, LAMBDA o : White(h, o)))
Living(h, list) == SelectSeq(list, LAMBDA o : ~White(h, o))

GrowOld(h, S) ==
    [h EXCEPT !.age = [o \in Obj |-> IF o \in S THEN NextAge[@[o] + 1] ELSE @[o]],
              !.color = [o \in Obj |-> IF o \in S /\ h.age[o] = G_NEW THEN "white" ELSE @[o]]]
\* the survivors of 'list' grow older; 'old1' are those in their first cycle as old ones
SweepGen(h, list) ==
    GrowOld(FreeAll(Asserted(h, \A o \in ToSet(list) : White(h, o) => ~IsOld(h, o)), list), ToSet(Living(h, list)))
FirstOld1(h, list, first) ==
    IF first # Nil THEN first ELSE First(SelectSeq(list, LAMBDA o : h.age[o] = G_OLD1))

SweepAllgc(h) ==
    LET nursery == Before(h.allgc, h.survival)
        surv == From(Before(h.allgc, h.old1), h.survival)
        liveN == Living(h, nursery)
        liveS == Living(h, surv)
        s == SweepGen(h, nursery \o surv)
    IN  [s EXCEPT !.allgc = liveN \o liveS \o From(@, h.old1),
                  !.reallyold = h.old1, !.old1 = First(liveS \o From(h.allgc, h.old1)),
                  !.survival = First(liveN \o liveS \o From(h.allgc, h.old1)),
                  !.firstold1 = FirstOld1(s, liveN \o liveS, @)]
SweepFinobj(h) ==
    LET nursery == Before(h.finobj, h.finobjsur)
        surv == From(Before(h.finobj, h.finobjold1), h.finobjsur)
        liveN == Living(h, nursery)
        liveS == Living(h, surv)
        rest == From(h.finobj, h.finobjold1)
    IN  [SweepGen(h, nursery \o surv) EXCEPT
            !.finobj = liveN \o liveS \o rest, !.finobjrold = h.finobjold1,
            !.finobjold1 = First(liveS \o rest), !.finobjsur = First(liveN \o liveS \o rest)]
SweepToBeFnz(h) == SweepGen(h, h.tobefnz)

\* gray lists after the sweep: only touched objects and threads are still watched
GrayLists(h) == h.grayagain \cup h.weak \cup h.allweak \cup h.ephemeron
CorrectGrayLists(h) ==
    LET listed == {o \in GrayLists(h) : ~White(h, o)}
        touched == {o \in listed : h.age[o] = G_TOUCHED1}
        removed == {o \in listed \ touched : type[o] # "thread"}
    IN  [Asserted(h, (\A o \in touched : Gray(h, o)) /\ \A o \in removed : IsOld(h, o)) EXCEPT
            !.grayagain = listed \ removed, !.weak = {}, !.allweak = {}, !.ephemeron = {},
            !.color = [o \in Obj |-> IF o \in touched \cup removed THEN "black" ELSE @[o]],
            !.age = [o \in Obj |-> IF o \in touched THEN G_TOUCHED2
                                   ELSE IF o \in removed /\ h.age[o] = G_TOUCHED2 THEN G_OLD ELSE @[o]]]

\* finalizers are called unless the collection is an emergency one
FinishGenCycle(h, emergency) ==
    [CorrectGrayLists(h) EXCEPT !.state = "propagate", !.calling = @ \/ (~emergency /\ h.tobefnz # <<>>)]

(***************************************************************************)
(* The collections.                                                        *)
(***************************************************************************)
\* variant of MarkOldOne: grows old without being visited
MarkOldSkipped(h, o) ==
    IF h.age[o] # G_OLD1 THEN h ELSE [Asserted(h, ~White(h, o)) EXCEPT !.age[o] = G_OLD]
MarkOldOne(h, o) ==
    IF h.age[o] # G_OLD1 THEN h
    ELSE LET old == [Asserted(h, ~White(h, o)) EXCEPT !.age[o] = G_OLD] IN IF Black(h, o) THEN ReallyMark(old, o) ELSE old
MarkOld(h, list) == FoldLeft(MarkOldOne, h, list)
MarkOldLists(h) ==
    MarkOld([MarkOld(h, From(Before(h.allgc, h.reallyold), h.firstold1)) EXCEPT !.firstold1 = Nil],
            Before(h.finobj, h.finobjrold) \o h.tobefnz)

YoungCollection(h) ==
    FinishGenCycle(SweepToBeFnz(SweepFinobj(SweepAllgc(
        [Atomic(MarkOldLists(Asserted(h, h.state = "propagate"))) EXCEPT !.state = "sweep"]))), FALSE)

\* enterinc: everything is white and has no age
EnterInc(h) ==
    [h EXCEPT !.color = [o \in Obj |-> "white"], !.age = [o \in Obj |-> G_NEW],
              !.survival = Nil, !.old1 = Nil, !.reallyold = Nil,
              !.finobjsur = Nil, !.finobjold1 = Nil, !.finobjrold = Nil, !.state = "pause", !.kind = "inc",
              !.lastatomic = FALSE]
\* a new cycle up to the end of its atomic phase
RestartCollection(h) ==
    MarkAll([h EXCEPT !.gray = {}, !.grayagain = {}, !.weak = {}, !.allweak = {}, !.ephemeron = {}, !.state = "propagate"],
            {Main, Reg} \cup ToSet(h.tobefnz))
MarkEverything(h) == Atomic(PropagateAll(RestartCollection(h)))

Sweep2Old(h, list) ==
    LET live == ToSet(Living(h, list))
        threads == {o \in live : type[o] = "thread"}
    IN  FreeAll([h EXCEPT
            !.age = [o \in Obj |-> IF o \in live THEN G_OLD ELSE @[o]], !.grayagain = @ \cup threads,
            !.color = [o \in Obj |-> IF o \in threads \cup (live \cap h.open) THEN "gray"
                                     ELSE IF o \in live THEN "black" ELSE @[o]]], list)
Atomic2Gen(h, emergency) ==
    LET a == Living(h, h.allgc)
        f == Living(h, h.finobj)
        cleared == [h EXCEPT !.gray = {}, !.grayagain = {}, !.weak = {}, !.allweak = {}, !.ephemeron = {}]
        swept == Sweep2Old(cleared, h.allgc \o h.finobj \o h.tobefnz)
    IN  FinishGenCycle([swept EXCEPT
            !.allgc = a, !.survival = First(a), !.old1 = First(a), !.reallyold = First(a), !.firstold1 = Nil,
            !.finobj = f, !.finobjsur = First(f), !.finobjold1 = First(f), !.finobjrold = First(f),
            !.kind = "gen", !.lastatomic = FALSE], emergency)
EnterGen(h, emergency) == Atomic2Gen(MarkEverything(h), emergency)
FullGen(h, emergency) == EnterGen(EnterInc(h), emergency)

\* a cycle that ends as in incremental mode: all that lives is white
FinishInc(h, emergency) ==
    LET swept == FreeAll(h, h.allgc \o h.finobj \o h.tobefnz) IN
    [swept EXCEPT !.allgc = Living(h, @), !.finobj = Living(h, @),
                  !.color = [o \in Obj |-> "white"], !.state = "pause",
                  !.gray = {}, !.grayagain = {}, !.weak = {}, !.allweak = {}, !.ephemeron = {},
                  !.calling = @ \/ (~emergency /\ h.tobefnz # <<>>)]

\* a cycle in progress is abandoned: the sweep turns everything white and frees nothing
Whitened(h) == [h EXCEPT !.color = [o \in Obj |-> "white"]]
FullInc(h, emergency) == FinishInc(MarkEverything(Whitened(h)), emergency)
\* fullinc runs it to its end, where finalizers that wait are called before the new cycle
CallsFirst(h) == h.kind = "inc" /\ h.state = "propagate" /\ h.tobefnz # <<>>
Abandoned(h) == [Whitened(h) EXCEPT !.state = "pause", !.calling = TRUE, !.full = TRUE]
FullGC(h, emergency) == IF h.kind = "inc" THEN FullInc(h, emergency) ELSE FullGen(h, emergency)

(***************************************************************************)
(* Barriers.                                                               *)
(***************************************************************************)
\* luaC_barrier_: o, black, now points to v, white
Forward(h, o, v) ==
    IF ~Black(h, o) \/ ~White(h, v) THEN h
    ELSE IF IsOld(h, o) THEN [Asserted(ReallyMark(h, v), ~IsOld(h, v)) EXCEPT !.age[v] = G_OLD0] ELSE ReallyMark(h, v)

\* luaC_barrierback_
\* variant of BarrierBack: the object is watched in the next collection only
BarrierBackOnce(h, o) ==
    IF h.age[o] = G_TOUCHED2 THEN Paint(h, o, "gray") ELSE LinkGray(h, o, "grayagain")
BarrierBack(h, o) ==
    [(IF h.age[o] = G_TOUCHED2 THEN Paint(h, o, "gray") ELSE LinkGray(h, o, "grayagain"))
        EXCEPT !.age[o] = IF IsOld(h, o) THEN G_TOUCHED1 ELSE @,
               !.ok = @ /\ (h.kind = "gen") = (IsOld(h, o) /\ h.age[o] # G_TOUCHED1)]
Back(h, o, S) == IF Black(h, o) /\ \E v \in S \ {Nil} : White(h, v) THEN BarrierBack(h, o) ELSE h

(***************************************************************************)
(* The program.                                                            *)
(***************************************************************************)
Access == g.refs[Main] \cup {Reg}
Usable(t) == {o \in Access : type[o] \in t}
Pushed(h, o) == [h EXCEPT !.refs[Main] = @ \cup {o}]
Room == Cardinality(g.refs[Main]) < MaxStack
Running == g.closing \in {"no", "finalizers"}
Step(h) == /\ g' = h /\ UNCHANGED world

NewObj(h, o) == [h EXCEPT !.allgc = <<o>> \o @]

NewObject ==
    \E o \in Obj \ (Alloc(g) \cup world.built) :
        Running /\ Room /\ type[o] \in Tables \cup {"thread", "udata"} /\ Step(Pushed(NewObj(g, o), o))

\* a function of the coroutine makes a closure that shares its variable
NewClosure ==
    \E cl, u \in Obj \ Alloc(g), co \in Usable({"thread"}) \ {Main} :
        /\ Running /\ Room /\ type[cl] = "closure" /\ type[u] = "upval"
        /\ Step(Pushed([NewObj(NewObj(g, u), cl) EXCEPT !.open = @ \cup {u}, !.twups = @ \cup {co}, !.refs[cl] = {u}], cl))

Store ==
    \E o \in Usable(Tables) \ world.built, k, v \in g.refs[Main] \cup {Nil} :
        /\ Running /\ v # Nil
        /\ type[o] \in {"table", "weakv"} => k = Nil
        /\ type[o] \in {"ephemeron", "allweak"} => k # Nil
        /\ LET others == {e \in g.ents[o] : e[1] # k} IN
           /\ Cardinality(others) < MaxEntries
           /\ Step(Back([g EXCEPT !.ents[o] = others \cup {<<k, v>>}], o, {k, v}))

RemovePair ==
    \E o \in Usable(Tables) : \E e \in g.ents[o] : Running /\ Step([g EXCEPT !.ents[o] = @ \ {e}])

Load ==
    \E o \in Usable(Tables) : \E x \in Keys(g, o) \cup Values(g, o) :
        Running /\ Room /\ x \notin g.refs[Main] /\ Step(Pushed(g, x))

Drop == \E o \in g.refs[Main] : Running /\ Step([g EXCEPT !.refs[Main] = @ \ {o}])

\* luaC_checkfinalizer
PassBy(list, mark, o) == IF mark = o THEN NextOf(list, o) ELSE mark
CorrectPointers(h, o) ==
    [h EXCEPT !.survival = PassBy(h.allgc, @, o), !.old1 = PassBy(h.allgc, @, o),
              !.reallyold = PassBy(h.allgc, @, o), !.firstold1 = PassBy(h.allgc, @, o)]
\* variant of CheckFinalizer: the marks may be left in the wrong list
CheckFinalizerForgets(h, o) ==
    IF o \notin ToSet(h.allgc) \/ h.closing # "no" THEN h
    ELSE [h EXCEPT !.allgc = SelectSeq(@, LAMBDA x : x # o), !.finobj = <<o>> \o @]
CheckFinalizer(h, o) ==
    IF o \notin ToSet(h.allgc) \/ h.closing # "no" THEN h
    ELSE [CorrectPointers(h, o) EXCEPT !.allgc = SelectSeq(@, LAMBDA x : x # o), !.finobj = <<o>> \o @]
SetMetatable ==
    \E o \in Usable(WithMeta) \ world.built, m \in Usable({"table"}) :
        /\ Running /\ g.meta[o] = Nil
        /\ \E h \in {Forward([g EXCEPT !.meta[o] = m], o, m)} : Step(IF m = Reg THEN CheckFinalizer(h, o) ELSE h)

\* the coroutine assigns its variable; threads have no barrier
SetSlot ==
    \E co \in Usable({"thread"}) \ {Main}, v \in g.refs[Main] :
        Running /\ type[v] = "table" /\ Step([g EXCEPT !.refs[co] = {v}])
\* a closure assigns it
SetUpval ==
    \E cl \in Usable({"closure"}), v \in g.refs[Main] : \E u \in g.refs[cl] :
        /\ Running /\ type[v] = "table"
        /\ Step(IF u \in g.open THEN [g EXCEPT !.refs[Coroutine] = {v}] ELSE Forward([g EXCEPT !.refs[u] = {v}], u, v))
\* the scope of the variable ends
CloseBarrier(h, u) == IF \E v \in h.refs[u] : White(h, v) THEN Forward(h, u, CHOOSE v \in h.refs[u] : TRUE) ELSE h
CloseVariable ==
    \E co \in Usable({"thread"}) \ {Main} : \E u \in g.open :
        Running /\ Step([CloseBarrier(CloseUpvals(g), u) EXCEPT !.refs[co] = {}])

(***************************************************************************)
(* The collector.                                                          *)
(***************************************************************************)
\* no step of the collector while finalizers are called
MayCollect == ~g.calling /\ g.closing = "no"

\* genstep: a minor collection, or a major one when memory has grown a lot
Young == MayCollect /\ g.kind = "gen" /\ ~g.lastatomic /\ Step(YoungCollection(g))
Major ==
    /\ MayCollect /\ g.kind = "gen" /\ ~g.lastatomic
    /\ \E h \in {FullGen(g, FALSE)}, bad \in BOOLEAN : Step([h EXCEPT !.lastatomic = bad])
\* stepgenfull, after a bad collection: back to minor ones, or another bad one
MarkFromInc(h) == MarkEverything(IF h.kind = "gen" THEN EnterInc(h) ELSE h)
GoodCollection == MayCollect /\ g.lastatomic /\ Step(Atomic2Gen(MarkFromInc(g), FALSE))
BadCollection == MayCollect /\ g.lastatomic /\ Step([FinishInc(MarkFromInc(g), FALSE) EXCEPT !.lastatomic = TRUE])
\* incremental mode, the program runs between the start and the end of a cycle
StartCycle ==
    MayCollect /\ g.kind = "inc" /\ ~g.lastatomic /\ g.state = "pause" /\ Step(PropagateAll(RestartCollection(g)))
EndCycle == MayCollect /\ g.kind = "inc" /\ g.state = "propagate" /\ Step(FinishInc(Atomic(g), FALSE))
\* lua_gc
ChangeToInc ==
    /\ MayCollect /\ (g.kind = "gen" \/ g.lastatomic)
    /\ Step([(IF g.kind = "gen" THEN EnterInc(g) ELSE g) EXCEPT !.lastatomic = FALSE])
ChangeToGen == MayCollect /\ g.kind = "inc" /\ g.state = "pause" /\ Step(EnterGen(g, FALSE))
\* in generational mode a full collection is one of the steps above
Collect == MayCollect /\ g.kind = "inc" /\ Step(IF CallsFirst(g) THEN Abandoned(g) ELSE FullInc(g, FALSE))
\* an allocation failed
Emergency == Running /\ Step(FullGC(g, TRUE))

CallFinalizer ==
    /\ g.calling /\ g.tobefnz # <<>>
    /\ LET o == Head(g.tobefnz) IN
       Step(Pushed([g EXCEPT !.tobefnz = Tail(@), !.allgc = <<o>> \o @,
                             !.firstold1 = IF g.age[o] = G_OLD1 THEN o ELSE @], o))
\* after the calls: what fullinc or luaC_freeallobjects does next
NewCycle(h) == FullInc([h EXCEPT !.calling = FALSE, !.full = FALSE], FALSE)
FinishCalls ==
    /\ g.calling /\ g.tobefnz = <<>>
    /\ Step(IF g.full THEN NewCycle(g)
            ELSE [g EXCEPT !.calling = FALSE, !.closing = IF @ = "finalizers" THEN "freeing" ELSE @])

\* lua_close: every object that has a finalizer gets it called; then all are freed
Close ==
    /\ MayCollect
    /\ Step([SeparateToBeFnz([(IF g.kind = "gen" THEN EnterInc(g) ELSE g) EXCEPT !.refs[Main] = {}], TRUE)
             EXCEPT !.calling = TRUE, !.closing = "finalizers"])
FreeAllObjects ==
    /\ g.closing = "freeing"
    /\ Step([Asserted(FoldLeft(FreeObj, g, Before(g.allgc, Main)), g.finobj = <<>>)
             EXCEPT !.allgc = From(@, Main), !.closing = "closed"])

\* a heap in incremental mode, between two cycles
Heap(w) ==
    [allgc |-> FoldSet(LAMBDA o, list : <<o>> \o list, <<Reg, Main>>, w.built \ {Reg}), finobj |-> <<>>, tobefnz |-> <<>>,
     survival |-> Nil, old1 |-> Nil, reallyold |-> Nil, firstold1 |-> Nil,
     finobjsur |-> Nil, finobjold1 |-> Nil, finobjrold |-> Nil,
     color |-> [o \in Obj |-> "white"], age |-> [o \in Obj |-> G_NEW],
     gray |-> {}, grayagain |-> {}, weak |-> {}, allweak |-> {}, ephemeron |-> {}, twups |-> {}, open |-> {},
     refs |-> [o \in Obj |-> IF o = Main THEN w.stack ELSE {}],
     ents |-> [o \in Obj |-> w.ents[o]], meta |-> [o \in Obj |-> Nil],
     kind |-> "inc", lastatomic |-> FALSE, state |-> "pause", calling |-> FALSE, full |-> FALSE, closing |-> "no", ok |-> TRUE]

Init ==
    /\ world \in Worlds
    /\ g = Heap(world)

Next ==
    \/ NewObject \/ NewClosure \/ Store \/ RemovePair \/ Load \/ Drop \/ SetMetatable
    \/ SetSlot \/ SetUpval \/ CloseVariable
    \/ Young \/ Major \/ GoodCollection \/ BadCollection \/ StartCycle \/ EndCycle
    \/ ChangeToInc \/ ChangeToGen \/ Collect \/ Emergency \/ CallFinalizer \/ FinishCalls
    \/ Close \/ FreeAllObjects

Spec == Init /\ [][Next]_vars

(***************************************************************************)
(* Properties.                                                             *)
(***************************************************************************)
Reached(h, S, o) ==
    CASE type[o] = "table" -> Keys(h, o) \cup Values(h, o) \cup Meta(h, o)
      [] type[o] = "weakv" -> Keys(h, o) \cup Meta(h, o)
      [] type[o] = "ephemeron" -> ({e[2] : e \in {x \in h.ents[o] : x[1] \in S \cup {Nil}}} \ {Nil}) \cup Meta(h, o)
      [] type[o] \in {"allweak", "udata"} -> Meta(h, o)
      [] type[o] = "thread" -> h.refs[o] \cup OpenUpvals(h, o)
      [] type[o] = "closure" -> h.refs[o]
      [] type[o] = "upval" -> UpvalValue(h, o)
RECURSIVE Closure(_, _)
Closure(h, S) ==
    LET more == S \cup UNION {Reached(h, S, o) : o \in S} IN IF more = S THEN S ELSE Closure(h, more)

Reachable(h) == Closure(h, {Main, Reg} \cup ToSet(h.tobefnz))

\* Whatever the ages of objects and the barriers between two collections, nothing
\* that the program or a pending finalizer can reach is freed, and no table it
\* can reach, weak ones included, holds a freed object (youngcollection, atomic,
\* remarkupvals).
NothingLost ==
    g.closing \in {"no", "finalizers"} =>
        \A o \in Reachable(g) :
            /\ o \in Alloc(g)
            /\ IsTable(o) => Keys(g, o) \cup Values(g, o) \subseteq Alloc(g)

\* Wherever a full collection starts, it frees exactly what neither the program nor
\* a finalizer it will call can reach; a weak value goes unless it was strongly
\* reachable before, or its table itself is resurrected now; a weak key stays if a finalizer
\* may still see it (atomic, convergeephemerons, clearbykeys, clearbyvalues).  When marking
\* is under way and finalizers of an earlier collection wait, they are called first and may
\* keep or drop objects: then it is what is reachable after them (fullinc).
KeptPairs(o, strong, all) ==
    {e \in g.ents[o] :
        /\ type[o] \in {"weakv", "allweak"} => e[2] \in IF o \in strong THEN strong ELSE all
        /\ type[o] \in {"ephemeron", "allweak"} => e[1] \in all}
ExactAfter(h) ==
    LET all == Closure(g, {Main, Reg} \cup ToSet(h.tobefnz)) IN
    Alloc(h) = all /\ \A o \in all : h.ents[o] = KeptPairs(o, Reachable(g), all)
FullCollectionExact ==
    /\ MayCollect /\ ~CallsFirst(g) => ExactAfter(FullGC(g, FALSE))
    /\ g.full /\ g.tobefnz = <<>> => ExactAfter(NewCycle(g))

\* The marks in the lists delimit the generations: they are in their lists and in
\* order, no object in front of 'survival' is old unless a barrier or a finalizer made it so,
\* and an object that markold must visit is where markold looks; and the assertions of the
\* collector hold (sweepgen, correctpointers, separatetobefnz, udata2finalize).
Index(list, mark) == IF mark = Nil THEN Len(list) + 1 ELSE At(list, mark)
InOrder(list, m1, m2, m3) ==
    /\ 0 < Index(list, m1) /\ 0 < Index(list, m2) /\ 0 < Index(list, m3)
    /\ Index(list, m1) <= Index(list, m2) /\ Index(list, m2) <= Index(list, m3)
WhereOld1(list) == {i \in DOMAIN list : g.age[list[i]] = G_OLD1}
MarksRight ==
    /\ g.ok
    /\ g.closing = "no" =>
        /\ InOrder(g.allgc, g.survival, g.old1, g.reallyold)
        /\ InOrder(g.finobj, g.finobjsur, g.finobjold1, g.finobjrold)
        /\ \A i \in WhereOld1(g.allgc) : Index(g.allgc, g.firstold1) <= i /\ i < Index(g.allgc, g.reallyold)
        /\ \A i \in WhereOld1(g.finobj) : i < Index(g.finobj, g.finobjrold)
        /\ \A i \in DOMAIN g.allgc : i > Index(g.allgc, g.old1) => IsOld(g, g.allgc[i])
        /\ \A i \in DOMAIN g.finobj : i > Index(g.finobj, g.finobjold1) => IsOld(g, g.finobj[i])

\* An object of an old generation that refers to one that a young collection may free is
\* visited by that collection: it is in 'grayagain', or markold finds it (the barriers,
\* correctgraylist, the ages of sweepgen).
Refers(o) == Keys(g, o) \cup Values(g, o) \cup Meta(g, o) \cup g.refs[o]
YoungWatched ==
    g.kind = "gen" /\ ~g.calling =>
        \A o \in Reachable(g) : \A v \in Refers(o) :
            (~White(g, o) /\ White(g, v)) => g.age[o] = G_OLD1 \/ o \in g.gray \cup g.grayagain \cup g.open
=============================================================================
