---------------------------- MODULE IncrementalGC ----------------------------
(***************************************************************************)
(* The incremental collector of lgc.c (gckind = KGC_INC) running against   *)
(* the interpreter that mutates the heap between its steps.                *)
(*                                                                         *)
(* The linked lists of the collector are sets here: the order of allgc,    *)
(* gray, ... is left open, so a step takes any member where the code takes *)
(* the first.  Types of objects matter only as far as the collector tells  *)
(* them apart: threads (no barriers, traversed again in the atomic phase), *)
(* leaves (strings: nothing to traverse) and all the others.               *)
(***************************************************************************)
EXTENDS Naturals, FiniteSets

CONSTANTS
    Obj,         \* the addresses a collectable object may have
    Thread,      \* the ones that hold coroutines
    Leaf,        \* the ones that hold strings
    HasGC,       \* tables with a __gc field: as a metatable, they add a finalizer
    MainThread,  \* g->mainthread
    Registry,    \* g->l_registry
    Hidden,      \* bound: objects the program never reads into its stack
    Requests,    \* bound: kinds of full collection that happen, "full" or "emergency"
    MaxRefs,     \* bound: values stored in one object that is not a thread
    GCSWEEPMAX   \* objects visited by one sweep step

ASSUME ObjAssumption ==
    /\ Thread \subseteq Obj
    /\ Leaf \subseteq Obj \ Thread
    /\ HasGC \subseteq Obj \ (Thread \cup Leaf)
    /\ MainThread \in Thread
    /\ Registry \in Obj \ (Thread \cup Leaf)

ASSUME BoundAssumption == MaxRefs \in Nat /\ GCSWEEPMAX \in Nat \ {0}

VARIABLES
    allgc, finobj, tobefnz,  \* the lists an allocated object may be in
    refs,                    \* refs[o]: the objects o points to (a thread: its stack)
    color,                   \* color bits of the field 'marked'
    currentwhite,            \* the white of new objects
    gcstate,                 \* state of the collector
    gray, grayagain,         \* gray lists
    sweepgc,                 \* objects of the current list still to be swept
    running,                 \* the thread L that runs
    normal,                  \* threads that resumed another one and wait for it
    resumes,                 \* resumes[t]: the thread that t, if normal, resumed
    strcache,                \* strings in g->strcache
    full,                    \* progress of a luaC_fullgc the program asked for
    emergency,               \* progress of an emergency luaC_fullgc (gcemergency)
    finalizing               \* the thread in a __gc metamethod, if any (GCSTPGC)

lists   == <<allgc, finobj, tobefnz>>
grays   == <<gray, grayagain>>
threads == <<running, normal, resumes>>
control == <<full, emergency, finalizing>>
vars == <<lists, refs, color, currentwhite, gcstate, grays, sweepgc, threads,
          strcache, control>>

-----------------------------------------------------------------------------
Whites  == {"white0", "white1"}
Colors  == Whites \cup {"gray", "black"}
Stages  == {"none", "drain", "cycle"}
GCStates == {"propagate", "enteratomic", "swpallgc", "swpfinobj",
             "swptobefnz", "swpend", "callfin", "pause"}

Other(white) == IF white = "white0" THEN "white1" ELSE "white0"
OtherWhite == Other(currentwhite)

IsWhite(o) == color[o] \in Whites
IsBlack(o) == color[o] = "black"

Alloc == allgc \cup finobj \cup tobefnz
Dead  == {o \in Alloc : color[o] = OtherWhite}
Live  == Alloc \ Dead

\* GCSatomic never shows between two steps: atomic() leaves it by itself.
KeepInvariant == gcstate \in {"propagate", "enteratomic"}
SweepPhase == gcstate \in {"swpallgc", "swpfinobj", "swptobefnz", "swpend"}

\* Who may take the next step.  A finalizer runs with GC steps switched off,
\* but an allocation that fails in it still forces an emergency collection,
\* and nothing else runs during that one.
MutatorRuns == emergency = "none" /\ (full = "none" \/ finalizing # {})
CollectorRuns == emergency # "none" \/ finalizing = {}

\* What the running thread can name: its stack and the registry (a
\* pseudo-index of the C API).
Access == refs[running] \cup {Registry}

-----------------------------------------------------------------------------
(***************************************************************************)
(* Marking.                                                                *)
(***************************************************************************)
\* reallymarkobject: a string turns black at once, others wait in 'gray'.
Marked(S) == {o \in S : IsWhite(o)}
MarkColor(o) == IF o \in Leaf THEN "black" ELSE "gray"
ColorAfterMark(S) ==
    [o \in Obj |-> IF o \in Marked(S) THEN MarkColor(o) ELSE color[o]]

\* Everything marking reaches from the gray objects G through white objects.
MarkClosure(G) ==
    {o \in Obj : \A S \in SUBSET Obj :
        (G \subseteq S /\ \A x \in S : Marked(refs[x]) \subseteq S) => o \in S}

RestartRoots == {MainThread, Registry} \cup tobefnz

RestartCollection(next) ==
    /\ gcstate = "pause"
    /\ color' = ColorAfterMark(RestartRoots)
    /\ gray' = Marked(RestartRoots)
    /\ grayagain' = {}
    /\ gcstate' = next
    /\ UNCHANGED <<lists, refs, currentwhite, sweepgc, threads, strcache, finalizing>>

\* luaC_step starts a cycle
Restart ==
    /\ CollectorRuns
    /\ full = "none" /\ emergency = "none"
    /\ RestartCollection("propagate")
    /\ UNCHANGED <<full, emergency>>

\* traversethread links a thread into 'grayagain', hence gray, because no
\* barrier will tell when its stack changes.  Every other object is black.
Relink(o) == o \in Thread

PropagateMark(o) ==
    /\ CollectorRuns
    /\ gcstate = "propagate"
    /\ o \in gray
    /\ LET new == Marked(refs[o]) \ {o}
       IN  /\ gray' = (gray \ {o}) \cup (new \ Leaf)
           /\ color' = [x \in Obj |-> IF x \in new THEN MarkColor(x)
                                      ELSE IF x = o /\ ~Relink(o) THEN "black"
                                      ELSE color[x]]
    /\ grayagain' = IF Relink(o) THEN grayagain \cup {o} ELSE grayagain
    /\ UNCHANGED <<lists, refs, currentwhite, gcstate, sweepgc, threads, strcache,
                   control>>

FinishPropagate ==
    /\ CollectorRuns
    /\ gcstate = "propagate" /\ gray = {}
    /\ gcstate' = "enteratomic"
    /\ UNCHANGED <<lists, refs, color, currentwhite, grays, sweepgc, threads,
                   strcache, control>>

-----------------------------------------------------------------------------
(***************************************************************************)
(* Sweeping and the atomic phase.                                          *)
(***************************************************************************)
\* sweeplist on the objects B: the ones with the other white are erased, the
\* others get the current white
Erased(B, colors, white) == {o \in B : colors[o] = Other(white)}
\* (an erased object keeps nothing; its entries are as Init has them).
ColorAfterSweepKeepsBlack(B, colors, white) ==
    [o \in Obj |-> IF o \in Erased(B, colors, white) THEN "white0"
                   ELSE IF o \in B /\ colors[o] # "black" THEN white
                   ELSE colors[o]]
ColorAfterSweep(B, colors, white) ==
    [o \in Obj |-> IF o \in Erased(B, colors, white) THEN "white0"
                   ELSE IF o \in B THEN white
                   ELSE colors[o]]
RefsWithout(erased) == [o \in Obj |-> IF o \in erased THEN {} ELSE refs[o]]

\* entersweep: sweeptolive erases dead objects up to the first live one, which
\* it turns white.
EnterSweep(colors, white) ==
    /\ gcstate' = "swpallgc"
    /\ \E B \in SUBSET allgc :
        LET erased == Erased(B, colors, white)
        IN  /\ Cardinality(B \ erased) = 1
            /\ allgc' = allgc \ erased
            /\ sweepgc' = allgc \ B
            /\ color' = ColorAfterSweep(B, colors, white)
            /\ refs' = RefsWithout(erased)

\* atomic: what is gray when it starts, the running thread and the registry,
\* and all that they reach.
AtomicRootsGrayOnly == gray \cup Marked({running, Registry})
AtomicRoots == gray \cup grayagain \cup Marked({running, Registry})

\* separatetobefnz: finalizable objects that marking did not reach.
SeparatedUnvisited(marked) == {o \in finobj : o \notin marked}
Separated(marked) == {o \in finobj : IsWhite(o) /\ o \notin marked}

\* markbeingfnz, on the whole list, and the propagation after it resurrect what
\* objects with a pending finalizer reach.
ResurrectedShallow(marked) == marked \cup Separated(marked) \cup Marked(tobefnz)
Resurrected(marked) ==
    MarkClosure(AtomicRoots \cup Separated(marked) \cup Marked(tobefnz))

\* luaS_clearcache: strings about to be collected leave the cache.
ClearCache(colors) == {s \in strcache : colors[s] \notin Whites}

Atomic ==
    /\ CollectorRuns
    /\ gcstate = "enteratomic"
    /\ LET reached == MarkClosure(AtomicRoots)
           marked  == Resurrected(reached)
           colors  == [o \in Obj |-> IF o \in marked THEN "black" ELSE color[o]]
       IN  /\ finobj' = finobj \ Separated(reached)
           /\ tobefnz' = tobefnz \cup Separated(reached)
           /\ strcache' = ClearCache(colors)
           /\ currentwhite' = OtherWhite
           /\ EnterSweep(colors, OtherWhite)
    /\ gray' = {} /\ grayagain' = {}
    /\ UNCHANGED <<threads, control>>

\* sweepstep with something left in the current list
SweepList ==
    /\ CollectorRuns
    /\ gcstate \in {"swpallgc", "swpfinobj", "swptobefnz"}
    /\ \E B \in SUBSET sweepgc :
        LET erased == Erased(B, color, currentwhite)
        IN  /\ B # {}
            /\ Cardinality(B) = GCSWEEPMAX \/ (B = sweepgc /\ Cardinality(B) < GCSWEEPMAX)
            /\ allgc' = allgc \ erased
            /\ finobj' = finobj \ erased
            /\ tobefnz' = tobefnz \ erased
            /\ sweepgc' = sweepgc \ B
            /\ color' = ColorAfterSweep(B, color, currentwhite)
            /\ refs' = RefsWithout(erased)
    /\ UNCHANGED <<currentwhite, gcstate, grays, threads, strcache, control>>

\* sweepstep at the end of a list: the state and the list that come next
NextSweep ==
    [swpallgc  |-> <<"swpfinobj", finobj>>,
     swpfinobj |-> <<"swptobefnz", tobefnz>>,
     swptobefnz |-> <<"swpend", {}>>]

SweepNextListEarly ==
    /\ CollectorRuns
    /\ gcstate \in DOMAIN NextSweep
    /\ gcstate' = NextSweep[gcstate][1]
    /\ sweepgc' = NextSweep[gcstate][2]
    /\ UNCHANGED <<lists, refs, color, currentwhite, grays, threads, strcache, control>>

SweepNextList ==
    /\ CollectorRuns
    /\ gcstate \in DOMAIN NextSweep
    /\ sweepgc = {}
    /\ gcstate' = NextSweep[gcstate][1]
    /\ sweepgc' = NextSweep[gcstate][2]
    /\ UNCHANGED <<lists, refs, color, currentwhite, grays, threads, strcache, control>>

SweepEnd ==
    /\ CollectorRuns
    /\ gcstate = "swpend"
    /\ gcstate' = "callfin"
    /\ UNCHANGED <<lists, refs, color, currentwhite, grays, sweepgc, threads,
                   strcache, control>>

-----------------------------------------------------------------------------
(***************************************************************************)
(* Finalizers.                                                             *)
(***************************************************************************)
\* GCTM: udata2finalize takes the object out of 'tobefnz', makes it a normal
\* one, and the running thread gets it as the argument of its finalizer.
CallFinalizer ==
    /\ \E o \in tobefnz :
        /\ tobefnz' = tobefnz \ {o}
        /\ allgc' = allgc \cup {o}
        /\ color' = IF SweepPhase THEN [color EXCEPT ![o] = currentwhite] ELSE color
        /\ refs' = [refs EXCEPT ![running] = @ \cup {o}]
    /\ finalizing' = {running}
    /\ UNCHANGED <<finobj, currentwhite, gcstate, grays, sweepgc, threads, strcache,
                   full, emergency>>

\* singlestep in GCScallfin; an emergency collection calls no finalizer
RunFinalizers ==
    /\ finalizing = {} /\ emergency = "none"
    /\ gcstate = "callfin"
    /\ CallFinalizer

\* runafewfinalizers goes on with the next one when a finalizer returns, also when
\* an emergency collection in it has left the collector at the pause
NextFinalizer ==
    /\ finalizing = {running} /\ emergency = "none"
    /\ CallFinalizer

FinalizerReturnsStopped ==
    /\ finalizing = {running} /\ emergency = "none"
    /\ UNCHANGED vars

\* the finalizer returns, or raises an error that becomes a warning
FinalizerReturns ==
    /\ finalizing = {running} /\ emergency = "none"
    /\ finalizing' = {}
    /\ UNCHANGED <<lists, refs, color, currentwhite, gcstate, grays, sweepgc, threads,
                   strcache, full, emergency>>

EndCycleSkips ==
    /\ CollectorRuns
    /\ gcstate = "callfin"
    /\ gcstate' = "pause"
    /\ UNCHANGED <<lists, refs, color, currentwhite, grays, sweepgc, threads,
                   strcache, control>>

EndCycle ==
    /\ CollectorRuns
    /\ gcstate = "callfin"
    /\ tobefnz = {} \/ emergency # "none"
    /\ gcstate' = "pause"
    /\ UNCHANGED <<lists, refs, color, currentwhite, grays, sweepgc, threads,
                   strcache, control>>

-----------------------------------------------------------------------------
(***************************************************************************)
(* luaC_fullgc: fullinc first drives a cycle in progress to its end        *)
(* ("drain"), then restarts, goes straight to the atomic phase and runs a  *)
(* whole cycle ("cycle").                                                  *)
(***************************************************************************)
\* Black objects must not survive into the new cycle: sweep them all to white.
\* The current white has not changed, so that sweep erases nothing.
AbandonMark(white) ==
    IF KeepInvariant
    THEN /\ EnterSweep(color, white)
         /\ UNCHANGED <<finobj, tobefnz, currentwhite, grays>>
    ELSE UNCHANGED <<lists, refs, color, currentwhite, gcstate, grays, sweepgc>>

FullGC ==
    /\ "full" \in Requests
    /\ MutatorRuns /\ finalizing = {}
    /\ AbandonMark(currentwhite)
    /\ full' = "drain"
    /\ UNCHANGED <<threads, strcache, emergency, finalizing>>

EmergencyGC ==
    /\ "emergency" \in Requests
    /\ MutatorRuns
    /\ AbandonMark(currentwhite)
    /\ emergency' = "drain"
    /\ UNCHANGED <<threads, strcache, full, finalizing>>

FullRestart ==
    /\ CollectorRuns
    /\ \/ emergency = "drain" /\ emergency' = "cycle" /\ UNCHANGED full
       \/ emergency = "none" /\ full = "drain" /\ full' = "cycle" /\ UNCHANGED emergency
    /\ RestartCollection("enteratomic")

FullDone ==
    /\ CollectorRuns
    /\ gcstate = "pause"
    /\ \/ emergency = "cycle" /\ emergency' = "none" /\ UNCHANGED full
       \/ emergency = "none" /\ full = "cycle" /\ full' = "none" /\ UNCHANGED emergency
    /\ UNCHANGED <<lists, refs, color, currentwhite, gcstate, grays, sweepgc, threads,
                   strcache, finalizing>>

-----------------------------------------------------------------------------
(***************************************************************************)
(* Barriers.                                                               *)
(***************************************************************************)
NeedsBarrier(o, v) == IsBlack(o) /\ IsWhite(v)

\* luaC_barrierback: o is visited again in the atomic phase
BarrierBackNever(o, v) == UNCHANGED <<color, gray, grayagain>>
BarrierBackUnlinked(o, v) ==
    /\ color' = IF NeedsBarrier(o, v) THEN [color EXCEPT ![o] = "gray"] ELSE color
    /\ UNCHANGED <<gray, grayagain>>

BarrierBack(o, v) ==
    IF NeedsBarrier(o, v)
    THEN /\ color' = [color EXCEPT ![o] = "gray"]
         /\ grayagain' = grayagain \cup {o}
         /\ UNCHANGED gray
    ELSE UNCHANGED <<color, gray, grayagain>>

\* luaC_barrier: v is marked now; while sweeping, o is swept instead
BarrierForward(o, v) ==
    /\ IF ~NeedsBarrier(o, v) THEN UNCHANGED <<color, gray>>
       ELSE IF KeepInvariant
       THEN /\ color' = ColorAfterMark({v})
            /\ gray' = gray \cup ({v} \ Leaf)
       ELSE /\ color' = [color EXCEPT ![o] = currentwhite]
            /\ UNCHANGED gray
    /\ UNCHANGED grayagain

-----------------------------------------------------------------------------
(***************************************************************************)
(* The mutator: the operations of the interpreter and of the C API.        *)
(***************************************************************************)
Push(v) == refs' = [refs EXCEPT ![running] = @ \cup {v}]

\* luaS_new leaves a string it had to look for in the cache, where it may take
\* the place of another one; other ways to make a string leave the cache alone
CacheAfter(s) == {strcache} \cup {(strcache \ {e}) \cup {s} : e \in strcache \cup {s}}

\* luaC_newobj: white, first of 'allgc', anchored in the stack
NewObject(o) ==
    /\ MutatorRuns
    /\ o \notin Alloc
    /\ allgc' = allgc \cup {o}
    /\ color' = [color EXCEPT ![o] = currentwhite]
    /\ Push(o)
    /\ IF o \in Leaf THEN strcache' \in CacheAfter(o) ELSE UNCHANGED strcache
    /\ UNCHANGED <<finobj, tobefnz, currentwhite, gcstate, grays, sweepgc, threads,
                   control>>

\* internshrstr finds the string in the string table, reachable or not, and
\* resurrects it if it was about to be erased
Resurrect(s) == IF s \in Dead THEN [color EXCEPT ![s] = currentwhite] ELSE color

InternString(s) ==
    /\ MutatorRuns
    /\ s \in Leaf \cap allgc
    /\ color' = Resurrect(s)
    /\ Push(s)
    /\ strcache' \in CacheAfter(s)
    /\ UNCHANGED <<lists, currentwhite, gcstate, grays, sweepgc, threads, control>>

\* luaS_new finds the string in its cache and returns it as it is
CachedString(s) ==
    /\ MutatorRuns
    /\ s \in strcache
    /\ Push(s)
    /\ UNCHANGED <<lists, color, currentwhite, gcstate, grays, sweepgc, threads,
                   strcache, control>>

\* reading a field, an upvalue, a metatable, the stack of another thread, ...
Load(o, v) ==
    /\ MutatorRuns
    /\ o \in Access /\ v \in refs[o] \ Hidden
    /\ Push(v)
    /\ UNCHANGED <<lists, color, currentwhite, gcstate, grays, sweepgc, threads,
                   strcache, control>>

\* the stack shrinks or a slot is overwritten
Drop(v) ==
    /\ MutatorRuns
    /\ v \in refs[running]
    /\ refs' = [refs EXCEPT ![running] = @ \ {v}]
    /\ UNCHANGED <<lists, color, currentwhite, gcstate, grays, sweepgc, threads,
                   strcache, control>>

\* o, reachable and not a thread, gets a reference to v
MayWrite(o, v) ==
    /\ MutatorRuns
    /\ o \in Access \ (Thread \cup Leaf) /\ v \in refs[running]
    /\ Cardinality(refs[o] \cup {v}) <= MaxRefs
Write(o, v) == MayWrite(o, v) /\ refs' = [refs EXCEPT ![o] = @ \cup {v}]

\* assignment to a field of a table or to a user value
StoreBack(o, v) ==
    /\ Write(o, v)
    /\ BarrierBack(o, v)
    /\ UNCHANGED <<lists, currentwhite, gcstate, sweepgc, threads, strcache, control>>

\* assignment to an upvalue or to a field of a prototype
StoreForward(o, v) ==
    /\ Write(o, v)
    /\ BarrierForward(o, v)
    /\ UNCHANGED <<lists, currentwhite, gcstate, sweepgc, threads, strcache, control>>

\* a field is overwritten with a value that is not collectable
Delete(o, v) ==
    /\ MutatorRuns
    /\ o \in Access \ (Thread \cup Leaf) /\ v \in refs[o]
    /\ refs' = [refs EXCEPT ![o] = @ \ {v}]
    /\ UNCHANGED <<lists, color, currentwhite, gcstate, grays, sweepgc, threads,
                   strcache, control>>

\* luaC_checkfinalizer: when the metatable has a __gc field, the object leaves
\* 'allgc' for 'finobj'.  While sweeping it is swept there and then, and the
\* sweep does not meet it in 'allgc' any more.
Swept(colors, o) == IF SweepPhase THEN [colors EXCEPT ![o] = currentwhite] ELSE colors

\* The sweep may stand on the object, the last one that it left behind in 'allgc'
\* (which one that is, and which ones are new, is left open).  Then it goes on before
\* the object leaves the list: sweeptolive, up to the next live one.
SweptOn(o, colors) ==
    {B \in SUBSET sweepgc :
        \/ B = {}
        \/ /\ gcstate = "swpallgc" /\ o \notin sweepgc
           /\ LET live == B \ Erased(B, colors, currentwhite)
              IN  Cardinality(live) = 1 \/ (live = {} /\ B = sweepgc)}

\* variant of CheckFinalizer: the sweep stays on the object, and goes on in 'finobj'
CheckFinalizerFollowed(o, mt, colors) ==
    /\ refs' = [refs EXCEPT ![o] = @ \cup {mt}]
    /\ IF o \in allgc /\ mt \in HasGC
       THEN /\ allgc' = allgc \ {o}
            /\ finobj' = finobj \cup {o}
            /\ color' = Swept(colors, o)
            /\ sweepgc' \in IF gcstate = "swpallgc" /\ o \notin sweepgc THEN {sweepgc, finobj} ELSE {sweepgc \ {o}}
       ELSE color' = colors /\ UNCHANGED <<allgc, finobj, sweepgc>>

CheckFinalizer(o, mt, colors) ==
    IF o \in allgc /\ mt \in HasGC
    THEN \E B \in SweptOn(o, colors) :
        LET erased == Erased(B, colors, currentwhite)
        IN  /\ refs' = [RefsWithout(erased) EXCEPT ![o] = @ \cup {mt}]
            /\ allgc' = allgc \ (erased \cup {o})
            /\ finobj' = finobj \cup {o}
            /\ sweepgc' = sweepgc \ (B \cup {o})
            /\ color' = ColorAfterSweep(B, Swept(colors, o), currentwhite)
    ELSE /\ refs' = [refs EXCEPT ![o] = @ \cup {mt}]
         /\ color' = colors /\ UNCHANGED <<allgc, finobj, sweepgc>>

\* lua_setmetatable on a table or a userdata
SetMetatable(o, mt) ==
    /\ MayWrite(o, mt)
    /\ mt \notin Thread \cup Leaf
    /\ IF ~NeedsBarrier(o, mt) THEN UNCHANGED gray /\ CheckFinalizer(o, mt, color)
       ELSE IF KeepInvariant
       THEN /\ gray' = gray \cup {mt}
            /\ CheckFinalizer(o, mt, ColorAfterMark({mt}))
       ELSE /\ UNCHANGED gray
            /\ CheckFinalizer(o, mt, [color EXCEPT ![o] = currentwhite])
    /\ UNCHANGED <<tobefnz, currentwhite, gcstate, grayagain, threads, strcache, control>>

\* lua_xmove and the other pushes to the stack of a thread that does not run:
\* threads have no barrier
MoveTo(t, v) ==
    /\ MutatorRuns
    /\ t \in (Thread \cap refs[running]) \ {running} /\ v \in refs[running]
    /\ \E left \in {refs[running], refs[running] \ {v}} :
        refs' = [refs EXCEPT ![t] = @ \cup {v}, ![running] = left]
    /\ UNCHANGED <<lists, color, currentwhite, gcstate, grays, sweepgc, threads,
                   strcache, control>>

\* lua_resume of a coroutine that the running thread has on its stack
Resume(t) ==
    /\ MutatorRuns
    /\ t \in (Thread \cap refs[running]) \ (normal \cup {running})
    /\ normal' = normal \cup {running}
    /\ resumes' = [resumes EXCEPT ![running] = t]
    /\ running' = t
    /\ UNCHANGED <<lists, refs, color, currentwhite, gcstate, grays, sweepgc, strcache,
                   control>>

\* lua_yield, or the end of the coroutine; a finalizer cannot yield
Yield ==
    /\ MutatorRuns
    /\ running \notin finalizing
    /\ \E t \in normal :
        /\ resumes[t] = running
        /\ running' = t
        /\ normal' = normal \ {t}
    /\ UNCHANGED <<lists, refs, color, currentwhite, gcstate, grays, sweepgc, resumes,
                   strcache, control>>

-----------------------------------------------------------------------------
\* A state just created by lua_newstate: the registry holds the main thread.
Init ==
    /\ allgc = {MainThread, Registry} /\ finobj = {} /\ tobefnz = {}
    /\ refs = [o \in Obj |-> IF o = Registry THEN {MainThread} ELSE {}]
    /\ color = [o \in Obj |-> "white0"]
    /\ currentwhite = "white0"
    /\ gcstate = "pause"
    /\ gray = {} /\ grayagain = {} /\ sweepgc = {}
    /\ running = MainThread /\ normal = {}
    /\ resumes = [t \in Thread |-> MainThread]
    /\ strcache = {}
    /\ full = "none" /\ emergency = "none" /\ finalizing = {}

\* singlestep
SingleStep ==
    \/ Restart
    \/ \E o \in Obj : PropagateMark(o)
    \/ FinishPropagate
    \/ Atomic
    \/ SweepList
    \/ SweepNextList
    \/ SweepEnd
    \/ RunFinalizers
    \/ EndCycle

Collector == SingleStep \/ FullRestart \/ FullDone

Mutator ==
    \/ \E o \in Obj : NewObject(o) \/ InternString(o) \/ CachedString(o) \/ Drop(o)
    \/ \E o, v \in Obj : Load(o, v) \/ StoreBack(o, v) \/ StoreForward(o, v)
                         \/ Delete(o, v) \/ SetMetatable(o, v)
    \/ \E t \in Thread, v \in Obj : MoveTo(t, v)
    \/ \E t \in Thread : Resume(t)
    \/ Yield
    \/ NextFinalizer
    \/ FinalizerReturns
    \/ FullGC
    \/ EmergencyGC

Next == Collector \/ Mutator

Spec == Init /\ [][Next]_vars

\* The collector goes on: allocations run up a debt that luaC_step pays with
\* single steps, a full collection runs to its end, a finalizer terminates.
Fairness == WF_vars(Collector) /\ WF_vars(FinalizerReturns)
FairSpec == Spec /\ Fairness

-----------------------------------------------------------------------------
(***************************************************************************)
(* Properties.                                                             *)
(***************************************************************************)
\* Every variable stays in its range, and the three lists are disjoint.
TypeOK ==
    /\ allgc \subseteq Obj /\ finobj \subseteq Obj /\ tobefnz \subseteq Obj
    /\ allgc \cap finobj = {} /\ allgc \cap tobefnz = {} /\ finobj \cap tobefnz = {}
    /\ refs \in [Obj -> SUBSET Obj]
    /\ color \in [Obj -> Colors]
    /\ currentwhite \in Whites
    /\ gcstate \in GCStates
    /\ gray \subseteq Obj /\ grayagain \subseteq Obj /\ sweepgc \subseteq Obj
    /\ running \in Thread /\ normal \subseteq Thread
    /\ resumes \in [Thread -> Thread]
    /\ strcache \subseteq Leaf
    /\ full \in Stages /\ emergency \in Stages /\ finalizing \subseteq Thread

\* The main invariant of lgc.h: while it must be kept, no black object points
\* to a white one, whatever the mutator stored since the object was visited.
TriColor ==
    KeepInvariant => \A o \in Alloc : IsBlack(o) => Marked(refs[o]) = {}

\* A gray object still has a visit to come: it is in a gray list, and in one
\* only, for it has a single link to spare; or its visit would be lost and what
\* it reaches collected.  (Outside marking the lists are stale: nothing reads
\* them until restartcollection resets them.)
GrayListed ==
    KeepInvariant => /\ {o \in Alloc : color[o] = "gray"} = gray \cup grayagain
                     /\ gray \cap grayagain = {}

\* What the program can get at is never freed nor about to be: the roots, the
\* threads waiting for a coroutine, the string cache, the objects with a
\* finalizer, and whatever a live object points to, are live.  This is what
\* every access to the heap relies on, in every state of the collector.
NoDangling ==
    /\ {MainThread, Registry, running} \cup normal \cup strcache
          \cup finobj \cup tobefnz \subseteq Live
    /\ \A o \in Live : refs[o] \subseteq Live

\* The assertions of luaC_barrier_ and luaC_barrierback_: whenever the mutator
\* could trigger a barrier, the two objects are alive, and outside marking it
\* happens only while sweeping (elsewhere nothing is black).
BarrierAsserts ==
    MutatorRuns =>
        \A o \in Access \ (Thread \cup Leaf), v \in refs[running] :
            NeedsBarrier(o, v) => o \in Live /\ v \in Live
                                  /\ (KeepInvariant \/ SweepPhase)

\* Objects the current sweep has not come to yet.
Unswept ==
    IF gcstate = "swpallgc" THEN sweepgc \cup finobj \cup tobefnz
    ELSE IF gcstate = "swpfinobj" THEN sweepgc \cup tobefnz
    ELSE IF gcstate = "swptobefnz" THEN sweepgc
    ELSE {}

\* Between marking phases every object the sweep is done with has the current
\* white, so that when the sweep ends nothing black or gray is left for the
\* next cycle to overlook; and an object with the other white exists only in
\* 'allgc', in front of the sweep.
SweepInvariant ==
    /\ ~KeepInvariant => \A o \in Alloc \ Unswept : color[o] = currentwhite
    /\ Dead \subseteq (IF gcstate = "swpallgc" THEN allgc \cap sweepgc ELSE {})

\* The strengthening that makes the invariants above inductive.
\* Free addresses and strings point to nothing; only tables and userdata have
\* finalizers.
HeapInv ==
    /\ \A o \in (Obj \ Alloc) \cup Leaf : refs[o] = {}
    /\ (finobj \cup tobefnz) \cap (Thread \cup Leaf) = {}

\* A thread is never black while marking, so that pushes need no barrier; the
\* main thread is marked from the start.
MarkInv ==
    KeepInvariant => /\ ~IsWhite(MainThread)
                     /\ \A t \in Thread \cap Alloc : ~IsBlack(t)

\* A waiting thread holds the coroutine it resumed, and the main thread leads
\* along these links to every waiting thread and to the running one: this is
\* why atomic() need not mark them one by one.
ThreadInv ==
    /\ running \notin normal
    /\ \A n \in normal : resumes[n] \in refs[n]
    /\ \A S \in SUBSET Thread :
          (MainThread \in S /\ \A n \in S \cap normal : resumes[n] \in S)
              => normal \cup {running} \subseteq S

\* The inductive invariant.
IInv == TypeOK /\ HeapInv /\ MarkInv /\ ThreadInv /\ TriColor /\ GrayListed
        /\ NoDangling /\ SweepInvariant

\* What the program can get at, by definition.
Roots == {MainThread, Registry, running}
Closed(S) == \A o \in S : refs[o] \subseteq S
Reachable ==
    {o \in Obj : \A S \in SUBSET Obj : (Roots \subseteq S /\ Closed(S)) => o \in S}

\* No step frees a reachable object.
FreesOnlyGarbage == [][\A o \in Alloc \ Alloc' : o \notin Reachable]_vars

\* An object is handed over to its finalizer only when the program cannot get
\* at it any more.
FinalizesOnlyGarbage == [][\A o \in tobefnz' \ tobefnz : o \notin Reachable]_vars

\* An object that a marking phase gave up is not alive again later: the sweep
\* erases every one of them before the whites change their roles.  The only
\* exception are strings, which the string table can find again.
DeadStaysDead == [][Dead \cap Live' \subseteq Leaf]_vars

\* What the finalizers of pending and registered objects may still get at.
Closure(G) ==
    {o \in Obj : \A S \in SUBSET Obj : (G \subseteq S /\ Closed(S)) => o \in S}
Garbage(o) == o \in allgc /\ o \notin Closure(Roots \cup finobj \cup tobefnz)

\* Garbage does not stay forever: it is freed, unless the program gets at it
\* again (through the string table), and an object with a finalizer that is
\* unreachable gets its finalizer called or becomes reachable again, unless
\* emergency collections, which call no finalizers, keep coming in between.
GarbageFreed == \A o \in Obj : Garbage(o) ~> ~Garbage(o)
GarbageFinalized ==
    \A o \in Obj : (o \in finobj \cup tobefnz /\ o \notin Reachable)
                      ~> (o \in allgc \/ o \in Reachable \/ emergency # "none")
=============================================================================
