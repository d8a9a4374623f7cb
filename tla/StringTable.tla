---------------------------- MODULE StringTable ----------------------------
(***************************************************************************)
(* The table of short strings, lstring.c, under a collector that removes   *)
(* strings from it and resizes it, with allocations that fail: lmem.c runs *)
(* an emergency collection and tries again.                                *)
(*                                                                         *)
(* A string is an object; Free is an object that is not allocated.  The    *)
(* program holds some strings; strings have nothing to traverse, so a      *)
(* collection marks what is held and that is all.                          *)
(***************************************************************************)
EXTENDS Integers, FiniteSets

CONSTANTS Str,               \* contents of short strings
          Obj,               \* objects, numbered
          Hash,              \* luaS_hash of each
          StartSizes,        \* MINSTRTABSIZE: sizes to start with
          MaxTabSize,        \* MAXSTRTB
          CacheSize,         \* STRCACHE_M
          Kinds,             \* of collector: "incremental", "generational"
          YoungShrinkFails   \* may the allocator refuse to shrink a block for a young collection?

ASSUME StringsAssumption ==
    /\ IsFiniteSet(Obj) /\ Obj \subseteq Nat \ {0}
    /\ Hash \in [Str -> Nat]
    /\ StartSizes \subseteq Nat \ {0}
    /\ CacheSize \in Nat \ {0}
    /\ Kinds \subseteq {"incremental", "generational"}

Free == [s |-> "", color |-> "none", age |-> 0]
\* fills the empty entries of the cache; it is never collected
MemErrMsg == 0

VARIABLES g,      \* the part of global_State that is about strings
          held    \* the strings the program has references to

stringVars == <<g, held>>

\* strt is the table: its vector of chains, which may be longer than 'size' says; a chain
\* is the set of its strings.  'moves' changes when the vector is allocated anew; 'lost'
\* records that a chain was searched in vain, or that a vector was used after its
\* reallocation.
Empty(n) == [i \in 1..n |-> {}]
InitG(kind, size) ==
    [kind |-> kind, hash |-> Empty(size), size |-> size, nuse |-> 0, moves |-> 0, lost |-> FALSE,
     obj |-> [o \in Obj |-> Free], cache |-> [j \in 1..CacheSize |-> MemErrMsg],
     sweepgc |-> {}, sweeping |-> FALSE, gcstopem |-> FALSE, gcemergency |-> FALSE]

\* white is the current white, and dead the other one
IsDead(G, o) == G.obj[o].color = "dead"
Allocated(G) == {o \in Obj : G.obj[o] # Free}
LMod(s, size) == (Hash[s] % size) + 1

(***************************************************************************)
(* The chains.                                                             *)
(***************************************************************************)
\* tablerehash: the strings of the first chains, each into its new chain
TableRehash(G, osize, nsize) ==
    LET all == UNION {G.hash[i] : i \in 1..osize}
    IN  [G EXCEPT !.hash = [i \in DOMAIN G.hash |-> {o \in all : LMod(G.obj[o].s, nsize) = i}]]

\* luaS_remove of each, which looks in the chain of its hash
Removed(G, dead) ==
    LET at(o) == LMod(G.obj[o].s, G.size)
        found == {o \in dead : o \in G.hash[at(o)]}
    IN  [G EXCEPT !.hash = [i \in DOMAIN G.hash |-> {o \in G.hash[i] : ~(o \in found /\ at(o) = i)}],
                  !.nuse = G.nuse - Cardinality(found),
                  !.lost = G.lost \/ found # dead,
                  !.obj = [o \in Obj |-> IF o \in dead THEN Free ELSE G.obj[o]]]

\* luaS_clearcache: entries that will be collected
ClearCache(G, marked) ==
    [G EXCEPT !.cache = [j \in 1..CacheSize |-> IF G.cache[j] \in marked THEN G.cache[j] ELSE MemErrMsg]]

(***************************************************************************)
(* Collections, and allocations that need one.  What the allocator answers *)
(* is "ok", "again" when it has memory only after a collection, or "no".   *)
(***************************************************************************)
Outcome == {"ok", "again", "no"}

\* new colors and ages
Painted(G, color, age) ==
    [G EXCEPT !.obj = [o \in Obj |-> IF G.obj[o] = Free THEN Free
                                     ELSE [s |-> G.obj[o].s, color |-> color[o], age |-> age[o]]]]
\* what a full collection does to strings, whatever the state of one in progress: all
\* garbage goes, and what stays is white again or, in generational mode, old
Collect(G, roots) ==
    LET white == [o \in Obj |-> "white"]
        age == [o \in Obj |-> IF G.kind = "generational" THEN 2 ELSE 0]
    IN  [Painted(Removed(ClearCache(G, roots), Allocated(G) \ roots), white, age) EXCEPT
            !.sweepgc = {}, !.sweeping = FALSE]

\* luaM_reallocvector
Reallocated(G, nsize) ==
    [G EXCEPT !.hash = [i \in 1..nsize |-> IF i \in DOMAIN G.hash THEN G.hash[i] ELSE {}],
              !.size = nsize, !.moves = G.moves + 1]
\* luaS_resize before the reallocation, and after one that succeeds or fails
Depopulated(G, nsize) == IF nsize < G.size THEN TableRehash(G, G.size, nsize) ELSE G
Fitted(G, osize, nsize) ==
    IF nsize > osize THEN TableRehash(Reallocated(G, nsize), osize, nsize) ELSE Reallocated(G, nsize)
Restored(G, osize, nsize) == IF nsize < osize THEN TableRehash(G, nsize, osize) ELSE G

\* mutant: the table is made smaller in an emergency too
ShrinksAlways(G) == G.nuse < G.size \div 4
\* checkSizes: is the table to be made smaller?
Shrinks(G) == ~G.gcemergency /\ G.nuse < G.size \div 4

\* luaC_fullgc in an emergency, with memory for a smaller table
EmergencyGC(G, roots) ==
    LET G1 == [Collect(G, roots) EXCEPT !.gcemergency = TRUE]
        half == G1.size \div 2
    IN  [(IF Shrinks(G1) THEN Fitted(Depopulated(G1, half), G1.size, half) ELSE G1) EXCEPT !.gcemergency = FALSE]
\* cantryagain; luaM_realloc_ and luaM_malloc_
CanTryAgain(G) == ~G.gcstopem
AfterTrying(G, roots, answer) == IF answer # "ok" /\ CanTryAgain(G) THEN EmergencyGC(G, roots) ELSE G
Obtained(G, answer) == answer = "ok" \/ (answer = "again" /\ CanTryAgain(G))

Resize(G, roots, nsize, answer) ==
    LET tried == AfterTrying(Depopulated(G, nsize), roots, answer) IN
    IF Obtained(G, answer) THEN Fitted(tried, G.size, nsize) ELSE Restored(tried, G.size, nsize)
CheckSizes(G, roots, answer) == IF Shrinks(G) THEN Resize(G, roots, G.size \div 2, answer) ELSE G
\* luaC_fullgc; in incremental mode it is made of single steps, each of which sets gcstopem
FullGC(G, roots, answer) ==
    LET G1 == [Collect(G, roots) EXCEPT !.gcstopem = (G.kind = "incremental")]
    IN  [CheckSizes(G1, roots, answer) EXCEPT !.gcstopem = FALSE]

(***************************************************************************)
(* New strings.  A result is the state and the string, None after an error.*)
(***************************************************************************)
None == 0
Result(G, o) == [G |-> G, o |-> o]
GrowStrTab(G, roots, answer) ==
    IF G.nuse >= G.size /\ G.size <= MaxTabSize \div 2 THEN Resize(G, roots, G.size * 2, answer) ELSE G
\* createstrobj and its link, for the chain 'list' of the vector that 'before' has
Create(before, G, s, list) ==
    LET o == CHOOSE x \in Obj : G.obj[x] = Free IN
    Result([G EXCEPT !.obj = [G.obj EXCEPT ![o] = [s |-> s, color |-> "white", age |-> 0]],
                     !.hash = [G.hash EXCEPT ![list] = G.hash[list] \cup {o}],
                     !.nuse = G.nuse + 1, !.lost = G.lost \/ G.moves # before.moves], o)
Add(grown, roots, s, answer) ==
    LET G == AfterTrying(grown, roots, answer) IN
    IF Obtained(grown, answer) THEN Create(grown, G, s, LMod(s, grown.size)) ELSE Result(G, None)
\* changewhite
Whitened(G, o) == [G EXCEPT !.obj = [G.obj EXCEPT ![o] = [G.obj[o] EXCEPT !.color = "white"]]]
InternShrStr(G, roots, s, growing, creating) ==
    LET same == {o \in G.hash[LMod(s, G.size)] : G.obj[o].s = s}
        o == CHOOSE x \in same : TRUE
    IN  IF same = {} THEN Add(GrowStrTab(G, roots, growing), roots, s, creating)
        ELSE Result(IF IsDead(G, o) THEN Whitened(G, o) ELSE G, o)

\* luaS_new, for a C string whose address has this row of the cache
SNew(G, roots, s, growing, creating) ==
    LET hits == {j \in 1..CacheSize : G.cache[j] # MemErrMsg /\ G.obj[G.cache[j]].s = s}
        moved == [j \in 1..CacheSize |-> IF j = 1 THEN G.cache[1] ELSE G.cache[j - 1]]
        r == InternShrStr([G EXCEPT !.cache = moved], roots, s, growing, creating)
    IN  IF hits # {} THEN Result(G, G.cache[CHOOSE j \in hits : \A i \in hits : j <= i])
        ELSE IF r.o = None THEN r
        ELSE Result([r.G EXCEPT !.cache = [r.G.cache EXCEPT ![1] = r.o]], r.o)

(***************************************************************************)
(* The program and the collector.                                          *)
(***************************************************************************)
StringsInit == g \in {InitG(kind, size) : kind \in Kinds, size \in StartSizes} /\ held = {}

Starting == [g EXCEPT !.moves = 0]
Got(r) == g' = r.G /\ held' = IF r.o = None THEN held ELSE held \cup {r.o}
IsNew(s) == \A o \in Allocated(g) : g.obj[o].s # s
\* the answers to the calls of the allocator that there are; a new string needs an object
Answered(s, growing, creating) ==
    /\ growing # "ok" => g.nuse >= g.size
    /\ growing # "ok" \/ creating # "ok" => IsNew(s)
    /\ IsNew(s) => Allocated(g) # Obj
NewLStr(s, growing, creating) ==
    Answered(s, growing, creating) /\ Got(InternShrStr(Starting, held, s, growing, creating))
NewFromC(s, growing, creating) ==
    Answered(s, growing, creating) /\ Got(SNew(Starting, held, s, growing, creating))
Drop(o) == o \in held /\ held' = held \ {o} /\ UNCHANGED g

\* an incremental cycle: the atomic phase marks what is held and flips the white color
Atomic ==
    LET color == [o \in Obj |-> IF o \in held THEN "black" ELSE "dead"]
        age == [o \in Obj |-> g.obj[o].age]
    IN  /\ g.kind = "incremental" /\ ~g.sweeping
        /\ g' = [Painted(ClearCache(g, held), color, age) EXCEPT !.sweeping = TRUE, !.sweepgc = Allocated(g)]
        /\ UNCHANGED held
SweepOne(o) ==
    /\ o \in g.sweepgc
    /\ g' = [(IF IsDead(g, o) THEN Removed(g, {o}) ELSE Whitened(g, o)) EXCEPT !.sweepgc = g.sweepgc \ {o}]
    /\ UNCHANGED held
\* GCSswpend, with gcstopem set
SweepEnd(answer) ==
    /\ g.sweeping /\ g.sweepgc = {}
    /\ answer # "ok" => g.nuse < g.size \div 4
    /\ g' = [CheckSizes([Starting EXCEPT !.gcstopem = TRUE, !.sweeping = FALSE], held, answer) EXCEPT !.gcstopem = FALSE]
    /\ UNCHANGED held

\* youngcollection: what is neither held nor old goes, what stays gets older; nothing
\* sets gcstopem
Kept == held \cup {o \in Obj : g.obj[o].age = 2}
YoungCollection(answer) ==
    LET color == [o \in Obj |-> g.obj[o].color]
        age == [o \in Obj |-> IF g.obj[o].age = 2 THEN 2 ELSE g.obj[o].age + 1]
        swept == Painted(Removed(ClearCache(Starting, Kept), Allocated(g) \ Kept), color, age)
    IN  /\ g.kind = "generational"
        /\ answer # "ok" => YoungShrinkFails
        /\ g' = CheckSizes(swept, held, answer)
        /\ UNCHANGED held
\* collectgarbage("collect")
FullCollection(answer) ==
    /\ answer # "ok" => g.kind = "incremental" \/ YoungShrinkFails
    /\ g' = FullGC(Starting, held, answer)
    /\ UNCHANGED held

StringsNext ==
    \/ \E s \in Str, growing, creating \in Outcome : NewLStr(s, growing, creating)
    \/ \E s \in Str, growing, creating \in Outcome : NewFromC(s, growing, creating)
    \/ \E o \in Obj : Drop(o)
    \/ Atomic
    \/ \E o \in Obj : SweepOne(o)
    \/ \E answer \in Outcome : SweepEnd(answer)
    \/ \E answer \in Outcome : YoungCollection(answer)
    \/ \E answer \in Outcome : FullCollection(answer)
StringsSpec == StringsInit /\ [][StringsNext]_stringVars

(***************************************************************************)
(* Properties.                                                             *)
(***************************************************************************)
\* every string is in the chain of its hash and in no other
ChainsExact ==
    /\ DOMAIN g.hash = 1..g.size
    /\ \A i \in 1..g.size : g.hash[i] = {o \in Allocated(g) : LMod(g.obj[o].s, g.size) = i}
    /\ g.nuse = Cardinality(Allocated(g))
\* Equal short strings are one object: every string is in the chain of its hash and in no
\* other, no two have the same contents, what the program holds is never collected, also
\* when it was found dead and brought back in the middle of a sweep, and the cache of
\* strings for C holds none that will go away; with a table that grows, shrinks, cannot do
\* either, and collections in the middle of an allocation.
StringsUnique ==
    /\ ChainsExact
    /\ \A o, p \in Allocated(g) : g.obj[o].s = g.obj[p].s => o = p
    /\ \A o \in held : g.obj[o] # Free /\ ~IsDead(g, o)
    /\ \A j \in 1..CacheSize : g.cache[j] # MemErrMsg => g.obj[g.cache[j]] # Free /\ ~IsDead(g, g.cache[j])
    /\ ~g.lost

\* luaS_resize says that a table whose reallocation fails stays as it was and goes on to
\* work: a string to be removed is found in its chain.
RemoveFinds == ~g.lost
=============================================================================
