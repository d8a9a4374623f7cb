------------------------- MODULE StringTableProofs -------------------------
(***************************************************************************)
(* Proofs about StringTable: short strings stay unique.                    *)
(***************************************************************************)
EXTENDS StringTable, FiniteSetTheorems, WellFoundedInduction, TLAPS

StrObj == [s : Str, color : {"white", "black", "dead"}, age : Nat]
Chains == UNION {[1..n -> SUBSET Obj] : n \in Nat}
State ==
    [kind : Kinds, hash : Chains, size : Nat \ {0}, nuse : Int, moves : Nat, lost : BOOLEAN,
     obj : [Obj -> StrObj \cup {Free}], cache : [1..CacheSize -> Obj \cup {MemErrMsg}],
     sweepgc : SUBSET Obj, sweeping : BOOLEAN, gcstopem : BOOLEAN, gcemergency : BOOLEAN]

\* Every string is in its chain of n, and in no other.
Exact(G, n) == \A i \in DOMAIN G.hash : G.hash[i] = {o \in Allocated(G) : LMod(G.obj[o].s, n) = i}
Unique(G) == \A o, p \in Allocated(G) : G.obj[o].s = G.obj[p].s => o = p
Table(G) ==
    /\ G \in State
    /\ DOMAIN G.hash = 1..G.size /\ Exact(G, G.size)
    /\ G.nuse = Cardinality(Allocated(G))
    /\ Unique(G) /\ ~G.lost
\* What is referred to is there, and nothing is swept twice.
Alive(G, o) == o \in Allocated(G) /\ ~IsDead(G, o)
Live(G, roots) ==
    /\ \A o \in roots : Alive(G, o)
    /\ \A j \in 1..CacheSize : G.cache[j] # MemErrMsg => Alive(G, G.cache[j])
    /\ G.sweepgc \subseteq Allocated(G)
    /\ G.kind = "generational" => G.sweepgc = {} /\ \A o \in Allocated(G) : Alive(G, o)
Good(G, roots) == Table(G) /\ Live(G, roots)

-----------------------------------------------------------------------------
(***************************************************************************)
(* Chains.                                                                 *)
(***************************************************************************)
\* A hash has its chain.
LEMMA LModIs ==
  ASSUME NEW s \in Str, NEW n \in Nat \ {0}
  PROVE  LMod(s, n) \in 1..n
<1>1. Hash[s] \in Nat
  BY StringsAssumption
<1>2. Hash[s] % n \in 0..(n - 1)
  BY <1>1
<1> QED
  BY <1>2 DEF LMod

\* What is allocated has contents.
LEMMA AllocatedIs ==
  ASSUME NEW G \in State
  PROVE  /\ Allocated(G) \subseteq Obj /\ IsFiniteSet(Allocated(G))
         /\ \A o \in Allocated(G) : G.obj[o] \in StrObj /\ G.obj[o].s \in Str
         /\ \A o \in Obj : o \in Allocated(G) <=> G.obj[o] \in StrObj
<1>1. Allocated(G) \subseteq Obj
  BY DEF Allocated
<1>2. IsFiniteSet(Allocated(G))
  BY <1>1, StringsAssumption, FS_Subset
<1>3. Free \notin StrObj
  BY DEF Free, StrObj
<1>4. \A o \in Obj : G.obj[o] \in StrObj \cup {Free}
  BY DEF State
<1> QED
  BY <1>1, <1>2, <1>3, <1>4 DEF Allocated, StrObj

\* Two states with the same strings; R may have another vector.
SameStrings(R, G) ==
    /\ R.obj = G.obj /\ R.nuse = G.nuse /\ R.lost = G.lost /\ R.cache = G.cache /\ R.sweepgc = G.sweepgc
    /\ R.kind = G.kind /\ R.gcstopem = G.gcstopem /\ R.gcemergency = G.gcemergency

\* The first chains hold all strings.
Gathers(G, n) == UNION {G.hash[i] : i \in 1..n} = Allocated(G)
\* tablerehash, when no string is behind the chains that it visits.
LEMMA TableRehashIs ==
  ASSUME NEW G \in State, NEW osize \in Nat \ {0}, NEW nsize \in Nat \ {0},
         1..osize \subseteq DOMAIN G.hash,
         Gathers(G, osize),
         NEW R, R = TableRehash(G, osize, nsize)
  PROVE  /\ R \in State /\ DOMAIN R.hash = DOMAIN G.hash /\ Exact(R, nsize)
         /\ SameStrings(R, G) /\ R.size = G.size /\ R.moves = G.moves
<1>1. PICK h : h = [i \in DOMAIN G.hash |-> {o \in Allocated(G) : LMod(G.obj[o].s, nsize) = i}]
  OBVIOUS
<1>2. R = [G EXCEPT !.hash = h]
  BY <1>1 DEF TableRehash, Gathers
<1>3. PICK n \in Nat : DOMAIN G.hash = 1..n
  BY DEF State, Chains
<1>4. h \in Chains
  BY <1>1, <1>3, AllocatedIs DEF Chains
<1>5. R \in State
  BY <1>2, <1>4 DEF State
<1>6. R.hash = h /\ SameStrings(R, G) /\ R.size = G.size /\ R.moves = G.moves
  BY <1>2 DEF State, SameStrings
<1>7. Allocated(R) = Allocated(G) /\ R.obj = G.obj
  BY <1>6 DEF Allocated, SameStrings
<1> QED
  BY <1>1, <1>5, <1>6, <1>7 DEF Exact

\* The chains of a table hold all its strings.
LEMMA UnionIs ==
  ASSUME NEW G \in State, NEW n \in Nat \ {0}, 1..n \subseteq DOMAIN G.hash, Exact(G, n)
  PROVE  Gathers(G, n)
<1>1. ASSUME NEW o \in Allocated(G) PROVE \E i \in 1..n : o \in G.hash[i]
  <2>1. LMod(G.obj[o].s, n) \in 1..n
    BY AllocatedIs, LModIs
  <2> QED
    BY <2>1 DEF Exact
<1>2. \A i \in 1..n : G.hash[i] \subseteq Allocated(G)
  BY DEF Exact
<1> QED
  BY <1>1, <1>2 DEF Gathers

\* The same chains, and empty ones.
SameChains(R, G, n) == \A i \in 1..n : R.hash[i] = IF i \in DOMAIN G.hash THEN G.hash[i] ELSE {}
\* The vector as long as it is to be: nothing is cut off but empty chains.
LEMMA ReallocatedIs ==
  ASSUME NEW G \in State, NEW n \in Nat \ {0}, NEW R, R = Reallocated(G, n)
  PROVE  /\ R \in State /\ DOMAIN R.hash = 1..n /\ R.size = n /\ SameStrings(R, G)
         /\ SameChains(R, G, n)
<1>1. PICK h : h = [i \in 1..n |-> IF i \in DOMAIN G.hash THEN G.hash[i] ELSE {}]
  OBVIOUS
<1>2. PICK k \in Nat : k = G.moves + 1
  BY DEF State
<1>7. R = [G EXCEPT !.hash = h, !.size = n, !.moves = k]
  BY <1>1, <1>2 DEF Reallocated
<1>3. PICK m \in Nat : G.hash \in [1..m -> SUBSET Obj]
  BY DEF State, Chains
<1>4. h \in [1..n -> SUBSET Obj]
  BY <1>1, <1>3
<1>5. h \in Chains
  BY <1>4 DEF Chains
<1>6. R \in State
  BY <1>5, <1>7 DEF State
<1> QED
  BY ZenonT(60), <1>1, <1>6, <1>7 DEF State, SameStrings, SameChains

-----------------------------------------------------------------------------
(***************************************************************************)
(* luaS_resize.                                                            *)
(***************************************************************************)
LEMMA SameAllocated ==
  ASSUME NEW R, NEW G, SameStrings(R, G)
  PROVE  /\ Allocated(R) = Allocated(G) /\ (Unique(G) => Unique(R))
         /\ \A roots : Live(G, roots) => Live(R, roots)
BY DEF SameStrings, Allocated, Unique, Live, Alive, IsDead

\* Between the two halves of luaS_resize, the strings are where they will be.
LEMMA DepopulatedIs ==
  ASSUME NEW G, Table(G), NEW n \in Nat \ {0}, NEW R, R = Depopulated(G, n)
  PROVE  /\ R \in State /\ DOMAIN R.hash = 1..G.size /\ SameStrings(R, G)
         /\ R.size = G.size /\ R.moves = G.moves
         /\ Exact(R, IF n < G.size THEN n ELSE G.size)
<1>1. G \in State /\ G.size \in Nat \ {0} /\ DOMAIN G.hash = 1..G.size /\ Exact(G, G.size)
  BY DEF Table, State
<1>2. CASE n < G.size
  <2>1. R = TableRehash(G, G.size, n)
    BY <1>2 DEF Depopulated
  <2>2. Gathers(G, G.size)
    BY <1>1, UnionIs
  <2> QED
    BY <1>1, <1>2, <2>1, <2>2, TableRehashIs
<1>3. CASE ~(n < G.size)
  <2>1. R = G
    BY <1>3 DEF Depopulated
  <2> QED
    BY <1>1, <1>3, <2>1 DEF SameStrings
<1> QED
  BY <1>2, <1>3

\* A table that got its new vector.
LEMMA FittedIs ==
  ASSUME NEW G, Table(G), NEW n \in Nat \ {0}, NEW D, D = Depopulated(G, n), NEW R, R = Fitted(D, G.size, n)
  PROVE  Table(R) /\ SameStrings(R, G) /\ R.size = n
<1>1. G \in State /\ G.size \in Nat \ {0} /\ Unique(G) /\ ~G.lost /\ G.nuse = Cardinality(Allocated(G))
  BY DEF Table, State
<1>2. /\ D \in State /\ DOMAIN D.hash = 1..G.size /\ SameStrings(D, G) /\ D.size = G.size
      /\ Exact(D, IF n < G.size THEN n ELSE G.size)
  BY DepopulatedIs
<1>3. PICK V : V = Reallocated(D, n)
  OBVIOUS
<1>4. /\ V \in State /\ DOMAIN V.hash = 1..n /\ V.size = n /\ SameStrings(V, D)
      /\ SameChains(V, D, n)
  BY <1>2, <1>3, ReallocatedIs
<1>5. Allocated(V) = Allocated(D) /\ V.obj = D.obj
  BY <1>4, SameAllocated DEF SameStrings
<1>6. R \in State /\ DOMAIN R.hash = 1..n /\ R.size = n /\ SameStrings(R, V) /\ Exact(R, n)
  <2>1. CASE n > G.size
    <3>1. R = TableRehash(V, G.size, n)
      BY <1>3, <2>1 DEF Fitted
    <3>2. 1..G.size \subseteq 1..n /\ 1..G.size \subseteq DOMAIN V.hash
      BY <1>1, <1>4, <2>1
    <3>3. \A i \in 1..G.size : V.hash[i] = D.hash[i]
      BY <1>2, <1>4, <3>2 DEF SameChains
    <3>4. Exact(D, G.size)
      BY <1>1, <1>2, <2>1
    <3>5. Gathers(D, G.size)
      BY <1>1, <1>2, <3>4, UnionIs
    <3>6. Gathers(V, G.size)
      BY <1>5, <3>3, <3>5 DEF Gathers
    <3> QED
      BY <1>1, <1>4, <3>1, <3>2, <3>6, TableRehashIs
  <2>2. CASE ~(n > G.size)
    <3>1. R = V
      BY <1>3, <2>2 DEF Fitted
    <3>2. 1..n \subseteq 1..G.size /\ Exact(D, n)
      BY <1>1, <1>2, <2>2
    <3>3. Exact(V, n)
      BY <1>2, <1>4, <1>5, <3>2 DEF Exact, SameChains
    <3> QED
      BY <1>4, <3>1, <3>3 DEF SameStrings
  <2> QED
    BY <2>1, <2>2
<1>7. SameStrings(R, G)
  BY <1>2, <1>4, <1>6 DEF SameStrings
<1>8. Allocated(R) = Allocated(G) /\ Unique(R)
  BY <1>1, <1>7, SameAllocated
<1> QED
  BY <1>1, <1>6, <1>7, <1>8 DEF Table, SameStrings

\* A table that did not get it is as it was.
LEMMA RestoredIs ==
  ASSUME NEW G, Table(G), NEW n \in Nat \ {0}, NEW D, D = Depopulated(G, n), NEW R, R = Restored(D, G.size, n)
  PROVE  Table(R) /\ SameStrings(R, G) /\ R.size = G.size
<1>1. G \in State /\ G.size \in Nat \ {0} /\ Unique(G) /\ ~G.lost /\ G.nuse = Cardinality(Allocated(G))
  BY DEF Table, State
<1>2. /\ D \in State /\ DOMAIN D.hash = 1..G.size /\ SameStrings(D, G) /\ D.size = G.size
      /\ Exact(D, IF n < G.size THEN n ELSE G.size)
  BY DepopulatedIs
<1>3. R \in State /\ DOMAIN R.hash = 1..G.size /\ R.size = G.size /\ SameStrings(R, D) /\ Exact(R, G.size)
  <2>1. CASE n < G.size
    <3>1. R = TableRehash(D, n, G.size)
      BY <2>1 DEF Restored
    <3>2. 1..n \subseteq DOMAIN D.hash /\ Exact(D, n)
      BY <1>1, <1>2, <2>1
    <3>3. Gathers(D, n)
      BY <1>2, <3>2, UnionIs
    <3> QED
      BY <1>1, <1>2, <3>1, <3>2, <3>3, TableRehashIs
  <2>2. CASE ~(n < G.size)
    <3>1. R = D
      BY <2>2 DEF Restored
    <3> QED
      BY <1>2, <2>2, <3>1 DEF SameStrings
  <2> QED
    BY <2>1, <2>2
<1>7. SameStrings(R, G)
  BY <1>2, <1>3 DEF SameStrings
<1>8. Allocated(R) = Allocated(G) /\ Unique(R)
  BY <1>1, <1>7, SameAllocated
<1> QED
  BY <1>1, <1>3, <1>7, <1>8 DEF Table, SameStrings

-----------------------------------------------------------------------------
(***************************************************************************)
(* Collections.                                                            *)
(***************************************************************************)
Settings(R, G) == R.kind = G.kind /\ R.gcstopem = G.gcstopem /\ R.gcemergency = G.gcemergency
SameTable(R, G) == Settings(R, G) /\ R.size = G.size /\ R.moves = G.moves

\* Strings that are removed are found, and nothing else is removed.
LEMMA RemovedIs ==
  ASSUME NEW G, Table(G), NEW dead \in SUBSET Allocated(G), NEW R, R = Removed(G, dead)
  PROVE  /\ Table(R) /\ SameTable(R, G) /\ R.cache = G.cache /\ R.sweepgc = G.sweepgc
         /\ Allocated(R) = Allocated(G) \ dead
         /\ \A o \in Allocated(R) : R.obj[o] = G.obj[o]
<1>1. /\ G \in State /\ G.size \in Nat \ {0} /\ DOMAIN G.hash = 1..G.size /\ Exact(G, G.size)
      /\ G.nuse = Cardinality(Allocated(G)) /\ Unique(G) /\ G.lost = FALSE
  BY DEF Table, State
<1>2. \A o \in Allocated(G) : LMod(G.obj[o].s, G.size) \in 1..G.size
  BY <1>1, AllocatedIs, LModIs
<1>3. \A o \in dead : o \in G.hash[LMod(G.obj[o].s, G.size)]
  BY <1>1, <1>2 DEF Exact
<1>4. {o \in dead : o \in G.hash[LMod(G.obj[o].s, G.size)]} = dead
  BY <1>3
<1>5. PICK h : h = [i \in 1..G.size |-> {o \in G.hash[i] : ~(o \in dead /\ LMod(G.obj[o].s, G.size) = i)}]
  OBVIOUS
<1>6. PICK obj : obj = [o \in Obj |-> IF o \in dead THEN Free ELSE G.obj[o]]
  OBVIOUS
<1>7. PICK k : k = G.nuse - Cardinality(dead)
  OBVIOUS
<1>8. R = [G EXCEPT !.hash = h, !.nuse = k, !.lost = FALSE, !.obj = obj]
  BY <1>1, <1>4, <1>5, <1>6, <1>7 DEF Removed
<1>9. IsFiniteSet(dead) /\ IsFiniteSet(Allocated(G) \ dead) /\ IsFiniteSet(Allocated(G))
  BY <1>1, AllocatedIs, FS_Subset
<1>10. /\ Cardinality(dead) \in Nat /\ Cardinality(Allocated(G) \ dead) \in Nat
       /\ Cardinality(Allocated(G)) \in Nat /\ Cardinality(dead \cap (Allocated(G) \ dead)) = 0
  <2>1. dead \cap (Allocated(G) \ dead) = {}
    OBVIOUS
  <2> QED
    BY <2>1, <1>9, FS_CardinalityType, FS_EmptySet
<1>12. k = Cardinality(Allocated(G) \ dead) /\ k \in Int
  <2> DEFINE rest == Allocated(G) \ dead
  <2>1. Cardinality(dead \cup rest) = Cardinality(dead) + Cardinality(rest) - Cardinality(dead \cap rest)
    BY <1>9, FS_Union
  <2>2. PICK u : u = dead \cup rest
    OBVIOUS
  <2>3. u = Allocated(G)
    BY <2>2
  <2>4. Cardinality(Allocated(G)) = Cardinality(dead) + Cardinality(rest) - Cardinality(dead \cap rest)
    BY <2>1, <2>2, <2>3
  <2>5. Cardinality(dead) \in Nat /\ Cardinality(rest) \in Nat /\ Cardinality(dead \cap rest) = 0
    BY <1>10
  <2> HIDE DEF rest
  <2>6. k = Cardinality(rest) /\ k \in Int
    BY <1>1, <1>7, <2>4, <2>5
  <2> QED
    BY <2>6 DEF rest
<1>13. h \in [1..G.size -> SUBSET Obj] /\ h \in Chains
  <2>1. h \in [1..G.size -> SUBSET Obj]
    BY <1>1, <1>5, AllocatedIs DEF Exact
  <2> QED
    BY <1>1, <2>1 DEF Chains
<1>14. obj \in [Obj -> StrObj \cup {Free}]
  BY <1>1, <1>6 DEF State
<1>15. R \in State
  BY ZenonT(60), <1>1, <1>8, <1>12, <1>13, <1>14 DEF State
<1>16. /\ R.hash = h /\ R.nuse = k /\ R.lost = FALSE /\ R.obj = obj /\ SameTable(R, G)
       /\ R.cache = G.cache /\ R.sweepgc = G.sweepgc
  BY <1>1, <1>8 DEF State, SameTable, Settings
<1>17. Allocated(R) = Allocated(G) \ dead /\ \A o \in Allocated(R) : R.obj[o] = G.obj[o]
  BY <1>6, <1>16 DEF Allocated
<1>18. Exact(R, R.size) /\ DOMAIN R.hash = 1..R.size
  <2>1. R.size = G.size /\ DOMAIN R.hash = 1..G.size
    BY <1>5, <1>16 DEF SameTable
  <2>2. ASSUME NEW i \in 1..G.size
        PROVE  R.hash[i] = {o \in Allocated(R) : LMod(R.obj[o].s, G.size) = i}
    <3>1. R.hash[i] = {o \in G.hash[i] : ~(o \in dead /\ LMod(G.obj[o].s, G.size) = i)}
      BY <1>5, <1>16
    <3>2. G.hash[i] = {o \in Allocated(G) : LMod(G.obj[o].s, G.size) = i}
      BY <1>1 DEF Exact
    <3>3. \A o \in Allocated(R) : LMod(R.obj[o].s, G.size) = LMod(G.obj[o].s, G.size)
      BY <1>17
    <3> QED
      BY <1>17, <3>1, <3>2, <3>3
  <2> QED
    BY <2>1, <2>2 DEF Exact
<1>19. Unique(R)
  BY <1>1, <1>17 DEF Unique
<1> QED
  BY <1>12, <1>15, <1>16, <1>17, <1>18, <1>19 DEF Table

\* The cache has nothing that goes away.
LEMMA ClearCacheIs ==
  ASSUME NEW G, Table(G), NEW marked \in SUBSET Obj, NEW R, R = ClearCache(G, marked)
  PROVE  /\ Table(R) /\ SameTable(R, G) /\ SameStrings(R, [G EXCEPT !.cache = R.cache])
         /\ \A j \in 1..CacheSize : R.cache[j] = MemErrMsg \/ (R.cache[j] = G.cache[j] /\ R.cache[j] \in marked)
<1>1. G \in State
  BY DEF Table
<1>2. PICK c : c = [j \in 1..CacheSize |-> IF G.cache[j] \in marked THEN G.cache[j] ELSE MemErrMsg]
  OBVIOUS
<1>3. R = [G EXCEPT !.cache = c]
  BY <1>2 DEF ClearCache
<1>4. c \in [1..CacheSize -> Obj \cup {MemErrMsg}]
  BY <1>2
<1>5. R \in State
  BY <1>1, <1>3, <1>4 DEF State
<1>6. /\ R.hash = G.hash /\ R.size = G.size /\ R.nuse = G.nuse /\ R.lost = G.lost /\ R.obj = G.obj
      /\ R.cache = c /\ SameTable(R, G)
  BY <1>1, <1>3 DEF State, SameTable, Settings
<1>9. Allocated(R) = Allocated(G)
  BY <1>6 DEF Allocated
<1>10. Exact(R, R.size)
  <2>1. Exact(G, G.size)
    BY DEF Table
  <2> SUFFICES ASSUME NEW i \in DOMAIN R.hash
               PROVE  R.hash[i] = {o \in Allocated(R) : LMod(R.obj[o].s, R.size) = i}
    BY DEF Exact
  <2>2. G.hash[i] = {o \in Allocated(G) : LMod(G.obj[o].s, G.size) = i}
    BY <1>6, <2>1 DEF Exact
  <2> QED
    BY <1>6, <1>9, <2>2
<1>11. Unique(R)
  BY <1>6, <1>9 DEF Table, Unique
<1>7. Table(R)
  BY <1>5, <1>6, <1>9, <1>10, <1>11 DEF Table
<1>8. SameStrings(R, [G EXCEPT !.cache = R.cache])
  BY <1>1, <1>3 DEF State, SameStrings
<1> QED
  BY <1>2, <1>6, <1>7, <1>8

Paint(color, age) == color \in [Obj -> {"white", "black", "dead", "none"}] /\ age \in [Obj -> Nat]
\* New colors and ages: what is allocated, and where, stays.
LEMMA PaintedIs ==
  ASSUME NEW G, Table(G), NEW color, NEW age, Paint(color, age),
         \A o \in Allocated(G) : color[o] # "none",
         NEW R, R = Painted(G, color, age)
  PROVE  /\ Table(R) /\ SameTable(R, G) /\ R.cache = G.cache /\ R.sweepgc = G.sweepgc
         /\ Allocated(R) = Allocated(G)
         /\ \A o \in Allocated(G) : R.obj[o] = [s |-> G.obj[o].s, color |-> color[o], age |-> age[o]]
<1>1. G \in State
  BY DEF Table
<1>2. PICK obj : obj = [o \in Obj |-> IF G.obj[o] = Free THEN Free
                                      ELSE [s |-> G.obj[o].s, color |-> color[o], age |-> age[o]]]
  OBVIOUS
<1>3. R = [G EXCEPT !.obj = obj]
  BY <1>2 DEF Painted
<1>4. \A o \in Allocated(G) : obj[o] = [s |-> G.obj[o].s, color |-> color[o], age |-> age[o]]
  BY <1>2 DEF Allocated
<1>5. \A o \in Obj \ Allocated(G) : obj[o] = Free
  BY <1>2 DEF Allocated
<1>6. \A o \in Allocated(G) : obj[o] \in StrObj /\ obj[o].s = G.obj[o].s
  <2> SUFFICES ASSUME NEW o \in Allocated(G) PROVE obj[o] \in StrObj /\ obj[o].s = G.obj[o].s
    OBVIOUS
  <2>1. o \in Obj /\ G.obj[o].s \in Str /\ color[o] \in {"white", "black", "dead"} /\ age[o] \in Nat
    BY <1>1, AllocatedIs DEF Paint
  <2>2. [s |-> G.obj[o].s, color |-> color[o], age |-> age[o]] \in StrObj
    BY <2>1 DEF StrObj
  <2>3. [s |-> G.obj[o].s, color |-> color[o], age |-> age[o]].s = G.obj[o].s
    OBVIOUS
  <2> QED
    BY <1>4, <2>2, <2>3
<1>7. obj \in [Obj -> StrObj \cup {Free}]
  BY <1>2, <1>5, <1>6
<1>8. R \in State
  BY <1>1, <1>3, <1>7 DEF State
<1>9. /\ R.hash = G.hash /\ R.size = G.size /\ R.nuse = G.nuse /\ R.lost = G.lost /\ R.obj = obj
      /\ R.cache = G.cache /\ R.sweepgc = G.sweepgc /\ SameTable(R, G)
  BY <1>1, <1>3 DEF State, SameTable, Settings
<1>10. Allocated(R) = Allocated(G)
  <2>1. Free \notin StrObj
    BY DEF Free, StrObj
  <2> QED
    BY <1>1, <1>5, <1>6, <1>9, <2>1 DEF Allocated
<1>11. \A n : Exact(G, n) => Exact(R, n)
  BY <1>6, <1>9, <1>10 DEF Exact
<1>12. Unique(G) => Unique(R)
  BY <1>6, <1>9, <1>10 DEF Unique
<1> QED
  BY <1>4, <1>8, <1>9, <1>10, <1>11, <1>12 DEF Table

\* No string that was not there.
Fewer(R, G) == Allocated(R) \subseteq Allocated(G) /\ \A o \in Allocated(R) : R.obj[o].s = G.obj[o].s

\* What concerns the collector and not the strings.
LEMMA SameGood ==
  ASSUME NEW G, NEW roots, Good(G, roots), NEW R \in State,
         R.hash = G.hash, R.size = G.size, R.nuse = G.nuse, R.lost = G.lost, R.obj = G.obj,
         R.kind = G.kind, R.cache = G.cache, R.sweepgc \in SUBSET G.sweepgc
  PROVE  Good(R, roots) /\ Fewer(R, G) /\ Allocated(R) = Allocated(G)
<1>1. Allocated(R) = Allocated(G)
  BY DEF Allocated
<1>2. Exact(R, R.size)
  <2>1. Exact(G, G.size)
    BY DEF Good, Table
  <2> SUFFICES ASSUME NEW i \in DOMAIN R.hash
               PROVE  R.hash[i] = {o \in Allocated(R) : LMod(R.obj[o].s, R.size) = i}
    BY DEF Exact
  <2>2. G.hash[i] = {o \in Allocated(G) : LMod(G.obj[o].s, G.size) = i}
    BY <2>1 DEF Exact
  <2> QED
    BY <1>1, <2>2
<1>3. Table(R)
  BY <1>1, <1>2 DEF Good, Table, Unique
<1>4. Live(R, roots)
  BY <1>1 DEF Good, Live, Alive, IsDead
<1> QED
  BY <1>1, <1>3, <1>4 DEF Good, Fewer

\* A full collection: what is held stays, and it is alive.
LEMMA CollectIs ==
  ASSUME NEW G, NEW roots, Good(G, roots), NEW R, R = Collect(G, roots)
  PROVE  Good(R, roots) /\ SameTable(R, G) /\ Fewer(R, G)
<1>a. PICK C : C = ClearCache(G, roots)
  OBVIOUS
<1>b. PICK dead : dead = Allocated(G) \ roots
  OBVIOUS
<1>c. PICK M : M = Removed(C, dead)
  OBVIOUS
<1>d. PICK white \in [Obj -> {"white", "black", "dead", "none"}] : white = [o \in Obj |-> "white"]
  OBVIOUS
<1>e. PICK age \in [Obj -> Nat] : age = [o \in Obj |-> IF G.kind = "generational" THEN 2 ELSE 0]
  OBVIOUS
<1>f. PICK W : W = Painted(M, white, age)
  OBVIOUS
<1>1. G \in State /\ Table(G) /\ roots \subseteq Allocated(G) /\ roots \subseteq Obj
  BY AllocatedIs DEF Good, Table, Live, Alive
<1>2. /\ Table(C) /\ SameTable(C, G) /\ SameStrings(C, [G EXCEPT !.cache = C.cache])
      /\ \A j \in 1..CacheSize : C.cache[j] = MemErrMsg \/ (C.cache[j] = G.cache[j] /\ C.cache[j] \in roots)
  BY <1>a, <1>1, ClearCacheIs
<1>3. Allocated(C) = Allocated(G) /\ C.obj = G.obj
  BY <1>1, <1>2 DEF SameStrings, Allocated, State
<1>4. /\ Table(M) /\ SameTable(M, C) /\ M.cache = C.cache
      /\ Allocated(M) = roots /\ \A o \in Allocated(M) : M.obj[o] = C.obj[o]
  <2>1. dead \in SUBSET Allocated(C)
    BY <1>b, <1>3
  <2>2. /\ Table(M) /\ SameTable(M, C) /\ M.cache = C.cache
        /\ Allocated(M) = Allocated(C) \ dead /\ \A o \in Allocated(M) : M.obj[o] = C.obj[o]
    BY <1>c, <1>2, <2>1, RemovedIs
  <2>3. Allocated(C) \ dead = roots
    BY <1>b, <1>1, <1>3
  <2> QED
    BY <2>2, <2>3
<1>6. /\ Table(W) /\ SameTable(W, M) /\ W.cache = M.cache /\ Allocated(W) = roots
      /\ \A o \in roots : W.obj[o] = [s |-> M.obj[o].s, color |-> white[o], age |-> age[o]]
  <2>1. \A o \in Allocated(M) : white[o] # "none"
    BY <1>d, <1>1, <1>4
  <2>2. Table(M) /\ Paint(white, age)
    BY <1>4 DEF Paint
  <2>3. /\ Table(W) /\ SameTable(W, M) /\ W.cache = M.cache /\ Allocated(W) = Allocated(M)
        /\ \A o \in Allocated(M) : W.obj[o] = [s |-> M.obj[o].s, color |-> white[o], age |-> age[o]]
    BY <1>f, <2>1, <2>2, PaintedIs
  <2> QED
    BY <1>4, <2>3
<1>7. R = [W EXCEPT !.sweepgc = {}, !.sweeping = FALSE]
  BY <1>a, <1>b, <1>c, <1>d, <1>e, <1>f DEF Collect
<1>8. \A o \in roots : W.obj[o].s = G.obj[o].s /\ W.obj[o].color = "white"
  <2> SUFFICES ASSUME NEW o \in roots PROVE W.obj[o].s = G.obj[o].s /\ W.obj[o].color = "white"
    OBVIOUS
  <2>1. M.obj[o] = G.obj[o] /\ white[o] = "white" /\ W.obj[o] = [s |-> M.obj[o].s, color |-> white[o], age |-> age[o]]
    BY <1>d, <1>1, <1>3, <1>4, <1>6
  <2>2. W.obj[o].s = M.obj[o].s /\ W.obj[o].color = white[o]
    BY <2>1
  <2> QED
    BY <2>1, <2>2
<1>9. \A j \in 1..CacheSize : W.cache[j] = MemErrMsg \/ W.cache[j] \in roots
  BY <1>2, <1>4, <1>6
<1>10. W.kind = G.kind /\ SameTable(W, G) /\ W \in State
  BY <1>2, <1>4, <1>6 DEF SameTable, Settings, Table
<1>11. PICK V : V = [W EXCEPT !.sweepgc = {}]
  OBVIOUS
<1>12. /\ V \in State /\ V.hash = W.hash /\ V.size = W.size /\ V.nuse = W.nuse /\ V.lost = W.lost
       /\ V.obj = W.obj /\ V.cache = W.cache /\ V.sweepgc = {} /\ SameTable(V, W)
  BY <1>10, <1>11 DEF State, SameTable, Settings
<1>13. Allocated(V) = roots
  BY <1>6, <1>12 DEF Allocated
<1>14. Live(V, roots)
  BY <1>8, <1>9, <1>12, <1>13 DEF Live, Alive, IsDead
<1>15. Good(V, roots)
  <2>1. Exact(V, V.size)
    <3>1. Exact(W, W.size)
      BY <1>6 DEF Table
    <3> SUFFICES ASSUME NEW i \in DOMAIN V.hash
                 PROVE  V.hash[i] = {o \in Allocated(V) : LMod(V.obj[o].s, V.size) = i}
      BY DEF Exact
    <3>2. W.hash[i] = {o \in Allocated(W) : LMod(W.obj[o].s, W.size) = i}
      BY <1>12, <3>1 DEF Exact
    <3> QED
      BY <1>6, <1>12, <1>13, <3>2
  <2> QED
    BY <1>6, <1>12, <1>13, <1>14, <2>1 DEF Good, Table, Unique
<1>16. /\ R \in State /\ R.hash = V.hash /\ R.size = V.size /\ R.nuse = V.nuse /\ R.lost = V.lost
       /\ R.obj = V.obj /\ R.kind = V.kind /\ R.cache = V.cache /\ R.sweepgc = V.sweepgc /\ SameTable(R, V)
  BY <1>7, <1>11, <1>12 DEF State, SameTable, Settings
<1>17. Good(R, roots) /\ Allocated(R) = roots
  <2>1. R.sweepgc \in SUBSET V.sweepgc
    BY <1>16
  <2>2. Good(R, roots) /\ Allocated(R) = Allocated(V)
    BY <1>15, <1>16, <2>1, SameGood
  <2> QED
    BY <1>13, <2>2
<1>18. SameTable(R, G)
  BY <1>10, <1>12, <1>16 DEF SameTable, Settings
<1>19. Fewer(R, G)
  BY <1>1, <1>8, <1>12, <1>16, <1>17 DEF Fewer
<1> QED
  BY <1>17, <1>18, <1>19

\* A collection in an emergency leaves the vector as it is.
LEMMA EmergencyIs ==
  ASSUME NEW G, NEW roots, Good(G, roots), G.gcemergency = FALSE, NEW R, R = EmergencyGC(G, roots)
  PROVE  Good(R, roots) /\ SameTable(R, G) /\ Fewer(R, G)
<1>1. PICK C : C = Collect(G, roots)
  OBVIOUS
<1>2. Good(C, roots) /\ SameTable(C, G) /\ Fewer(C, G)
  BY <1>1, CollectIs
<1>3. PICK D : D = [C EXCEPT !.gcemergency = TRUE]
  OBVIOUS
<1>4. C \in State
  BY <1>2 DEF Good, Table
<1>5. D.gcemergency = TRUE
  BY <1>3, <1>4 DEF State
<1>6. R = [D EXCEPT !.gcemergency = FALSE]
  BY <1>1, <1>3, <1>5 DEF EmergencyGC, Shrinks
<1>7. /\ R \in State /\ R.hash = C.hash /\ R.size = C.size /\ R.nuse = C.nuse /\ R.lost = C.lost
      /\ R.obj = C.obj /\ R.kind = C.kind /\ R.cache = C.cache /\ R.sweepgc = C.sweepgc
      /\ R.gcemergency = FALSE /\ R.gcstopem = C.gcstopem /\ R.moves = C.moves
  BY <1>3, <1>4, <1>6 DEF State
<1>8. Good(R, roots) /\ Fewer(R, C) /\ Allocated(R) = Allocated(C)
  <2>1. R.sweepgc \in SUBSET C.sweepgc
    BY <1>7
  <2> QED
    BY <1>2, <1>7, <2>1, SameGood
<1>9. SameTable(R, G)
  BY <1>2, <1>7 DEF SameTable, Settings
<1>10. Fewer(R, G)
  BY <1>2, <1>8 DEF Fewer
<1> QED
  BY <1>8, <1>9, <1>10

-----------------------------------------------------------------------------
(***************************************************************************)
(* Allocations.                                                            *)
(***************************************************************************)
\* An allocation that may need a collection.
LEMMA AfterTryingIs ==
  ASSUME NEW G, NEW roots, Good(G, roots), G.gcemergency = FALSE, NEW answer,
         NEW R, R = AfterTrying(G, roots, answer)
  PROVE  Good(R, roots) /\ SameTable(R, G) /\ Fewer(R, G)
<1>1. CASE answer # "ok" /\ CanTryAgain(G)
  <2>1. R = EmergencyGC(G, roots)
    BY <1>1 DEF AfterTrying
  <2> QED
    BY <2>1, EmergencyIs
<1>2. CASE ~(answer # "ok" /\ CanTryAgain(G))
  <2>1. R = G
    BY <1>2 DEF AfterTrying
  <2> QED
    BY <2>1 DEF SameTable, Settings, Fewer
<1> QED
  BY <1>1, <1>2

\* What the strings are, if only the vector is another one.
LEMMA SameStringsGood ==
  ASSUME NEW G, NEW roots, Good(G, roots), NEW R, Table(R), SameStrings(R, G)
  PROVE  Good(R, roots) /\ Settings(R, G) /\ Fewer(R, G)
<1>1. Live(R, roots) /\ Allocated(R) = Allocated(G)
  BY SameAllocated DEF Good
<1> QED
  BY <1>1 DEF Good, SameStrings, Settings, Fewer

\* luaS_resize, unless it is to make the table smaller, does not get a smaller vector, and
\* may call the collector in the middle.
LEMMA ResizeIs ==
  ASSUME NEW G, NEW roots, Good(G, roots), G.gcemergency = FALSE, NEW n \in Nat \ {0}, NEW answer,
         n < G.size => answer = "ok" \/ G.gcstopem,
         NEW R, R = Resize(G, roots, n, answer)
  PROVE  Good(R, roots) /\ Settings(R, G) /\ Fewer(R, G)
<1>1. PICK D : D = Depopulated(G, n)
  OBVIOUS
<1>2. PICK T : T = AfterTrying(D, roots, answer)
  OBVIOUS
<1>3. R = IF Obtained(G, answer) THEN Fitted(T, G.size, n) ELSE Restored(T, G.size, n)
  BY <1>1, <1>2 DEF Resize
<1>4. Table(G) /\ G \in State /\ G.size \in Nat \ {0}
  BY DEF Good, Table, State
<1>5. CASE n < G.size
  <2>1. SameStrings(D, G)
    BY <1>1, <1>4, DepopulatedIs
  <2>2. T = D
    BY <1>2, <1>5, <2>1 DEF AfterTrying, CanTryAgain, SameStrings
  <2>3. Table(R) /\ SameStrings(R, G)
    <3>1. CASE Obtained(G, answer)
      BY <1>1, <1>3, <1>4, <2>2, <3>1, FittedIs
    <3>2. CASE ~Obtained(G, answer)
      BY <1>1, <1>3, <1>4, <2>2, <3>2, RestoredIs
    <3> QED
      BY <3>1, <3>2
  <2> QED
    BY <2>3, SameStringsGood
<1>6. CASE ~(n < G.size)
  <2>1. D = G
    BY <1>1, <1>6 DEF Depopulated
  <2>2. Good(T, roots) /\ SameTable(T, G) /\ Fewer(T, G)
    BY <1>2, <2>1, AfterTryingIs
  <2>3. Table(T) /\ T.size = G.size /\ T = Depopulated(T, n)
    BY <1>6, <2>2 DEF Good, SameTable, Depopulated
  <2>4. Table(R) /\ SameStrings(R, T)
    <3>1. CASE Obtained(G, answer)
      BY <1>3, <2>3, <3>1, FittedIs
    <3>2. CASE ~Obtained(G, answer)
      BY <1>3, <2>3, <3>2, RestoredIs
    <3> QED
      BY <3>1, <3>2
  <2>5. Good(R, roots) /\ Settings(R, T) /\ Fewer(R, T)
    BY <2>2, <2>4, SameStringsGood
  <2>6. Settings(R, G)
    BY <2>2, <2>5 DEF SameTable, Settings
  <2>7. Fewer(R, G)
    BY <2>2, <2>5 DEF Fewer
  <2> QED
    BY <2>5, <2>6, <2>7
<1> QED
  BY <1>5, <1>6

\* checkSizes, when the allocator makes the vector smaller or cannot call the collector.
LEMMA CheckSizesIs ==
  ASSUME NEW G, NEW roots, Good(G, roots), G.gcemergency = FALSE, NEW answer,
         answer = "ok" \/ G.gcstopem,
         NEW R, R = CheckSizes(G, roots, answer)
  PROVE  Good(R, roots) /\ Settings(R, G) /\ Fewer(R, G)
<1>1. Table(G) /\ G \in State /\ G.size \in Nat \ {0} /\ G.nuse \in Nat
  <2>1. Table(G) /\ G \in State /\ G.size \in Nat \ {0} /\ G.nuse = Cardinality(Allocated(G))
    BY DEF Good, Table, State
  <2>2. Cardinality(Allocated(G)) \in Nat
    BY <2>1, AllocatedIs, FS_CardinalityType
  <2> QED
    BY <2>1, <2>2
<1>2. CASE Shrinks(G)
  <2>1. R = Resize(G, roots, G.size \div 2, answer)
    BY <1>2 DEF CheckSizes
  <2>2. PICK n \in Nat \ {0} : n = G.size \div 2
    BY <1>1, <1>2 DEF Shrinks
  <2> QED
    BY <2>1, <2>2, ResizeIs
<1>3. CASE ~Shrinks(G)
  <2>1. R = G
    BY <1>3 DEF CheckSizes
  <2> QED
    BY <2>1 DEF Settings, Fewer
<1> QED
  BY <1>2, <1>3

\* luaC_fullgc.
LEMMA FullGCIs ==
  ASSUME NEW G, NEW roots, Good(G, roots), G.gcemergency = FALSE, G.gcstopem = FALSE, NEW answer,
         answer = "ok" \/ G.kind = "incremental",
         NEW R, R = FullGC(G, roots, answer)
  PROVE  Good(R, roots) /\ R.gcemergency = FALSE /\ R.gcstopem = FALSE
<1>1. PICK C : C = Collect(G, roots)
  OBVIOUS
<1>2. Good(C, roots) /\ SameTable(C, G)
  BY <1>1, CollectIs
<1>3. PICK stop \in BOOLEAN : stop = (G.kind = "incremental")
  OBVIOUS
<1>4. PICK D : D = [C EXCEPT !.gcstopem = stop]
  OBVIOUS
<1>5. C \in State /\ C.kind = G.kind /\ C.gcemergency = FALSE
  BY <1>2 DEF Good, Table, SameTable, Settings
<1>6. /\ D \in State /\ D.hash = C.hash /\ D.size = C.size /\ D.nuse = C.nuse /\ D.lost = C.lost
      /\ D.obj = C.obj /\ D.kind = C.kind /\ D.cache = C.cache /\ D.sweepgc = C.sweepgc
      /\ D.gcemergency = C.gcemergency /\ D.gcstopem = stop
  BY <1>4, <1>5 DEF State
<1>7. Good(D, roots)
  <2>1. D.sweepgc \in SUBSET C.sweepgc
    BY <1>6
  <2> QED
    BY <1>2, <1>6, <2>1, SameGood
<1>8. PICK E : E = CheckSizes(D, roots, answer)
  OBVIOUS
<1>9. Good(E, roots) /\ Settings(E, D)
  <2>1. answer = "ok" \/ D.gcstopem
    BY <1>3, <1>6
  <2>2. D.gcemergency = FALSE
    BY <1>5, <1>6
  <2> QED
    BY <1>7, <1>8, <2>1, <2>2, CheckSizesIs
<1>10. R = [E EXCEPT !.gcstopem = FALSE]
  BY <1>1, <1>3, <1>4, <1>8 DEF FullGC
<1>11. E \in State /\ E.gcemergency = FALSE
  BY <1>5, <1>6, <1>9 DEF Good, Table, Settings
<1>12. /\ R \in State /\ R.hash = E.hash /\ R.size = E.size /\ R.nuse = E.nuse /\ R.lost = E.lost
       /\ R.obj = E.obj /\ R.kind = E.kind /\ R.cache = E.cache /\ R.sweepgc = E.sweepgc
       /\ R.gcemergency = E.gcemergency /\ R.gcstopem = FALSE
  BY <1>10, <1>11 DEF State
<1>13. Good(R, roots)
  <2>1. R.sweepgc \in SUBSET E.sweepgc
    BY <1>12
  <2> QED
    BY <1>9, <1>12, <2>1, SameGood
<1> QED
  BY <1>11, <1>12, <1>13

\* growstrtab.
LEMMA GrowStrTabIs ==
  ASSUME NEW G, NEW roots, Good(G, roots), G.gcemergency = FALSE, NEW answer,
         NEW R, R = GrowStrTab(G, roots, answer)
  PROVE  Good(R, roots) /\ Settings(R, G) /\ Fewer(R, G)
<1>1. G \in State /\ G.size \in Nat \ {0}
  BY DEF Good, Table, State
<1>2. CASE R = G
  BY <1>2 DEF Settings, Fewer
<1>3. CASE R = Resize(G, roots, G.size * 2, answer)
  <2>1. PICK n \in Nat \ {0} : n = G.size * 2
    BY <1>1
  <2>2. ~(n < G.size)
    BY <1>1, <2>1
  <2> QED
    BY <1>3, <2>1, <2>2, ResizeIs
<1> QED
  BY <1>2, <1>3 DEF GrowStrTab

\* createstrobj: contents that there were not, in the chain of their hash.
LEMMA CreateIs ==
  ASSUME NEW G, NEW roots, Good(G, roots), NEW before, before.moves = G.moves,
         NEW s \in Str, \A o \in Allocated(G) : G.obj[o].s # s, Allocated(G) # Obj,
         NEW list, list = LMod(s, G.size), NEW R, R = Create(before, G, s, list)
  PROVE  R.o \in Obj /\ Good(R.G, roots \cup {R.o}) /\ Settings(R.G, G)
<1>1. /\ G \in State /\ G.size \in Nat \ {0} /\ DOMAIN G.hash = 1..G.size /\ Exact(G, G.size)
      /\ G.nuse = Cardinality(Allocated(G)) /\ Unique(G) /\ G.lost = FALSE /\ Live(G, roots)
  BY DEF Good, Table, State
<1>2. PICK o : o = CHOOSE x \in Obj : G.obj[x] = Free
  OBVIOUS
<1>3. o \in Obj /\ o \notin Allocated(G)
  <2>1. \E x \in Obj : G.obj[x] = Free
    BY <1>1, AllocatedIs DEF Allocated
  <2> QED
    BY <1>2, <2>1 DEF Allocated
<1>4. PICK new : new = [s |-> s, color |-> "white", age |-> 0]
  OBVIOUS
<1>5. new \in StrObj /\ new.s = s /\ new.color = "white" /\ new # Free
  BY <1>4 DEF StrObj, Free
<1>6. PICK obj : obj = [G.obj EXCEPT ![o] = new]
  OBVIOUS
<1>7. PICK h : h = [G.hash EXCEPT ![list] = G.hash[list] \cup {o}]
  OBVIOUS
<1>8. PICK k : k = G.nuse + 1
  OBVIOUS
<1>9. PICK N : N = [G EXCEPT !.obj = obj, !.hash = h, !.nuse = k, !.lost = FALSE]
  OBVIOUS
<1>10. R = [G |-> N, o |-> o]
  BY <1>1, <1>2, <1>4, <1>6, <1>7, <1>8, <1>9 DEF Create, Result
<1>11. R.G = N /\ R.o = o
  BY <1>10
<1>12. obj \in [Obj -> StrObj \cup {Free}] /\ obj[o] = new /\ \A p \in Obj \ {o} : obj[p] = G.obj[p]
  BY <1>1, <1>3, <1>5, <1>6 DEF State
<1>13. list \in 1..G.size
  BY <1>1, LModIs
<1>14. PICK m \in Nat : G.hash \in [1..m -> SUBSET Obj]
  BY <1>1 DEF State, Chains
<1>15. h \in [1..m -> SUBSET Obj] /\ DOMAIN h = DOMAIN G.hash
  BY <1>3, <1>7, <1>13, <1>14, <1>1
<1>16. h \in Chains
  BY <1>15 DEF Chains
<1>17. IsFiniteSet(Allocated(G)) /\ G.nuse \in Int /\ k \in Int
  BY <1>1, <1>8, AllocatedIs DEF State
<1>18. N \in State
  BY <1>1, <1>9, <1>12, <1>16, <1>17 DEF State
<1>19. /\ N.obj = obj /\ N.hash = h /\ N.nuse = k /\ N.lost = FALSE /\ N.size = G.size
       /\ N.cache = G.cache /\ N.sweepgc = G.sweepgc /\ N.kind = G.kind /\ Settings(N, G)
  BY <1>1, <1>9 DEF State, Settings
<1>20. Allocated(N) = Allocated(G) \cup {o}
  <2>1. ASSUME NEW p \in Obj PROVE p \in Allocated(N) <=> p \in Allocated(G) \/ p = o
    BY <1>3, <1>5, <1>12, <1>19 DEF Allocated
  <2>2. Allocated(N) \subseteq Obj /\ Allocated(G) \subseteq Obj
    BY DEF Allocated
  <2> QED
    BY <1>3, <2>1, <2>2
<1>21. k = Cardinality(Allocated(N))
  <2>1. Cardinality(Allocated(G) \cup {o}) = Cardinality(Allocated(G)) + 1
    BY <1>3, <1>17, FS_AddElement
  <2> QED
    BY <1>1, <1>8, <1>20, <2>1
<1>22. \A p \in Allocated(G) : N.obj[p] = G.obj[p]
  BY <1>1, <1>3, <1>12, <1>19, AllocatedIs
<1>23. N.obj[o].s = s /\ N.obj[o].color = "white"
  BY <1>5, <1>12, <1>19
<1>24. Exact(N, N.size)
  <2> SUFFICES ASSUME NEW i \in DOMAIN G.hash
               PROVE  N.hash[i] = {p \in Allocated(N) : LMod(N.obj[p].s, G.size) = i}
    BY <1>15, <1>19 DEF Exact
  <2>1. G.hash[i] = {p \in Allocated(G) : LMod(G.obj[p].s, G.size) = i}
    BY <1>1 DEF Exact
  <2>2. \A p \in Allocated(G) : LMod(N.obj[p].s, G.size) = LMod(G.obj[p].s, G.size)
    BY <1>22
  <2>3. LMod(N.obj[o].s, G.size) = list
    BY <1>23
  <2>4. CASE i = list
    <3>1. N.hash[i] = G.hash[i] \cup {o}
      BY <1>7, <1>19, <2>4
    <3> QED
      BY <1>20, <2>1, <2>2, <2>3, <2>4, <3>1
  <2>5. CASE i # list
    <3>1. N.hash[i] = G.hash[i]
      BY <1>7, <1>19, <2>5
    <3> QED
      BY <1>20, <2>1, <2>2, <2>3, <2>5, <3>1
  <2> QED
    BY <2>4, <2>5
<1>25. Unique(N)
  <2> SUFFICES ASSUME NEW p \in Allocated(N), NEW q \in Allocated(N), N.obj[p].s = N.obj[q].s PROVE p = q
    BY DEF Unique
  <2> QED
    BY <1>1, <1>20, <1>22, <1>23 DEF Unique
<1>26. Table(N)
  BY <1>1, <1>15, <1>18, <1>19, <1>21, <1>24, <1>25 DEF Table
<1>27. \A p : Alive(G, p) => Alive(N, p)
  BY <1>20, <1>22 DEF Alive, IsDead
<1>28. Alive(N, o)
  BY <1>20, <1>23 DEF Alive, IsDead
<1>29. Live(N, roots \cup {o})
  <2>1. \A p \in roots \cup {o} : Alive(N, p)
    BY <1>1, <1>27, <1>28 DEF Live
  <2>2. \A j \in 1..CacheSize : N.cache[j] # MemErrMsg => Alive(N, N.cache[j])
    BY <1>1, <1>19, <1>27 DEF Live
  <2>3. N.sweepgc \subseteq Allocated(N) /\ (N.kind = "generational" => N.sweepgc = {})
    BY <1>1, <1>19, <1>20 DEF Live
  <2>4. N.kind = "generational" => \A p \in Allocated(N) : Alive(N, p)
    BY <1>1, <1>19, <1>20, <1>27, <1>28 DEF Live
  <2> QED
    BY <2>1, <2>2, <2>3, <2>4 DEF Live
<1> QED
  BY <1>3, <1>11, <1>19, <1>26, <1>29 DEF Good

\* A string that is found dead lives again.
LEMMA WhitenedIs ==
  ASSUME NEW G, NEW roots, Good(G, roots), NEW o \in Allocated(G), NEW R, R = Whitened(G, o)
  PROVE  Good(R, roots \cup {o}) /\ SameTable(R, G) /\ R.sweepgc = G.sweepgc
<1>1. /\ G \in State /\ DOMAIN G.hash = 1..G.size /\ Exact(G, G.size)
      /\ G.nuse = Cardinality(Allocated(G)) /\ Unique(G) /\ G.lost = FALSE /\ Live(G, roots)
  BY DEF Good, Table, State
<1>2. PICK new : new = [G.obj[o] EXCEPT !.color = "white"]
  OBVIOUS
<1>3. o \in Obj /\ G.obj[o] \in StrObj
  BY <1>1, AllocatedIs
<1>4. new \in StrObj /\ new.s = G.obj[o].s /\ new.color = "white"
  BY <1>2, <1>3 DEF StrObj
<1>5. PICK obj : obj = [G.obj EXCEPT ![o] = new]
  OBVIOUS
<1>6. R = [G EXCEPT !.obj = obj]
  BY <1>2, <1>5 DEF Whitened
<1>7. obj \in [Obj -> StrObj \cup {Free}] /\ obj[o] = new /\ \A p \in Obj \ {o} : obj[p] = G.obj[p]
  BY <1>1, <1>3, <1>4, <1>5 DEF State
<1>8. /\ R \in State /\ R.obj = obj /\ R.hash = G.hash /\ R.nuse = G.nuse /\ R.lost = FALSE /\ R.size = G.size
      /\ R.cache = G.cache /\ R.sweepgc = G.sweepgc /\ R.kind = G.kind /\ SameTable(R, G)
  BY <1>1, <1>6, <1>7 DEF State, SameTable, Settings
<1>9. Allocated(R) = Allocated(G)
  <2>1. Free \notin StrObj
    BY DEF Free, StrObj
  <2>2. R.obj[o] # Free /\ G.obj[o] # Free
    BY <1>3, <1>4, <1>7, <1>8, <2>1
  <2> QED
    BY <1>7, <1>8, <2>2 DEF Allocated
<1>10. \A p \in Allocated(G) : R.obj[p].s = G.obj[p].s
  <2> SUFFICES ASSUME NEW p \in Allocated(G) PROVE R.obj[p].s = G.obj[p].s
    OBVIOUS
  <2>1. p \in Obj
    BY DEF Allocated
  <2>2. CASE p = o
    BY <1>4, <1>7, <1>8, <2>2
  <2>3. CASE p # o
    BY <1>7, <1>8, <2>1, <2>3
  <2> QED
    BY <2>2, <2>3
<1>11. Exact(R, R.size)
  <2> SUFFICES ASSUME NEW i \in DOMAIN G.hash
               PROVE  G.hash[i] = {p \in Allocated(G) : LMod(R.obj[p].s, G.size) = i}
    BY <1>8, <1>9 DEF Exact
  <2>1. G.hash[i] = {p \in Allocated(G) : LMod(G.obj[p].s, G.size) = i}
    BY <1>1 DEF Exact
  <2> QED
    BY <1>10, <2>1
<1>12. Unique(R)
  BY <1>1, <1>9, <1>10 DEF Unique
<1>13. Table(R)
  BY <1>1, <1>8, <1>9, <1>11, <1>12 DEF Table
<1>14. Alive(R, o) /\ \A p : Alive(G, p) => Alive(R, p)
  <2>1. Alive(R, o)
    BY <1>4, <1>7, <1>8, <1>9 DEF Alive, IsDead
  <2>2. ASSUME NEW p, Alive(G, p) PROVE Alive(R, p)
    <3>1. p \in Obj
      BY <2>2 DEF Alive, Allocated
    <3>2. CASE p = o
      BY <2>1, <3>2
    <3>3. CASE p # o
      BY <1>7, <1>8, <1>9, <2>2, <3>1, <3>3 DEF Alive, IsDead
    <3> QED
      BY <3>2, <3>3
  <2> QED
    BY <2>1, <2>2
<1>15. Live(R, roots \cup {o})
  BY <1>1, <1>8, <1>9, <1>14 DEF Live
<1> QED
  BY <1>8, <1>13, <1>15 DEF Good

-----------------------------------------------------------------------------
(***************************************************************************)
(* New strings.                                                            *)
(***************************************************************************)
Absent(G, s) == \A o \in Allocated(G) : G.obj[o].s # s
Interned(R, G, roots) ==
    /\ Settings(R.G, G)
    /\ R.o = None => Good(R.G, roots)
    /\ R.o # None => R.o \in Obj /\ Good(R.G, roots \cup {R.o})

\* What is absent stays absent, and there stays an object for it.
LEMMA FewerIs ==
  ASSUME NEW G, NEW R, Fewer(R, G), NEW s, Absent(G, s), Allocated(G) # Obj
  PROVE  Absent(R, s) /\ Allocated(R) # Obj
<1>1. Allocated(R) \subseteq Allocated(G) /\ Allocated(G) \subseteq Obj
  BY DEF Fewer, Allocated
<1>2. Absent(R, s)
  BY <1>1 DEF Fewer, Absent
<1> QED
  BY <1>1, <1>2

\* A new string is linked into the vector that it was to be linked into.
LEMMA AddIs ==
  ASSUME NEW G, NEW roots, Good(G, roots), G.gcemergency = FALSE, NEW s \in Str, Absent(G, s),
         Allocated(G) # Obj, NEW answer, NEW R, R = Add(G, roots, s, answer)
  PROVE  Interned(R, G, roots)
<1>1. PICK T : T = AfterTrying(G, roots, answer)
  OBVIOUS
<1>2. Good(T, roots) /\ SameTable(T, G) /\ Fewer(T, G)
  BY <1>1, AfterTryingIs
<1>3. Absent(T, s) /\ Allocated(T) # Obj
  BY <1>2, FewerIs
<1>4. G.moves = T.moves /\ T.size = G.size /\ Settings(T, G)
  BY <1>2 DEF SameTable
<1>5. CASE Obtained(G, answer)
  <2>1. R = Create(G, T, s, LMod(s, G.size))
    BY <1>1, <1>5 DEF Add
  <2>2. \A o \in Allocated(T) : T.obj[o].s # s
    BY <1>3 DEF Absent
  <2>3. LMod(s, G.size) = LMod(s, T.size)
    BY <1>4
  <2>4. PICK list : list = LMod(s, T.size)
    OBVIOUS
  <2>5. R = Create(G, T, s, list)
    BY <2>1, <2>3, <2>4
  <2>6. R.o \in Obj /\ Good(R.G, roots \cup {R.o}) /\ Settings(R.G, T)
    BY <1>2, <1>3, <1>4, <2>2, <2>4, <2>5, CreateIs
  <2>7. Settings(R.G, G)
    BY <1>4, <2>6 DEF Settings
  <2>8. R.o # None
    BY <2>6, StringsAssumption DEF None
  <2> QED
    BY <2>6, <2>7, <2>8 DEF Interned
<1>6. CASE ~Obtained(G, answer)
  <2>1. R = [G |-> T, o |-> None]
    BY <1>1, <1>6 DEF Add, Result
  <2>2. R.G = T /\ R.o = None
    BY <2>1
  <2> QED
    BY <1>2, <1>4, <2>2 DEF Interned
<1> QED
  BY <1>5, <1>6

\* internshrstr.
LEMMA InternIs ==
  ASSUME NEW G, NEW roots, Good(G, roots), G.gcemergency = FALSE, NEW s \in Str,
         Absent(G, s) => Allocated(G) # Obj, NEW growing, NEW creating,
         NEW R, R = InternShrStr(G, roots, s, growing, creating)
  PROVE  Interned(R, G, roots)
<1>1. PICK same : same = {o \in G.hash[LMod(s, G.size)] : G.obj[o].s = s}
  OBVIOUS
<1>2. G \in State /\ G.size \in Nat \ {0} /\ DOMAIN G.hash = 1..G.size /\ Exact(G, G.size)
  BY DEF Good, Table, State
<1>3. same = {o \in Allocated(G) : G.obj[o].s = s}
  <2>1. LMod(s, G.size) \in 1..G.size
    BY <1>2, LModIs
  <2>2. G.hash[LMod(s, G.size)] = {o \in Allocated(G) : LMod(G.obj[o].s, G.size) = LMod(s, G.size)}
    BY <1>2, <2>1 DEF Exact
  <2> QED
    BY <1>1, <2>2
<1>4. CASE same = {}
  <2>1. PICK W : W = GrowStrTab(G, roots, growing)
    OBVIOUS
  <2>2. Good(W, roots) /\ Settings(W, G) /\ Fewer(W, G)
    BY <2>1, GrowStrTabIs
  <2>3. Absent(G, s)
    BY <1>3, <1>4 DEF Absent
  <2>4. Absent(W, s) /\ Allocated(W) # Obj
    BY <2>2, <2>3, FewerIs
  <2>5. R = Add(W, roots, s, creating)
    BY <1>1, <1>4, <2>1 DEF InternShrStr
  <2>6. W.gcemergency = FALSE
    BY <2>2 DEF Settings
  <2>7. Interned(R, W, roots)
    BY <2>2, <2>4, <2>5, <2>6, AddIs
  <2> QED
    BY <2>2, <2>7 DEF Interned, Settings
<1>5. CASE same # {}
  <2>1. PICK o : o = CHOOSE x \in same : TRUE
    OBVIOUS
  <2>2. o \in same
    BY <1>5, <2>1
  <2>3. o \in Allocated(G) /\ o \in Obj
    BY <1>3, <2>2 DEF Allocated
  <2>4. o # None
    BY <2>3, StringsAssumption DEF None
  <2>5. R = Result(IF IsDead(G, o) THEN Whitened(G, o) ELSE G, o)
    BY <1>1, <1>5, <2>1 DEF InternShrStr
  <2>6. CASE IsDead(G, o)
    <3>1. PICK W : W = Whitened(G, o)
      OBVIOUS
    <3>2. R.G = W /\ R.o = o
      BY <2>5, <2>6, <3>1 DEF Result
    <3>3. Good(W, roots \cup {o}) /\ SameTable(W, G)
      BY <2>3, <3>1, WhitenedIs
    <3> QED
      BY <2>3, <2>4, <3>2, <3>3 DEF Interned, SameTable
  <2>7. CASE ~IsDead(G, o)
    <3>1. R.G = G /\ R.o = o
      BY <2>5, <2>7 DEF Result
    <3>2. Good(G, roots \cup {o})
      BY <2>3, <2>7 DEF Good, Live, Alive
    <3> QED
      BY <2>3, <2>4, <3>1, <3>2 DEF Interned, Settings
  <2> QED
    BY <2>6, <2>7
<1> QED
  BY <1>4, <1>5

\* Whatever is alive may be in the cache.
LEMMA CachedIs ==
  ASSUME NEW G, NEW roots, Good(G, roots), NEW c \in [1..CacheSize -> Obj \cup {MemErrMsg}],
         \A j \in 1..CacheSize : c[j] # MemErrMsg => Alive(G, c[j]),
         NEW R, R = [G EXCEPT !.cache = c]
  PROVE  Good(R, roots) /\ Settings(R, G) /\ R.obj = G.obj /\ Allocated(R) = Allocated(G)
<1>1. G \in State /\ Exact(G, G.size)
  BY DEF Good, Table
<1>2. /\ R \in State /\ R.obj = G.obj /\ R.hash = G.hash /\ R.nuse = G.nuse /\ R.lost = G.lost /\ R.size = G.size
      /\ R.cache = c /\ R.sweepgc = G.sweepgc /\ R.kind = G.kind /\ Settings(R, G)
  BY <1>1 DEF State, Settings
<1>3. Allocated(R) = Allocated(G)
  BY <1>2 DEF Allocated
<1>4. Exact(R, R.size)
  <2> SUFFICES ASSUME NEW i \in DOMAIN R.hash
               PROVE  R.hash[i] = {o \in Allocated(R) : LMod(R.obj[o].s, R.size) = i}
    BY DEF Exact
  <2>1. G.hash[i] = {o \in Allocated(G) : LMod(G.obj[o].s, G.size) = i}
    BY <1>1, <1>2 DEF Exact
  <2> QED
    BY <1>2, <1>3, <2>1
<1>5. Table(R)
  BY <1>2, <1>3, <1>4 DEF Good, Table, Unique
<1>6. \A o : Alive(G, o) => Alive(R, o)
  BY <1>2, <1>3 DEF Alive, IsDead
<1>7. Live(R, roots)
  BY <1>2, <1>3, <1>6 DEF Good, Live
<1> QED
  BY <1>2, <1>3, <1>5, <1>7 DEF Good

\* A set of numbers that is not empty has a least one.
LEMMA LeastRow ==
  ASSUME NEW S, S \subseteq Nat, S # {}
  PROVE  \E j \in S : \A i \in S : j <= i
<1>1. PICK j \in S : \A i \in S : ~ (<<i, j>> \in OpToRel(<, Nat))
  BY NatLessThanWellFounded, WFMin
<1>2. \A i \in S : ~ (i < j)
  BY <1>1 DEF OpToRel
<1> QED
  BY <1>2

\* luaS_new.
LEMMA SNewIs ==
  ASSUME NEW G, NEW roots, Good(G, roots), G.gcemergency = FALSE, NEW s \in Str,
         Absent(G, s) => Allocated(G) # Obj, NEW growing, NEW creating,
         NEW R, R = SNew(G, roots, s, growing, creating)
  PROVE  Interned(R, G, roots)
<1>1. PICK hits : hits = {j \in 1..CacheSize : G.cache[j] # MemErrMsg /\ G.obj[G.cache[j]].s = s}
  OBVIOUS
<1>2. PICK moved : moved = [j \in 1..CacheSize |-> IF j = 1 THEN G.cache[1] ELSE G.cache[j - 1]]
  OBVIOUS
<1>3. PICK M : M = [G EXCEPT !.cache = moved]
  OBVIOUS
<1>4. PICK r : r = InternShrStr(M, roots, s, growing, creating)
  OBVIOUS
<1>5. /\ G \in State /\ G.cache \in [1..CacheSize -> Obj \cup {MemErrMsg}] /\ CacheSize \in Nat \ {0}
      /\ \A j \in 1..CacheSize : G.cache[j] # MemErrMsg => Alive(G, G.cache[j])
  BY StringsAssumption DEF Good, Table, State, Live
<1>6. CASE hits # {}
  <2>1. PICK j : j = CHOOSE k \in hits : \A i \in hits : k <= i
    OBVIOUS
  <2>3. \E j1 \in hits : \A i1 \in hits : j1 <= i1
    <3>1. hits \subseteq Nat
      BY <1>1, <1>5
    <3> QED
      BY <1>6, <3>1, LeastRow
  <2>4. j \in hits
    BY <2>1, <2>3
  <2>5. PICK o : o = G.cache[j]
    OBVIOUS
  <2>6. Alive(G, o) /\ o \in Obj
    BY <1>1, <1>5, <2>4, <2>5 DEF Alive, Allocated
  <2>7. R = Result(G, o)
    BY <1>1, <1>6, <2>1, <2>5 DEF SNew
  <2>8. R.G = G /\ R.o = o /\ o # None
    BY <2>6, <2>7, StringsAssumption DEF Result, None
  <2>9. Good(G, roots \cup {o})
    BY <2>6 DEF Good, Live
  <2> QED
    BY <2>6, <2>8, <2>9 DEF Interned, Settings
<1>7. CASE hits = {}
  <2>1. moved \in [1..CacheSize -> Obj \cup {MemErrMsg}]
    BY <1>2, <1>5
  <2>2. \A j \in 1..CacheSize : moved[j] # MemErrMsg => Alive(G, moved[j])
    BY <1>2, <1>5
  <2>3. Good(M, roots) /\ Settings(M, G) /\ M.obj = G.obj /\ Allocated(M) = Allocated(G)
    BY <1>3, <2>1, <2>2, CachedIs
  <2>4. Absent(M, s) => Allocated(M) # Obj
    BY <2>3 DEF Absent
  <2>5. M.gcemergency = FALSE
    BY <2>3 DEF Settings
  <2>6. Interned(r, M, roots)
    BY <1>4, <2>3, <2>4, <2>5, InternIs
  <2>7. R = IF r.o = None THEN r ELSE Result([r.G EXCEPT !.cache = [r.G.cache EXCEPT ![1] = r.o]], r.o)
    BY <1>1, <1>2, <1>3, <1>4, <1>7 DEF SNew
  <2>8. CASE r.o = None
    BY <2>3, <2>6, <2>7, <2>8 DEF Interned, Settings
  <2>9. CASE r.o # None
    <3>1. PICK o \in Obj : o = r.o
      BY <2>6, <2>9 DEF Interned
    <3>2. PICK F : F = r.G
      OBVIOUS
    <3>3. Good(F, roots \cup {o}) /\ Settings(F, M)
      BY <2>6, <2>9, <3>1, <3>2 DEF Interned
    <3>4. /\ F.cache \in [1..CacheSize -> Obj \cup {MemErrMsg}] /\ Alive(F, o)
          /\ \A j \in 1..CacheSize : F.cache[j] # MemErrMsg => Alive(F, F.cache[j])
      BY <3>3 DEF Good, Table, State, Live
    <3>5. PICK c : c = [F.cache EXCEPT ![1] = o]
      OBVIOUS
    <3>6. c \in [1..CacheSize -> Obj \cup {MemErrMsg}]
      BY <3>4, <3>5
    <3>7. \A j \in 1..CacheSize : c[j] # MemErrMsg => Alive(F, c[j])
      BY <3>4, <3>5
    <3>8. PICK W : W = [F EXCEPT !.cache = c]
      OBVIOUS
    <3>9. Good(W, roots \cup {o}) /\ Settings(W, F)
      BY <3>3, <3>6, <3>7, <3>8, CachedIs
    <3>10. R = Result(W, o)
      BY <2>7, <2>9, <3>1, <3>2, <3>5, <3>8
    <3>11. R.G = W /\ R.o = o
      BY <3>10 DEF Result
    <3> QED
      BY <2>3, <2>9, <3>1, <3>3, <3>9, <3>11 DEF Interned, Settings
  <2> QED
    BY <2>8, <2>9
<1> QED
  BY <1>6, <1>7

-----------------------------------------------------------------------------
(***************************************************************************)
(* The program and the collector.                                          *)
(***************************************************************************)
Calm(G) == G.gcstopem = FALSE /\ G.gcemergency = FALSE
StringsInv == Good(g, held) /\ Calm(g)

\* What is counted anew at every call is not about strings.
LEMMA StartingIs ==
  ASSUME NEW G, NEW roots, Good(G, roots), NEW R, R = [G EXCEPT !.moves = 0]
  PROVE  /\ Good(R, roots) /\ Settings(R, G) /\ R.obj = G.obj /\ Allocated(R) = Allocated(G)
         /\ R.sweepgc = G.sweepgc
<1>1. G \in State
  BY DEF Good, Table
<1>2. /\ R \in State /\ R.obj = G.obj /\ R.hash = G.hash /\ R.nuse = G.nuse /\ R.lost = G.lost /\ R.size = G.size
      /\ R.cache = G.cache /\ R.sweepgc = G.sweepgc /\ R.kind = G.kind /\ Settings(R, G)
  BY <1>1 DEF State, Settings
<1>3. R.sweepgc \in SUBSET G.sweepgc
  BY <1>2
<1> QED
  BY <1>2, <1>3, SameGood

\* Initially there are no strings.
LEMMA InitIs == StringsInit => StringsInv
<1> SUFFICES ASSUME StringsInit PROVE StringsInv
  OBVIOUS
<1>1. PICK kind \in Kinds, size \in StartSizes : g = InitG(kind, size)
  BY DEF StringsInit
<1>2. size \in Nat \ {0} /\ held = {}
  BY StringsAssumption DEF StringsInit
<1>3. g.obj = [o \in Obj |-> Free] /\ g.cache = [j \in 1..CacheSize |-> MemErrMsg] /\ g.hash = [i \in 1..size |-> {}]
      /\ g.size = size /\ g.nuse = 0 /\ g.lost = FALSE /\ g.sweepgc = {} /\ g.gcstopem = FALSE /\ g.gcemergency = FALSE
  BY <1>1 DEF InitG, Empty
<1>4. Empty(size) \in Chains
  <2>1. Empty(size) \in [1..size -> SUBSET Obj]
    BY DEF Empty
  <2> QED
    BY <1>2, <2>1 DEF Chains
<1>5. g \in State
  <2>1. [o \in Obj |-> Free] \in [Obj -> StrObj \cup {Free}]
    OBVIOUS
  <2>2. [j \in 1..CacheSize |-> MemErrMsg] \in [1..CacheSize -> Obj \cup {MemErrMsg}]
    OBVIOUS
  <2> QED
    BY <1>1, <1>2, <1>4, <2>1, <2>2 DEF State, InitG
<1>6. Allocated(g) = {}
  BY <1>3 DEF Allocated
<1>7. Exact(g, g.size) /\ DOMAIN g.hash = 1..g.size
  BY <1>3, <1>6 DEF Exact
<1>8. g.nuse = Cardinality(Allocated(g))
  BY <1>3, <1>6, FS_EmptySet
<1>9. Table(g)
  BY <1>3, <1>5, <1>6, <1>7, <1>8 DEF Table, Unique
<1>10. Live(g, held)
  BY <1>2, <1>3, <1>6 DEF Live
<1> QED
  BY <1>3, <1>9, <1>10 DEF StringsInv, Good, Calm

\* What a call of luaS_newlstr or luaS_new leaves.
LEMMA GotIs ==
  ASSUME StringsInv, NEW G, Settings(G, g), NEW r, Interned(r, G, held), Got(r)
  PROVE  StringsInv'
<1>1. Settings(r.G, G) /\ Calm(r.G)
  BY DEF Interned, StringsInv, Calm, Settings
<1>2. CASE r.o = None
  <2>1. Good(r.G, held) /\ g' = r.G /\ held' = held
    BY <1>2 DEF Interned, Got
  <2> QED
    BY <1>1, <2>1 DEF StringsInv, Good, Table, State, Live, Alive, IsDead, Allocated, Exact, Unique, Calm
<1>3. CASE r.o # None
  <2> PICK h : h = held \cup {r.o}
    OBVIOUS
  <2>1. Good(r.G, h) /\ g' = r.G /\ held' = h
    BY <1>3 DEF Interned, Got
  <2> QED
    BY SMTT(60), <1>1, <2>1 DEF StringsInv, Good, Table, State, Live, Alive, IsDead, Allocated, Exact, Unique, Calm
<1> QED
  BY <1>2, <1>3

\* The next state, by its value.
LEMMA NextIs ==
  ASSUME NEW R, NEW roots, Good(R, roots), Calm(R), g' = R, held' = roots
  PROVE  StringsInv'
BY DEF StringsInv, Good, Table, State, Live, Alive, IsDead, Allocated, Exact, Unique, Calm

LEMMA NewLStrIs ==
  ASSUME StringsInv, NEW s \in Str, NEW growing, NEW creating, NewLStr(s, growing, creating)
  PROVE  StringsInv'
<1>1. PICK G, roots : G = g /\ roots = held
  OBVIOUS
<1>2. Good(G, roots) /\ Calm(G)
  BY <1>1 DEF StringsInv
<1>3. PICK S : S = [G EXCEPT !.moves = 0]
  OBVIOUS
<1>4. S = Starting
  BY <1>1, <1>3 DEF Starting
<1>5. Good(S, roots) /\ Settings(S, G) /\ S.obj = G.obj /\ Allocated(S) = Allocated(G)
  BY <1>2, <1>3, StartingIs
<1>6. Absent(S, s) => Allocated(S) # Obj
  BY <1>1, <1>5 DEF NewLStr, Answered, IsNew, Absent
<1>7. PICK r : r = InternShrStr(S, roots, s, growing, creating)
  OBVIOUS
<1>8. Interned(r, S, roots)
  <2>1. S.gcemergency = FALSE
    BY <1>2, <1>5 DEF Calm, Settings
  <2> QED
    BY <1>5, <1>6, <1>7, <2>1, InternIs
<1>9. Got(r)
  BY <1>1, <1>4, <1>7 DEF NewLStr
<1>10. Settings(S, g) /\ Interned(r, S, held)
  BY <1>1, <1>5, <1>8
<1> QED
  BY <1>9, <1>10, GotIs

LEMMA NewFromCIs ==
  ASSUME StringsInv, NEW s \in Str, NEW growing, NEW creating, NewFromC(s, growing, creating)
  PROVE  StringsInv'
<1>1. PICK G, roots : G = g /\ roots = held
  OBVIOUS
<1>2. Good(G, roots) /\ Calm(G)
  BY <1>1 DEF StringsInv
<1>3. PICK S : S = [G EXCEPT !.moves = 0]
  OBVIOUS
<1>4. S = Starting
  BY <1>1, <1>3 DEF Starting
<1>5. Good(S, roots) /\ Settings(S, G) /\ S.obj = G.obj /\ Allocated(S) = Allocated(G)
  BY <1>2, <1>3, StartingIs
<1>6. Absent(S, s) => Allocated(S) # Obj
  BY <1>1, <1>5 DEF NewFromC, Answered, IsNew, Absent
<1>7. PICK r : r = SNew(S, roots, s, growing, creating)
  OBVIOUS
<1>8. Interned(r, S, roots)
  <2>1. S.gcemergency = FALSE
    BY <1>2, <1>5 DEF Calm, Settings
  <2> QED
    BY <1>5, <1>6, <1>7, <2>1, SNewIs
<1>9. Got(r)
  BY <1>1, <1>4, <1>7 DEF NewFromC
<1>10. Settings(S, g) /\ Interned(r, S, held)
  BY <1>1, <1>5, <1>8
<1> QED
  BY <1>9, <1>10, GotIs

LEMMA DropIs ==
  ASSUME StringsInv, NEW o, Drop(o)
  PROVE  StringsInv'
<1>1. PICK G, roots : G = g /\ roots = held \ {o}
  OBVIOUS
<1>2. Good(G, roots) /\ Calm(G)
  BY <1>1 DEF StringsInv, Good, Live
<1> QED
  BY <1>1, <1>2, NextIs DEF Drop

\* Every object has an age and a color.
LEMMA AgesAre ==
  ASSUME NEW G \in State
  PROVE  \A o \in Obj : G.obj[o].age \in Nat /\ G.obj[o].color \in {"white", "black", "dead", "none"}
<1> SUFFICES ASSUME NEW o \in Obj
             PROVE  G.obj[o].age \in Nat /\ G.obj[o].color \in {"white", "black", "dead", "none"}
  OBVIOUS
<1>1. G.obj[o] \in StrObj \/ G.obj[o] = Free
  BY DEF State
<1>2. CASE G.obj[o] \in StrObj
  BY <1>2 DEF StrObj
<1>3. CASE G.obj[o] = Free
  <2>1. Free.age = 0 /\ Free.color = "none"
    BY DEF Free
  <2> QED
    BY <1>3, <2>1
<1> QED
  BY <1>1, <1>2, <1>3

\* The atomic phase: what is found dead is neither held nor in the cache.
LEMMA AtomicIs ==
  ASSUME StringsInv, Atomic
  PROVE  StringsInv'
<1>1. PICK G, roots : G = g /\ roots = held
  OBVIOUS
<1>2. Good(G, roots) /\ Calm(G) /\ G \in State /\ roots \subseteq Allocated(G) /\ roots \subseteq Obj
  BY <1>1, AllocatedIs DEF StringsInv, Good, Table, Live, Alive
<1>3. PICK color : color = [o \in Obj |-> IF o \in roots THEN "black" ELSE "dead"]
  OBVIOUS
<1>4. PICK age : age = [o \in Obj |-> G.obj[o].age]
  OBVIOUS
<1>5. PICK C : C = ClearCache(G, roots)
  OBVIOUS
<1>6. PICK P : P = Painted(C, color, age)
  OBVIOUS
<1>7. PICK R : R = [P EXCEPT !.sweeping = TRUE, !.sweepgc = Allocated(G)]
  OBVIOUS
<1>8. g' = R /\ held' = roots /\ G.kind = "incremental"
  BY <1>1, <1>3, <1>4, <1>5, <1>6, <1>7 DEF Atomic
<1>9. /\ Table(C) /\ SameTable(C, G) /\ SameStrings(C, [G EXCEPT !.cache = C.cache])
      /\ \A j \in 1..CacheSize : C.cache[j] = MemErrMsg \/ (C.cache[j] = G.cache[j] /\ C.cache[j] \in roots)
  BY <1>2, <1>5, ClearCacheIs DEF Good
<1>10. Allocated(C) = Allocated(G) /\ C.obj = G.obj
  BY <1>2, <1>9 DEF SameStrings, Allocated, State
<1>11. Paint(color, age) /\ \A o \in Allocated(C) : color[o] # "none"
  <2>1. \A o \in Obj : G.obj[o].age \in Nat
    BY <1>2, AgesAre
  <2>2. Allocated(C) \subseteq Obj
    BY DEF Allocated
  <2> QED
    BY <1>3, <1>4, <2>1, <2>2 DEF Paint
<1>12. /\ Table(P) /\ SameTable(P, C) /\ P.cache = C.cache /\ Allocated(P) = Allocated(C)
       /\ \A o \in Allocated(C) : P.obj[o] = [s |-> C.obj[o].s, color |-> color[o], age |-> age[o]]
  BY <1>6, <1>9, <1>11, PaintedIs
<1>13. P \in State /\ P.kind = "incremental"
  BY <1>8, <1>9, <1>12 DEF Table, SameTable, Settings
<1>14. /\ R \in State /\ R.hash = P.hash /\ R.size = P.size /\ R.nuse = P.nuse /\ R.lost = P.lost
       /\ R.obj = P.obj /\ R.kind = P.kind /\ R.cache = P.cache /\ R.sweepgc = Allocated(G) /\ Settings(R, P)
  <2>1. Allocated(G) \in SUBSET Obj
    BY DEF Allocated
  <2> QED
    BY <1>7, <1>13, <2>1 DEF State, Settings
<1>15. Allocated(R) = Allocated(G)
  BY <1>10, <1>12, <1>14 DEF Allocated
<1>16. Table(R)
  <2>1. Exact(R, R.size)
    <3>1. Exact(P, P.size)
      BY <1>12 DEF Table
    <3> SUFFICES ASSUME NEW i \in DOMAIN R.hash
                 PROVE  R.hash[i] = {o \in Allocated(R) : LMod(R.obj[o].s, R.size) = i}
      BY DEF Exact
    <3>2. P.hash[i] = {o \in Allocated(P) : LMod(P.obj[o].s, P.size) = i}
      BY <1>14, <3>1 DEF Exact
    <3> QED
      BY <1>10, <1>12, <1>14, <1>15, <3>2
  <2> QED
    BY <1>10, <1>12, <1>14, <1>15, <2>1 DEF Table, Unique
<1>17. \A o \in roots : Alive(R, o)
  <2> SUFFICES ASSUME NEW o \in roots PROVE Alive(R, o)
    OBVIOUS
  <2>1. color[o] = "black" /\ o \in Allocated(C)
    BY <1>2, <1>3, <1>10
  <2>2. P.obj[o].color = color[o]
    <3>1. P.obj[o] = [s |-> C.obj[o].s, color |-> color[o], age |-> age[o]]
      BY <1>12, <2>1
    <3> QED
      BY <3>1
  <2> QED
    BY <1>10, <1>14, <1>15, <2>1, <2>2 DEF Alive, IsDead
<1>18. Live(R, roots)
  <2>1. \A j \in 1..CacheSize : R.cache[j] # MemErrMsg => R.cache[j] \in roots
    BY <1>9, <1>12, <1>14
  <2> QED
    BY <1>13, <1>14, <1>15, <1>17, <2>1 DEF Live
<1>19. Calm(R)
  BY <1>2, <1>9, <1>12, <1>14 DEF Calm, Settings, SameTable
<1> QED
  BY <1>8, <1>16, <1>18, <1>19, NextIs DEF Good

\* A string is removed only if it is dead, and then nothing refers to it.
LEMMA SweepOneIs ==
  ASSUME StringsInv, NEW o \in Obj, SweepOne(o)
  PROVE  StringsInv'
<1>1. PICK G, roots : G = g /\ roots = held
  OBVIOUS
<1>2. /\ Good(G, roots) /\ Calm(G) /\ Table(G) /\ Live(G, roots) /\ G \in State
      /\ o \in G.sweepgc /\ G.sweepgc \subseteq Allocated(G) /\ o \in Allocated(G)
  BY <1>1 DEF StringsInv, Good, Table, Live, SweepOne
<1>3. G.kind # "generational"
  BY <1>2 DEF Live
<1>4. PICK W : W = IF IsDead(G, o) THEN Removed(G, {o}) ELSE Whitened(G, o)
  OBVIOUS
<1>5. PICK rest : rest = G.sweepgc \ {o}
  OBVIOUS
<1>6. PICK R : R = [W EXCEPT !.sweepgc = rest]
  OBVIOUS
<1>7. g' = R /\ held' = roots
  BY <1>1, <1>4, <1>5, <1>6 DEF SweepOne
<1>8. /\ Table(W) /\ SameTable(W, G) /\ W.sweepgc = G.sweepgc /\ rest \subseteq Allocated(W)
      /\ \A p \in roots : Alive(W, p)
      /\ \A j \in 1..CacheSize : W.cache[j] # MemErrMsg => Alive(W, W.cache[j])
  <2>1. CASE IsDead(G, o)
    <3>1. PICK dead \in SUBSET Allocated(G) : dead = {o}
      BY <1>2
    <3>2. W = Removed(G, dead)
      BY <1>4, <2>1, <3>1
    <3>3. /\ Table(W) /\ SameTable(W, G) /\ W.cache = G.cache /\ W.sweepgc = G.sweepgc
          /\ Allocated(W) = Allocated(G) \ dead /\ \A p \in Allocated(W) : W.obj[p] = G.obj[p]
      BY <1>2, <3>2, RemovedIs
    <3>4. \A p : Alive(G, p) => Alive(W, p)
      BY <2>1, <3>1, <3>3 DEF Alive, IsDead
    <3>5. rest \subseteq Allocated(W)
      BY <1>2, <1>5, <3>1, <3>3
    <3> QED
      BY <1>2, <3>3, <3>4, <3>5 DEF Live
  <2>2. CASE ~IsDead(G, o)
    <3>1. W = Whitened(G, o)
      BY <1>4, <2>2
    <3>2. Good(W, roots \cup {o}) /\ SameTable(W, G) /\ W.sweepgc = G.sweepgc
      BY <1>2, <3>1, WhitenedIs
    <3> QED
      BY <1>5, <3>2 DEF Good, Live
  <2> QED
    BY <2>1, <2>2
<1>9. W \in State /\ W.kind = G.kind
  BY <1>8 DEF Table, SameTable, Settings
<1>10. /\ R \in State /\ R.hash = W.hash /\ R.size = W.size /\ R.nuse = W.nuse /\ R.lost = W.lost
       /\ R.obj = W.obj /\ R.kind = W.kind /\ R.cache = W.cache /\ R.sweepgc = rest /\ Settings(R, W)
  <2>1. rest \in SUBSET Obj
    BY <1>5, <1>2 DEF Allocated
  <2> QED
    BY <1>6, <1>9, <2>1 DEF State, Settings
<1>11. Allocated(R) = Allocated(W)
  BY <1>10 DEF Allocated
<1>12. Table(R)
  <2>1. Exact(R, R.size)
    <3>1. Exact(W, W.size)
      BY <1>8 DEF Table
    <3> SUFFICES ASSUME NEW i \in DOMAIN R.hash
                 PROVE  R.hash[i] = {p \in Allocated(R) : LMod(R.obj[p].s, R.size) = i}
      BY DEF Exact
    <3>2. W.hash[i] = {p \in Allocated(W) : LMod(W.obj[p].s, W.size) = i}
      BY <1>10, <3>1 DEF Exact
    <3> QED
      BY <1>10, <1>11, <3>2
  <2> QED
    BY <1>8, <1>10, <1>11, <2>1 DEF Table, Unique
<1>13. \A p : Alive(W, p) => Alive(R, p)
  BY <1>10, <1>11 DEF Alive, IsDead
<1>14. Live(R, roots)
  BY <1>3, <1>8, <1>9, <1>10, <1>11, <1>13 DEF Live
<1>15. Calm(R)
  BY <1>2, <1>8, <1>10 DEF Calm, Settings, SameTable
<1> QED
  BY <1>7, <1>12, <1>14, <1>15, NextIs DEF Good

\* The end of a sweep may make the table smaller; gcstopem keeps the collector out.
LEMMA SweepEndIs ==
  ASSUME StringsInv, NEW answer, SweepEnd(answer)
  PROVE  StringsInv'
<1>1. PICK G, roots : G = g /\ roots = held
  OBVIOUS
<1>2. Good(G, roots) /\ Calm(G) /\ G \in State
  BY <1>1 DEF StringsInv, Good, Table
<1>3. PICK S : S = [G EXCEPT !.moves = 0]
  OBVIOUS
<1>4. Good(S, roots) /\ Settings(S, G) /\ S \in State
  BY <1>2, <1>3, StartingIs DEF Good, Table
<1>5. PICK D : D = [S EXCEPT !.gcstopem = TRUE, !.sweeping = FALSE]
  OBVIOUS
<1>6. /\ D \in State /\ D.hash = S.hash /\ D.size = S.size /\ D.nuse = S.nuse /\ D.lost = S.lost
      /\ D.obj = S.obj /\ D.kind = S.kind /\ D.cache = S.cache /\ D.sweepgc = S.sweepgc
      /\ D.gcemergency = S.gcemergency /\ D.gcstopem = TRUE
  BY <1>4, <1>5 DEF State
<1>7. Good(D, roots) /\ D.gcemergency = FALSE
  <2>1. D.sweepgc \in SUBSET S.sweepgc
    BY <1>6
  <2>2. Good(D, roots)
    BY <1>4, <1>6, <2>1, SameGood
  <2> QED
    BY <1>2, <1>4, <1>6, <2>2 DEF Calm, Settings
<1>8. PICK E : E = CheckSizes(D, roots, answer)
  OBVIOUS
<1>9. Good(E, roots) /\ Settings(E, D)
  <2>1. answer = "ok" \/ D.gcstopem
    BY <1>6
  <2> QED
    BY <1>7, <1>8, <2>1, CheckSizesIs
<1>10. PICK R : R = [E EXCEPT !.gcstopem = FALSE]
  OBVIOUS
<1>11. E \in State
  BY <1>9 DEF Good, Table
<1>12. /\ R \in State /\ R.hash = E.hash /\ R.size = E.size /\ R.nuse = E.nuse /\ R.lost = E.lost
       /\ R.obj = E.obj /\ R.kind = E.kind /\ R.cache = E.cache /\ R.sweepgc = E.sweepgc
       /\ R.gcemergency = E.gcemergency /\ R.gcstopem = FALSE
  BY <1>10, <1>11 DEF State
<1>13. Good(R, roots) /\ Calm(R)
  <2>1. R.sweepgc \in SUBSET E.sweepgc
    BY <1>12
  <2>2. Good(R, roots)
    BY <1>9, <1>12, <2>1, SameGood
  <2> QED
    BY <1>7, <1>9, <1>12, <2>2 DEF Calm, Settings
<1>14. g' = R /\ held' = roots
  BY <1>1, <1>3, <1>5, <1>8, <1>10 DEF SweepEnd, Starting
<1> QED
  BY <1>13, <1>14, NextIs

\* A young collection, if the vector can be made smaller without another collection.
LEMMA YoungCollectionIs ==
  ASSUME StringsInv, "generational" \in Kinds => ~YoungShrinkFails, NEW answer, YoungCollection(answer)
  PROVE  StringsInv'
<1>1. PICK G, roots : G = g /\ roots = held
  OBVIOUS
<1>2. Good(G, roots) /\ Calm(G) /\ G \in State /\ G.kind = "generational"
  BY <1>1 DEF StringsInv, Good, Table, YoungCollection
<1>3. answer = "ok"
  BY <1>1, <1>2 DEF YoungCollection, State
<1>4. PICK S : S = [G EXCEPT !.moves = 0]
  OBVIOUS
<1>5. Good(S, roots) /\ Settings(S, G) /\ S \in State /\ S.obj = G.obj /\ Allocated(S) = Allocated(G) /\ S.sweepgc = G.sweepgc
  BY <1>2, <1>4, StartingIs DEF Good, Table
<1>6. PICK kept : kept = Kept
  OBVIOUS
<1>7. roots \subseteq kept /\ kept \subseteq Allocated(G) /\ kept \subseteq Obj
  <2>1. \A o \in Obj : G.obj[o].age = 2 => o \in Allocated(G)
    <3>1. Free.age # 2
      BY DEF Free
    <3> QED
      BY <3>1 DEF Allocated
  <2>2. roots \subseteq Allocated(G)
    BY <1>2 DEF Good, Live, Alive
  <2>3. Allocated(G) \subseteq Obj
    BY DEF Allocated
  <2> QED
    BY <1>1, <1>6, <2>1, <2>2, <2>3 DEF Kept
<1>8. PICK C : C = ClearCache(S, kept)
  OBVIOUS
<1>9. PICK dead : dead = Allocated(G) \ kept
  OBVIOUS
<1>10. PICK M : M = Removed(C, dead)
  OBVIOUS
<1>11. PICK color : color = [o \in Obj |-> G.obj[o].color]
  OBVIOUS
<1>12. PICK age : age = [o \in Obj |-> IF G.obj[o].age = 2 THEN 2 ELSE G.obj[o].age + 1]
  OBVIOUS
<1>13. PICK P : P = Painted(M, color, age)
  OBVIOUS
<1>14. g' = CheckSizes(P, roots, answer) /\ held' = roots
  BY <1>1, <1>4, <1>6, <1>8, <1>9, <1>10, <1>11, <1>12, <1>13 DEF YoungCollection, Starting
<1>15. /\ Table(C) /\ SameTable(C, S) /\ SameStrings(C, [S EXCEPT !.cache = C.cache])
       /\ \A j \in 1..CacheSize : C.cache[j] = MemErrMsg \/ (C.cache[j] = S.cache[j] /\ C.cache[j] \in kept)
  <2>1. Table(S) /\ kept \in SUBSET Obj
    BY <1>5, <1>7 DEF Good
  <2> QED
    BY <1>8, <2>1, ClearCacheIs
<1>16. Allocated(C) = Allocated(G) /\ C.obj = G.obj /\ C.sweepgc = {}
  <2>1. C.obj = S.obj /\ C.sweepgc = S.sweepgc
    BY <1>5, <1>15 DEF SameStrings, State
  <2>2. G.sweepgc = {}
    BY <1>2 DEF Good, Live
  <2> QED
    BY <1>5, <2>1, <2>2 DEF Allocated
<1>17. /\ Table(M) /\ SameTable(M, C) /\ M.cache = C.cache /\ M.sweepgc = {}
       /\ Allocated(M) = kept /\ \A o \in Allocated(M) : M.obj[o] = G.obj[o]
  <2>1. dead \in SUBSET Allocated(C)
    BY <1>9, <1>16
  <2>2. /\ Table(M) /\ SameTable(M, C) /\ M.cache = C.cache /\ M.sweepgc = C.sweepgc
        /\ Allocated(M) = Allocated(C) \ dead /\ \A o \in Allocated(M) : M.obj[o] = C.obj[o]
    BY <1>10, <1>15, <2>1, RemovedIs
  <2>3. Allocated(C) \ dead = kept
    BY <1>7, <1>9, <1>16
  <2> QED
    BY <1>16, <2>2, <2>3
<1>18. \A o \in Allocated(G) : G.obj[o].color # "dead" /\ G.obj[o].color # "none"
  <2>1. \A o \in Allocated(G) : G.obj[o].color # "dead"
    BY <1>2 DEF Good, Live, Alive, IsDead
  <2>2. \A o \in Allocated(G) : G.obj[o].color # "none"
    BY <1>2, AllocatedIs DEF StrObj
  <2> QED
    BY <2>1, <2>2
<1>19. Paint(color, age) /\ \A o \in Allocated(M) : color[o] # "none"
  <2>1. \A o \in Obj : G.obj[o].age \in Nat /\ G.obj[o].color \in {"white", "black", "dead", "none"}
    BY <1>2, AgesAre
  <2>2. \A o \in Allocated(M) : color[o] # "none"
    BY <1>7, <1>11, <1>17, <1>18
  <2>3. age \in [Obj -> Nat]
    <3> SUFFICES ASSUME NEW o \in Obj PROVE (IF G.obj[o].age = 2 THEN 2 ELSE G.obj[o].age + 1) \in Nat
      BY <1>12
    <3>1. PICK a \in Nat : a = G.obj[o].age
      BY <2>1
    <3> QED
      BY <3>1
  <2> QED
    BY <1>11, <2>1, <2>2, <2>3 DEF Paint
<1>20. /\ Table(P) /\ SameTable(P, M) /\ P.cache = M.cache /\ P.sweepgc = {} /\ Allocated(P) = kept
       /\ \A o \in Allocated(M) : P.obj[o] = [s |-> M.obj[o].s, color |-> color[o], age |-> age[o]]
  <2>1. Table(M)
    BY <1>17
  <2>2. /\ Table(P) /\ SameTable(P, M) /\ P.cache = M.cache /\ P.sweepgc = M.sweepgc /\ Allocated(P) = Allocated(M)
        /\ \A o \in Allocated(M) : P.obj[o] = [s |-> M.obj[o].s, color |-> color[o], age |-> age[o]]
    BY SMTT(60), <1>13, <1>19, <2>1, PaintedIs
  <2> QED
    BY <1>17, <2>2
<1>21. \A o \in kept : Alive(P, o)
  <2> SUFFICES ASSUME NEW o \in kept PROVE Alive(P, o)
    OBVIOUS
  <2>1. P.obj[o] = [s |-> M.obj[o].s, color |-> color[o], age |-> age[o]]
    BY <1>17, <1>20
  <2>2. P.obj[o].color = color[o] /\ color[o] = G.obj[o].color
    BY <1>7, <1>11, <2>1
  <2>3. P.obj[o].color # "dead"
    BY <1>7, <1>18, <2>2
  <2> QED
    BY <1>20, <2>3 DEF Alive, IsDead
<1>22. Good(P, roots)
  <2>1. \A j \in 1..CacheSize : P.cache[j] # MemErrMsg => P.cache[j] \in kept
    BY <1>15, <1>17, <1>20
  <2>2. Live(P, roots)
    BY <1>7, <1>20, <1>21, <2>1 DEF Live
  <2> QED
    BY <1>20, <2>2 DEF Good
<1>23. Calm(P)
  BY <1>2, <1>5, <1>15, <1>17, <1>20 DEF Calm, Settings, SameTable
<1>24. PICK R : R = CheckSizes(P, roots, answer)
  OBVIOUS
<1>25. Good(R, roots) /\ Settings(R, P)
  BY <1>3, <1>22, <1>23, <1>24, CheckSizesIs DEF Calm
<1>26. Calm(R)
  BY <1>23, <1>25 DEF Calm, Settings
<1> QED
  BY <1>14, <1>24, <1>25, <1>26, NextIs

LEMMA FullCollectionIs ==
  ASSUME StringsInv, "generational" \in Kinds => ~YoungShrinkFails, NEW answer, FullCollection(answer)
  PROVE  StringsInv'
<1>1. PICK G, roots : G = g /\ roots = held
  OBVIOUS
<1>2. Good(G, roots) /\ Calm(G) /\ G \in State
  BY <1>1 DEF StringsInv, Good, Table
<1>3. PICK S : S = [G EXCEPT !.moves = 0]
  OBVIOUS
<1>4. Good(S, roots) /\ Settings(S, G)
  BY <1>2, <1>3, StartingIs
<1>5. answer = "ok" \/ S.kind = "incremental"
  <2>1. G.kind \in Kinds /\ Kinds \subseteq {"incremental", "generational"}
    BY <1>2, StringsAssumption DEF State
  <2>2. S.kind = G.kind
    BY <1>4 DEF Settings
  <2> QED
    BY <1>1, <2>1, <2>2 DEF FullCollection
<1>6. PICK R : R = FullGC(S, roots, answer)
  OBVIOUS
<1>7. Good(R, roots) /\ R.gcemergency = FALSE /\ R.gcstopem = FALSE
  BY <1>2, <1>4, <1>5, <1>6, FullGCIs DEF Calm, Settings
<1>8. g' = R /\ held' = roots
  BY <1>1, <1>3, <1>6 DEF FullCollection, Starting
<1> QED
  BY <1>7, <1>8, NextIs DEF Calm

-----------------------------------------------------------------------------
(***************************************************************************)
(* The theorem.                                                            *)
(***************************************************************************)
\* The invariant says what it should.
LEMMA InvIsUnique == StringsInv => StringsUnique
<1> SUFFICES ASSUME StringsInv PROVE StringsUnique
  OBVIOUS
<1>1. Table(g) /\ Live(g, held) /\ g \in State
  BY DEF StringsInv, Good, Table
<1>2. ChainsExact
  BY <1>1 DEF Table, Exact, ChainsExact
<1>3. \A o \in held : g.obj[o] # Free /\ ~IsDead(g, o)
  BY <1>1 DEF Live, Alive, Allocated
<1>4. \A j \in 1..CacheSize : g.cache[j] # MemErrMsg => g.obj[g.cache[j]] # Free /\ ~IsDead(g, g.cache[j])
  BY <1>1 DEF Live, Alive, Allocated
<1> QED
  BY <1>1, <1>2, <1>3, <1>4 DEF Table, Unique, StringsUnique

\* A short string is one object (lstring.c), as long as the allocator does not refuse to
\* make the table smaller after a young collection.
THEOREM StringsStayUnique ==
  ASSUME "generational" \in Kinds => ~YoungShrinkFails
  PROVE  StringsSpec => []StringsUnique
<1>1. StringsInv /\ [StringsNext]_stringVars => StringsInv'
  <2> SUFFICES ASSUME StringsInv, [StringsNext]_stringVars PROVE StringsInv'
    OBVIOUS
  <2>1. CASE \E s \in Str, growing, creating \in Outcome : NewLStr(s, growing, creating)
    BY <2>1, NewLStrIs
  <2>2. CASE \E s \in Str, growing, creating \in Outcome : NewFromC(s, growing, creating)
    BY <2>2, NewFromCIs
  <2>3. CASE \E o \in Obj : Drop(o)
    BY <2>3, DropIs
  <2>4. CASE Atomic
    BY <2>4, AtomicIs
  <2>5. CASE \E o \in Obj : SweepOne(o)
    BY <2>5, SweepOneIs
  <2>6. CASE \E answer \in Outcome : SweepEnd(answer)
    BY <2>6, SweepEndIs
  <2>7. CASE \E answer \in Outcome : YoungCollection(answer)
    BY <2>7, YoungCollectionIs
  <2>8. CASE \E answer \in Outcome : FullCollection(answer)
    BY <2>8, FullCollectionIs
  <2>9. CASE UNCHANGED stringVars
    <3>1. PICK G, roots : G = g /\ roots = held
      OBVIOUS
    <3>2. Good(G, roots) /\ Calm(G) /\ g' = G /\ held' = roots
      BY <2>9, <3>1 DEF StringsInv, stringVars
    <3> QED
      BY <3>2, NextIs
  <2> QED
    BY <2>1, <2>2, <2>3, <2>4, <2>5, <2>6, <2>7, <2>8, <2>9 DEF StringsNext
<1> QED
  BY <1>1, InitIs, InvIsUnique, PTL DEF StringsSpec
=============================================================================
