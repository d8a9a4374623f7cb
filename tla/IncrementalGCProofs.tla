------------------------ MODULE IncrementalGCProofs ------------------------
(***************************************************************************)
(* Proofs about IncrementalGC, for every set of objects, every heap and    *)
(* every order of steps: the inductive invariant IInv, one lemma per       *)
(* action, then the theorems that follow from it.                          *)
(***************************************************************************)
EXTENDS IncrementalGC, TLAPS

\* The first state of lua_newstate satisfies the invariant.
LEMMA InitInv == Init => IInv
<1> SUFFICES ASSUME Init PROVE IInv
  OBVIOUS
<1> USE ObjAssumption DEF Init
<1>1. TypeOK
  BY DEF TypeOK, Colors, Whites, GCStates, Stages
<1>2. HeapInv
  BY DEF HeapInv, Alloc
<1>3. MarkInv /\ TriColor /\ GrayListed
  BY DEF MarkInv, TriColor, GrayListed, KeepInvariant
<1>4. ThreadInv
  BY DEF ThreadInv
<1>5. Live = {MainThread, Registry}
  BY DEF Live, Dead, Alloc, OtherWhite, Other
<1>6. NoDangling
  BY <1>5 DEF NoDangling
<1>7. SweepInvariant
  BY DEF SweepInvariant, Dead, Alloc, Unswept, OtherWhite, Other
<1> QED
  BY <1>1, <1>2, <1>3, <1>4, <1>6, <1>7 DEF IInv

-----------------------------------------------------------------------------
\* What marking reaches contains its start and is closed under references to
\* white objects.
LEMMA MarkClosureFacts ==
  ASSUME TypeOK, NEW G \in SUBSET Obj
  PROVE  /\ G \subseteq MarkClosure(G) /\ MarkClosure(G) \subseteq Obj
         /\ \A x \in MarkClosure(G) : Marked(refs[x]) \subseteq MarkClosure(G)
  BY DEF MarkClosure, TypeOK, Marked

\* Marking is monotone: a larger start reaches more.
LEMMA MarkClosureMonotone ==
  ASSUME NEW G \in SUBSET Obj, NEW H \in SUBSET Obj, G \subseteq H
  PROVE  MarkClosure(G) \subseteq MarkClosure(H)
  BY DEF MarkClosure

\* The objects that are not white once marking from G is over.
Kept(G) == {o \in Alloc : ~IsWhite(o) \/ o \in MarkClosure(G)}

\* When the atomic phase has marked from its roots and possibly more, what is
\* not white is closed under references and contains all that the program can
\* get at: a black object that was visited before points to marked objects by
\* TriColor, a gray one is visited now by GrayListed, and the threads that
\* wait are found one from the other.
LEMMA KeptClosed ==
  ASSUME IInv, gcstate = "enteratomic", NEW G \in SUBSET Obj, AtomicRoots \subseteq G
  PROVE  /\ \A x \in Kept(G) : refs[x] \subseteq Kept(G)
         /\ {MainThread, Registry, running} \cup normal \subseteq Kept(G)
<1> USE ObjAssumption DEF IInv
<1>0. KeepInvariant
  BY DEF KeepInvariant
<1>1. /\ G \subseteq MarkClosure(G) /\ MarkClosure(G) \subseteq Obj
      /\ \A x \in MarkClosure(G) : Marked(refs[x]) \subseteq MarkClosure(G)
  BY MarkClosureFacts
<1>2. Alloc = Live
  BY <1>0 DEF Live, SweepInvariant, KeepInvariant
<1>3. \A x \in Alloc : refs[x] \subseteq Alloc
  BY <1>2 DEF NoDangling
<1>4. ASSUME NEW x \in Kept(G), NEW y \in refs[x]
      PROVE  y \in Kept(G)
  <2>1. x \in Alloc /\ y \in Alloc /\ x \in Obj /\ y \in Obj
    BY <1>3, <1>4 DEF TypeOK, Alloc, Kept
  <2>2. CASE x \in MarkClosure(G)
    BY <2>1, <2>2, <1>1 DEF Marked, Kept
  <2>3. CASE x \notin MarkClosure(G)
    <3>1. ~IsWhite(x) /\ color[x] # "gray"
      BY <2>1, <2>3, <1>0, <1>1 DEF GrayListed, AtomicRoots, Kept
    <3>2. IsBlack(x)
      BY <2>1, <3>1 DEF TypeOK, Colors, IsBlack, IsWhite
    <3>3. ~IsWhite(y)
      BY <2>1, <3>2, <1>0 DEF TriColor, Marked
    <3> QED
      BY <2>1, <3>3 DEF Kept
  <2> QED
    BY <2>2, <2>3
<1>5. {MainThread, Registry, running} \subseteq Kept(G)
  BY <1>0, <1>1, <1>2 DEF MarkInv, AtomicRoots, Marked, NoDangling, Kept
<1>6. \A n \in normal \cap Kept(G) : resumes[n] \in Kept(G)
  BY <1>4 DEF ThreadInv
<1>7. normal \cup {running} \subseteq Kept(G) \cap Thread
  BY <1>5, <1>6 DEF ThreadInv, TypeOK
<1> QED
  BY <1>4, <1>5, <1>7

-----------------------------------------------------------------------------
(***************************************************************************)
(* Every action preserves the invariant.                                   *)
(***************************************************************************)
\* The roots turn gray; nothing was black or gray before.
LEMMA RestartInv ==
  ASSUME IInv, Restart
  PROVE IInv'
<1> USE ObjAssumption
  DEF IInv, Restart, RestartCollection, RestartRoots, ColorAfterMark, MarkColor,
      lists, grays, threads, control
<1>1. TypeOK'
  BY DEF TypeOK, Colors, GCStates, Marked
<1>2. HeapInv'
  BY DEF HeapInv, Alloc
<1>3. MarkInv'
  BY DEF TypeOK, MarkInv, IsWhite, IsBlack, Marked, Alloc, SweepInvariant, Unswept,
         Whites
<1>4. ThreadInv'
  BY DEF ThreadInv
<1>5. TriColor'
  BY DEF TypeOK, TriColor, HeapInv, SweepInvariant, Unswept, IsWhite, IsBlack,
         Marked, Alloc, Whites
<1>6. GrayListed'
  BY DEF TypeOK, GrayListed, HeapInv, NoDangling, SweepInvariant, Unswept,
         KeepInvariant, Marked, Alloc, Live, Whites
<1>7. NoDangling'
  BY DEF TypeOK, NoDangling, Marked, Alloc, Dead, Live, OtherWhite, Other
<1>8. SweepInvariant'
  BY DEF TypeOK, SweepInvariant, KeepInvariant, Alloc, Dead, OtherWhite, Other
<1> QED
  BY <1>1, <1>2, <1>3, <1>4, <1>5, <1>6, <1>7, <1>8

\* The same, on the way of a full collection.
LEMMA FullRestartInv ==
  ASSUME IInv, FullRestart
  PROVE IInv'
<1> USE ObjAssumption
  DEF IInv, FullRestart, RestartCollection, RestartRoots, ColorAfterMark, MarkColor,
      lists, grays, threads, control
<1>1. TypeOK'
  BY DEF TypeOK, Colors, GCStates, Stages, Marked
<1>2. HeapInv'
  BY DEF HeapInv, Alloc
<1>3. MarkInv'
  BY DEF TypeOK, MarkInv, IsWhite, IsBlack, Marked, Alloc, SweepInvariant, Unswept,
         Whites
<1>4. ThreadInv'
  BY DEF ThreadInv
<1>5. TriColor'
  BY DEF TypeOK, TriColor, HeapInv, SweepInvariant, Unswept, IsWhite, IsBlack,
         Marked, Alloc, Whites
<1>6. GrayListed'
  BY DEF TypeOK, GrayListed, HeapInv, NoDangling, SweepInvariant, Unswept,
         KeepInvariant, Marked, Alloc, Live, Whites
<1>7. NoDangling'
  BY DEF TypeOK, NoDangling, Marked, Alloc, Dead, Live, OtherWhite, Other
<1>8. SweepInvariant'
  BY DEF TypeOK, SweepInvariant, KeepInvariant, Alloc, Dead, OtherWhite, Other
<1> QED
  BY <1>1, <1>2, <1>3, <1>4, <1>5, <1>6, <1>7, <1>8

\* One object turns black after all it points to was marked.
LEMMA PropagateMarkInv ==
  ASSUME NEW o \in Obj, IInv, PropagateMark(o)
  PROVE IInv'
<1> USE ObjAssumption
  DEF IInv, PropagateMark, Relink, MarkColor, lists, grays, threads, control
<1>1. TypeOK'
  BY DEF TypeOK, Colors, Marked
<1>2. HeapInv'
  BY DEF HeapInv, Alloc
<1>3. MarkInv'
  BY DEF MarkInv, KeepInvariant, IsWhite, IsBlack, Alloc, Whites
<1>4. ThreadInv'
  BY DEF ThreadInv
<1>5. TriColor'
  BY DEF TypeOK, TriColor, HeapInv, KeepInvariant, IsWhite, IsBlack, Marked, Alloc,
         Whites
<1>6. GrayListed'
  BY DEF TypeOK, GrayListed, NoDangling, KeepInvariant, IsWhite, Marked, Alloc,
         Dead, Live, OtherWhite, Other, Whites
<1>7. NoDangling'
  BY DEF TypeOK, NoDangling, SweepInvariant, Alloc, Dead, Live, OtherWhite, Other
<1>8. SweepInvariant'
  BY DEF TypeOK, SweepInvariant, KeepInvariant, Alloc, Dead, OtherWhite, Other
<1> QED
  BY <1>1, <1>2, <1>3, <1>4, <1>5, <1>6, <1>7, <1>8

\* Only the state of the collector changes.
LEMMA FinishPropagateInv ==
  ASSUME IInv, FinishPropagate
  PROVE IInv'
<1> USE ObjAssumption DEF IInv, FinishPropagate, lists, grays, threads, control
<1>1. TypeOK'
  BY DEF TypeOK, GCStates
<1>2. HeapInv'
  BY DEF HeapInv, Alloc
<1>3. MarkInv'
  BY DEF MarkInv, KeepInvariant, IsWhite, IsBlack, Alloc
<1>4. ThreadInv'
  BY DEF ThreadInv
<1>5. TriColor'
  BY DEF TriColor, KeepInvariant, IsWhite, IsBlack, Marked, Alloc
<1>6. GrayListed'
  BY DEF GrayListed, KeepInvariant, Alloc
<1>7. NoDangling'
  BY DEF NoDangling, Alloc, Dead, Live, OtherWhite
<1>8. SweepInvariant'
  BY DEF SweepInvariant, KeepInvariant, Alloc, Dead, OtherWhite
<1> QED
  BY <1>1, <1>2, <1>3, <1>4, <1>5, <1>6, <1>7, <1>8

\* Live objects turn white, dead ones go.
LEMMA SweepListInv ==
  ASSUME IInv, SweepList
  PROVE IInv'
<1> USE ObjAssumption
  DEF IInv, SweepList, Erased, ColorAfterSweep, RefsWithout, lists, grays, threads,
      control
<1>1. TypeOK'
  BY DEF TypeOK, Colors, Other
<1>2. HeapInv'
  BY DEF HeapInv, Alloc
<1>3. MarkInv'
  BY DEF MarkInv, KeepInvariant
<1>4. ThreadInv'
  BY DEF TypeOK, ThreadInv, NoDangling, Live, Dead, OtherWhite
<1>5. TriColor'
  BY DEF TriColor, KeepInvariant
<1>6. GrayListed'
  BY DEF GrayListed, KeepInvariant
<1>7. NoDangling'
  BY DEF TypeOK, NoDangling, Alloc, Dead, Live, OtherWhite, Other
<1>8. SweepInvariant'
  BY DEF TypeOK, SweepInvariant, Unswept, KeepInvariant, Alloc, Dead, OtherWhite, Other
<1> QED
  BY <1>1, <1>2, <1>3, <1>4, <1>5, <1>6, <1>7, <1>8

\* One list is done: it holds nothing but the current white.
LEMMA SweepNextListInv ==
  ASSUME IInv, SweepNextList
  PROVE IInv'
<1> USE ObjAssumption DEF IInv, SweepNextList, NextSweep, lists, grays, threads, control
<1>1. TypeOK'
  BY DEF TypeOK, GCStates
<1>2. HeapInv'
  BY DEF HeapInv, Alloc
<1>3. MarkInv'
  BY DEF MarkInv, KeepInvariant
<1>4. ThreadInv'
  BY DEF ThreadInv
<1>5. TriColor'
  BY DEF TriColor, KeepInvariant
<1>6. GrayListed'
  BY DEF GrayListed, KeepInvariant
<1>7. NoDangling'
  BY DEF NoDangling, Alloc, Dead, Live, OtherWhite
<1>8. SweepInvariant'
  BY DEF SweepInvariant, Unswept, KeepInvariant, Alloc, Dead, OtherWhite
<1> QED
  BY <1>1, <1>2, <1>3, <1>4, <1>5, <1>6, <1>7, <1>8

\* Only the state of the collector changes.
LEMMA SweepEndInv ==
  ASSUME IInv, SweepEnd
  PROVE IInv'
<1> USE ObjAssumption DEF IInv, SweepEnd, lists, grays, threads, control
<1>1. TypeOK'
  BY DEF TypeOK, GCStates
<1>2. HeapInv'
  BY DEF HeapInv, Alloc
<1>3. MarkInv'
  BY DEF MarkInv, KeepInvariant
<1>4. ThreadInv'
  BY DEF ThreadInv
<1>5. TriColor'
  BY DEF TriColor, KeepInvariant
<1>6. GrayListed'
  BY DEF GrayListed, KeepInvariant
<1>7. NoDangling'
  BY DEF NoDangling, Alloc, Dead, Live, OtherWhite
<1>8. SweepInvariant'
  BY DEF SweepInvariant, Unswept, KeepInvariant, Alloc, Dead, OtherWhite
<1> QED
  BY <1>1, <1>2, <1>3, <1>4, <1>5, <1>6, <1>7, <1>8

\* The object keeps its references and stays live.
LEMMA CallFinalizerInv ==
  ASSUME IInv, CallFinalizer
  PROVE IInv'
<1> USE ObjAssumption DEF IInv, CallFinalizer, lists, grays, threads, control
<1>1. TypeOK'
  BY DEF TypeOK, Colors
<1>2. HeapInv'
  BY DEF TypeOK, HeapInv, NoDangling, Alloc, Live
<1>3. MarkInv'
  BY DEF MarkInv, KeepInvariant, SweepPhase, IsWhite, IsBlack, Alloc
<1>4. ThreadInv'
  BY DEF ThreadInv
<1>5. TriColor'
  BY DEF TypeOK, TriColor, MarkInv, KeepInvariant, SweepPhase, IsWhite, IsBlack,
         Marked, Alloc
<1>6. GrayListed'
  BY DEF GrayListed, KeepInvariant, SweepPhase, Alloc
<1>7. NoDangling'
  BY DEF NoDangling, Alloc, Dead, Live, OtherWhite, Other
<1>8. SweepInvariant'
  BY DEF TypeOK, SweepInvariant, Unswept, KeepInvariant, SweepPhase, Alloc, Dead,
         OtherWhite, Other
<1> QED
  BY <1>1, <1>2, <1>3, <1>4, <1>5, <1>6, <1>7, <1>8

\* Only 'finalizing' changes.
LEMMA FinalizerReturnsInv ==
  ASSUME IInv, FinalizerReturns
  PROVE IInv'
<1> USE ObjAssumption DEF IInv, FinalizerReturns, lists, grays, threads, control
<1>1. TypeOK'
  BY DEF TypeOK
<1>2. HeapInv'
  BY DEF HeapInv, Alloc
<1>3. MarkInv'
  BY DEF MarkInv, KeepInvariant, IsWhite, IsBlack, Alloc
<1>4. ThreadInv'
  BY DEF ThreadInv
<1>5. TriColor'
  BY DEF TriColor, KeepInvariant, IsWhite, IsBlack, Marked, Alloc
<1>6. GrayListed'
  BY DEF GrayListed, KeepInvariant, Alloc
<1>7. NoDangling'
  BY DEF NoDangling, Alloc, Dead, Live, OtherWhite
<1>8. SweepInvariant'
  BY DEF SweepInvariant, Unswept, KeepInvariant, Alloc, Dead, OtherWhite
<1> QED
  BY <1>1, <1>2, <1>3, <1>4, <1>5, <1>6, <1>7, <1>8

\* Only the state of the collector changes.
LEMMA EndCycleInv ==
  ASSUME IInv, EndCycle
  PROVE IInv'
<1> USE ObjAssumption DEF IInv, EndCycle, lists, grays, threads, control
<1>1. TypeOK'
  BY DEF TypeOK, GCStates
<1>2. HeapInv'
  BY DEF HeapInv, Alloc
<1>3. MarkInv'
  BY DEF MarkInv, KeepInvariant
<1>4. ThreadInv'
  BY DEF ThreadInv
<1>5. TriColor'
  BY DEF TriColor, KeepInvariant
<1>6. GrayListed'
  BY DEF GrayListed, KeepInvariant
<1>7. NoDangling'
  BY DEF NoDangling, Alloc, Dead, Live, OtherWhite
<1>8. SweepInvariant'
  BY DEF SweepInvariant, Unswept, KeepInvariant, Alloc, Dead, OtherWhite
<1> QED
  BY <1>1, <1>2, <1>3, <1>4, <1>5, <1>6, <1>7, <1>8

\* Only the stage of the full collection changes.
LEMMA FullDoneInv ==
  ASSUME IInv, FullDone
  PROVE IInv'
<1> USE ObjAssumption DEF IInv, FullDone, lists, grays, threads, control
<1>1. TypeOK'
  BY DEF TypeOK, Stages
<1>2. HeapInv'
  BY DEF HeapInv, Alloc
<1>3. MarkInv'
  BY DEF TypeOK, MarkInv, HeapInv, KeepInvariant, SweepPhase, IsWhite, IsBlack,
         Marked, Alloc, Dead, Live, NoDangling, SweepInvariant, OtherWhite, Other,
         Unswept, Whites, Colors
<1>4. ThreadInv'
  BY DEF ThreadInv
<1>5. TriColor'
  BY DEF TriColor, KeepInvariant
<1>6. GrayListed'
  BY DEF GrayListed, KeepInvariant
<1>7. NoDangling'
  BY DEF NoDangling, Alloc, Dead, Live, OtherWhite
<1>8. SweepInvariant'
  BY DEF SweepInvariant, Unswept, KeepInvariant, Alloc, Dead, OtherWhite
<1> QED
  BY <1>1, <1>2, <1>3, <1>4, <1>5, <1>6, <1>7, <1>8

\* Nothing live points to a free address.
LEMMA NewObjectInv ==
  ASSUME NEW o \in Obj, IInv, NewObject(o)
  PROVE IInv'
<1> USE ObjAssumption
  DEF IInv, NewObject, Push, CacheAfter, lists, grays, threads, control
<1>1. TypeOK'
  BY DEF TypeOK, Colors, Alloc
<1>2. HeapInv'
  BY DEF TypeOK, HeapInv, NoDangling, Alloc, Live
<1>3. MarkInv'
  BY DEF TypeOK, MarkInv, KeepInvariant, IsWhite, IsBlack, Alloc, Live, NoDangling,
         Whites
<1>4. ThreadInv'
  BY DEF ThreadInv
<1>5. TriColor'
  BY DEF TypeOK, TriColor, MarkInv, NoDangling, KeepInvariant, IsWhite, IsBlack,
         Marked, Alloc, Dead, Live, OtherWhite, Other, Whites
<1>6. GrayListed'
  BY DEF TypeOK, GrayListed, KeepInvariant, Alloc, Whites
<1>7. NoDangling'
  BY DEF TypeOK, HeapInv, NoDangling, Alloc, Dead, Live, OtherWhite, Other
<1>8. SweepInvariant'
  BY DEF TypeOK, SweepInvariant, Unswept, KeepInvariant, Alloc, Dead, OtherWhite, Other
<1> QED
  BY <1>1, <1>2, <1>3, <1>4, <1>5, <1>6, <1>7, <1>8

\* A string about to be erased is live again before it is pushed.
LEMMA InternStringInv ==
  ASSUME NEW s \in Obj, IInv, InternString(s)
  PROVE IInv'
<1> USE ObjAssumption
  DEF IInv, InternString, Push, CacheAfter, Resurrect, lists, grays, threads,
      control
<1>1. TypeOK'
  BY DEF TypeOK, Colors
<1>2. HeapInv'
  BY DEF TypeOK, HeapInv, NoDangling, Alloc, Live
<1>3. MarkInv'
  BY DEF MarkInv, KeepInvariant, IsWhite, IsBlack, Alloc
<1>4. ThreadInv'
  BY DEF ThreadInv
<1>5. TriColor'
  BY DEF TypeOK, TriColor, MarkInv, KeepInvariant, IsWhite, IsBlack, Marked, Alloc,
         Dead, OtherWhite, Other, Whites
<1>6. GrayListed'
  BY DEF GrayListed, SweepInvariant, KeepInvariant, Alloc
<1>7. NoDangling'
  BY DEF TypeOK, HeapInv, NoDangling, Alloc, Dead, Live, OtherWhite, Other
<1>8. SweepInvariant'
  BY DEF SweepInvariant, Unswept, KeepInvariant, Alloc, Dead, OtherWhite
<1> QED
  BY <1>1, <1>2, <1>3, <1>4, <1>5, <1>6, <1>7, <1>8

\* A string in the cache is live.
LEMMA CachedStringInv ==
  ASSUME NEW s \in Obj, IInv, CachedString(s)
  PROVE IInv'
<1> USE ObjAssumption DEF IInv, CachedString, Push, lists, grays, threads, control
<1>1. TypeOK'
  BY DEF TypeOK
<1>2. HeapInv'
  BY DEF TypeOK, HeapInv, NoDangling, Alloc, Live
<1>3. MarkInv'
  BY DEF MarkInv, KeepInvariant, IsWhite, IsBlack, Alloc
<1>4. ThreadInv'
  BY DEF ThreadInv
<1>5. TriColor'
  BY DEF TypeOK, TriColor, MarkInv, KeepInvariant, IsWhite, IsBlack, Marked, Alloc
<1>6. GrayListed'
  BY DEF GrayListed, KeepInvariant, Alloc
<1>7. NoDangling'
  BY DEF NoDangling, Alloc, Dead, Live, OtherWhite
<1>8. SweepInvariant'
  BY DEF SweepInvariant, Unswept, KeepInvariant, Alloc, Dead, OtherWhite
<1> QED
  BY <1>1, <1>2, <1>3, <1>4, <1>5, <1>6, <1>7, <1>8

\* What a live object points to is live, and the stack needs no barrier.
LEMMA LoadInv ==
  ASSUME NEW o \in Obj, NEW v \in Obj, IInv, Load(o, v)
  PROVE IInv'
<1> USE ObjAssumption DEF IInv, Load, Push, Access, lists, grays, threads, control
<1>1. TypeOK'
  BY DEF TypeOK
<1>2. HeapInv'
  BY DEF TypeOK, HeapInv, NoDangling, Alloc, Live
<1>3. MarkInv'
  BY DEF MarkInv, KeepInvariant, IsWhite, IsBlack, Alloc
<1>4. ThreadInv'
  BY DEF ThreadInv
<1>5. TriColor'
  BY DEF TypeOK, TriColor, MarkInv, KeepInvariant, IsWhite, IsBlack, Marked, Alloc
<1>6. GrayListed'
  BY DEF GrayListed, KeepInvariant, Alloc
<1>7. NoDangling'
  BY DEF NoDangling, Alloc, Dead, Live, OtherWhite
<1>8. SweepInvariant'
  BY DEF SweepInvariant, Unswept, KeepInvariant, Alloc, Dead, OtherWhite
<1> QED
  BY <1>1, <1>2, <1>3, <1>4, <1>5, <1>6, <1>7, <1>8

\* A stack that shrinks breaks nothing, for a thread that runs waits for nobody.
LEMMA DropInv ==
  ASSUME NEW v \in Obj, IInv, Drop(v)
  PROVE IInv'
<1> USE ObjAssumption DEF IInv, Drop, lists, grays, threads, control
<1>1. TypeOK'
  BY DEF TypeOK
<1>2. HeapInv'
  BY DEF HeapInv, Alloc
<1>3. MarkInv'
  BY DEF MarkInv, KeepInvariant, IsWhite, IsBlack, Alloc
<1>4. ThreadInv'
  BY DEF ThreadInv
<1>5. TriColor'
  BY DEF TriColor, KeepInvariant, IsWhite, IsBlack, Marked, Alloc
<1>6. GrayListed'
  BY DEF GrayListed, KeepInvariant, Alloc
<1>7. NoDangling'
  BY DEF NoDangling, Alloc, Dead, Live, OtherWhite
<1>8. SweepInvariant'
  BY DEF SweepInvariant, Unswept, KeepInvariant, Alloc, Dead, OtherWhite
<1> QED
  BY <1>1, <1>2, <1>3, <1>4, <1>5, <1>6, <1>7, <1>8

\* The black object is gray again.
LEMMA StoreBackInv ==
  ASSUME NEW o \in Obj, NEW v \in Obj, IInv, StoreBack(o, v)
  PROVE IInv'
<1> USE ObjAssumption
  DEF IInv, StoreBack, Write, MayWrite, Access, BarrierBack, NeedsBarrier, lists, grays,
      threads, control
<1>1. TypeOK'
  BY DEF TypeOK, Colors
<1>2. HeapInv'
  BY DEF HeapInv, NoDangling, Alloc, Live
<1>3. MarkInv'
  BY DEF TypeOK, MarkInv, KeepInvariant, IsWhite, IsBlack, Alloc
<1>4. ThreadInv'
  BY DEF ThreadInv
<1>5. TriColor'
  BY DEF TypeOK, TriColor, KeepInvariant, IsWhite, IsBlack, Marked, Alloc, Whites
<1>6. GrayListed'
  BY DEF TypeOK, GrayListed, NoDangling, KeepInvariant, IsBlack, Alloc, Live
<1>7. NoDangling'
  BY DEF TypeOK, NoDangling, Alloc, Dead, Live, OtherWhite, Other
<1>8. SweepInvariant'
  BY DEF TypeOK, SweepInvariant, Unswept, KeepInvariant, IsBlack, Alloc, Dead,
         OtherWhite, Other, Whites
<1> QED
  BY <1>1, <1>2, <1>3, <1>4, <1>5, <1>6, <1>7, <1>8

\* The white object is gray, or black when it is a string; or the black one is swept.
LEMMA StoreForwardInv ==
  ASSUME NEW o \in Obj, NEW v \in Obj, IInv, StoreForward(o, v)
  PROVE IInv'
<1> USE ObjAssumption
  DEF IInv, StoreForward, Write, MayWrite, Access, BarrierForward, NeedsBarrier,
      ColorAfterMark, MarkColor, lists, grays, threads, control
<1>1. TypeOK'
  BY DEF TypeOK, Colors
<1>2. HeapInv'
  BY DEF HeapInv, NoDangling, Alloc, Live
<1>3. MarkInv'
  BY DEF MarkInv, KeepInvariant, IsWhite, IsBlack, Alloc, Whites
<1>4. ThreadInv'
  BY DEF ThreadInv
<1>5. TriColor'
  BY DEF TypeOK, TriColor, HeapInv, KeepInvariant, IsWhite, IsBlack, Marked, Alloc,
         Whites
<1>6. GrayListed'
  BY DEF TypeOK, GrayListed, NoDangling, KeepInvariant, IsWhite, Marked, Alloc,
         Live, Whites
<1>7. NoDangling'
  BY DEF TypeOK, NoDangling, Marked, Alloc, Dead, Live, OtherWhite, Other
<1>8. SweepInvariant'
  BY DEF TypeOK, SweepInvariant, Unswept, KeepInvariant, Alloc, Dead, OtherWhite, Other
<1> QED
  BY <1>1, <1>2, <1>3, <1>4, <1>5, <1>6, <1>7, <1>8

\* Fewer references break nothing.
LEMMA DeleteInv ==
  ASSUME NEW o \in Obj, NEW v \in Obj, IInv, Delete(o, v)
  PROVE IInv'
<1> USE ObjAssumption DEF IInv, Delete, Access, lists, grays, threads, control
<1>1. TypeOK'
  BY DEF TypeOK
<1>2. HeapInv'
  BY DEF HeapInv, Alloc
<1>3. MarkInv'
  BY DEF MarkInv, KeepInvariant, IsWhite, IsBlack, Alloc
<1>4. ThreadInv'
  BY DEF TypeOK, ThreadInv
<1>5. TriColor'
  BY DEF TriColor, KeepInvariant, IsWhite, IsBlack, Marked, Alloc
<1>6. GrayListed'
  BY DEF GrayListed, KeepInvariant, Alloc
<1>7. NoDangling'
  BY DEF NoDangling, Alloc, Dead, Live, OtherWhite
<1>8. SweepInvariant'
  BY DEF SweepInvariant, Unswept, KeepInvariant, Alloc, Dead, OtherWhite
<1> QED
  BY <1>1, <1>2, <1>3, <1>4, <1>5, <1>6, <1>7, <1>8

\* The barrier as above, and an object that changes lists has been swept; where
\* the sweep goes on, it erases dead objects only, and nothing live points to them.
LEMMA SetMetatableInv ==
  ASSUME NEW o \in Obj, NEW v \in Obj, IInv, SetMetatable(o, v)
  PROVE IInv' /\ Live' = Live
<1> USE ObjAssumption
  DEF IInv, SetMetatable, MayWrite, Access, Swept, NeedsBarrier,
      ColorAfterMark, MarkColor, lists, grays, threads, control
<1>1. PICK colors \in [Obj -> Colors] :
        /\ CheckFinalizer(o, v, colors)
        /\ \/ colors = color /\ gray' = gray /\ ~NeedsBarrier(o, v)
           \/ NeedsBarrier(o, v) /\ KeepInvariant /\ gray' = gray \cup {v} /\ colors = ColorAfterMark({v})
           \/ NeedsBarrier(o, v) /\ ~KeepInvariant /\ gray' = gray /\ colors = [color EXCEPT ![o] = currentwhite]
  <2>1. color \in [Obj -> Colors] /\ [color EXCEPT ![o] = currentwhite] \in [Obj -> Colors]
        /\ ColorAfterMark({v}) \in [Obj -> Colors]
    BY DEF TypeOK, Colors, Whites
  <2> QED
    BY <2>1
<1>2. CASE \/ o \notin allgc \/ v \notin HasGC
           \/ ~(gcstate = "swpallgc" /\ o \notin sweepgc)
  <2>1. /\ refs' = [refs EXCEPT ![o] = @ \cup {v}]
        /\ \/ o \in allgc /\ v \in HasGC /\ allgc' = allgc \ {o} /\ finobj' = finobj \cup {o}
              /\ sweepgc' = sweepgc \ {o} /\ color' = Swept(colors, o)
           \/ color' = colors /\ UNCHANGED <<allgc, finobj, sweepgc>>
    <3>1. ASSUME o \in allgc, v \in HasGC
          PROVE  SweptOn(o, colors) = {{}}
      BY <1>2, <3>1 DEF SweptOn
    <3>2. /\ RefsWithout({}) = refs /\ Erased({}, colors, currentwhite) = {}
          /\ ColorAfterSweep({}, Swept(colors, o), currentwhite) = Swept(colors, o)
      <4>1. RefsWithout({}) = refs
        BY DEF RefsWithout, TypeOK
      <4>2. Swept(colors, o) = [x \in Obj |-> Swept(colors, o)[x]]
        OBVIOUS
      <4> QED
        BY <4>1, <4>2 DEF ColorAfterSweep, Erased
    <3>3. CASE o \in allgc /\ v \in HasGC
      <4>1. PICK B \in {{}} :
              /\ refs' = [RefsWithout(Erased(B, colors, currentwhite)) EXCEPT ![o] = @ \cup {v}]
              /\ allgc' = allgc \ (Erased(B, colors, currentwhite) \cup {o})
              /\ finobj' = finobj \cup {o}
              /\ sweepgc' = sweepgc \ (B \cup {o})
              /\ color' = ColorAfterSweep(B, Swept(colors, o), currentwhite)
        BY <1>1, <3>1, <3>3 DEF CheckFinalizer
      <4> QED
        BY <3>2, <3>3, <4>1
    <3>4. CASE ~(o \in allgc /\ v \in HasGC)
      BY <1>1, <3>4 DEF CheckFinalizer
    <3> QED
      BY <3>3, <3>4
  <2>2. TypeOK'
    BY <1>1, <2>1 DEF TypeOK, Colors, KeepInvariant, SweepPhase
  <2>3. HeapInv'
    BY <2>1 DEF HeapInv, NoDangling, Alloc, Live
  <2>4. MarkInv'
    BY <1>1, <2>1 DEF MarkInv, KeepInvariant, SweepPhase, IsWhite, IsBlack, Alloc, Whites
  <2>5. ThreadInv'
    BY <2>1 DEF ThreadInv
  <2>6. TriColor'
    BY <1>1, <2>1 DEF TypeOK, TriColor, KeepInvariant, SweepPhase, IsWhite, IsBlack, Marked,
           Alloc, Whites
  <2>7. GrayListed'
    BY <1>1, <2>1 DEF TypeOK, GrayListed, NoDangling, KeepInvariant, SweepPhase, IsWhite, Marked,
           Alloc, Live, Whites
  <2>8. NoDangling'
    BY <1>1, <2>1 DEF TypeOK, NoDangling, KeepInvariant, SweepPhase, Marked, Alloc, Dead, Live,
           OtherWhite, Other
  <2>9. SweepInvariant'
    BY <1>1, <2>1 DEF TypeOK, SweepInvariant, Unswept, KeepInvariant, SweepPhase, Alloc, Dead,
           OtherWhite, Other
  <2>10. Live' = Live
    BY <1>1, <2>1 DEF TypeOK, NoDangling, SweepPhase, KeepInvariant, Alloc, Dead, Live, Marked, IsWhite,
           OtherWhite, Other, Whites
  <2> QED
    BY <2>2, <2>3, <2>4, <2>5, <2>6, <2>7, <2>8, <2>9, <2>10
<1>3. CASE o \in allgc /\ v \in HasGC /\ gcstate = "swpallgc" /\ o \notin sweepgc
  <2>1. PICK B \in SUBSET sweepgc :
          /\ refs' = [RefsWithout(Erased(B, colors, currentwhite)) EXCEPT ![o] = @ \cup {v}]
          /\ allgc' = allgc \ (Erased(B, colors, currentwhite) \cup {o})
          /\ finobj' = finobj \cup {o}
          /\ sweepgc' = sweepgc \ (B \cup {o})
          /\ color' = ColorAfterSweep(B, Swept(colors, o), currentwhite)
    BY <1>1, <1>3 DEF CheckFinalizer, SweptOn
  <2>2. /\ gcstate' = gcstate /\ currentwhite' = currentwhite /\ tobefnz' = tobefnz
        /\ ~KeepInvariant /\ ~KeepInvariant' /\ SweepPhase
    BY <1>3 DEF KeepInvariant, SweepPhase
  <2>3. o \notin B /\ \A x \in B : colors[x] = color[x]
    BY <1>1, <1>3, <2>1, <2>2 DEF TypeOK
  <2> DEFINE E == Erased(B, colors, currentwhite)
  <2>4. E = {x \in B : color[x] = OtherWhite}
    BY <2>3 DEF Erased, OtherWhite
  <2>5. /\ \A x \in Obj \ (B \cup {o}) : color'[x] = color[x]
        /\ color'[o] = currentwhite
        /\ \A x \in B \ E : color'[x] = currentwhite
        /\ \A x \in E : color'[x] = "white0"
        /\ color' \in [Obj -> Colors]
    BY <1>1, <2>1, <2>2, <2>3 DEF ColorAfterSweep, Erased, TypeOK, Colors, Whites
  <2>6. /\ refs' \in [Obj -> SUBSET Obj]
        /\ \A x \in E : refs'[x] = {}
        /\ \A x \in Obj \ (E \cup {o}) : refs'[x] = refs[x]
        /\ refs'[o] = refs[o] \cup {v}
    BY <2>1, <2>3 DEF RefsWithout, Erased, TypeOK
  <2>7. o \in Live /\ v \in Live
    BY DEF NoDangling
  <2>8. E \cap Live = {}
    BY <2>4 DEF Live, Dead
  <2>9. /\ allgc' = allgc \ (E \cup {o}) /\ finobj' = finobj \cup {o}
        /\ sweepgc' = sweepgc \ (B \cup {o}) /\ E \subseteq B
    BY <2>1, <2>4
  <2> HIDE DEF E
  <2>10. Live' = Live
    BY <1>3, <2>2, <2>3, <2>4, <2>5, <2>7, <2>8, <2>9
    DEF Live, Dead, Alloc, OtherWhite, Other, TypeOK, NoDangling
  <2>11. TypeOK'
    BY <1>3, <2>2, <2>5, <2>6, <2>9 DEF TypeOK
  <2>12. HeapInv'
    BY <1>3, <2>2, <2>5, <2>6, <2>7, <2>8, <2>9 DEF HeapInv, Alloc, Live, TypeOK
  <2>13. MarkInv' /\ TriColor' /\ GrayListed'
    BY <2>2 DEF MarkInv, TriColor, GrayListed
  <2>14. ThreadInv'
    BY <2>6, <2>8 DEF ThreadInv, NoDangling, TypeOK
  <2>15. NoDangling'
    BY <2>2, <2>6, <2>7, <2>8, <2>9, <2>10 DEF NoDangling, TypeOK, Live, Alloc
  <2>16. SweepInvariant'
    BY <1>3, <2>2, <2>5, <2>7, <2>8, <2>9, <2>10
    DEF SweepInvariant, Unswept, Alloc, Live, Dead, OtherWhite, Other, TypeOK
  <2> QED
    BY <2>10, <2>11, <2>12, <2>13, <2>14, <2>15, <2>16
<1> QED
  BY <1>2, <1>3

\* No thread is black while marking.
LEMMA MoveToInv ==
  ASSUME NEW t \in Thread, NEW v \in Obj, IInv, MoveTo(t, v)
  PROVE IInv'
<1> USE ObjAssumption DEF IInv, MoveTo, lists, grays, threads, control
<1>1. TypeOK'
  BY DEF TypeOK
<1>2. HeapInv'
  BY DEF TypeOK, HeapInv, NoDangling, Alloc, Live
<1>3. MarkInv'
  BY DEF MarkInv, KeepInvariant, IsWhite, IsBlack, Alloc
<1>4. ThreadInv'
  BY DEF TypeOK, ThreadInv
<1>5. TriColor'
  BY DEF TypeOK, TriColor, MarkInv, KeepInvariant, IsWhite, IsBlack, Marked, Alloc
<1>6. GrayListed'
  BY DEF GrayListed, KeepInvariant, Alloc
<1>7. NoDangling'
  BY DEF TypeOK, NoDangling, Alloc, Dead, Live, OtherWhite
<1>8. SweepInvariant'
  BY DEF SweepInvariant, Unswept, KeepInvariant, Alloc, Dead, OtherWhite
<1> QED
  BY <1>1, <1>2, <1>3, <1>4, <1>5, <1>6, <1>7, <1>8

\* The coroutine is on the stack of the thread that resumes it.
LEMMA ResumeInv ==
  ASSUME NEW t \in Thread, IInv, Resume(t)
  PROVE IInv'
<1> USE ObjAssumption DEF IInv, Resume, lists, grays, threads, control
<1>1. TypeOK'
  BY DEF TypeOK
<1>2. HeapInv'
  BY DEF HeapInv, Alloc
<1>3. MarkInv'
  BY DEF MarkInv, KeepInvariant, IsWhite, IsBlack, Alloc
<1>4. ThreadInv'
  BY DEF TypeOK, ThreadInv
<1>5. TriColor'
  BY DEF TriColor, KeepInvariant, IsWhite, IsBlack, Marked, Alloc
<1>6. GrayListed'
  BY DEF GrayListed, KeepInvariant, Alloc
<1>7. NoDangling'
  BY DEF NoDangling, Alloc, Dead, Live, OtherWhite
<1>8. SweepInvariant'
  BY DEF SweepInvariant, Unswept, KeepInvariant, Alloc, Dead, OtherWhite
<1> QED
  BY <1>1, <1>2, <1>3, <1>4, <1>5, <1>6, <1>7, <1>8

\* A set that the shorter chain stays in becomes one that the longer chain
\* stays in when the thread that yields is added.
LEMMA YieldInv ==
  ASSUME IInv, Yield
  PROVE IInv'
<1> USE ObjAssumption DEF IInv, Yield, lists, grays, threads, control
<1>1. TypeOK'
  BY DEF TypeOK
<1>2. HeapInv'
  BY DEF HeapInv, Alloc
<1>3. MarkInv'
  BY DEF MarkInv, KeepInvariant, IsWhite, IsBlack, Alloc
<1>4. ThreadInv'
  <2>1. PICK t \in normal : /\ resumes[t] = running /\ running' = t
                            /\ normal' = normal \ {t} /\ resumes' = resumes
    OBVIOUS
  <2>2. running' \notin normal' /\ \A n \in normal' : resumes'[n] \in refs'[n]
    BY <2>1 DEF ThreadInv
  <2>3. ASSUME NEW S \in SUBSET Thread, MainThread \in S,
               \A n \in S \cap normal' : resumes'[n] \in S
        PROVE  normal' \cup {running'} \subseteq S
    <3> DEFINE T == S \cup {running}
    <3>1. \A n \in T \cap normal : resumes[n] \in T
      BY <2>1, <2>3 DEF ThreadInv
    <3>2. T \in SUBSET Thread /\ MainThread \in T
      BY <2>3 DEF TypeOK
    <3> HIDE DEF T
    <3>3. normal \subseteq T
      BY <3>1, <3>2 DEF ThreadInv
    <3> QED
      BY <2>1, <3>3 DEF ThreadInv, T
  <2> QED
    BY <2>2, <2>3 DEF ThreadInv
<1>5. TriColor'
  BY DEF TriColor, KeepInvariant, IsWhite, IsBlack, Marked, Alloc
<1>6. GrayListed'
  BY DEF GrayListed, KeepInvariant, Alloc
<1>7. NoDangling'
  BY DEF NoDangling, Alloc, Dead, Live, OtherWhite
<1>8. SweepInvariant'
  BY DEF SweepInvariant, Unswept, KeepInvariant, Alloc, Dead, OtherWhite
<1> QED
  BY <1>1, <1>2, <1>3, <1>4, <1>5, <1>6, <1>7, <1>8

\* The sweep that gives up a marking phase erases nothing, because the current
\* white stays what it is and no object has the other one.
LEMMA EnterSweepNoFlip ==
  ASSUME IInv, KeepInvariant, EnterSweep(color, currentwhite)
  PROVE  /\ allgc' = allgc /\ refs' = refs /\ gcstate' = "swpallgc"
         /\ sweepgc' \subseteq allgc
         /\ color' \in [Obj -> Colors]
         /\ \A o \in Obj : \/ color'[o] = color[o]
                           \/ o \in allgc /\ color'[o] = currentwhite
         /\ \A o \in allgc \ sweepgc' : color'[o] = currentwhite
<1> USE DEF IInv, TypeOK, KeepInvariant
<1>1. \A o \in allgc : color[o] # Other(currentwhite)
  BY DEF SweepInvariant, Dead, Alloc, OtherWhite
<1>2. PICK B \in SUBSET allgc :
        /\ allgc' = allgc \ Erased(B, color, currentwhite)
        /\ sweepgc' = allgc \ B
        /\ color' = ColorAfterSweep(B, color, currentwhite)
        /\ refs' = RefsWithout(Erased(B, color, currentwhite))
  BY DEF EnterSweep
<1>3. Erased(B, color, currentwhite) = {}
  BY <1>1 DEF Erased
<1>4. refs' = refs
  BY <1>2, <1>3 DEF RefsWithout
<1>5. color' = [o \in Obj |-> IF o \in B THEN currentwhite ELSE color[o]]
  BY <1>2, <1>3 DEF ColorAfterSweep
<1> QED
  BY <1>2, <1>3, <1>4, <1>5 DEF EnterSweep, Colors

\* The first step of a full collection, with or without black objects around.
LEMMA AbandonMarkInv ==
  ASSUME IInv, AbandonMark(currentwhite), UNCHANGED <<threads, strcache, finalizing>>,
         full' \in Stages, emergency' \in Stages
  PROVE  IInv'
<1> USE ObjAssumption DEF IInv, AbandonMark, lists, grays, threads
<1>1. CASE KeepInvariant
  <2> USE <1>1, EnterSweepNoFlip
  <2>1. TypeOK'
    BY DEF TypeOK, GCStates
  <2>2. HeapInv'
    BY DEF HeapInv, Alloc
  <2>3. MarkInv' /\ TriColor' /\ GrayListed'
    BY DEF MarkInv, TriColor, GrayListed, KeepInvariant
  <2>4. ThreadInv'
    BY DEF ThreadInv
  <2>5. Dead = {} /\ Dead' = {}
    BY DEF SweepInvariant, KeepInvariant, Dead, Alloc, OtherWhite, Other, TypeOK, Whites
  <2>6. NoDangling'
    BY <2>5 DEF NoDangling, Live, Alloc
  <2>7. SweepInvariant'
    BY <2>5 DEF SweepInvariant, Unswept, Alloc
  <2> QED
    BY <2>1, <2>2, <2>3, <2>4, <2>6, <2>7
<1>2. CASE ~KeepInvariant
  BY <1>2 DEF TypeOK, HeapInv, MarkInv, ThreadInv, TriColor, GrayListed, NoDangling,
              SweepInvariant, Unswept, KeepInvariant, Alloc, Dead, Live, OtherWhite
<1> QED
  BY <1>1, <1>2

LEMMA FullGCInv == IInv /\ FullGC => IInv'
  BY AbandonMarkInv DEF FullGC, Stages, IInv, TypeOK

LEMMA EmergencyGCInv == IInv /\ EmergencyGC => IInv'
  BY AbandonMarkInv DEF EmergencyGC, Stages, IInv, TypeOK

\* The atomic phase: the objects that are live afterwards are exactly the ones
\* that were kept, and these are closed under references.
LEMMA AtomicFacts ==
  ASSUME IInv, Atomic,
         NEW G, G = AtomicRoots \cup Separated(MarkClosure(AtomicRoots)) \cup
                Marked(tobefnz)
  PROVE  /\ G \in SUBSET Obj /\ AtomicRoots \subseteq G
         /\ finobj' \cup tobefnz' \subseteq Kept(G)
         /\ Live' = Kept(G)
         /\ TypeOK' /\ SweepInvariant'
         /\ \A x \in Kept(G) : refs'[x] = refs[x]
         /\ \A o \in (Obj \ Alloc') : refs'[o] = {} \/ (refs'[o] = refs[o] /\ o
                \notin Alloc)
         /\ \A o \in Obj : refs'[o] \in {refs[o], {}}
<1> USE ObjAssumption DEF IInv
<1> DEFINE reached == MarkClosure(AtomicRoots)
           sep     == Separated(reached)
           marked  == MarkClosure(G)
           colors  == [o \in Obj |-> IF o \in marked THEN "black" ELSE color[o]]
           kept    == Kept(G)
           white   == OtherWhite
<1>1. /\ finobj' = finobj \ sep
      /\ tobefnz' = tobefnz \cup sep
      /\ strcache' = {s \in strcache : colors[s] \notin Whites}
      /\ currentwhite' = white
      /\ gcstate' = "swpallgc"
      /\ gray' = {} /\ grayagain' = {}
      /\ UNCHANGED <<threads, control>>
  BY DEF Atomic, Resurrected, ClearCache, EnterSweep
<1>2. PICK B \in SUBSET allgc :
        /\ allgc' = allgc \ Erased(B, colors, white)
        /\ sweepgc' = allgc \ B
        /\ color' = ColorAfterSweep(B, colors, white)
        /\ refs' = RefsWithout(Erased(B, colors, white))
  BY DEF Atomic, Resurrected, EnterSweep
<1>3. Other(white) = currentwhite /\ white \in Whites /\ white # currentwhite
  BY DEF TypeOK, Whites, OtherWhite, Other
<1>4. G \in SUBSET Obj /\ AtomicRoots \in SUBSET Obj
  BY DEF TypeOK, AtomicRoots, Separated, Marked
<1>5. /\ G \subseteq marked /\ marked \subseteq Obj /\ reached \subseteq marked
  BY <1>4, MarkClosureFacts, MarkClosureMonotone
<1> HIDE DEF marked
<1>6. \A o \in Alloc : colors[o] \in Whites => colors[o] = currentwhite
  BY <1>3 DEF SweepInvariant, Atomic, Dead, Whites, Alloc, TypeOK
<1>7. kept = {o \in Alloc : colors[o] \notin Whites}
  BY DEF Kept, marked, IsWhite, Whites, Alloc, TypeOK
<1>8. finobj' \cup tobefnz' \subseteq kept
  <2>1. finobj' \subseteq kept
    BY <1>1, <1>5 DEF Separated, Kept, Alloc, marked
  <2>2. sep \cup tobefnz \subseteq kept
    BY <1>5 DEF Separated, Marked, Kept, Alloc, marked, TypeOK
  <2> QED
    BY <2>1, <2>2, <1>1
<1>9. Alloc' = Alloc \ Erased(B, colors, white)
  BY <1>1, <1>2, <1>7, <1>8, <1>3 DEF Alloc, Erased, Separated, TypeOK
<1>10. Live' = kept
  <2>1. \A o \in Alloc' : color'[o] = currentwhite <=> o \notin kept
    BY <1>2, <1>3, <1>6, <1>7, <1>9
      DEF ColorAfterSweep, Erased, Whites, Alloc, TypeOK, Colors
  <2>2. kept \subseteq Alloc'
    BY <1>3, <1>7, <1>9 DEF Erased, TypeOK
  <2>3. Dead' = {o \in Alloc' : color'[o] = currentwhite}
    BY <1>1, <1>3 DEF Dead, OtherWhite
  <2> QED
    BY <2>1, <2>2, <2>3, <1>9 DEF Live
<1>11. /\ \A x \in kept : refs'[x] = refs[x]
       /\ \A o \in (Obj \ Alloc') : refs'[o] = {} \/ (refs'[o] = refs[o] /\ o \notin
              Alloc)
       /\ \A o \in Obj : refs'[o] \in {refs[o], {}}
  BY <1>2, <1>3, <1>7, <1>9 DEF RefsWithout, Erased, Alloc, TypeOK
<1>12. TypeOK'
  <2>1. colors \in [Obj -> Colors] /\ color' \in [Obj -> Colors]
    BY <1>2, <1>3 DEF TypeOK, Colors, ColorAfterSweep, Whites
  <2>2. refs' \in [Obj -> SUBSET Obj]
    BY <1>2 DEF RefsWithout, TypeOK
  <2> QED
    BY <1>1, <1>2, <1>3, <2>1, <2>2 DEF TypeOK, threads, control, GCStates, Separated
<1>13. SweepInvariant'
  <2>1. Alloc' \ Unswept' \subseteq B
    BY <1>1, <1>2 DEF Alloc, Unswept
  <2>2. \A o \in Alloc' \cap B : color'[o] = white
    BY <1>2, <1>9 DEF ColorAfterSweep, TypeOK
  <2>3. Dead' \subseteq Alloc' /\ Dead' \cap kept = {} /\ Dead' \cap B = {}
    BY <2>2, <1>1, <1>3, <1>10 DEF Live, Dead, OtherWhite
  <2>4. Dead' \subseteq allgc' \cap sweepgc'
    BY <2>3, <1>2, <1>8 DEF Alloc
  <2> QED
    BY <2>1, <2>2, <2>4, <1>1 DEF SweepInvariant
<1> QED
  BY <1>4, <1>8, <1>10, <1>11, <1>12, <1>13

LEMMA AtomicInv == IInv /\ Atomic => IInv'
<1> SUFFICES ASSUME IInv, Atomic PROVE IInv'
  OBVIOUS
<1> USE DEF IInv
<1> DEFINE G == AtomicRoots \cup Separated(MarkClosure(AtomicRoots)) \cup
       Marked(tobefnz)
<1> HIDE DEF G
<1>1. /\ gcstate = "enteratomic" /\ gcstate' = "swpallgc"
      /\ UNCHANGED threads
      /\ finobj' \cup tobefnz' \subseteq finobj \cup tobefnz
  BY DEF Atomic, EnterSweep, Separated
<1>2. /\ G \in SUBSET Obj /\ AtomicRoots \subseteq G
      /\ finobj' \cup tobefnz' \subseteq Kept(G)
      /\ Live' = Kept(G)
      /\ TypeOK' /\ SweepInvariant'
      /\ \A x \in Kept(G) : refs'[x] = refs[x]
      /\ \A o \in (Obj \ Alloc') : refs'[o] = {} \/ (refs'[o] = refs[o] /\ o \notin
             Alloc)
      /\ \A o \in Obj : refs'[o] \in {refs[o], {}}
  BY AtomicFacts DEF G
<1>3. /\ \A x \in Kept(G) : refs[x] \subseteq Kept(G)
      /\ {MainThread, Registry, running} \cup normal \subseteq Kept(G)
  BY <1>1, <1>2, KeptClosed
<1>4. HeapInv'
  BY <1>1, <1>2, ObjAssumption DEF HeapInv
<1>5. MarkInv' /\ TriColor' /\ GrayListed'
  BY <1>1 DEF MarkInv, TriColor, GrayListed, KeepInvariant
<1>6. ThreadInv'
  BY <1>1, <1>2, <1>3 DEF ThreadInv, threads
<1>7. NoDangling'
  <2>1. \A s \in strcache' : s \in strcache /\ s \in Obj
                             /\ (~IsWhite(s) \/ s \in MarkClosure(G))
    BY ObjAssumption DEF Atomic, Resurrected, ClearCache, G, TypeOK, IsWhite
  <2>2. strcache' \subseteq Kept(G)
    BY <2>1 DEF NoDangling, Live, Kept
  <2> QED
    BY <2>2, <1>1, <1>2, <1>3 DEF NoDangling, threads
<1> QED
  BY <1>2, <1>4, <1>5, <1>6, <1>7

\* Any step, and a stuttering one.
LEMMA StepInv == IInv /\ [Next]_vars => IInv'
<1> SUFFICES ASSUME IInv, [Next]_vars PROVE IInv'
  OBVIOUS
<1>1. CASE Collector
  BY <1>1, RestartInv, PropagateMarkInv, FinishPropagateInv, AtomicInv, SweepListInv,
     SweepNextListInv, SweepEndInv, CallFinalizerInv, EndCycleInv, FullRestartInv,
     FullDoneInv DEF Collector, SingleStep, RunFinalizers
<1>2. CASE Mutator
  BY <1>2, NewObjectInv, InternStringInv, CachedStringInv, LoadInv, DropInv,
         StoreBackInv,
     StoreForwardInv, DeleteInv, SetMetatableInv, MoveToInv, ResumeInv, YieldInv,
     CallFinalizerInv, FinalizerReturnsInv, FullGCInv, EmergencyGCInv
  DEF Mutator, NextFinalizer
<1>3. CASE UNCHANGED vars
  BY <1>3
    DEF vars, lists, grays, threads, control, IInv, TypeOK, HeapInv, MarkInv,
        ThreadInv,
              TriColor, GrayListed, NoDangling, SweepInvariant, Unswept, KeepInvariant,
              Alloc, Dead, Live, OtherWhite, IsWhite, IsBlack, Marked
<1> QED
  BY <1>1, <1>2, <1>3 DEF Next

-----------------------------------------------------------------------------
(***************************************************************************)
(* Theorems.                                                               *)
(***************************************************************************)
\* The inductive invariant holds in every reachable state.
THEOREM Invariance == Spec => []IInv
<1>1. Init => IInv
  BY InitInv
<1>2. IInv /\ [Next]_vars => IInv'
  BY StepInv
<1> QED
  BY <1>1, <1>2, PTL DEF Spec

\* No program ever gets at an object that was erased or is about to be, in
\* whatever state lgc.c is between two of its steps.
THEOREM NeverDangling == Spec => []NoDangling
<1>1. IInv => NoDangling
  BY DEF IInv
<1> QED
  BY <1>1, Invariance, PTL

\* The barriers keep the main invariant of lgc.h: while marking, a black
\* object never points to a white one.
THEOREM BarriersKeepTriColor == Spec => []TriColor
<1>1. IInv => TriColor
  BY DEF IInv
<1> QED
  BY <1>1, Invariance, PTL

\* No gray object gets lost, and none is in two gray lists.
THEOREM GrayNeverLost == Spec => []GrayListed
<1>1. IInv => GrayListed
  BY DEF IInv
<1> QED
  BY <1>1, Invariance, PTL

\* When a sweep ends, all objects have the current white.
THEOREM SweepsComplete == Spec => []SweepInvariant
<1>1. IInv => SweepInvariant
  BY DEF IInv
<1> QED
  BY <1>1, Invariance, PTL

\* The assertions at the start of luaC_barrier_ and luaC_barrierback_ hold
\* whenever a program may call them.
THEOREM BarrierAssertionsHold == Spec => []BarrierAsserts
<1>1. ASSUME IInv PROVE BarrierAsserts
  <2> SUFFICES ASSUME NEW o \in Access \ (Thread \cup Leaf), NEW v \in refs[running],
                      NeedsBarrier(o, v)
               PROVE  o \in Live /\ v \in Live /\ (KeepInvariant \/ SweepPhase)
    BY DEF BarrierAsserts
  <2>1. o \in Live /\ v \in Live
    BY <1>1 DEF IInv, NoDangling, Access
  <2>2. color[o] \notin Whites
    BY DEF NeedsBarrier, IsBlack, Whites
  <2>3. ~KeepInvariant => o \in Unswept
    BY <1>1, <2>1, <2>2 DEF IInv, SweepInvariant, Live, TypeOK
  <2> QED
    BY <2>1, <2>3 DEF Unswept, SweepPhase
<1> QED
  BY <1>1, Invariance, PTL

\* What is reachable is live: the live objects are closed under references.
LEMMA ReachableLive == ASSUME IInv PROVE Reachable \subseteq Live
  BY DEF IInv, Reachable, NoDangling, Roots, Closed, Live, Alloc, TypeOK

\* What is reachable is kept by the atomic phase, whatever else it marks.
LEMMA ReachableKept ==
  ASSUME IInv, gcstate = "enteratomic", NEW G \in SUBSET Obj, AtomicRoots \subseteq G
  PROVE  Reachable \subseteq Kept(G)
<1>1. Kept(G) \subseteq Obj
  BY DEF Kept, Alloc, IInv, TypeOK
<1> QED
  BY <1>1, KeptClosed DEF Reachable, Roots, Closed

\* No step of the collector or of the program frees an object that the program
\* can get at.
THEOREM OnlyGarbageFreed == Spec => FreesOnlyGarbage
<1>1. ASSUME IInv, [Next]_vars
      PROVE  \A o \in Alloc \ Alloc' : o \notin Reachable
  <2>1. CASE Atomic
    <3> DEFINE G == AtomicRoots \cup Separated(MarkClosure(AtomicRoots)) \cup
           Marked(tobefnz)
    <3>1. G \in SUBSET Obj /\ AtomicRoots \subseteq G /\ Live' = Kept(G)
      BY <1>1, <2>1, AtomicFacts
    <3> HIDE DEF G
    <3>2. Reachable \subseteq Live'
      BY <1>1, <2>1, <3>1, ReachableKept DEF Atomic
    <3> QED
      BY <3>2 DEF Live
  <2>2. CASE SweepList
    <3>1. Alloc \ Alloc' \subseteq Dead
      BY <2>2 DEF SweepList, Alloc, Dead, Erased, OtherWhite
    <3> QED
      BY <1>1, <3>1, ReachableLive DEF Live
  <2>3. CASE AbandonMark(currentwhite)
    <3>1. Alloc' = Alloc
      BY <1>1, <2>3, EnterSweepNoFlip DEF AbandonMark, Alloc, lists
    <3> QED
      BY <3>1
  <2>4. CASE UNCHANGED <<lists>>
    BY <2>4 DEF lists, Alloc
  <2>5. CASE CallFinalizer
    BY <2>5 DEF CallFinalizer, Alloc
  <2>6. CASE \E o \in Obj : NewObject(o)
    BY <2>6 DEF NewObject, Alloc
  <2>7. CASE \E o, v \in Obj : SetMetatable(o, v)
    BY <1>1, <2>7, SetMetatableInv, ReachableLive DEF Live
  <2>8. [Next]_vars => \/ Atomic \/ SweepList \/ AbandonMark(currentwhite)
                       \/ UNCHANGED <<lists>> \/ CallFinalizer
                       \/ \E o \in Obj : NewObject(o)
                       \/ \E o, v \in Obj : SetMetatable(o, v)
    BY SMTT(60) DEF Next, vars, Collector, Mutator, SingleStep, Restart, RestartCollection,
           PropagateMark, FinishPropagate, SweepNextList, SweepEnd, RunFinalizers,
           NextFinalizer, FinalizerReturns, EndCycle, FullGC, EmergencyGC, FullRestart,
           FullDone, InternString, CachedString, Load, Drop, StoreBack, StoreForward,
           Delete, MoveTo, Resume, Yield
  <2> QED
    BY <1>1, <2>1, <2>2, <2>3, <2>4, <2>5, <2>6, <2>7, <2>8
<1> QED
  BY <1>1, Invariance, PTL DEF Spec, FreesOnlyGarbage

\* An object is queued for its finalizer only when the program cannot get at
\* it: it was white after marking, and what is reachable was not.
THEOREM OnlyGarbageFinalized == Spec => FinalizesOnlyGarbage
<1>1. ASSUME IInv, [Next]_vars
      PROVE  \A o \in tobefnz' \ tobefnz : o \notin Reachable
  <2>1. CASE Atomic
    <3>1. AtomicRoots \in SUBSET Obj
      BY <1>1, ObjAssumption DEF AtomicRoots, Marked, IInv, TypeOK
    <3>2. Reachable \subseteq Kept(AtomicRoots)
      BY <1>1, <2>1, <3>1, ReachableKept DEF Atomic
    <3>3. tobefnz' \ tobefnz \subseteq Separated(MarkClosure(AtomicRoots))
      BY <2>1 DEF Atomic
    <3> QED
      BY <3>2, <3>3 DEF Kept, Separated
  <2>2. CASE SweepList
    BY <2>2 DEF SweepList
  <2>3. CASE CallFinalizer
    BY <2>3 DEF CallFinalizer
  <2>4. CASE AbandonMark(currentwhite)
    BY <2>4 DEF AbandonMark, lists
  <2>5. CASE UNCHANGED tobefnz
    BY <2>5
  <2>6. [Next]_vars => \/ Atomic \/ SweepList \/ CallFinalizer
                       \/ AbandonMark(currentwhite) \/ UNCHANGED tobefnz
    BY DEF Next, vars, lists, Collector, Mutator, SingleStep, Restart,
           RestartCollection, PropagateMark, FinishPropagate, SweepNextList, SweepEnd,
           RunFinalizers, NextFinalizer, FinalizerReturns, EndCycle, FullGC,
           EmergencyGC, FullRestart, FullDone, NewObject, InternString, CachedString,
           Load, Drop, StoreBack, StoreForward, Delete, SetMetatable, MoveTo, Resume,
           Yield
  <2> QED
    BY <1>1, <2>1, <2>2, <2>3, <2>4, <2>5, <2>6
<1> QED
  BY <1>1, Invariance, PTL DEF Spec, FinalizesOnlyGarbage

\* An object that marking gave up is erased before the whites change roles; only
\* a string can come back, from the string table.
THEOREM DeadNeverRevived == Spec => DeadStaysDead
<1>1. ASSUME IInv, [Next]_vars
      PROVE  Dead \cap Live' \subseteq Leaf
  <2> SUFFICES ASSUME NEW o \in Dead, o \in Live' PROVE o \in Leaf
    OBVIOUS
  <2>1. /\ gcstate = "swpallgc" /\ o \in sweepgc /\ o \in Obj
        /\ color[o] = Other(currentwhite) /\ o \in Alloc /\ o \notin Live
    BY <1>1 DEF IInv, SweepInvariant, TypeOK, Dead, Live, OtherWhite
  <2>2. color'[o] # Other(currentwhite')
    BY DEF Live, Dead, OtherWhite
  <2>3. currentwhite' = currentwhite
    BY <1>1, <2>1
      DEF Next, vars, Collector, Mutator, SingleStep, Restart, RestartCollection,
         PropagateMark, FinishPropagate, Atomic, SweepList, SweepNextList, SweepEnd,
         RunFinalizers, NextFinalizer, CallFinalizer, FinalizerReturns, EndCycle,
         FullGC, EmergencyGC, AbandonMark, KeepInvariant, FullRestart, FullDone,
         NewObject,
         InternString, CachedString, Load, Drop, StoreBack, StoreForward, Delete,
         SetMetatable, MoveTo, Resume, Yield
  <2>4. color'[o] # color[o]
    BY <2>1, <2>2, <2>3
  <2>5. CASE SweepList
    BY <1>1, <2>1, <2>2, <2>3, <2>4, <2>5
    DEF SweepList, Erased, ColorAfterSweep, Live, Alloc, IInv, TypeOK
  <2>6. CASE CallFinalizer
    BY <1>1, <2>1, <2>4, <2>6 DEF CallFinalizer, IInv, NoDangling, TypeOK
  <2>7. CASE \E x \in Obj : NewObject(x)
    BY <1>1, <2>1, <2>4, <2>7 DEF NewObject, IInv, TypeOK
  <2>8. CASE \E x, v \in Obj : StoreBack(x, v) \/ StoreForward(x, v)
    <3>1. PICK x, v \in Obj : StoreBack(x, v) \/ StoreForward(x, v)
      BY <2>8
    <3>2. x \in Live /\ x # o
      BY <1>1, <2>1, <3>1
        DEF StoreBack, StoreForward, Write, MayWrite, Access, IInv, NoDangling
    <3>3. color'[o] = color[o]
      BY <1>1, <2>1, <3>1, <3>2
      DEF StoreBack, StoreForward, BarrierBack, BarrierForward, KeepInvariant, IInv, TypeOK
    <3> QED
      BY <2>4, <3>3
  <2>9. CASE \E x \in Obj : InternString(x)
    BY <1>1, <2>4, <2>9 DEF InternString, Resurrect, IInv, TypeOK
  <2>10. CASE \E x, v \in Obj : SetMetatable(x, v)
    BY <1>1, <2>10, SetMetatableInv DEF Live
  <2>11. \/ SweepList \/ CallFinalizer
         \/ \E x \in Obj : NewObject(x)
         \/ \E x, v \in Obj : StoreBack(x, v) \/ StoreForward(x, v)
         \/ \E x, v \in Obj : SetMetatable(x, v)
         \/ \E x \in Obj : InternString(x)
    BY <1>1, <2>1, <2>4, SMTT(60)
    DEF Next, vars, Collector, Mutator, SingleStep, Restart, RestartCollection,
        PropagateMark, FinishPropagate, Atomic, SweepNextList, SweepEnd,
        RunFinalizers, NextFinalizer, FinalizerReturns, EndCycle,
        FullGC, EmergencyGC, AbandonMark, KeepInvariant, FullRestart, FullDone,
        CachedString, Load, Drop, Delete, MoveTo, Resume, Yield
  <2> QED
    BY <2>5, <2>6, <2>7, <2>8, <2>9, <2>10, <2>11
<1> QED
  BY <1>1, Invariance, PTL DEF Spec, DeadStaysDead
=============================================================================
