--------------------------- MODULE CoroutineProofs ---------------------------
(***************************************************************************)
(* Proofs about Coroutine, for every number of calls and of pending        *)
(* variables.  None of the four properties in Coroutine is inductive: the  *)
(* invariant IInv says how the four records of one call (its frame, its    *)
(* jump, its share of nny and the handler it saved) agree, for every call  *)
(* and not only the last one.                                              *)
(*                                                                         *)
(* First IInv with lemmas about frames, jumps and variables; then one      *)
(* lemma per action, with which IInv is inductive; then the theorems: what *)
(* follows from IInv, and that a coroutine lives as CoroutineLife says.    *)
(***************************************************************************)
EXTENDS Coroutine, SequenceTheorems, FiniteSetTheorems, TLAPS

\* In a stack of calls f: a pcall that has not ended, one for which luaD_pcall
\* has set a jump, and a call that no yield may cross.
Active(f, i) == f[i].kind = "pcall" /\ f[i].doing # "ret"
SetsJump(f, i) == Active(f, i) /\ ~f[i].ypcall
Blocks(f, i) == f[i].act /\ f[i].inc = 1
ActiveIn(f, n) == {i \in 1..n : Active(f, i)}
Blocking(f, n) == {i \in 1..n : Blocks(f, i)}

FrameOK(f, n, i) ==
    /\ f[i].base > 0
    /\ f[i].doing = "closing" => f[i].kind = "pcall"
    /\ i < n \/ f[i].kind = "pcall" => f[i].doing # "run"
    /\ f[i].kind = "pcall" => IF i < n THEN f[i].doing # "ret" ELSE f[i].doing # "call"
FramePairOK(f, i, j) ==
    i < j => /\ f[i].base < f[j].base
             /\ f[i].kind = "pcall" /\ f[i].doing = "call" =>
                   f[j].base = f[i].base + 1 \/ i + 1 < j
FrameInv ==
    /\ \A i \in 1..Len(frames) : FrameOK(frames, Len(frames), i)
    /\ \A i, j \in 1..Len(frames) : FramePairOK(frames, i, j)

\* What the status of the thread says about its calls.
StatusInv ==
    /\ Running => status = "OK"
    /\ ~Running /\ status = "OK" => Len(frames) = 0
    /\ status = "YIELD" =>
         /\ Len(frames) > 0
         /\ frames[Len(frames)].kind = "lua" /\ frames[Len(frames)].doing = "call"
         /\ \A i \in 1..Len(frames) : ~frames[i].act /\ ~SetsJump(frames, i)
    /\ Running /\ Len(frames) > 0 =>
         /\ frames[Len(frames)].doing # "call"
         /\ frames[Len(frames)].doing # "closing" => ~frames[Len(frames)].act
         /\ ~Blocks(frames, Len(frames))

\* The bits of lua_pcallk and lua_callk.
YieldOK(f, n, i) ==
    /\ f[i].ypcall => /\ Active(f, i) /\ f[i].k
                      /\ f[i].rec = "ERROR" <=> f[i].doing = "closing"
    /\ i < n /\ SetsJump(f, i) => Blocks(f, i)
    /\ i < n /\ f[i].kind # "lua" /\ f[i].doing # "ret" => Blocks(f, i) \/ f[i].k
YieldInv ==
    /\ \A i \in 1..Len(frames) : YieldOK(frames, Len(frames), i)
    /\ \A i, j \in 1..Len(frames) : i < j /\ frames[j].ypcall => ~Blocks(frames, i)

\* The jumps on the C stack are those of the pcalls that set one, in order.
ResetCount == IF jmps[1].what = "close" THEN 1 ELSE 0
JmpOK(f, j, first) ==
    /\ SetsJump(f, j.depth)
    /\ j.what = IF f[j.depth].doing = "call" THEN "pcall" ELSE "close"
    /\ j.nny = Cardinality(Blocking(f, j.depth - 1)) + first
JmpInv ==
    Running =>
      /\ jmps[1].what \in {"resume", "close"} /\ jmps[1].depth = 0 /\ jmps[1].nny = 0
      /\ jmps[1].what = "close" => \A i \in 1..Len(frames) : ~frames[i].ypcall
      /\ \A l, m \in 1..Len(jmps) : l < m => jmps[l].depth < jmps[m].depth
      /\ \A m \in 2..Len(jmps) : jmps[m].depth \in 1..Len(frames)
                                /\ JmpOK(frames, jmps[m], ResetCount)
      /\ \A i \in 1..Len(frames) : SetsJump(frames, i)
             => \E m \in 2..Len(jmps) : jmps[m].depth = i

\* The count of non-yieldable calls.
NnyInv ==
    Running => nny = Cardinality(Blocking(frames, Len(frames)))
                     + (IF Len(frames) = 0 THEN 0 ELSE ResetCount)

\* The message handler is that of the innermost pcall, and what each pcall
\* saved is that of the one around it.
HandlerAt(f, h, n) ==
    \E i \in {0} \cup ActiveIn(f, n) :
        /\ \A j \in ActiveIn(f, n) : j <= i
        /\ h = 0 \/ (i > 0 /\ h = f[i].base)
HandlerInv ==
    /\ HandlerAt(frames, errfunc, Len(frames))
    /\ \A p \in 1..Len(frames) : Active(frames, p) => HandlerAt(frames, frames[p].old, p - 1)

\* The pending variables.
TbcOK(v, c) ==
    /\ v.place > c.base <=> v.of >= c.base
    /\ c.kind = "pcall" => v.of # c.base
    /\ c.kind = "pcall" /\ c.doing = "ret" => v.place <= c.base
OwnedIn(f, n, v) ==
    \E i \in 1..n : f[i].base = v.of \/ (f[i].doing = "closing" /\ f[i].base < v.of)
TbcInv ==
    /\ \A l, m \in 1..Len(tbc) : l < m => tbc[l].place < tbc[m].place
    /\ \A m \in 1..Len(tbc) : tbc[m].of < tbc[m].place
    /\ \A m \in 1..Len(tbc), i \in 1..Len(frames) : TbcOK(tbc[m], frames[i])
    /\ ~Resetting => \A m \in 1..Len(tbc) : OwnedIn(frames, Len(frames), tbc[m])

IInv ==
    /\ TypeOK /\ FrameInv /\ StatusInv /\ YieldInv /\ JmpInv /\ NnyInv
    /\ HandlerInv /\ TbcInv

-----------------------------------------------------------------------------
\* The first n elements of a sequence.
LEMMA FrontSeq ==
  ASSUME NEW S, NEW f \in Seq(S), NEW n \in 0..Len(f)
  PROVE  /\ SubSeq(f, 1, n) \in Seq(S) /\ Len(SubSeq(f, 1, n)) = n
         /\ \A i \in 1..n : SubSeq(f, 1, n)[i] = f[i]
<1>1. \A i \in 1..n : f[i] \in S
  BY ElementOfSeq, LenProperties
<1>2. n \in Int /\ 1 \in Int
  BY LenProperties
<1> QED
  BY <1>1, <1>2, SubSeqProperties

\* The first n elements of a sequence, with c for the last of them.
LEMMA ReplaceTopSeq ==
  ASSUME NEW S, NEW f \in Seq(S), NEW n \in 1..Len(f), NEW c \in S,
         NEW h, h = Append(SubSeq(f, 1, n - 1), c)
  PROVE  /\ h \in Seq(S) /\ Len(h) = n /\ h[n] = c
         /\ \A i \in 1..(n - 1) : h[i] = f[i]
<1>1. n - 1 \in 0..Len(f) /\ Len(f) \in Nat
  BY LenProperties
<1>2. /\ SubSeq(f, 1, n - 1) \in Seq(S) /\ Len(SubSeq(f, 1, n - 1)) = n - 1
      /\ \A i \in 1..(n - 1) : SubSeq(f, 1, n - 1)[i] = f[i]
  BY <1>1, FrontSeq
<1> QED
  BY <1>1, <1>2, AppendProperties

\* The same with one more element, g: a frame that makes a call, and the call.
LEMMA PushSeq ==
  ASSUME NEW S, NEW f \in Seq(S), NEW n \in 1..Len(f), NEW c \in S, NEW g \in S,
         NEW h, h = Append(Append(SubSeq(f, 1, n - 1), c), g)
  PROVE  /\ h \in Seq(S) /\ Len(h) = n + 1 /\ h[n] = c /\ h[n + 1] = g
         /\ \A i \in 1..(n - 1) : h[i] = f[i]
<1>1. PICK e : e = Append(SubSeq(f, 1, n - 1), c)
  OBVIOUS
<1>2. /\ e \in Seq(S) /\ Len(e) = n /\ e[n] = c
      /\ \A i \in 1..(n - 1) : e[i] = f[i]
  BY <1>1, ReplaceTopSeq
<1>3. h = Append(e, g) /\ n \in Nat
  BY <1>1
<1> QED
  BY <1>2, <1>3, AppendProperties

\* Max is what its name says.
LEMMA MaxIs ==
  ASSUME NEW S \in SUBSET Int, NEW m \in S, \A x \in S : m >= x
  PROVE  Max(S) = m
<1>1. Max(S) \in S /\ \A x \in S : Max(S) >= x
  BY DEF Max
<1>2. Max(S) \in Int /\ m \in Int
  BY <1>1
<1>3. Max(S) >= m /\ m >= Max(S)
  BY <1>1
<1> QED
  BY <1>2, <1>3

\* The place of a new call is above the frame on top and the variables below it.
LEMMA PlaceAbove ==
  ASSUME TypeOK, NEW n \in 0..Depth, NEW pending \in Seq(TbcType),
         \A l, m \in 1..Len(pending) : l < m => pending[l].place < pending[m].place
  PROVE  /\ Place(n, pending) \in Nat /\ Place(n, pending) > 0
         /\ n > 0 => Place(n, pending) > frames[n].base
         /\ \A m \in 1..Len(pending) : Place(n, pending) > pending[m].place
<1>1. /\ Len(pending) \in Nat
      /\ \A m \in 1..Len(pending) : pending[m].place \in Nat
  <2>1. Len(pending) \in Nat /\ \A m \in 1..Len(pending) : pending[m] \in TbcType
    BY LenProperties, ElementOfSeq
  <2> QED
    BY <2>1 DEF TbcType
<1>2. n \in Nat /\ (n > 0 => frames[n].base \in Nat)
  <2>1. Len(frames) \in Nat /\ \A m \in 1..Len(frames) : frames[m] \in FrameType
    BY LenProperties, ElementOfSeq DEF TypeOK
  <2> QED
    BY <2>1 DEF FrameType, Depth
<1>3. PICK S : S = {0} \cup (IF n = 0 THEN {} ELSE {frames[n].base})
                 \cup {pending[m].place : m \in 1..Len(pending)}
  OBVIOUS
<1>4. Place(n, pending) = 1 + Max(S)
  BY <1>3, LenProperties DEF Place
<1>5. /\ 0 \in S /\ (n > 0 => frames[n].base \in S)
      /\ \A m \in 1..Len(pending) : pending[m].place \in S
  BY <1>1, <1>2, <1>3
<1>6. /\ \A x \in S : x \in Nat
      /\ \A x \in S : \/ x = 0
                      \/ n > 0 /\ x = frames[n].base
                      \/ \E m \in 1..Len(pending) : x = pending[m].place
  BY <1>1, <1>2, <1>3
<1>7. \E b \in S : \A x \in S : b >= x
  <2>1. PICK b \in S : b >= 0 /\ (n > 0 => b >= frames[n].base)
    BY <1>2, <1>5
  <2>2. CASE Len(pending) = 0
    BY <2>1, <2>2, <1>1, <1>6
  <2>3. CASE Len(pending) > 0
    <3>1. PICK p \in S : \A m \in 1..Len(pending) : p >= pending[m].place
      <4>1. Len(pending) \in 1..Len(pending)
        BY <1>1, <2>3
      <4>2. \A m \in 1..Len(pending) : m < Len(pending) \/ m = Len(pending)
        BY <1>1
      <4>3. \A m \in 1..Len(pending) : pending[Len(pending)].place >= pending[m].place
        BY <1>1, <4>1, <4>2
      <4> QED
        BY <1>5, <4>1, <4>3
    <3>2. CASE p >= b
      <4>1. \A x \in S : p >= x
        BY <2>1, <3>1, <3>2, <1>1, <1>2, <1>6
      <4> QED
        BY <4>1
    <3>3. CASE b >= p
      <4>1. \A x \in S : b >= x
        BY SMTT(60), <2>1, <3>1, <3>3, <1>1, <1>2, <1>6
      <4> QED
        BY <4>1
    <3> QED
      BY <1>6, <3>2, <3>3
  <2> QED
    BY <1>1, <2>2, <2>3
<1>8. PICK b \in S : \A x \in S : b >= x
  BY <1>7
<1>9. Max(S) = b /\ b \in Nat
  <2>1. S \in SUBSET Int
    BY <1>6
  <2> QED
    BY <2>1, <1>6, <1>8, MaxIs
<1>10. \A x \in S : 1 + b > x
  BY <1>6, <1>8
<1>11. Place(n, pending) = 1 + b
  BY <1>4, <1>9
<1>12. Place(n, pending) \in Nat /\ Place(n, pending) > 0
  BY <1>9, <1>11
<1>13. \A x \in S : Place(n, pending) > x
  BY <1>10, <1>11
<1> QED
  BY <1>5, <1>12, <1>13

\* The invariant's facts about frames, one frame at a time.
LEMMA Typed ==
  ASSUME TypeOK
  PROVE  /\ Len(frames) \in Nat /\ \A i \in 1..Len(frames) : frames[i] \in FrameType
         /\ Len(tbc) \in Nat /\ \A m \in 1..Len(tbc) : tbc[m] \in TbcType
         /\ Len(jmps) \in Nat /\ \A m \in 1..Len(jmps) : jmps[m] \in JmpType
         /\ frames # << >> => Len(frames) > 0
         /\ tbc # << >> => Len(tbc) > 0
         /\ jmps # << >> => Len(jmps) > 0
         /\ Len(frames) > 0 => frames # << >>
         /\ Len(tbc) > 0 => tbc # << >>
         /\ Len(jmps) > 0 => jmps # << >>
  BY LenProperties, ElementOfSeq, EmptySeq DEF TypeOK

\* luaF_close takes the last variable of the list.
LEMMA PopTbcFacts ==
  ASSUME TypeOK, tbc # << >>
  PROVE  /\ PopTbc \in Seq(TbcType) /\ Len(PopTbc) = Len(tbc) - 1
         /\ \A m \in 1..(Len(tbc) - 1) : PopTbc[m] = tbc[m]
<1>1. Len(tbc) - 1 \in 0..Len(tbc) /\ tbc \in Seq(TbcType)
  BY Typed DEF TypeOK
<1> QED
  BY <1>1, FrontSeq DEF PopTbc

\* A call that the frame on top makes, through C code or not, or a closing
\* method that it runs: CallLua, CallC, Callk, LeaveBlock, CloseNext.  Frame c
\* replaces the one on top.
Continues(c) ==
    /\ c \in FrameType
    /\ c.kind = Top.kind /\ c.base = Top.base /\ c.ypcall = Top.ypcall
    /\ c.rec = Top.rec /\ c.old = Top.old
    /\ c.doing = IF Top.doing = "run" THEN "call" ELSE Top.doing
    /\ c.kind = "lua" \/ c.doing = "ret" \/ (c.act /\ c.inc = 1) \/ c.k
    /\ c.kind = "pcall" => c.doing = "closing" /\ (c.ypcall \/ (c.act /\ c.inc = 1))
    /\ c.ypcall => c.k
NewOnTop(f, b) ==
    /\ f.kind # "pcall" /\ f.base = b /\ f.doing = "run"
    /\ ~f.act /\ f.inc = 0 /\ ~f.ypcall /\ f.rec = "OK"
Pushed(c, b) ==
    /\ frames' \in Seq(FrameType) /\ Len(frames') = Len(frames) + 1
    /\ \A i \in 1..(Len(frames) - 1) : frames'[i] = frames[i]
    /\ frames'[Len(frames)] = c
    /\ NewOnTop(frames'[Len(frames) + 1], b)
    /\ b \in Nat /\ b > Top.base /\ \A m \in 1..Len(tbc') : tbc'[m].place < b

\* Who handles an error depends on the pcalls in progress and their places.
LEMMA HandlerAtSame ==
  ASSUME NEW f, NEW n, NEW g, NEW m, NEW h, HandlerAt(f, h, n),
         ActiveIn(g, m) = ActiveIn(f, n),
         \A i \in ActiveIn(f, n) : g[i].base = f[i].base
  PROVE  HandlerAt(g, h, m)
<1>1. PICK i \in {0} \cup ActiveIn(f, n) :
         /\ \A j \in ActiveIn(f, n) : j <= i
         /\ h = 0 \/ (i > 0 /\ h = f[i].base)
  BY DEF HandlerAt
<1>2. h = 0 \/ (i > 0 /\ h = g[i].base)
  BY <1>1
<1>3. \A j \in ActiveIn(g, m) : j <= i
  BY <1>1
<1> QED
  BY <1>1, <1>2, <1>3 DEF HandlerAt

\* A jump stays right when its pcall does and no call below it changes.
LEMMA JmpOKSame ==
  ASSUME NEW f, NEW g, NEW j, NEW first, JmpOK(f, j, first), SetsJump(g, j.depth),
         g[j.depth].doing = f[j.depth].doing,
         \A i \in 1..(j.depth - 1) : Blocks(g, i) <=> Blocks(f, i)
  PROVE  JmpOK(g, j, first)
<1>1. Blocking(g, j.depth - 1) = Blocking(f, j.depth - 1)
  BY DEF Blocking
<1> QED
  BY <1>1 DEF JmpOK

\* The jumps stay right when the last of them are gone, if the pcalls whose
\* jumps remain have not changed, nor the calls below them.
LEMMA JmpShrunk ==
  ASSUME TypeOK, JmpInv, Running,
         Len(jmps') \in 1..Len(jmps), \A m \in 1..Len(jmps') : jmps'[m] = jmps[m],
         Len(frames') \in Nat,
         \A m \in 2..Len(jmps') :
            LET d == jmps[m].depth
            IN  /\ d <= Len(frames') /\ frames'[d].doing = frames[d].doing
                /\ SetsJump(frames', d)
                /\ \A i \in 1..(d - 1) : Blocks(frames', i) <=> Blocks(frames, i),
         \A i \in 1..Len(frames') : SetsJump(frames', i) =>
            \E m \in 2..Len(jmps') : jmps[m].depth = i,
         jmps[1].what = "close" => \A i \in 1..Len(frames') : ~frames'[i].ypcall
  PROVE  JmpInv'
<1>1. Len(jmps) \in Nat /\ Len(jmps') \in Nat /\ Len(jmps) > 0 /\ Len(frames) \in Nat
  BY Typed DEF Running
<1>2. jmps'[1] = jmps[1] /\ ResetCount' = ResetCount
  BY <1>1 DEF ResetCount
<1>3. /\ jmps[1].what \in {"resume", "close"} /\ jmps[1].depth = 0 /\ jmps[1].nny = 0
      /\ \A l, m \in 1..Len(jmps) : l < m => jmps[l].depth < jmps[m].depth
      /\ \A m \in 2..Len(jmps) : jmps[m].depth \in 1..Len(frames)
                                /\ JmpOK(frames, jmps[m], ResetCount)
  BY DEF JmpInv
<1>4. \A l, m \in 1..Len(jmps') : l < m => jmps'[l].depth < jmps'[m].depth
  BY <1>1, <1>3
<1>5. ASSUME NEW m \in 2..Len(jmps')
      PROVE  jmps'[m].depth \in 1..Len(frames') /\ JmpOK(frames', jmps'[m], ResetCount')
  <2>1. m \in 2..Len(jmps) /\ m \in 1..Len(jmps')
    BY <1>1
  <2>2. /\ jmps'[m] = jmps[m] /\ jmps[m].depth \in 1..Len(frames)
        /\ JmpOK(frames, jmps[m], ResetCount)
    BY <2>1, <1>3
  <2>3. jmps'[m].depth \in 1..Len(frames')
    BY <2>2, <1>1
  <2>4. JmpOK(frames', jmps[m], ResetCount)
    BY <2>2, JmpOKSame
  <2> QED
    BY <2>2, <2>3, <2>4, <1>2
<1>6. \A i \in 1..Len(frames') : SetsJump(frames', i) =>
            \E m \in 2..Len(jmps') : jmps'[m].depth = i
  BY <1>1
<1> QED
  BY <1>2, <1>3, <1>4, <1>5, <1>6 DEF JmpInv

\* Counting the calls that no yield may cross.
LEMMA BlockingCount ==
  ASSUME NEW f, NEW n \in Nat
  PROVE  /\ IsFiniteSet(Blocking(f, n)) /\ Cardinality(Blocking(f, n)) \in Nat
         /\ \A i : i \notin Blocking(f, n) =>
               Cardinality(Blocking(f, n) \cup {i}) = Cardinality(Blocking(f, n)) + 1
         /\ \A i \in Blocking(f, n) :
               Cardinality(Blocking(f, n) \ {i}) = Cardinality(Blocking(f, n)) - 1
<1>1. IsFiniteSet(1..n)
  BY FS_Interval
<1>2. IsFiniteSet(Blocking(f, n))
  BY <1>1, FS_Subset DEF Blocking
<1> QED
  BY <1>2, FS_CardinalityType, FS_AddElement, FS_RemoveElement

\* A call puts a frame of base b above the one on top, which becomes c.  Every
\* action that calls a function without setting a jump is an instance of this.
LEMMA PushInv ==
  ASSUME IInv, Running, frames # << >>, NEW c, Continues(c), NEW b, Pushed(c, b),
         tbc' = tbc \/ (tbc # << >> /\ tbc' = PopTbc),
         nny' = nny + (IF c.act /\ c.inc = 1 THEN 1 ELSE 0),
         UNCHANGED <<status, jmps, errfunc, empty>>
  PROVE  IInv'
<1> DEFINE D == Len(frames)
<1>0. /\ TypeOK /\ FrameInv /\ StatusInv /\ YieldInv /\ JmpInv /\ NnyInv
      /\ HandlerInv /\ TbcInv
  BY DEF IInv
<1>1. D \in Nat /\ D > 0 /\ Top = frames[D] /\ Len(frames') = D + 1
  BY <1>0, Typed DEF Depth, Top, Pushed
<1>2. \A i \in 1..(D - 1) : frames'[i] = frames[i]
  BY DEF Pushed
<1>3. /\ c.kind = frames[D].kind /\ c.base = frames[D].base /\ c.doing # "run"
      /\ c.ypcall = frames[D].ypcall /\ c.rec = frames[D].rec /\ c.old = frames[D].old
      /\ c.doing = "closing" => c.kind = "pcall"
      /\ c.kind = "pcall" => c.doing = "closing" /\ frames[D].doing = "closing"
                             /\ (c.ypcall \/ Blocks(frames', D))
      /\ c.kind = "lua" \/ c.doing = "ret" \/ Blocks(frames', D) \/ c.k
      /\ c.ypcall => c.k
      /\ frames[D].doing = "closing" => c.doing = "closing"
      /\ frames'[D] = c
  BY <1>0, <1>1 DEF Continues, FrameInv, FrameOK, Pushed, Blocks
<1>4. /\ frames'[D + 1].kind # "pcall" /\ frames'[D + 1].base = b
      /\ frames'[D + 1].doing = "run" /\ b \in Nat /\ b > frames[D].base
      /\ ~frames'[D + 1].act /\ ~frames'[D + 1].ypcall
  BY <1>1 DEF Pushed, NewOnTop
<1>5. \A i \in 1..D : frames[i].base \in Nat
  BY <1>0, Typed DEF FrameType
<1>6. /\ tbc' \in Seq(TbcType) /\ Len(tbc') \in Nat /\ Len(tbc') <= Len(tbc)
      /\ \A m \in 1..Len(tbc') : tbc'[m] = tbc[m]
  <2>1. Len(tbc) \in Nat /\ tbc \in Seq(TbcType)
    BY <1>0, Typed DEF TypeOK
  <2>2. CASE tbc' = tbc
    BY <2>1, <2>2
  <2>3. CASE tbc # << >> /\ tbc' = PopTbc
    <3>1. Len(tbc') = Len(tbc) - 1 /\ tbc' \in Seq(TbcType) /\ Len(tbc) > 0
          /\ \A m \in 1..(Len(tbc) - 1) : tbc'[m] = tbc[m]
      BY <1>0, <2>3, PopTbcFacts, Typed
    <3> QED
      BY <2>1, <3>1
  <2> QED
    BY <2>2, <2>3
<1>7. Len(jmps) \in Nat /\ Len(jmps) > 0 /\ jmps' = jmps /\ Running'
  BY <1>0, Typed DEF Running
<1> HIDE DEF D
<1>8. TypeOK'
  BY <1>0, <1>6 DEF TypeOK, Pushed
<1>9. FrameInv'
  <2>1. \A i \in 1..D : FrameOK(frames, D, i)
    BY <1>0 DEF FrameInv, D
  <2>2. \A i, j \in 1..D : FramePairOK(frames, i, j)
    BY <1>0 DEF FrameInv, D
  <2>3. ASSUME NEW i \in 1..(D + 1) PROVE FrameOK(frames', D + 1, i)
    BY <1>1, <1>2, <1>3, <1>4, <1>5, <2>1 DEF FrameOK
  <2>4. ASSUME NEW i \in 1..(D + 1), NEW j \in 1..(D + 1) PROVE FramePairOK(frames', i, j)
    <3>1. \A l \in 1..D : frames'[l].base = frames[l].base /\ frames[l].base \in Nat
      BY <1>2, <1>3, <1>5, <1>1
    <3>2. CASE j \in 1..D
      <4>1. i < j => i \in 1..(D - 1) /\ frames'[i] = frames[i]
        BY <1>1, <1>2, <3>2
      <4>2. i < j => FramePairOK(frames, i, j) /\ frames'[j].base = frames[j].base
        BY <1>1, <2>2, <3>1, <3>2, <4>1
      <4> QED
        BY <4>1, <4>2 DEF FramePairOK
    <3>3. CASE j = D + 1
      <4>1. CASE i = D
        BY <1>3, <1>4, <3>3, <4>1, <1>1 DEF FramePairOK
      <4>2. CASE i \in 1..(D - 1)
        <5>1. i < D /\ D \in 1..D /\ i \in 1..D
          BY <1>1, <4>2
        <5>2. frames[i].base < frames[D].base
          BY <2>2, <5>1 DEF FramePairOK
        <5>3. frames'[i].base < frames'[j].base
          BY <1>4, <1>5, <3>1, <3>3, <5>1, <5>2
        <5> QED
          BY <1>1, <3>3, <5>1, <5>3 DEF FramePairOK
      <4>3. CASE i = D + 1
        BY <1>1, <3>3, <4>3 DEF FramePairOK
      <4> QED
        BY <1>1, <4>1, <4>2, <4>3
    <3> QED
      BY <1>1, <3>2, <3>3
  <2> QED
    BY <1>1, <2>3, <2>4 DEF FrameInv
<1>10. StatusInv'
  BY <1>0, <1>1, <1>4, <1>7 DEF StatusInv, Blocks
<1>11. YieldInv'
  <2>1. \A i \in 1..D : YieldOK(frames, D, i)
    BY <1>0 DEF YieldInv, D
  <2>2. \A i, j \in 1..D : i < j /\ frames[j].ypcall => ~Blocks(frames, i)
    BY <1>0 DEF YieldInv, D
  <2>3. ASSUME NEW i \in 1..(D + 1) PROVE YieldOK(frames', D + 1, i)
    BY <1>1, <1>2, <1>3, <1>4, <2>1 DEF YieldOK, Active, SetsJump, Blocks
  <2>4. ASSUME NEW i \in 1..(D + 1), NEW j \in 1..(D + 1), i < j, frames'[j].ypcall
        PROVE  ~Blocks(frames', i)
    <3>1. j # D + 1
      BY <1>4, <2>4
    <3>2. i \in 1..(D - 1) /\ i \in 1..D /\ j \in 1..D
      BY <1>1, <2>4, <3>1
    <3>3. frames[j].ypcall
      BY <1>1, <1>2, <1>3, <2>4, <3>2
    <3>4. ~Blocks(frames, i) /\ frames'[i] = frames[i]
      BY <1>2, <2>2, <2>4, <3>2, <3>3
    <3> QED
      BY <3>4 DEF Blocks
  <2> QED
    BY <1>1, <2>3, <2>4 DEF YieldInv
<1>12. ActiveIn(frames', D + 1) = ActiveIn(frames, D)
  BY <1>1, <1>2, <1>3, <1>4 DEF ActiveIn, Active
<1>13. \A i \in 1..D : /\ frames'[i].kind = frames[i].kind /\ frames'[i].base = frames[i].base
                       /\ frames'[i].ypcall = frames[i].ypcall /\ frames'[i].old = frames[i].old
                       /\ frames[i].kind = "pcall" => frames'[i].doing = frames[i].doing
                       /\ frames[i].doing = "closing" => frames'[i].doing = "closing"
  BY <1>1, <1>2, <1>3
<1>14. JmpInv'
  <2>1. \A i \in 1..D : SetsJump(frames', i) <=> SetsJump(frames, i)
    BY <1>13 DEF SetsJump, Active
  <2>2. ~SetsJump(frames', D + 1)
    BY <1>4 DEF SetsJump, Active
  <2>3. \A m \in 2..Len(jmps) : jmps[m].depth \in 1..D /\ SetsJump(frames, jmps[m].depth)
    BY <1>0 DEF JmpInv, JmpOK, D
  <2>4. \A i \in 1..D : SetsJump(frames, i) => \E m \in 2..Len(jmps) : jmps[m].depth = i
    BY <1>0 DEF JmpInv, D
  <2>5. ASSUME NEW m \in 2..Len(jmps)
        PROVE  LET d == jmps[m].depth
               IN  /\ d <= Len(frames') /\ frames'[d].doing = frames[d].doing
                   /\ SetsJump(frames', d)
                   /\ \A i \in 1..(d - 1) : Blocks(frames', i) <=> Blocks(frames, i)
    <3>1. PICK d \in 1..D : d = jmps[m].depth /\ SetsJump(frames, d)
      BY <2>3
    <3>2. d <= Len(frames') /\ frames'[d].doing = frames[d].doing /\ SetsJump(frames', d)
      BY <1>1, <1>13, <2>1, <3>1 DEF SetsJump, Active
    <3>3. \A i \in 1..(d - 1) : Blocks(frames', i) <=> Blocks(frames, i)
      BY <1>1, <1>2, <3>1 DEF Blocks
    <3> QED
      BY <3>1, <3>2, <3>3
  <2>6. \A i \in 1..Len(frames') : SetsJump(frames', i) => \E m \in 2..Len(jmps) : jmps[m].depth = i
    BY <1>1, <2>1, <2>2, <2>4
  <2>7. jmps[1].what = "close" => \A i \in 1..Len(frames') : ~frames'[i].ypcall
    BY <1>0, <1>1, <1>4, <1>13 DEF JmpInv, D
  <2> QED
    BY <1>0, <1>1, <1>7, <2>5, <2>6, <2>7, JmpShrunk
<1>15. NnyInv'
  <2>1. nny = Cardinality(Blocking(frames, D)) + ResetCount
    BY <1>0, <1>1 DEF NnyInv, D
  <2>2. CASE Blocks(frames', D)
    <3>1. Blocking(frames', D + 1) = Blocking(frames, D) \cup {D} /\ D \notin Blocking(frames, D)
      BY <1>0, <1>1, <1>2, <1>3, <1>4, <2>2 DEF Blocking, Blocks, StatusInv, D
    <3> QED
      BY <1>1, <1>3, <1>7, <2>1, <2>2, <3>1, BlockingCount DEF NnyInv, Blocks, ResetCount
  <2>3. CASE ~Blocks(frames', D)
    <3>1. Blocking(frames', D + 1) = Blocking(frames, D)
      BY <1>0, <1>1, <1>2, <1>3, <1>4, <2>3 DEF Blocking, Blocks, StatusInv, D
    <3> QED
      BY <1>1, <1>3, <1>7, <2>1, <2>3, <3>1, BlockingCount DEF NnyInv, Blocks, ResetCount
  <2> QED
    BY <2>2, <2>3
<1>16. HandlerInv'
  <2>1. HandlerAt(frames', errfunc', D + 1)
    <3>1. HandlerAt(frames, errfunc, D)
      BY <1>0 DEF HandlerInv, D
    <3>2. \A i \in ActiveIn(frames, D) : frames'[i].base = frames[i].base
      BY <1>13 DEF ActiveIn
    <3> QED
      BY <1>12, <3>1, <3>2, HandlerAtSame
  <2>2. ASSUME NEW p \in 1..(D + 1), Active(frames', p)
        PROVE  HandlerAt(frames', frames'[p].old, p - 1)
    <3>1. p \in 1..D /\ Active(frames, p) /\ frames'[p].old = frames[p].old
      BY <1>1, <1>4, <1>13, <2>2 DEF Active
    <3>2. HandlerAt(frames, frames[p].old, p - 1)
      BY <1>0, <3>1 DEF HandlerInv, D
    <3>3. ActiveIn(frames', p - 1) = ActiveIn(frames, p - 1)
      BY <1>1, <1>13, <3>1 DEF ActiveIn, Active
    <3>4. \A i \in ActiveIn(frames, p - 1) : frames'[i].base = frames[i].base
      BY <1>1, <1>13, <3>1 DEF ActiveIn
    <3> QED
      BY <3>1, <3>2, <3>3, <3>4, HandlerAtSame
  <2> QED
    BY <1>1, <2>1, <2>2 DEF HandlerInv
<1>17. TbcInv'
  <2>1. \A m \in 1..Len(tbc') : /\ m \in 1..Len(tbc) /\ tbc'[m] = tbc[m] /\ tbc[m] \in TbcType
                                /\ tbc[m].of < tbc[m].place /\ tbc[m].place < b
                                /\ tbc[m].of \in Nat /\ tbc[m].place \in Nat
    <3>1. \A m \in 1..Len(tbc) : /\ tbc[m] \in TbcType /\ tbc[m].of < tbc[m].place
                                  /\ tbc[m].of \in Nat /\ tbc[m].place \in Nat
      BY <1>0, Typed DEF TbcInv, TbcType
    <3>2. \A m \in 1..Len(tbc') : m \in 1..Len(tbc) /\ tbc'[m] = tbc[m] /\ tbc'[m].place < b
      BY <1>0, <1>6, Typed DEF Pushed
    <3> QED
      BY <3>1, <3>2
  <2>2. \A l, m \in 1..Len(tbc') : l < m => tbc'[l].place < tbc'[m].place
    BY <1>0, <2>1 DEF TbcInv
  <2>3. ASSUME NEW m \in 1..Len(tbc'), NEW i \in 1..(D + 1)
        PROVE  TbcOK(tbc'[m], frames'[i])
    <3>1. CASE i \in 1..D
      <4>1. TbcOK(tbc[m], frames[i])
        BY <1>0, <2>1, <3>1 DEF TbcInv, D
      <4> QED
        BY <4>1, <2>1, <1>13, <3>1 DEF TbcOK
    <3>2. CASE i = D + 1
      BY <2>1, <1>4, <3>2 DEF TbcOK
    <3> QED
      BY <1>1, <3>1, <3>2
  <2>4. ASSUME ~Resetting', NEW m \in 1..Len(tbc') PROVE OwnedIn(frames', D + 1, tbc'[m])
    <3>1. ~Resetting
      BY <1>7, <2>4 DEF Resetting
    <3>2. OwnedIn(frames, D, tbc[m])
      BY <1>0, <2>1, <3>1 DEF TbcInv, D
    <3> QED
      BY <1>1, <1>13, <2>1, <3>2 DEF OwnedIn
  <2> QED
    BY <1>1, <2>1, <2>2, <2>3, <2>4 DEF TbcInv
<1> QED
  BY <1>8, <1>9, <1>10, <1>11, <1>14, <1>15, <1>16, <1>17 DEF IInv

-----------------------------------------------------------------------------
\* The frame on top gives way to three: the caller, the pcall and the function.
LEMMA ConcatThree ==
  ASSUME NEW S, NEW f \in Seq(S), NEW n \in 1..Len(f), NEW x \in S, NEW y \in S, NEW z \in S,
         NEW h, h = SubSeq(f, 1, n - 1) \o <<x, y, z>>
  PROVE  /\ h \in Seq(S) /\ Len(h) = n + 2
         /\ \A i \in 1..(n - 1) : h[i] = f[i]
         /\ h[n] = x /\ h[n + 1] = y /\ h[n + 2] = z
<1>1. n - 1 \in 0..Len(f) /\ n \in Nat /\ n > 0
  BY LenProperties
<1>2. PICK e : e = SubSeq(f, 1, n - 1)
  OBVIOUS
<1>3. e \in Seq(S) /\ Len(e) = n - 1 /\ \A i \in 1..(n - 1) : e[i] = f[i]
  BY <1>1, <1>2, FrontSeq
<1>4. PICK t : t = <<x, y, z>>
  OBVIOUS
<1>5. t \in Seq(S) /\ Len(t) = 3 /\ t[1] = x /\ t[2] = y /\ t[3] = z
  BY <1>4
<1>6. h = e \o t
  BY <1>2, <1>4
<1>7. /\ h \in Seq(S) /\ Len(h) = Len(e) + Len(t)
      /\ \A i \in 1..(Len(e) + Len(t)) : h[i] = IF i <= Len(e) THEN e[i] ELSE t[i - Len(e)]
  <2>1. e \in Seq(S) /\ t \in Seq(S)
    BY <1>3, <1>5
  <2>2. /\ e \o t \in Seq(S) /\ Len(e \o t) = Len(e) + Len(t)
        /\ \A i \in 1..(Len(e) + Len(t)) :
              (e \o t)[i] = IF i <= Len(e) THEN e[i] ELSE t[i - Len(e)]
    BY <2>1, ConcatProperties
  <2> QED
    BY <2>2, <1>6
<1>8. Len(h) = n + 2 /\ \A i \in 1..(n - 1) : h[i] = f[i]
  BY <1>1, <1>3, <1>5, <1>7
<1>9. /\ n \in 1..(Len(e) + Len(t)) /\ n + 1 \in 1..(Len(e) + Len(t))
      /\ n + 2 \in 1..(Len(e) + Len(t))
      /\ ~(n <= Len(e)) /\ ~(n + 1 <= Len(e)) /\ ~(n + 2 <= Len(e))
      /\ n - Len(e) = 1 /\ (n + 1) - Len(e) = 2 /\ (n + 2) - Len(e) = 3
  BY <1>1, <1>3, <1>5
<1>10. h[n] = t[1] /\ h[n + 1] = t[2] /\ h[n + 2] = t[3]
  BY <1>7, <1>9
<1> QED
  BY <1>5, <1>7, <1>8, <1>10

\* The call that 'luaD_precall' enters on the stack.
LEMMA NewFrameFacts ==
  ASSUME NEW kind \in {"lua", "C", "pcall"}, NEW b \in Nat,
         NEW g, g = NewFrame(kind, b)
  PROVE  /\ g \in FrameType /\ g.kind = kind /\ g.base = b /\ g.doing = "run"
         /\ ~g.act /\ g.inc = 0 /\ ~g.k /\ ~g.ypcall /\ g.rec = "OK" /\ g.old = 0
  BY DEF NewFrame, FrameType

\* pcall and xpcall, with or without a jump.
LEMMA ProtectedInv ==
  ASSUME IInv, NEW yields \in BOOLEAN, yields => nny = 0, NEW handler \in BOOLEAN,
         CallProtected(handler, yields, IF yields THEN 0 ELSE 1)
  PROVE  IInv'
<1> DEFINE D == Len(frames)
<1>0. /\ TypeOK /\ FrameInv /\ StatusInv /\ YieldInv /\ JmpInv /\ NnyInv
      /\ HandlerInv /\ TbcInv
  BY DEF IInv
<1>1. /\ D \in Nat /\ D > 0 /\ Top = frames[D] /\ Running
      /\ frames[D].doing = "run" /\ frames[D].kind = "lua"
  BY <1>0, Typed DEF Depth, Top, CallProtected, Executes
<1>2. PICK b \in Nat : /\ b > frames[D].base /\ b = Place(Depth, tbc)
                      /\ \A m \in 1..Len(tbc) : b > tbc[m].place
  <2>1. Depth \in 0..Depth /\ Depth > 0 /\ Depth = D /\ tbc \in Seq(TbcType)
    BY <1>0, <1>1 DEF Depth, TypeOK
  <2>2. \A l, m \in 1..Len(tbc) : l < m => tbc[l].place < tbc[m].place
    BY <1>0 DEF TbcInv
  <2> QED
    BY <1>0, <2>1, <2>2, PlaceAbove
<1>3. PICK p : p = [kind |-> "pcall", base |-> b, doing |-> "call", act |-> TRUE,
                    inc |-> IF yields THEN 0 ELSE 1, k |-> yields, ypcall |-> yields,
                    rec |-> "OK", old |-> errfunc]
  OBVIOUS
<1>31. /\ p \in FrameType
       /\ p.kind = "pcall" /\ p.base = b /\ p.doing = "call" /\ p.act
       /\ p.k <=> yields
       /\ p.ypcall <=> yields
       /\ p.inc = (IF yields THEN 0 ELSE 1)
       /\ p.rec = "OK" /\ p.old = errfunc
  <2>3. errfunc \in Nat
    BY <1>0 DEF TypeOK
  <2> QED
    BY <1>3, <2>3 DEF FrameType
<1>4. PICK x : x = [frames[D] EXCEPT !.doing = "call"]
  OBVIOUS
<1>41. /\ x \in FrameType
       /\ x.kind = "lua" /\ x.base = frames[D].base /\ x.doing = "call"
       /\ x.act = frames[D].act /\ x.inc = frames[D].inc /\ x.ypcall = frames[D].ypcall
       /\ x.k = frames[D].k /\ x.rec = frames[D].rec /\ x.old = frames[D].old
  <2>1. frames[D] \in FrameType
    BY <1>0, <1>1, Typed
  <2> QED
    BY <1>1, <1>4, <2>1 DEF FrameType
<1>5. PICK g : g = NewFrame("lua", b + 1)
  OBVIOUS
<1>51. /\ g \in FrameType /\ g.kind = "lua" /\ g.base = b + 1 /\ g.doing = "run"
       /\ ~g.act /\ ~g.ypcall
  BY <1>5, NewFrameFacts
<1>6. frames' = SubSeq(frames, 1, D - 1) \o <<x, p, g>>
  BY <1>1, <1>2, <1>3, <1>4, <1>5 DEF CallProtected, Below, Depth
<1> HIDE DEF D
<1>7. /\ frames' \in Seq(FrameType) /\ Len(frames') = D + 2
      /\ \A i \in 1..(D - 1) : frames'[i] = frames[i]
      /\ frames'[D] = x /\ frames'[D + 1] = p /\ frames'[D + 2] = g
  <2>1. frames \in Seq(FrameType) /\ D \in 1..Len(frames)
    BY <1>0, <1>1 DEF TypeOK, D
  <2>2. p \in FrameType /\ x \in FrameType /\ g \in FrameType
    BY <1>31, <1>41, <1>51
  <2> QED
    BY <2>1, <2>2, <1>6, ConcatThree
<1>8. /\ jmps' = IF yields THEN jmps ELSE Append(jmps, Jmp("pcall", D + 1))
      /\ errfunc' = (IF handler THEN b ELSE 0)
      /\ nny' = nny + (IF yields THEN 0 ELSE 1)
      /\ UNCHANGED <<status, tbc, empty>>
  BY <1>2 DEF CallProtected, Depth, D
<1>9. /\ \A i \in 1..(D - 1) : frames'[i] = frames[i]
      /\ frames'[D].kind = "lua" /\ frames[D].kind = "lua" /\ frames[D].doing = "run"
      /\ frames'[D].base = frames[D].base /\ frames'[D].doing = "call"
      /\ (frames'[D].act <=> frames[D].act) /\ (frames'[D].ypcall <=> frames[D].ypcall)
      /\ ~frames[D].act /\ ~frames[D].ypcall
      /\ frames'[D + 1].kind = "pcall" /\ frames'[D + 1].base = b
      /\ frames'[D + 1].doing = "call" /\ frames'[D + 1].act
      /\ (frames'[D + 1].k <=> yields) /\ (frames'[D + 1].ypcall <=> yields)
      /\ frames'[D + 1].inc = (IF yields THEN 0 ELSE 1)
      /\ frames'[D + 1].rec = "OK" /\ frames'[D + 1].old = errfunc
      /\ frames'[D + 2].kind = "lua" /\ frames'[D + 2].base = b + 1
      /\ frames'[D + 2].doing = "run" /\ ~frames'[D + 2].act /\ ~frames'[D + 2].ypcall
  <2>1. ~frames[D].act /\ ~frames[D].ypcall
    BY <1>0, <1>1 DEF StatusInv, YieldInv, YieldOK, Active, D
  <2> QED
    BY <2>1, <1>1, <1>31, <1>41, <1>51, <1>7
<1>10. /\ b \in Nat /\ b > frames[D].base /\ \A i \in 1..D : frames[i].base \in Nat
  BY <1>0, <1>2, Typed DEF FrameType, D
<1>11. Len(jmps) \in Nat /\ Len(jmps) > 0 /\ jmps \in Seq(JmpType)
  BY <1>0, <1>1, Typed DEF Running, TypeOK
<1>12. /\ nny \in Nat /\ nny = Cardinality(Blocking(frames, D)) + ResetCount
       /\ jmps[1].what \in {"resume", "close"}
       /\ ResetCount = IF jmps[1].what = "close" THEN 1 ELSE 0
       /\ Cardinality(Blocking(frames, D)) \in Nat
  BY <1>0, <1>1, BlockingCount DEF NnyInv, TypeOK, JmpInv, ResetCount, D
<1>13. yields => Blocking(frames, D) = {} /\ jmps[1].what # "close"
  <2>1. yields => Cardinality(Blocking(frames, D)) = 0 /\ jmps[1].what # "close"
    BY <1>12
  <2> QED
    BY <2>1, <1>1, BlockingCount, FS_EmptySet
<1>14. PICK j : j = Jmp("pcall", D + 1)
  OBVIOUS
<1>15. j \in JmpType /\ j.what = "pcall" /\ j.depth = D + 1 /\ j.nny = nny
  BY <1>1, <1>12, <1>14 DEF Jmp, JmpType
<1>16. \A i \in 1..D : SetsJump(frames', i) <=> SetsJump(frames, i)
  BY <1>1, <1>9 DEF SetsJump, Active
<1>17. /\ SetsJump(frames', D + 1) <=> ~yields
       /\ ~SetsJump(frames', D + 2) /\ ~SetsJump(frames, D)
  BY <1>9 DEF SetsJump, Active
<1>18. /\ \A m \in 2..Len(jmps) : /\ jmps[m].depth \in 1..(D - 1)
                                  /\ JmpOK(frames, jmps[m], ResetCount)
                                  /\ SetsJump(frames, jmps[m].depth)
       /\ \A i \in 1..D : SetsJump(frames, i) => \E m \in 2..Len(jmps) : jmps[m].depth = i
       /\ \A l, m \in 1..Len(jmps) : l < m => jmps[l].depth < jmps[m].depth
       /\ jmps[1].depth = 0 /\ jmps[1].nny = 0
       /\ jmps[1].what = "close" => \A i \in 1..D : ~frames[i].ypcall
  <2>1. \A m \in 2..Len(jmps) : /\ jmps[m].depth \in 1..D
                              /\ JmpOK(frames, jmps[m], ResetCount)
    BY <1>0, <1>1 DEF JmpInv, D
  <2>2. \A m \in 2..Len(jmps) : SetsJump(frames, jmps[m].depth)
    BY <2>1 DEF JmpOK
  <2>3. \A m \in 2..Len(jmps) : jmps[m].depth \in 1..(D - 1)
    BY <2>1, <2>2, <1>1, <1>17
  <2> QED
    BY <1>0, <1>1, <2>1, <2>2, <2>3 DEF JmpInv, D
<1>19. ASSUME NEW m \in 2..Len(jmps)
       PROVE  /\ jmps[m].depth \in 1..(D + 2)
              /\ frames'[jmps[m].depth].doing = frames[jmps[m].depth].doing
              /\ SetsJump(frames', jmps[m].depth)
              /\ \A i \in 1..(jmps[m].depth - 1) : Blocks(frames', i) <=> Blocks(frames, i)
  <2>1. PICK d \in 1..(D - 1) : d = jmps[m].depth /\ SetsJump(frames, d)
    BY <1>18
  <2>2. d <= D + 2 /\ frames'[d].doing = frames[d].doing /\ SetsJump(frames', d)
    BY <1>1, <1>9, <1>16, <2>1
  <2>3. \A i \in 1..(d - 1) : Blocks(frames', i) <=> Blocks(frames, i)
    BY <1>1, <1>9, <2>1 DEF Blocks
  <2> QED
    BY <1>1, <2>1, <2>2, <2>3
<1>20. TypeOK' /\ JmpInv' /\ Running' /\ ResetCount' = ResetCount
  <2>1. CASE yields
    <3>1. jmps' = jmps /\ Running'
      BY <1>1, <1>8, <2>1 DEF Running
    <3>2. TypeOK'
      BY <1>0, <1>7, <1>8, <1>10, <2>1, <3>1 DEF TypeOK
    <3>3. \A i \in 1..Len(frames') : SetsJump(frames', i) =>
             \E m \in 2..Len(jmps) : jmps[m].depth = i
      <4>1. ~SetsJump(frames', D + 1) /\ ~SetsJump(frames', D + 2)
        BY <1>17, <2>1
      <4>2. \A i \in 1..Len(frames') : i \in 1..D \/ i = D + 1 \/ i = D + 2
        BY <1>1, <1>7
      <4>3. \A i \in 1..D : SetsJump(frames', i) => \E m \in 2..Len(jmps) : jmps[m].depth = i
        BY <1>16, <1>18
      <4> QED
        BY <4>1, <4>2, <4>3
    <3>4. jmps[1].what = "close" => \A i \in 1..Len(frames') : ~frames'[i].ypcall
      BY <1>13, <2>1
    <3>5. JmpInv'
      BY <1>0, <1>1, <1>7, <1>11, <1>19, <3>1, <3>3, <3>4, JmpShrunk
    <3> QED
      BY <3>1, <3>2, <3>5 DEF ResetCount
  <2>2. CASE ~yields
    <3>1. jmps' = Append(jmps, j)
      BY <1>8, <1>14, <2>2
    <3>2. /\ jmps' \in Seq(JmpType) /\ Len(jmps') = Len(jmps) + 1 /\ jmps' # << >>
          /\ \A m \in 1..Len(jmps) : jmps'[m] = jmps[m]
          /\ jmps'[Len(jmps) + 1] = j
      BY <1>11, <1>15, <3>1, AppendProperties
    <3>3. TypeOK' /\ Running'
      BY <1>0, <1>7, <1>8, <1>10, <2>2, <3>2 DEF TypeOK, Running
    <3>4. jmps'[1] = jmps[1] /\ ResetCount' = ResetCount
      BY <1>11, <3>2 DEF ResetCount
    <3>5. \A l, m \in 1..Len(jmps') : l < m => jmps'[l].depth < jmps'[m].depth
      <4>1. \A l \in 1..Len(jmps) : jmps[l].depth < D + 1
        <5>1. \A l \in 2..Len(jmps) : jmps[l].depth \in 1..(D - 1)
          BY <1>18
        <5>2. jmps[1].depth = 0
          BY <1>18
        <5> QED
          BY <1>1, <1>11, <5>1, <5>2
      <4>2. j.depth = D + 1
        BY <1>15
      <4>3. ASSUME NEW l \in 1..Len(jmps'), NEW m \in 1..Len(jmps'), l < m
            PROVE  jmps'[l].depth < jmps'[m].depth
        <5>1. l \in 1..Len(jmps) /\ jmps'[l] = jmps[l]
          BY <1>11, <3>2, <4>3
        <5>2. CASE m \in 1..Len(jmps)
          BY <1>18, <3>2, <4>3, <5>1, <5>2
        <5>3. CASE m = Len(jmps) + 1
          BY <3>2, <4>1, <4>2, <5>1, <5>3
        <5> QED
          BY <1>11, <3>2, <5>2, <5>3
      <4> QED
        BY <4>3
    <3>6. ASSUME NEW m \in 2..Len(jmps')
          PROVE  jmps'[m].depth \in 1..(D + 2) /\ JmpOK(frames', jmps'[m], ResetCount)
      <4>1. CASE m <= Len(jmps)
        <5>1. m \in 2..Len(jmps) /\ jmps'[m] = jmps[m]
          BY <1>11, <3>2, <4>1
        <5> QED
          BY <5>1, <1>18, <1>19, JmpOKSame
      <4>2. CASE m = Len(jmps) + 1
        <5>1. Blocking(frames', D) = Blocking(frames, D)
          BY <1>1, <1>9 DEF Blocking, Blocks
        <5>2. JmpOK(frames', j, ResetCount)
          BY <1>1, <1>9, <1>12, <1>15, <1>17, <2>2, <5>1 DEF JmpOK
        <5> QED
          BY <1>1, <1>15, <3>2, <4>2, <5>2
      <4> QED
        BY <1>11, <3>2, <4>1, <4>2
    <3>7. ASSUME NEW i \in 1..(D + 2), SetsJump(frames', i)
          PROVE  \E m \in 2..Len(jmps') : jmps'[m].depth = i
      <4>1. CASE i <= D
        <5>1. PICK m \in 2..Len(jmps) : jmps[m].depth = i
          BY <1>1, <1>16, <1>18, <3>7, <4>1
        <5>2. m \in 2..Len(jmps') /\ jmps'[m] = jmps[m]
          BY <1>11, <3>2, <5>1
        <5> QED
          BY <5>1, <5>2
      <4>2. CASE i = D + 1
        BY <1>11, <1>15, <3>2, <4>2
      <4> QED
        BY <1>1, <1>17, <3>7, <4>1, <4>2
    <3>8. jmps'[1].what = "close" => \A i \in 1..(D + 2) : ~frames'[i].ypcall
      BY <1>1, <1>9, <1>18, <2>2, <3>4
    <3>9. JmpInv'
      BY <1>7, <1>12, <1>18, <3>4, <3>5, <3>6, <3>7, <3>8 DEF JmpInv
    <3> QED
      BY <3>3, <3>4, <3>9
  <2> QED
    BY <2>1, <2>2
<1>21. FrameInv'
  <2>1. \A i \in 1..D : FrameOK(frames, D, i)
    BY <1>0 DEF FrameInv, D
  <2>2. \A i, l \in 1..D : FramePairOK(frames, i, l)
    BY <1>0 DEF FrameInv, D
  <2>3. ASSUME NEW i \in 1..(D + 2) PROVE FrameOK(frames', D + 2, i)
    BY <1>1, <1>9, <1>10, <2>1 DEF FrameOK
  <2>4. ASSUME NEW i \in 1..(D + 2), NEW l \in 1..(D + 2) PROVE FramePairOK(frames', i, l)
    BY <1>1, <1>9, <1>10, <2>2 DEF FramePairOK
  <2> QED
    BY <1>7, <2>3, <2>4 DEF FrameInv
<1>22. StatusInv'
  <2>1. status' = "OK"
    BY <1>0, <1>1, <1>8 DEF StatusInv
  <2> QED
    BY <2>1, <1>1, <1>7, <1>9, <1>20 DEF StatusInv, Blocks
<1>23. YieldInv'
  <2>1. \A i \in 1..D : YieldOK(frames, D, i)
    BY <1>0 DEF YieldInv, D
  <2>2. \A i, l \in 1..D : i < l /\ frames[l].ypcall => ~Blocks(frames, i)
    BY <1>0 DEF YieldInv, D
  <2>3. ASSUME NEW i \in 1..(D + 2) PROVE YieldOK(frames', D + 2, i)
    BY <1>1, <1>9, <2>1 DEF YieldOK, Active, SetsJump, Blocks
  <2>4. ASSUME NEW i \in 1..(D + 2), NEW l \in 1..(D + 2), i < l, frames'[l].ypcall
        PROVE  ~Blocks(frames', i)
    <3>1. CASE l <= D
      BY <1>1, <1>9, <2>2, <2>4, <3>1 DEF Blocks
    <3>2. CASE l = D + 1
      BY <1>1, <1>9, <1>13, <2>4, <3>2 DEF Blocks, Blocking
    <3> QED
      BY <1>1, <1>9, <2>4, <3>1, <3>2
  <2> QED
    BY <1>7, <2>3, <2>4 DEF YieldInv
<1>24. NnyInv'
  <2>1. CASE yields
    <3>1. Blocking(frames', D + 2) = Blocking(frames, D)
      BY <1>1, <1>9, <2>1 DEF Blocking, Blocks
    <3> QED
      BY <1>1, <1>7, <1>8, <1>12, <1>20, <2>1, <3>1 DEF NnyInv
  <2>2. CASE ~yields
    <3>1. Blocking(frames', D + 2) = Blocking(frames, D) \cup {D + 1}
      BY <1>1, <1>9, <2>2 DEF Blocking, Blocks
    <3>2. D + 1 \notin Blocking(frames, D)
      BY <1>1 DEF Blocking
    <3>3. Cardinality(Blocking(frames', D + 2)) = Cardinality(Blocking(frames, D)) + 1
      BY <1>1, <3>1, <3>2, BlockingCount
    <3>4. ResetCount \in Nat /\ Len(frames') # 0
      BY <1>1, <1>7, <1>12
    <3> QED
      BY <1>7, <1>8, <1>12, <1>20, <2>2, <3>3, <3>4 DEF NnyInv
  <2> QED
    BY <2>1, <2>2
<1>25. HandlerInv'
  <2>1. ActiveIn(frames', D + 2) = ActiveIn(frames, D) \cup {D + 1}
    BY <1>1, <1>9 DEF ActiveIn, Active
  <2>2. \A i \in ActiveIn(frames, D) : i <= D /\ i <= D + 1
    BY <1>1 DEF ActiveIn
  <2>3. HandlerAt(frames', errfunc', D + 2)
    <3>1. D + 1 \in ActiveIn(frames', D + 2) /\ \A i \in ActiveIn(frames', D + 2) : i <= D + 1
      BY <1>1, <2>1, <2>2
    <3>2. errfunc' = 0 \/ (D + 1 > 0 /\ errfunc' = frames'[D + 1].base)
      BY <1>1, <1>8, <1>9
    <3> QED
      BY <3>1, <3>2 DEF HandlerAt
  <2>4. ASSUME NEW p1 \in 1..(D + 2), Active(frames', p1)
        PROVE  HandlerAt(frames', frames'[p1].old, p1 - 1)
    <3>1. CASE p1 <= D
      <4>1. p1 \in 1..D /\ Active(frames, p1) /\ frames'[p1].old = frames[p1].old
        BY <1>1, <1>9, <2>4, <3>1 DEF Active
      <4>2. HandlerAt(frames, frames[p1].old, p1 - 1)
        BY <1>0, <4>1 DEF HandlerInv, D
      <4>3. ActiveIn(frames', p1 - 1) = ActiveIn(frames, p1 - 1)
        BY <1>1, <1>9, <4>1 DEF ActiveIn, Active
      <4>4. \A i \in ActiveIn(frames, p1 - 1) : frames'[i].base = frames[i].base
        BY <1>1, <1>9, <4>1 DEF ActiveIn
      <4> QED
        BY <4>1, <4>2, <4>3, <4>4, HandlerAtSame
    <3>2. CASE p1 = D + 1
      <4>1. HandlerAt(frames, errfunc, D)
        BY <1>0 DEF HandlerInv, D
      <4>2. ActiveIn(frames', D) = ActiveIn(frames, D)
        BY <1>1, <1>9 DEF ActiveIn, Active
      <4>3. \A i \in ActiveIn(frames, D) : frames'[i].base = frames[i].base
        BY <1>1, <1>9 DEF ActiveIn
      <4>4. p1 - 1 = D /\ frames'[p1].old = errfunc
        BY <1>1, <1>9, <3>2
      <4> QED
        BY <4>1, <4>2, <4>3, <4>4, HandlerAtSame
    <3> QED
      BY <1>1, <1>9, <2>4, <3>1, <3>2 DEF Active
  <2> QED
    BY <1>7, <2>3, <2>4 DEF HandlerInv
<1>26. TbcInv'
  <2>1. tbc' = tbc
    BY <1>8
  <2>2. \A m \in 1..Len(tbc) : /\ tbc[m].of < tbc[m].place /\ tbc[m].place < b
                             /\ tbc[m].of \in Nat /\ tbc[m].place \in Nat
    BY <1>0, <1>2, Typed DEF TbcInv, TbcType
  <2>3. ASSUME NEW m \in 1..Len(tbc), NEW i \in 1..(D + 2)
        PROVE  TbcOK(tbc[m], frames'[i])
    <3>1. CASE i <= D
      <4>1. TbcOK(tbc[m], frames[i])
        BY <1>0, <1>1, <3>1 DEF TbcInv, D
      <4> QED
        BY <1>1, <4>1, <2>2, <1>9, <3>1 DEF TbcOK
    <3>2. CASE i = D + 1
      BY <2>2, <1>9, <1>10, <3>2 DEF TbcOK
    <3>3. CASE i = D + 2
      BY <2>2, <1>9, <1>10, <3>3 DEF TbcOK
    <3> QED
      BY <1>1, <3>1, <3>2, <3>3
  <2>4. ASSUME ~Resetting', NEW m \in 1..Len(tbc) PROVE OwnedIn(frames', D + 2, tbc[m])
    <3>1. ~Resetting
      BY <1>12, <1>18, <1>20, <2>4 DEF Resetting, ResetCount, JmpInv
    <3>2. OwnedIn(frames, D, tbc[m])
      BY <1>0, <3>1 DEF TbcInv, D
    <3> QED
      BY <1>1, <1>9, <3>2 DEF OwnedIn
  <2>5. \A l, m \in 1..Len(tbc) : l < m => tbc[l].place < tbc[m].place
    BY <1>0 DEF TbcInv
  <2> QED
    BY <1>7, <2>1, <2>2, <2>3, <2>4, <2>5 DEF TbcInv
<1> QED
  BY <1>20, <1>21, <1>22, <1>23, <1>24, <1>25, <1>26 DEF IInv

-----------------------------------------------------------------------------
\* A call of Lua or C code begins to return.
LEMMA ReturnInv ==
  ASSUME IInv, Return
  PROVE  IInv'
<1> DEFINE D == Len(frames)
<1>0. /\ TypeOK /\ FrameInv /\ StatusInv /\ YieldInv /\ JmpInv /\ NnyInv
      /\ HandlerInv /\ TbcInv
  BY DEF IInv
<1>1. /\ D \in Nat /\ D > 0 /\ Running /\ frames[D] \in FrameType
      /\ frames[D].doing = "run" /\ frames[D].kind # "pcall"
  BY <1>0, Typed DEF Depth, Top, Return, Executes
<1>2. PICK x : x = [frames[D] EXCEPT !.doing = "ret"]
  OBVIOUS
<1>3. /\ x \in FrameType
      /\ x.kind = frames[D].kind /\ x.base = frames[D].base /\ x.doing = "ret"
      /\ x.act = frames[D].act /\ x.inc = frames[D].inc /\ x.ypcall = frames[D].ypcall
      /\ x.k = frames[D].k /\ x.rec = frames[D].rec /\ x.old = frames[D].old
  BY <1>1, <1>2 DEF FrameType
<1>4. frames' = [frames EXCEPT ![D] = x] /\ frames \in Seq(FrameType)
  BY <1>0, <1>2 DEF Return, Depth, TypeOK
<1>5. /\ frames' \in Seq(FrameType) /\ Len(frames') = D
      /\ \A i \in 1..D : frames'[i] = IF i = D THEN x ELSE frames[i]
  BY <1>1, <1>3, <1>4, ExceptSeq
<1>6. UNCHANGED <<status, tbc, jmps, nny, errfunc, empty>>
  BY DEF Return
<1> HIDE DEF D
<1>7. /\ \A i \in 1..D :
            /\ frames'[i].kind = frames[i].kind /\ frames'[i].base = frames[i].base
            /\ frames'[i].act = frames[i].act /\ frames'[i].inc = frames[i].inc
            /\ frames'[i].ypcall = frames[i].ypcall /\ frames'[i].k = frames[i].k
            /\ frames'[i].rec = frames[i].rec /\ frames'[i].old = frames[i].old
            /\ frames[i].kind = "pcall" => frames'[i].doing = frames[i].doing
            /\ i < D => frames'[i].doing = frames[i].doing
            /\ frames[i].doing = "closing" => frames'[i].doing = "closing"
      /\ frames'[D].doing = "ret"
  BY <1>1, <1>3, <1>5
<1>8. /\ \A i \in 1..D : Active(frames', i) <=> Active(frames, i)
      /\ \A i \in 1..D : SetsJump(frames', i) <=> SetsJump(frames, i)
      /\ \A i \in 1..D : Blocks(frames', i) <=> Blocks(frames, i)
  BY <1>7 DEF Active, SetsJump, Blocks
<1>9. TypeOK' /\ Running'
  BY <1>0, <1>1, <1>5, <1>6 DEF TypeOK, Running
<1>10. FrameInv'
  <2>1. \A i \in 1..D : FrameOK(frames, D, i)
    BY <1>0 DEF FrameInv, D
  <2>2. \A i, l \in 1..D : FramePairOK(frames, i, l)
    BY <1>0 DEF FrameInv, D
  <2>3. ASSUME NEW i \in 1..D PROVE FrameOK(frames', D, i)
    BY <1>1, <1>7, <2>1 DEF FrameOK
  <2>4. ASSUME NEW i \in 1..D, NEW l \in 1..D PROVE FramePairOK(frames', i, l)
    BY <1>1, <1>7, <2>2 DEF FramePairOK
  <2> QED
    BY <1>5, <2>3, <2>4 DEF FrameInv
<1>11. StatusInv'
  <2>1. status = "OK" /\ status' = "OK" /\ ~frames[D].act
    BY <1>0, <1>1, <1>6 DEF StatusInv, D
  <2> QED
    BY <2>1, <1>1, <1>5, <1>7, <1>9 DEF StatusInv, Blocks
<1>12. YieldInv'
  <2>1. \A i \in 1..D : YieldOK(frames, D, i)
    BY <1>0 DEF YieldInv, D
  <2>2. \A i, l \in 1..D : i < l /\ frames[l].ypcall => ~Blocks(frames, i)
    BY <1>0 DEF YieldInv, D
  <2>3. ASSUME NEW i \in 1..D PROVE YieldOK(frames', D, i)
    BY <1>1, <1>7, <2>1 DEF YieldOK, Active, SetsJump, Blocks
  <2> QED
    BY <1>5, <1>7, <1>8, <2>2, <2>3 DEF YieldInv
<1>13. JmpInv'
  <2>1. jmps' = jmps /\ Len(jmps) \in 1..Len(jmps)
    BY <1>0, <1>1, <1>6, Typed DEF Running
  <2>2. \A m \in 2..Len(jmps) : jmps[m].depth \in 1..D /\ SetsJump(frames, jmps[m].depth)
    BY <1>0, <1>1 DEF JmpInv, JmpOK, D
  <2>3. ASSUME NEW m \in 2..Len(jmps)
        PROVE  LET d == jmps[m].depth
               IN  /\ d <= Len(frames') /\ frames'[d].doing = frames[d].doing
                   /\ SetsJump(frames', d)
                   /\ \A i \in 1..(d - 1) : Blocks(frames', i) <=> Blocks(frames, i)
    <3>1. PICK d \in 1..D : d = jmps[m].depth /\ SetsJump(frames, d)
      BY <2>2
    <3>2. d <= Len(frames') /\ frames'[d].doing = frames[d].doing /\ SetsJump(frames', d)
      BY <1>1, <1>5, <1>7, <1>8, <3>1 DEF SetsJump, Active
    <3>3. \A i \in 1..(d - 1) : Blocks(frames', i) <=> Blocks(frames, i)
      BY <1>1, <1>8, <3>1
    <3> QED
      BY <3>1, <3>2, <3>3
  <2>4. \A i \in 1..Len(frames') : SetsJump(frames', i) => \E m \in 2..Len(jmps) : jmps[m].depth = i
    BY <1>0, <1>1, <1>5, <1>8 DEF JmpInv, D
  <2>5. jmps[1].what = "close" => \A i \in 1..Len(frames') : ~frames'[i].ypcall
    BY <1>0, <1>1, <1>5, <1>7 DEF JmpInv, D
  <2> QED
    BY <1>0, <1>1, <1>5, <2>1, <2>3, <2>4, <2>5, JmpShrunk
<1>14. NnyInv'
  <2>1. Blocking(frames', D) = Blocking(frames, D)
    BY <1>8 DEF Blocking
  <2> QED
    BY <2>1, <1>0, <1>1, <1>5, <1>6 DEF NnyInv, ResetCount, D
<1>15. HandlerInv'
  <2>1. ASSUME NEW n \in 0..D, NEW h, HandlerAt(frames, h, n) PROVE HandlerAt(frames', h, n)
    <3>1. ActiveIn(frames', n) = ActiveIn(frames, n)
      BY <1>1, <1>8 DEF ActiveIn
    <3>2. \A i \in ActiveIn(frames, n) : frames'[i].base = frames[i].base
      BY <1>1, <1>7 DEF ActiveIn
    <3> QED
      BY <2>1, <3>1, <3>2, HandlerAtSame
  <2>2. HandlerAt(frames', errfunc', D)
    BY <1>0, <1>1, <1>6, <2>1 DEF HandlerInv, D
  <2>3. ASSUME NEW p \in 1..D, Active(frames', p)
        PROVE  HandlerAt(frames', frames'[p].old, p - 1)
    <3>1. HandlerAt(frames, frames[p].old, p - 1) /\ p - 1 \in 0..D
      BY <1>0, <1>1, <1>8, <2>3 DEF HandlerInv, D
    <3> QED
      BY <3>1, <1>7, <2>1
  <2> QED
    BY <1>5, <2>2, <2>3 DEF HandlerInv
<1>16. TbcInv'
  <2>1. \A m \in 1..Len(tbc), i \in 1..D : TbcOK(tbc[m], frames'[i])
    <3>1. \A m \in 1..Len(tbc), i \in 1..D : TbcOK(tbc[m], frames[i])
      BY <1>0 DEF TbcInv, D
    <3> QED
      BY <3>1, <1>7 DEF TbcOK
  <2>2. ASSUME ~Resetting', NEW m \in 1..Len(tbc) PROVE OwnedIn(frames', D, tbc[m])
    <3>1. OwnedIn(frames, D, tbc[m])
      BY <1>0, <1>1, <1>6, <1>9, <2>2 DEF TbcInv, Resetting, D
    <3> QED
      BY <3>1, <1>7 DEF OwnedIn
  <2> QED
    BY <1>0, <1>5, <1>6, <2>1, <2>2 DEF TbcInv
<1> QED
  BY <1>9, <1>10, <1>11, <1>12, <1>13, <1>14, <1>15, <1>16 DEF IInv

\* A new to-be-closed variable of the call on top.
LEMMA NewTbcInv ==
  ASSUME IInv, NewTbc
  PROVE  IInv'
<1> DEFINE D == Len(frames)
<1>0. /\ TypeOK /\ FrameInv /\ StatusInv /\ YieldInv /\ JmpInv /\ NnyInv
      /\ HandlerInv /\ TbcInv
  BY DEF IInv
<1>1. /\ D \in Nat /\ D > 0 /\ Running /\ frames[D] \in FrameType /\ Top = frames[D]
      /\ frames[D].doing = "run" /\ frames[D].kind # "pcall" /\ Depth = D
  BY <1>0, Typed DEF Depth, Top, NewTbc, Executes
<1>2. PICK b \in Nat : /\ b > frames[D].base /\ b = Place(Depth, tbc)
                      /\ \A m \in 1..Len(tbc) : b > tbc[m].place
  <2>1. Depth \in 0..Depth /\ Depth > 0 /\ tbc \in Seq(TbcType)
    BY <1>0, <1>1 DEF TypeOK
  <2>2. \A l, m \in 1..Len(tbc) : l < m => tbc[l].place < tbc[m].place
    BY <1>0 DEF TbcInv
  <2> QED
    BY <1>0, <1>1, <2>1, <2>2, PlaceAbove
<1>3. PICK v : v = [place |-> b, of |-> frames[D].base]
  OBVIOUS
<1>4. v \in TbcType /\ v.place = b /\ v.of = frames[D].base /\ frames[D].base \in Nat
  BY <1>1, <1>3 DEF TbcType, FrameType
<1>5. tbc' = Append(tbc, v) /\ UNCHANGED <<status, frames, jmps, nny, errfunc, empty>>
  BY <1>1, <1>2, <1>3 DEF NewTbc
<1>6. /\ tbc' \in Seq(TbcType) /\ Len(tbc') = Len(tbc) + 1 /\ Len(tbc) \in Nat
      /\ \A m \in 1..Len(tbc) : tbc'[m] = tbc[m] /\ tbc[m] \in TbcType
      /\ tbc'[Len(tbc) + 1] = v
  <2>1. tbc \in Seq(TbcType) /\ Len(tbc) \in Nat /\ \A m \in 1..Len(tbc) : tbc[m] \in TbcType
    BY <1>0, Typed DEF TypeOK
  <2> QED
    BY <2>1, <1>4, <1>5, AppendProperties
<1> HIDE DEF D
<1>7. TypeOK'
  BY <1>0, <1>5, <1>6 DEF TypeOK
<1>8. FrameInv' /\ YieldInv' /\ HandlerInv'
  BY <1>0, <1>5 DEF FrameInv, YieldInv, HandlerInv
<1>9. StatusInv' /\ JmpInv' /\ NnyInv'
  BY <1>0, <1>5 DEF StatusInv, JmpInv, NnyInv, ResetCount, Running
<1>10. TbcInv'
  <2>1. \A m \in 1..Len(tbc) : tbc[m].place \in Nat /\ tbc[m].of \in Nat
    BY <1>6 DEF TbcType
  <2>2. ASSUME NEW l \in 1..Len(tbc'), NEW m \in 1..Len(tbc'), l < m
        PROVE  tbc'[l].place < tbc'[m].place
    <3>1. l \in 1..Len(tbc) /\ (m \in 1..Len(tbc) \/ m = Len(tbc) + 1)
      BY <1>6, <2>2
    <3>2. CASE m \in 1..Len(tbc)
      BY <1>0, <1>6, <2>2, <3>1, <3>2 DEF TbcInv
    <3>3. CASE m = Len(tbc) + 1
      BY <1>2, <1>4, <1>6, <3>1, <3>3
    <3> QED
      BY <3>1, <3>2, <3>3
  <2>3. \A m \in 1..Len(tbc') : tbc'[m].of < tbc'[m].place
    BY <1>0, <1>2, <1>4, <1>6, <2>1 DEF TbcInv
  <2>4. ASSUME NEW m \in 1..Len(tbc'), NEW i \in 1..D PROVE TbcOK(tbc'[m], frames[i])
    <3>1. CASE m <= Len(tbc)
      BY <1>0, <1>6, <3>1 DEF TbcInv, D
    <3>2. CASE m = Len(tbc) + 1
      <4>1. /\ frames[i].base \in Nat /\ frames[i].base <= frames[D].base
            /\ frames[i].kind = "pcall" => frames[i].base < frames[D].base
            /\ frames[i].kind = "pcall" => frames[i].doing # "ret"
        <5>1. frames[i].base \in Nat
          BY <1>0, Typed DEF D, FrameType
        <5>2. FramePairOK(frames, i, D) /\ FrameOK(frames, D, i)
          BY <1>0, <1>1 DEF FrameInv, D
        <5> QED
          BY <1>1, <1>4, <5>1, <5>2 DEF FramePairOK, FrameOK
      <4> QED
        BY <1>2, <1>4, <1>6, <3>2, <4>1 DEF TbcOK
    <3> QED
      BY <1>6, <3>1, <3>2
  <2>5. ASSUME ~Resetting', NEW m \in 1..Len(tbc') PROVE OwnedIn(frames, D, tbc'[m])
    <3>1. CASE m <= Len(tbc)
      <4>1. ~Resetting
        BY <1>5, <2>5 DEF Resetting, Running
      <4> QED
        BY <1>0, <1>6, <3>1, <4>1 DEF TbcInv, D
    <3>2. CASE m = Len(tbc) + 1
      BY <1>1, <1>4, <1>6, <3>2 DEF OwnedIn
    <3> QED
      BY <1>6, <3>1, <3>2
  <2> QED
    BY <1>5, <2>2, <2>3, <2>4, <2>5 DEF TbcInv, D
<1> QED
  BY <1>7, <1>8, <1>9, <1>10 DEF IInv

\* A jump is left.
LEMMA PopJmpFacts ==
  ASSUME TypeOK, Running
  PROVE  /\ PopJmp \in Seq(JmpType) /\ Len(PopJmp) = Len(jmps) - 1
         /\ \A m \in 1..(Len(jmps) - 1) : PopJmp[m] = jmps[m]
<1>1. Len(jmps) - 1 \in 0..Len(jmps) /\ jmps \in Seq(JmpType)
  BY Typed DEF TypeOK, Running
<1> QED
  BY <1>1, FrontSeq DEF PopJmp

\* What becomes of the frame that made the call which returns.
LEMMA CallerGoesOn ==
  ASSUME NEW c \in FrameType, c.doing # "run",
         c.kind = "pcall" => c.doing # "ret",
         c.doing = "closing" => c.kind = "pcall",
         c.ypcall => c.kind = "pcall" /\ (c.rec = "ERROR" <=> c.doing = "closing"),
         c.kind = "pcall" /\ ~c.act => c.ypcall,
         NEW d, d = IF c.act THEN BackToC(c) ELSE Unroll(c)
  PROVE  /\ d \in FrameType /\ ~d.act
         /\ d.kind = c.kind /\ d.base = c.base /\ d.k = c.k /\ d.rec = c.rec /\ d.old = c.old
         /\ d.doing = IF c.doing # "call" THEN c.doing
                      ELSE IF c.kind = "pcall" THEN "ret" ELSE "run"
         /\ d.ypcall <=> c.ypcall /\ c.doing # "call"
         /\ Leaves(d) <=> c.kind = "pcall" /\ c.doing = "call"
<1> USE DEF FrameType
<1>1. CASE c.kind = "pcall" /\ c.doing = "call"
  <2>1. d = [c EXCEPT !.doing = "ret", !.act = FALSE, !.ypcall = FALSE]
    BY <1>1 DEF BackToC, Unroll, Succeeds
  <2> QED
    BY <1>1, <2>1 DEF Leaves
<1>2. CASE c.kind = "pcall" /\ c.doing = "closing"
  <2>1. CASE c.act
    <3>1. d = [c EXCEPT !.act = FALSE, !.doing = "closing"]
      BY <1>2, <2>1 DEF BackToC
    <3> QED
      BY <1>2, <3>1 DEF Leaves
  <2>2. CASE ~c.act
    <3>1. d = [c EXCEPT !.doing = "closing"]
      BY <1>2, <2>2 DEF Unroll
    <3> QED
      BY <1>2, <2>2, <3>1 DEF Leaves
  <2> QED
    BY <2>1, <2>2
<1>3. CASE c.kind # "pcall"
  <2>1. CASE c.act
    <3>1. d = [c EXCEPT !.act = FALSE, !.doing = IF c.doing = "call" THEN "run" ELSE c.doing]
      BY <1>3, <2>1 DEF BackToC
    <3> QED
      BY <1>3, <3>1 DEF Leaves
  <2>2. CASE ~c.act
    <3>1. d = [c EXCEPT !.doing = IF c.doing = "call" THEN "run" ELSE c.doing]
      BY <1>3, <2>2 DEF Unroll
    <3> QED
      BY <1>3, <2>2, <3>1 DEF Leaves
  <2> QED
    BY <2>1, <2>2
<1> QED
  BY <1>1, <1>2, <1>3

\* The last jump is that of the innermost call that set one; the first one is
\* that of lua_resume or luaE_resetthread.
LEMMA LastJumpIs ==
  ASSUME TypeOK, JmpInv, Running, NEW e \in 1..Len(frames), SetsJump(frames, e),
         \A i \in 1..Len(frames) : i > e => ~SetsJump(frames, i)
  PROVE  /\ Len(jmps) \in Nat /\ Len(jmps) > 1 /\ LastJmp.depth = e
         /\ \A l \in 1..(Len(jmps) - 1) : jmps[l].depth < e
         /\ \A i \in 1..Len(frames) : SetsJump(frames, i) /\ i # e =>
               \E m \in 2..(Len(jmps) - 1) : jmps[m].depth = i
<1>1. /\ Len(jmps) \in Nat /\ Len(jmps) > 0 /\ Len(frames) \in Nat
      /\ \A m \in 2..Len(jmps) : jmps[m].depth \in 1..Len(frames) /\ SetsJump(frames, jmps[m].depth)
      /\ \A i \in 1..Len(frames) : SetsJump(frames, i) => \E m \in 2..Len(jmps) : jmps[m].depth = i
      /\ \A l, m \in 1..Len(jmps) : l < m => jmps[l].depth < jmps[m].depth
  BY Typed DEF Running, JmpInv, JmpOK
<1>2. PICK m \in 2..Len(jmps) : jmps[m].depth = e
  BY <1>1
<1>3. m = Len(jmps)
  <2>1. CASE m < Len(jmps)
    <3>1. Len(jmps) \in 2..Len(jmps) /\ Len(jmps) \in 1..Len(jmps) /\ m \in 1..Len(jmps)
      BY <1>1, <1>2
    <3>2. jmps[Len(jmps)].depth \in 1..Len(frames) /\ e < jmps[Len(jmps)].depth
      BY <1>1, <1>2, <2>1, <3>1
    <3>3. SetsJump(frames, jmps[Len(jmps)].depth)
      BY <1>1, <3>1
    <3> QED
      BY <3>2, <3>3
  <2> QED
    BY <1>1, <1>2, <2>1
<1>4. \A l \in 1..(Len(jmps) - 1) : jmps[l].depth < e
  BY <1>1, <1>2, <1>3
<1>5. ASSUME NEW i \in 1..Len(frames), SetsJump(frames, i), i # e
      PROVE  \E l \in 2..(Len(jmps) - 1) : jmps[l].depth = i
  <2>1. PICK l \in 2..Len(jmps) : jmps[l].depth = i
    BY <1>1, <1>5
  <2>2. l # m
    BY <1>2, <1>5, <2>1
  <2> QED
    BY <1>1, <1>3, <2>1, <2>2
<1> QED
  BY <1>1, <1>2, <1>3, <1>4, <1>5 DEF LastJmp

\* The frame on top has ended and the one below goes on.
LEMMA PosCallInv ==
  ASSUME IInv, PosCall
  PROVE  IInv'
<1> DEFINE D == Len(frames)
           E == D - 1
<1>0. /\ TypeOK /\ FrameInv /\ StatusInv /\ YieldInv /\ JmpInv /\ NnyInv
      /\ HandlerInv /\ TbcInv
  BY DEF IInv
<1>1. /\ D \in Nat /\ E \in Nat /\ E > 0 /\ D = E + 1 /\ Running /\ Depth = D
      /\ frames[D].doing = "ret" /\ Pending(frames[D].base) = {}
      /\ frames[E] \in FrameType /\ frames[D] \in FrameType
      /\ D > 0 /\ E < D
  BY <1>0, Typed DEF Depth, Top, PosCall
<1>2. PICK c : c = frames[E]
  OBVIOUS
<1>3. PICK d : d = IF c.act THEN BackToC(c) ELSE Unroll(c)
  OBVIOUS
<1>4. /\ frames' = Append(SubSeq(frames, 1, E - 1), d)
      /\ nny' = nny - (IF c.act THEN c.inc ELSE 0)
      /\ errfunc' = IF Leaves(d) THEN d.old ELSE errfunc
      /\ jmps' = IF Leaves(d) /\ ~c.ypcall THEN PopJmp ELSE jmps
      /\ UNCHANGED <<status, tbc, empty>>
  <2>1. D - 2 = E - 1
    BY <1>1
  <2> QED
    BY <2>1, <1>1, <1>2, <1>3 DEF PosCall, Below
<1> HIDE DEF D, E
<1>5. /\ \A i \in 1..D : FrameOK(frames, D, i) /\ YieldOK(frames, D, i)
      /\ \A i, l \in 1..D : FramePairOK(frames, i, l)
      /\ \A i, l \in 1..D : i < l /\ frames[l].ypcall => ~Blocks(frames, i)
  BY <1>0 DEF FrameInv, YieldInv, D
<1>6. /\ c \in FrameType /\ c.doing # "run"
      /\ c.kind = "pcall" => c.doing # "ret"
      /\ c.doing = "closing" => c.kind = "pcall"
      /\ c.ypcall => c.kind = "pcall" /\ (c.rec = "ERROR" <=> c.doing = "closing")
      /\ c.kind = "pcall" /\ ~c.act => c.ypcall
  <2>1. FrameOK(frames, D, E) /\ YieldOK(frames, D, E)
    BY <1>1, <1>5
  <2> QED
    BY <2>1, <1>1, <1>2 DEF FrameOK, YieldOK, SetsJump, Active, Blocks
<1>7. /\ d \in FrameType /\ ~d.act
      /\ d.kind = c.kind /\ d.base = c.base /\ d.k = c.k /\ d.rec = c.rec /\ d.old = c.old
      /\ d.doing = IF c.doing # "call" THEN c.doing
                   ELSE IF c.kind = "pcall" THEN "ret" ELSE "run"
      /\ d.ypcall <=> c.ypcall /\ c.doing # "call"
      /\ Leaves(d) <=> c.kind = "pcall" /\ c.doing = "call"
  BY <1>3, <1>6, CallerGoesOn
<1>8. /\ frames' \in Seq(FrameType) /\ Len(frames') = E /\ frames'[E] = d
      /\ \A i \in 1..(E - 1) : frames'[i] = frames[i]
  <2>1. frames \in Seq(FrameType) /\ E \in 1..Len(frames)
    BY <1>0, <1>1 DEF TypeOK, D
  <2> QED
    BY <2>1, <1>4, <1>7, ReplaceTopSeq
<1>9. ~Active(frames, D) /\ ~Blocks(frames, D)
  BY <1>0, <1>1 DEF Active, Blocks, StatusInv, D
<1>10. /\ Len(jmps) \in Nat /\ Len(jmps) > 0
       /\ \A m \in 2..Len(jmps) : jmps[m].depth \in 1..E /\ SetsJump(frames, jmps[m].depth)
       /\ \A i \in 1..D : SetsJump(frames, i) => \E m \in 2..Len(jmps) : jmps[m].depth = i
       /\ \A l, m \in 1..Len(jmps) : l < m => jmps[l].depth < jmps[m].depth
       /\ jmps[1].what = "close" => \A i \in 1..D : ~frames[i].ypcall
       /\ jmps[1].depth = 0
  <2>1. \A m \in 2..Len(jmps) : jmps[m].depth \in 1..D /\ SetsJump(frames, jmps[m].depth)
    BY <1>0, <1>1 DEF JmpInv, JmpOK, D
  <2>2. \A m \in 2..Len(jmps) : jmps[m].depth # D
    BY <2>1, <1>9 DEF SetsJump
  <2>3. Len(jmps) \in Nat /\ Len(jmps) > 0
    BY <1>0, <1>1, Typed DEF Running
  <2> QED
    BY <1>0, <1>1, <2>1, <2>2, <2>3 DEF JmpInv, D
<1> DEFINE Done == c.kind = "pcall" /\ c.doing = "call"
<1>11. /\ \A i \in 1..(E - 1) :
             /\ Active(frames', i) <=> Active(frames, i)
             /\ SetsJump(frames', i) <=> SetsJump(frames, i)
             /\ Blocks(frames', i) <=> Blocks(frames, i)
       /\ Active(frames', E) <=> Active(frames, E) /\ ~Done
       /\ SetsJump(frames', E) <=> SetsJump(frames, E) /\ ~Done
       /\ ~Blocks(frames', E)
       /\ Blocks(frames, E) <=> c.act /\ c.inc = 1
       /\ SetsJump(frames, E) <=> c.kind = "pcall" /\ ~c.ypcall
       /\ \A i \in 1..E :
             /\ frames'[i].base = frames[i].base /\ frames'[i].kind = frames[i].kind
             /\ frames'[i].old = frames[i].old
  BY <1>1, <1>2, <1>6, <1>7, <1>8 DEF Active, SetsJump, Blocks
<1>12. /\ Len(jmps') \in 1..Len(jmps) /\ \A m \in 1..Len(jmps') : jmps'[m] = jmps[m]
       /\ jmps' \in Seq(JmpType)
       /\ \A m \in 2..Len(jmps') : jmps[m].depth < E \/ ~Done
       /\ \A i \in 1..E : SetsJump(frames', i) => \E m \in 2..Len(jmps') : jmps[m].depth = i
  <2>1. CASE Done /\ ~c.ypcall
    <3>1. SetsJump(frames, E)
      BY <1>11, <2>1
    <3>2. E \in 1..Len(frames) /\ \A i \in 1..Len(frames) : i > E => ~SetsJump(frames, i)
      BY <1>1, <1>9 DEF SetsJump, D
    <3>3. /\ Len(jmps) > 1 /\ \A l \in 1..(Len(jmps) - 1) : jmps[l].depth < E
          /\ \A i \in 1..D : SetsJump(frames, i) /\ i # E =>
                \E m \in 2..(Len(jmps) - 1) : jmps[m].depth = i
      BY <1>0, <1>1, <3>1, <3>2, LastJumpIs DEF D
    <3>4. jmps' = PopJmp
      BY <1>4, <1>7, <2>1
    <3>5. /\ jmps' \in Seq(JmpType) /\ Len(jmps') = Len(jmps) - 1
          /\ \A l \in 1..(Len(jmps) - 1) : jmps'[l] = jmps[l]
      BY <1>0, <1>1, <3>4, PopJmpFacts
    <3>6. ASSUME NEW i \in 1..E, SetsJump(frames', i)
          PROVE  \E l \in 2..Len(jmps') : jmps[l].depth = i
      <4>1. i # E /\ SetsJump(frames, i) /\ i \in 1..D
        BY <1>1, <1>11, <2>1, <3>6
      <4> QED
        BY <3>3, <3>5, <4>1
    <3> QED
      BY <1>10, <3>3, <3>5, <3>6
  <2>2. CASE ~(Done /\ ~c.ypcall)
    <3>1. jmps' = jmps /\ jmps \in Seq(JmpType)
      BY <1>0, <1>4, <1>7, <2>2 DEF TypeOK
    <3>2. \A m \in 2..Len(jmps) : jmps[m].depth < E \/ ~Done
      BY <1>1, <1>10, <1>11, <2>2
    <3>3. \A i \in 1..E : SetsJump(frames', i) => SetsJump(frames, i) /\ i \in 1..D
      BY <1>1, <1>11
    <3> QED
      BY <1>10, <3>1, <3>2, <3>3
  <2> QED
    BY <2>1, <2>2
<1>13. Running'
  <2>1. Len(jmps') > 0
    BY <1>10, <1>12
  <2> QED
    BY <2>1, EmptySeq DEF Running
<1>14. nny \in Nat /\ nny' \in Nat /\ NnyInv'
  <2>1. nny \in Nat /\ nny = Cardinality(Blocking(frames, D)) + ResetCount
        /\ ResetCount \in 0..1
    BY <1>0, <1>1 DEF NnyInv, TypeOK, ResetCount, D
  <2>2. ResetCount' = ResetCount
    BY <1>10, <1>12 DEF ResetCount
  <2>3. CASE Blocks(frames, E)
    <3>1. Blocking(frames', E) = Blocking(frames, D) \ {E} /\ E \in Blocking(frames, D)
      BY <1>1, <1>9, <1>11, <2>3 DEF Blocking
    <3>2. /\ Cardinality(Blocking(frames', E)) = Cardinality(Blocking(frames, D)) - 1
          /\ Cardinality(Blocking(frames', E)) \in Nat
          /\ Cardinality(Blocking(frames, D)) \in Nat
      BY <1>1, <3>1, BlockingCount
    <3>3. nny' = nny - 1
      BY <1>4, <1>11, <2>3
    <3> QED
      BY <1>1, <1>8, <2>1, <2>2, <3>2, <3>3 DEF NnyInv
  <2>4. CASE ~Blocks(frames, E)
    <3>1. Blocking(frames', E) = Blocking(frames, D)
      BY <1>1, <1>9, <1>11, <2>4 DEF Blocking
    <3>2. nny' = nny
      BY <1>4, <1>6, <1>11, <2>1, <2>4 DEF FrameType
    <3> QED
      BY <1>1, <1>8, <2>1, <2>2, <3>1, <3>2 DEF NnyInv
  <2> QED
    BY <2>3, <2>4
<1>15. TypeOK'
  <2>1. errfunc' \in Nat
    BY <1>0, <1>4, <1>7 DEF TypeOK, FrameType
  <2> QED
    BY <2>1, <1>0, <1>4, <1>8, <1>12, <1>14 DEF TypeOK
<1>16. FrameInv'
  <2>1. ASSUME NEW i \in 1..E PROVE FrameOK(frames', E, i)
    <3>1. FrameOK(frames, D, i)
      BY <1>1, <1>5
    <3> QED
      BY <3>1, <1>1, <1>2, <1>6, <1>7, <1>8 DEF FrameOK
  <2>2. ASSUME NEW i \in 1..E, NEW l \in 1..E PROVE FramePairOK(frames', i, l)
    <3>1. FramePairOK(frames, i, l)
      BY <1>1, <1>5
    <3> QED
      BY <3>1, <1>1, <1>8, <1>11 DEF FramePairOK
  <2> QED
    BY <1>8, <2>1, <2>2 DEF FrameInv
<1>17. StatusInv'
  <2>1. status' = "OK"
    BY <1>0, <1>1, <1>4 DEF StatusInv
  <2>2. d.doing # "call"
    BY <1>7
  <2> QED
    BY <2>1, <2>2, <1>1, <1>7, <1>8, <1>11, <1>13 DEF StatusInv
<1>18. YieldInv'
  <2>1. ASSUME NEW i \in 1..E PROVE YieldOK(frames', E, i)
    <3>1. YieldOK(frames, D, i)
      BY <1>1, <1>5
    <3>2. CASE i < E
      BY <3>1, <3>2, <1>1, <1>8 DEF YieldOK, SetsJump, Active, Blocks
    <3>3. CASE i = E
      BY <3>1, <3>3, <1>1, <1>2, <1>6, <1>7, <1>8 DEF YieldOK, Active
    <3> QED
      BY <1>1, <3>2, <3>3
  <2>2. ASSUME NEW i \in 1..E, NEW l \in 1..E, i < l, frames'[l].ypcall
        PROVE  ~Blocks(frames', i)
    <3>1. frames[l].ypcall
      BY <1>1, <1>2, <1>7, <1>8, <2>2
    <3>2. ~Blocks(frames, i)
      BY <1>1, <1>5, <2>2, <3>1
    <3> QED
      BY <3>2, <1>1, <1>11, <2>2
  <2> QED
    BY <1>8, <2>1, <2>2 DEF YieldInv
<1>19. JmpInv'
  <2>1. ASSUME NEW m \in 2..Len(jmps')
        PROVE  LET l == jmps[m].depth
               IN  /\ l <= Len(frames') /\ frames'[l].doing = frames[l].doing
                   /\ SetsJump(frames', l)
                   /\ \A i \in 1..(l - 1) : Blocks(frames', i) <=> Blocks(frames, i)
    <3>1. PICK l \in 1..E : l = jmps[m].depth /\ SetsJump(frames, l) /\ (l < E \/ ~Done)
      BY <1>10, <1>12
    <3>2. l <= E /\ frames'[l].doing = frames[l].doing /\ SetsJump(frames', l)
      <4>1. CASE l < E
        BY <1>1, <1>8, <1>11, <3>1, <4>1
      <4>2. CASE l = E
        BY <1>1, <1>2, <1>7, <1>8, <1>11, <3>1, <4>2
      <4> QED
        BY <1>1, <4>1, <4>2
    <3>3. \A i \in 1..(l - 1) : Blocks(frames', i) <=> Blocks(frames, i)
      BY <1>1, <1>11, <3>1
    <3> QED
      BY <1>8, <3>1, <3>2, <3>3
  <2>2. jmps[1].what = "close" => \A i \in 1..Len(frames') : ~frames'[i].ypcall
    BY <1>1, <1>2, <1>7, <1>8, <1>10
  <2> QED
    BY <1>0, <1>1, <1>8, <1>12, <2>1, <2>2, JmpShrunk
<1>20. HandlerInv'
  <2>1. ASSUME NEW n \in 0..(E - 1), NEW h, HandlerAt(frames, h, n) PROVE HandlerAt(frames', h, n)
    <3>1. ActiveIn(frames', n) = ActiveIn(frames, n)
      BY <1>1, <1>11 DEF ActiveIn
    <3>2. \A i \in ActiveIn(frames, n) : frames'[i].base = frames[i].base
      BY <1>1, <1>11 DEF ActiveIn
    <3> QED
      BY <2>1, <3>1, <3>2, HandlerAtSame
  <2>2. HandlerAt(frames', errfunc', E)
    <3>1. CASE Done
      <4>1. HandlerAt(frames, c.old, E - 1)
        BY <1>0, <1>1, <1>2, <3>1 DEF HandlerInv, Active, D
      <4>2. ActiveIn(frames', E) = ActiveIn(frames, E - 1)
        BY <1>1, <1>11, <3>1 DEF ActiveIn
      <4>3. \A i \in ActiveIn(frames, E - 1) : frames'[i].base = frames[i].base
        BY <1>1, <1>11 DEF ActiveIn
      <4>4. errfunc' = c.old
        BY <1>4, <1>7, <3>1
      <4> QED
        BY <4>1, <4>2, <4>3, <4>4, HandlerAtSame
    <3>2. CASE ~Done
      <4>1. HandlerAt(frames, errfunc, D)
        BY <1>0 DEF HandlerInv, D
      <4>2. ActiveIn(frames', E) = ActiveIn(frames, D)
        BY <1>1, <1>9, <1>11, <3>2 DEF ActiveIn
      <4>3. \A i \in ActiveIn(frames, D) : frames'[i].base = frames[i].base
        BY <1>1, <1>9, <1>11 DEF ActiveIn
      <4>4. errfunc' = errfunc
        BY <1>4, <1>7, <3>2
      <4> QED
        BY <4>1, <4>2, <4>3, <4>4, HandlerAtSame
    <3> QED
      BY <3>1, <3>2
  <2>3. ASSUME NEW p \in 1..E, Active(frames', p)
        PROVE  HandlerAt(frames', frames'[p].old, p - 1)
    <3>1. Active(frames, p) /\ p \in 1..D /\ p - 1 \in 0..(E - 1)
      BY <1>1, <1>11, <2>3
    <3>2. HandlerAt(frames, frames[p].old, p - 1)
      BY <1>0, <3>1 DEF HandlerInv, D
    <3> QED
      BY <1>11, <2>1, <3>1, <3>2
  <2> QED
    BY <1>8, <2>2, <2>3 DEF HandlerInv
<1>21. TbcInv'
  <2>1. \A m \in 1..Len(tbc) : /\ tbc[m].place \in Nat /\ tbc[m].of \in Nat
                             /\ tbc[m].of < tbc[m].place
    BY <1>0, Typed DEF TbcInv, TbcType
  <2>2. \A m \in 1..Len(tbc), i \in 1..D : TbcOK(tbc[m], frames[i])
    BY <1>0 DEF TbcInv, D
  <2>3. \A i \in 1..D : frames[i].base \in Nat
    BY <1>0, Typed DEF FrameType, D
  <2>4. \A m \in 1..Len(tbc) : ~(tbc[m].place > frames[D].base)
    <3>1. tbc \in Seq(TbcType)
      BY <1>0 DEF TypeOK
    <3> QED
      BY <1>1, <3>1, LenProperties DEF Pending
  <2>5. \A m \in 1..Len(tbc) : tbc[m].of < frames[D].base
    <3>1. ASSUME NEW m \in 1..Len(tbc) PROVE tbc[m].of < frames[D].base
      <4>1. TbcOK(tbc[m], frames[D])
        BY <1>1, <2>2
      <4> QED
        BY <1>1, <2>1, <2>3, <2>4, <4>1 DEF TbcOK
    <3> QED
      BY <3>1
  <2>6. ASSUME NEW m \in 1..Len(tbc), NEW i \in 1..E
        PROVE  TbcOK(tbc[m], frames'[i])
    <3>1. TbcOK(tbc[m], frames[i])
      BY <1>1, <2>2
    <3>2. CASE i = E /\ Done
      <4>1. FramePairOK(frames, E, D)
        BY <1>1, <1>5
      <4>2. frames[D].base = c.base + 1 /\ c.base \in Nat
        BY <1>1, <1>2, <2>3, <3>2, <4>1 DEF FramePairOK
      <4>3. tbc[m].of < c.base
        BY <1>2, <2>1, <2>5, <3>1, <3>2, <4>2 DEF TbcOK
      <4> QED
        BY <1>2, <1>7, <1>8, <2>1, <3>1, <3>2, <4>2, <4>3 DEF TbcOK
    <3>3. CASE i = E /\ ~Done
      BY <1>2, <1>7, <1>8, <3>1, <3>3 DEF TbcOK
    <3>4. CASE i # E
      <4>1. frames'[i] = frames[i]
        BY <1>1, <1>8, <3>4
      <4> QED
        BY <3>1, <4>1
    <3> QED
      BY <3>2, <3>3, <3>4
  <2>7. ASSUME ~Resetting', NEW m \in 1..Len(tbc) PROVE OwnedIn(frames', E, tbc[m])
    <3>1. ~Resetting
      BY <1>10, <1>12, <1>13, <2>7 DEF Resetting
    <3>2. PICK i \in 1..D : frames[i].base = tbc[m].of
                            \/ (frames[i].doing = "closing" /\ frames[i].base < tbc[m].of)
      <4>1. OwnedIn(frames, D, tbc[m])
        BY <1>0, <3>1 DEF TbcInv, D
      <4> QED
        BY <4>1 DEF OwnedIn
    <3>3. i # D
      BY <1>1, <2>1, <2>3, <2>5, <3>2
    <3>4. i \in 1..E /\ frames'[i].base = frames[i].base
      BY <1>1, <1>11, <3>3
    <3>5. frames[i].doing = "closing" => frames'[i].doing = "closing"
      BY <1>1, <1>2, <1>7, <1>8, <3>4
    <3> QED
      BY <3>2, <3>4, <3>5 DEF OwnedIn
  <2> QED
    BY <1>0, <1>4, <1>8, <2>6, <2>7 DEF TbcInv
<1> QED
  BY <1>14, <1>15, <1>16, <1>17, <1>18, <1>19, <1>20, <1>21 DEF IInv

\* A pcall returns the error that it has recovered from.
LEMMA PcallFailsInv ==
  ASSUME IInv, PcallFails
  PROVE  IInv'
<1> DEFINE D == Len(frames)
<1>0. /\ TypeOK /\ FrameInv /\ StatusInv /\ YieldInv /\ JmpInv /\ NnyInv
      /\ HandlerInv /\ TbcInv
  BY DEF IInv
<1>1. /\ D \in Nat /\ D > 0 /\ Running /\ Depth = D /\ Top = frames[D]
      /\ frames[D].doing = "closing" /\ Pending(frames[D].base) = {}
      /\ frames[D] \in FrameType
  BY <1>0, Typed DEF Depth, Top, PcallFails
<1>2. PICK c : c = frames[D]
  OBVIOUS
<1>3. PICK x : x = [c EXCEPT !.doing = "ret", !.act = FALSE, !.ypcall = FALSE, !.rec = "OK"]
  OBVIOUS
<1>4. /\ frames' = [frames EXCEPT ![D] = x]
      /\ errfunc' = c.old
      /\ jmps' = IF c.ypcall THEN jmps ELSE PopJmp
      /\ UNCHANGED <<status, tbc, nny, empty>>
  <2>1. [Succeeds(c) EXCEPT !.rec = "OK"] = x
    BY <1>1, <1>2, <1>3 DEF Succeeds, FrameType
  <2> QED
    BY <2>1, <1>1, <1>2 DEF PcallFails
<1>5. /\ x \in FrameType /\ x.kind = c.kind /\ x.base = c.base /\ x.doing = "ret"
      /\ ~x.act /\ ~x.ypcall /\ x.old = c.old /\ c \in FrameType
  BY <1>1, <1>2, <1>3 DEF FrameType
<1>6. /\ frames' \in Seq(FrameType) /\ Len(frames') = D
      /\ \A i \in 1..D : frames'[i] = IF i = D THEN x ELSE frames[i]
  <2>1. frames \in Seq(FrameType) /\ D \in 1..Len(frames)
    BY <1>0, <1>1 DEF TypeOK
  <2> QED
    BY <2>1, <1>4, <1>5, ExceptSeq
<1> HIDE DEF D
<1>7. /\ \A i \in 1..D : FrameOK(frames, D, i) /\ YieldOK(frames, D, i)
      /\ \A i, l \in 1..D : FramePairOK(frames, i, l)
      /\ \A i, l \in 1..D : i < l /\ frames[l].ypcall => ~Blocks(frames, i)
  BY <1>0 DEF FrameInv, YieldInv, D
<1>8. c.kind = "pcall" /\ c.doing = "closing" /\ ~Blocks(frames, D)
  BY <1>0, <1>1, <1>2, <1>7 DEF FrameOK, StatusInv, D
<1>9. /\ frames'[D] = x /\ \A i \in 1..(D - 1) : frames'[i] = frames[i]
  BY <1>1, <1>6
<1>10. /\ \A i \in 1..(D - 1) :
             /\ Active(frames', i) <=> Active(frames, i)
             /\ SetsJump(frames', i) <=> SetsJump(frames, i)
       /\ \A i \in 1..D : Blocks(frames', i) <=> Blocks(frames, i)
       /\ ~Active(frames', D) /\ ~SetsJump(frames', D)
       /\ Active(frames, D)
       /\ SetsJump(frames, D) <=> ~c.ypcall
       /\ \A i \in 1..D :
             /\ frames'[i].base = frames[i].base /\ frames'[i].kind = frames[i].kind
             /\ frames'[i].old = frames[i].old
  BY <1>1, <1>2, <1>5, <1>8, <1>9 DEF Active, SetsJump, Blocks
<1>11. /\ Len(jmps) \in Nat /\ Len(jmps) > 0
       /\ \A m \in 2..Len(jmps) : jmps[m].depth \in 1..D /\ SetsJump(frames, jmps[m].depth)
       /\ \A i \in 1..D : SetsJump(frames, i) => \E m \in 2..Len(jmps) : jmps[m].depth = i
       /\ jmps[1].what = "close" => \A i \in 1..D : ~frames[i].ypcall
       /\ jmps[1].depth = 0
  BY <1>0, <1>1, Typed DEF JmpInv, JmpOK, Running, D
<1>12. /\ Len(jmps') \in 1..Len(jmps) /\ \A m \in 1..Len(jmps') : jmps'[m] = jmps[m]
       /\ jmps' \in Seq(JmpType)
       /\ \A m \in 2..Len(jmps') : jmps[m].depth < D
       /\ \A i \in 1..D : SetsJump(frames', i) => \E m \in 2..Len(jmps') : jmps[m].depth = i
  <2>1. CASE ~c.ypcall
    <3>1. SetsJump(frames, D) /\ D \in 1..Len(frames)
          /\ \A i \in 1..Len(frames) : i > D => ~SetsJump(frames, i)
      BY <1>1, <1>10, <2>1 DEF D
    <3>2. /\ Len(jmps) > 1 /\ \A l \in 1..(Len(jmps) - 1) : jmps[l].depth < D
          /\ \A i \in 1..D : SetsJump(frames, i) /\ i # D =>
                \E m \in 2..(Len(jmps) - 1) : jmps[m].depth = i
      BY <1>0, <1>1, <3>1, LastJumpIs DEF D
    <3>3. jmps' = PopJmp
      BY <1>4, <2>1
    <3>4. /\ jmps' \in Seq(JmpType) /\ Len(jmps') = Len(jmps) - 1
          /\ \A l \in 1..(Len(jmps) - 1) : jmps'[l] = jmps[l]
      BY <1>0, <1>1, <3>3, PopJmpFacts
    <3>5. ASSUME NEW i \in 1..D, SetsJump(frames', i)
          PROVE  \E l \in 2..Len(jmps') : jmps[l].depth = i
      <4>1. i # D /\ SetsJump(frames, i)
        BY <1>1, <1>10, <3>5
      <4> QED
        BY <3>2, <3>4, <4>1
    <3>6. Len(jmps') \in 1..Len(jmps) /\ \A m \in 1..Len(jmps') : jmps'[m] = jmps[m]
      BY <1>11, <3>2, <3>4
    <3>7. \A m \in 2..Len(jmps') : m \in 1..(Len(jmps) - 1)
      BY <1>11, <3>4
    <3>8. \A m \in 2..Len(jmps') : jmps[m].depth < D
      BY <3>2, <3>7
    <3> QED
      BY <3>4, <3>5, <3>6, <3>8
  <2>2. CASE c.ypcall
    <3>1. jmps' = jmps /\ jmps \in Seq(JmpType)
      BY <1>0, <1>4, <2>2 DEF TypeOK
    <3>2. \A m \in 2..Len(jmps) : jmps[m].depth < D
      <4>1. \A m \in 2..Len(jmps) : jmps[m].depth \in 1..D /\ jmps[m].depth # D
        BY <1>10, <1>11, <2>2
      <4> QED
        BY <4>1, <1>1
    <3>3. \A i \in 1..D : SetsJump(frames', i) => SetsJump(frames, i)
      BY <1>1, <1>10
    <3> QED
      BY <1>11, <3>1, <3>2, <3>3
  <2> QED
    BY <2>1, <2>2
<1>13. Running' /\ ResetCount' = ResetCount
  <2>1. Len(jmps') > 0 /\ jmps'[1] = jmps[1]
    BY <1>11, <1>12
  <2> QED
    BY <2>1, EmptySeq DEF Running, ResetCount
<1>14. NnyInv'
  <2>1. Blocking(frames', D) = Blocking(frames, D)
    BY <1>10 DEF Blocking
  <2> QED
    BY <2>1, <1>0, <1>1, <1>4, <1>6, <1>13 DEF NnyInv, D
<1>15. TypeOK'
  <2>1. errfunc' \in Nat
    BY <1>4, <1>5 DEF FrameType
  <2> QED
    BY <2>1, <1>0, <1>4, <1>6, <1>12 DEF TypeOK
<1>16. FrameInv'
  <2>1. ASSUME NEW i \in 1..D PROVE FrameOK(frames', D, i)
    <3>1. FrameOK(frames, D, i)
      BY <1>1, <1>7
    <3> QED
      BY <3>1, <1>1, <1>2, <1>5, <1>6 DEF FrameOK
  <2>2. ASSUME NEW i \in 1..D, NEW l \in 1..D PROVE FramePairOK(frames', i, l)
    <3>1. FramePairOK(frames, i, l)
      BY <1>1, <1>7
    <3> QED
      BY <3>1, <1>1, <1>5, <1>6, <1>10 DEF FramePairOK
  <2> QED
    BY <1>6, <2>1, <2>2 DEF FrameInv
<1>17. StatusInv'
  <2>1. status' = "OK"
    BY <1>0, <1>1, <1>4 DEF StatusInv
  <2> QED
    BY <2>1, <1>1, <1>5, <1>6, <1>9, <1>13 DEF StatusInv, Blocks
<1>18. YieldInv'
  <2>1. ASSUME NEW i \in 1..D PROVE YieldOK(frames', D, i)
    <3>1. YieldOK(frames, D, i)
      BY <1>1, <1>7
    <3>2. CASE i < D
      BY <3>1, <3>2, <1>1, <1>9 DEF YieldOK, SetsJump, Active, Blocks
    <3>3. CASE i = D
      BY <3>3, <1>1, <1>5, <1>9 DEF YieldOK
    <3> QED
      BY <1>1, <3>2, <3>3
  <2>2. ASSUME NEW i \in 1..D, NEW l \in 1..D, i < l, frames'[l].ypcall
        PROVE  ~Blocks(frames', i)
    <3>1. frames[l].ypcall
      BY <1>1, <1>5, <1>6, <2>2
    <3>2. ~Blocks(frames, i)
      BY <1>1, <1>7, <2>2, <3>1
    <3> QED
      BY <3>2, <1>10
  <2> QED
    BY <1>6, <2>1, <2>2 DEF YieldInv
<1>19. JmpInv'
  <2>1. ASSUME NEW m \in 2..Len(jmps')
        PROVE  LET l == jmps[m].depth
               IN  /\ l <= Len(frames') /\ frames'[l].doing = frames[l].doing
                   /\ SetsJump(frames', l)
                   /\ \A i \in 1..(l - 1) : Blocks(frames', i) <=> Blocks(frames, i)
    <3>1. PICK l \in 1..(D - 1) : l = jmps[m].depth /\ SetsJump(frames, l)
      <4>1. jmps[m].depth \in 1..D /\ SetsJump(frames, jmps[m].depth) /\ jmps[m].depth < D
        BY <1>11, <1>12
      <4> QED
        BY <4>1, <1>1
    <3>2. l <= D /\ frames'[l].doing = frames[l].doing /\ SetsJump(frames', l)
      BY <1>1, <1>9, <1>10, <3>1
    <3>3. \A i \in 1..(l - 1) : Blocks(frames', i) <=> Blocks(frames, i)
      BY <1>1, <1>10, <3>1
    <3> QED
      BY <1>6, <3>1, <3>2, <3>3
  <2>2. jmps[1].what = "close" => \A i \in 1..Len(frames') : ~frames'[i].ypcall
    BY <1>1, <1>5, <1>6, <1>11
  <2> QED
    BY <1>0, <1>1, <1>6, <1>12, <2>1, <2>2, JmpShrunk
<1>20. HandlerInv'
  <2>1. ASSUME NEW n \in 0..(D - 1), NEW h, HandlerAt(frames, h, n) PROVE HandlerAt(frames', h, n)
    <3>1. ActiveIn(frames', n) = ActiveIn(frames, n)
      BY <1>1, <1>10 DEF ActiveIn
    <3>2. \A i \in ActiveIn(frames, n) : frames'[i].base = frames[i].base
      BY <1>1, <1>10 DEF ActiveIn
    <3> QED
      BY <2>1, <3>1, <3>2, HandlerAtSame
  <2>2. HandlerAt(frames', errfunc', D)
    <3>1. HandlerAt(frames, c.old, D - 1)
      BY <1>0, <1>1, <1>2, <1>10 DEF HandlerInv, D
    <3>2. ActiveIn(frames', D) = ActiveIn(frames, D - 1)
      BY <1>1, <1>10 DEF ActiveIn
    <3>3. \A i \in ActiveIn(frames, D - 1) : frames'[i].base = frames[i].base
      BY <1>1, <1>10 DEF ActiveIn
    <3>4. errfunc' = c.old
      BY <1>4
    <3> QED
      BY <3>1, <3>2, <3>3, <3>4, HandlerAtSame
  <2>3. ASSUME NEW p \in 1..D, Active(frames', p)
        PROVE  HandlerAt(frames', frames'[p].old, p - 1)
    <3>1. Active(frames, p) /\ p - 1 \in 0..(D - 1)
      BY <1>1, <1>10, <2>3
    <3>2. HandlerAt(frames, frames[p].old, p - 1)
      BY <1>0, <3>1 DEF HandlerInv, D
    <3> QED
      BY <1>10, <2>1, <3>1, <3>2
  <2> QED
    BY <1>6, <2>2, <2>3 DEF HandlerInv
<1>21. TbcInv'
  <2>1. \A m \in 1..Len(tbc) : tbc[m].place \in Nat /\ tbc[m].of \in Nat
    BY <1>0, Typed DEF TbcType
  <2>2. \A m \in 1..Len(tbc), i \in 1..D : TbcOK(tbc[m], frames[i])
    BY <1>0 DEF TbcInv, D
  <2>3. \A m \in 1..Len(tbc) : ~(tbc[m].place > c.base)
    <3>1. tbc \in Seq(TbcType)
      BY <1>0 DEF TypeOK
    <3> QED
      BY <1>1, <1>2, <3>1, LenProperties DEF Pending
  <2>4. c.base \in Nat
    BY <1>5 DEF FrameType
  <2>5. ASSUME NEW m \in 1..Len(tbc), NEW i \in 1..D
        PROVE  TbcOK(tbc[m], frames'[i])
    <3>1. TbcOK(tbc[m], frames[i])
      BY <1>1, <2>2
    <3>2. CASE i = D
      BY <1>2, <1>5, <1>9, <2>1, <2>3, <2>4, <3>1, <3>2 DEF TbcOK
    <3>3. CASE i # D
      BY <1>1, <1>6, <3>1, <3>3
    <3> QED
      BY <3>2, <3>3
  <2>6. ASSUME ~Resetting', NEW m \in 1..Len(tbc) PROVE OwnedIn(frames', D, tbc[m])
    <3>1. ~Resetting
      BY <1>11, <1>12, <1>13, <2>6 DEF Resetting
    <3>2. OwnedIn(frames, D, tbc[m])
      BY <1>0, <3>1 DEF TbcInv, D
    <3>3. PICK i \in 1..D : frames[i].base = tbc[m].of
                            \/ (frames[i].doing = "closing" /\ frames[i].base < tbc[m].of)
      BY <3>2 DEF OwnedIn
    <3>4. CASE i = D
      <4>1. TbcOK(tbc[m], c)
        BY <1>1, <1>2, <2>2
      <4>2. c.base = tbc[m].of
        BY <1>2, <2>1, <2>3, <2>4, <3>3, <3>4, <4>1 DEF TbcOK
      <4> QED
        BY <1>2, <1>10, <3>4, <4>2 DEF OwnedIn
    <3>5. CASE i # D
      <4>1. frames'[i] = frames[i]
        BY <1>1, <1>6, <3>5
      <4> QED
        BY <3>3, <4>1 DEF OwnedIn
    <3> QED
      BY <3>4, <3>5
  <2> QED
    BY <1>0, <1>4, <1>6, <2>5, <2>6 DEF TbcInv
<1> QED
  BY <1>14, <1>15, <1>16, <1>17, <1>18, <1>19, <1>20, <1>21 DEF IInv

-----------------------------------------------------------------------------
\* Pending variables are in order, also without the last one.
LEMMA PendingInOrder ==
  ASSUME IInv
  PROVE  /\ tbc \in Seq(TbcType)
         /\ \A l, m \in 1..Len(tbc) : l < m => tbc[l].place < tbc[m].place
         /\ tbc # << >> =>
              /\ PopTbc \in Seq(TbcType)
              /\ \A l, m \in 1..Len(PopTbc) : l < m => PopTbc[l].place < PopTbc[m].place
<1>1. TypeOK /\ tbc \in Seq(TbcType) /\ Len(tbc) \in Nat
      /\ \A l, m \in 1..Len(tbc) : l < m => tbc[l].place < tbc[m].place
  BY Typed DEF IInv, TbcInv, TypeOK
<1>2. ASSUME tbc # << >>
      PROVE  /\ PopTbc \in Seq(TbcType)
             /\ \A l, m \in 1..Len(PopTbc) : l < m => PopTbc[l].place < PopTbc[m].place
  <2>1. /\ PopTbc \in Seq(TbcType) /\ Len(PopTbc) = Len(tbc) - 1
        /\ \A m \in 1..(Len(tbc) - 1) : PopTbc[m] = tbc[m]
    BY <1>1, <1>2, PopTbcFacts
  <2>2. \A m \in 1..(Len(tbc) - 1) : m \in 1..Len(tbc)
    BY <1>1
  <2> QED
    BY <1>1, <2>1, <2>2
<1> QED
  BY <1>1, <1>2

\* A call puts a new frame above the one on top and above all variables.
LEMMA EnterPushes ==
  ASSUME TypeOK, frames # << >>, NEW c \in FrameType, NEW kind \in {"lua", "C"},
         NEW pending \in Seq(TbcType), tbc' = pending,
         \A l, m \in 1..Len(pending) : l < m => pending[l].place < pending[m].place,
         Enter(c, kind, pending)
  PROVE  \E b : Pushed(c, b)
<1> DEFINE D == Len(frames)
<1>1. D \in Nat /\ D > 0 /\ Depth = D /\ Top = frames[D] /\ frames \in Seq(FrameType)
  BY Typed DEF Depth, Top, TypeOK
<1>2. PICK b : b = Place(Depth, pending)
  OBVIOUS
<1>3. b \in Nat /\ b > Top.base /\ \A m \in 1..Len(tbc') : tbc'[m].place < b
  <2>1. Depth \in 0..Depth /\ Depth > 0
    BY <1>1
  <2>2. /\ b \in Nat /\ b > frames[Depth].base
        /\ \A m \in 1..Len(pending) : b > pending[m].place
    BY <1>2, <2>1, PlaceAbove
  <2>3. \A m \in 1..Len(pending) : pending[m].place \in Nat
    <3>1. \A m \in 1..Len(pending) : pending[m] \in TbcType
      BY ElementOfSeq
    <3> QED
      BY <3>1 DEF TbcType
  <2> QED
    BY <1>1, <2>2, <2>3
<1>4. PICK g : g = NewFrame(kind, b)
  OBVIOUS
<1>5. g \in FrameType /\ NewOnTop(g, b)
  <2>1. kind \in {"lua", "C", "pcall"} /\ b \in Nat
    BY <1>3
  <2> QED
    BY <1>4, <2>1, NewFrameFacts DEF NewOnTop
<1>6. frames' = Append(Append(SubSeq(frames, 1, D - 1), c), g)
  BY <1>1, <1>2, <1>4 DEF Enter, Below
<1>7. D \in 1..Len(frames)
  BY <1>1
<1>8. /\ frames' \in Seq(FrameType) /\ Len(frames') = D + 1
      /\ frames'[D] = c /\ frames'[D + 1] = g
      /\ \A i \in 1..(D - 1) : frames'[i] = frames[i]
  BY <1>1, <1>5, <1>6, <1>7, PushSeq
<1> QED
  BY <1>3, <1>5, <1>8 DEF Pushed

\* What the invariant says of the frame on top.
LEMMA TopFacts ==
  ASSUME IInv, Running, frames # << >>
  PROVE  /\ Top \in FrameType /\ Top.doing # "call"
         /\ Top.doing # "closing" => ~Top.act
         /\ Top.doing = "closing" => Top.kind = "pcall"
         /\ Top.kind = "pcall" => Top.doing # "run"
         /\ Top.ypcall => Top.k /\ Top.kind = "pcall"
         /\ Top.kind = "pcall" /\ Top.doing = "ret" =>
               \A m \in 1..Len(tbc) : tbc[m].place <= Top.base
         /\ nny \in Nat /\ tbc \in Seq(TbcType)
<1> DEFINE D == Len(frames)
<1>1. D \in Nat /\ D > 0 /\ D \in 1..D /\ Top = frames[D] /\ frames[D] \in FrameType
      /\ nny \in Nat /\ tbc \in Seq(TbcType)
  BY Typed DEF Depth, Top, IInv, TypeOK
<1> HIDE DEF D
<1>2. FrameOK(frames, D, D) /\ YieldOK(frames, D, D)
  BY <1>1 DEF D, IInv, FrameInv, YieldInv
<1>3. frames[D].doing # "call" /\ (frames[D].doing # "closing" => ~frames[D].act)
  BY <1>1 DEF D, IInv, StatusInv
<1>4. \A m \in 1..Len(tbc) : TbcOK(tbc[m], frames[D])
  BY <1>1 DEF D, IInv, TbcInv
<1> QED
  BY <1>1, <1>2, <1>3, <1>4 DEF FrameOK, YieldOK, Active, TbcOK

\* Calls of functions, from Lua and from C.
LEMMA CallInv ==
  ASSUME IInv, CallLua \/ CallC
  PROVE  IInv'
<1>1. PICK kind \in {"lua", "C"} : Enter([Top EXCEPT !.doing = "call"], kind, tbc)
  BY DEF CallLua, CallC
<1>2. /\ Running /\ frames # << >> /\ Top.kind = "lua" /\ Top.doing = "run"
      /\ UNCHANGED <<status, tbc, jmps, nny, errfunc, empty>>
  BY DEF CallLua, CallC, Executes
<1>3. PICK c : c = [Top EXCEPT !.doing = "call"]
  OBVIOUS
<1>4. c \in FrameType /\ Continues(c) /\ ~c.act /\ nny \in Nat
  BY <1>2, <1>3, TopFacts DEF FrameType, Continues
<1>5. \E b : Pushed(c, b)
  BY <1>1, <1>2, <1>3, <1>4, PendingInOrder, EnterPushes DEF IInv
<1> QED
  BY <1>2, <1>4, <1>5, PushInv

\* lua_callk: the caller blocks yields exactly when it adds to nny.
LEMMA CallkInv ==
  ASSUME IInv, NEW k \in BOOLEAN, Callk(k)
  PROVE  IInv'
<1>1. PICK inc : inc = IF k /\ nny = 0 THEN 0 ELSE 1
  OBVIOUS
<1>2. PICK c : c = [Top EXCEPT !.doing = "call", !.act = TRUE, !.inc = inc, !.k = inc = 0]
  OBVIOUS
<1>3. /\ Running /\ frames # << >> /\ Top.kind = "C" /\ Top.doing = "run"
      /\ Enter(c, "lua", tbc) /\ nny' = nny + inc
      /\ UNCHANGED <<status, tbc, jmps, errfunc, empty>>
  BY <1>1, <1>2 DEF Callk, Executes
<1>4. inc \in 0..1
  BY <1>1
<1>5. c \in FrameType /\ Continues(c) /\ c.act /\ c.inc = inc
  <2>1. PICK q \in BOOLEAN : q <=> inc = 0
    OBVIOUS
  <2>2. c = [Top EXCEPT !.doing = "call", !.act = TRUE, !.inc = inc, !.k = q]
    <3>1. CASE inc = 0
      BY <1>2, <2>1, <3>1
    <3>2. CASE inc # 0
      BY <1>2, <2>1, <3>2
    <3> QED
      BY <3>1, <3>2
  <2>3. /\ c \in FrameType /\ c.kind = Top.kind /\ c.base = Top.base
        /\ c.ypcall = Top.ypcall /\ c.rec = Top.rec /\ c.old = Top.old
        /\ c.doing = "call" /\ c.act /\ c.inc = inc
        /\ c.k <=> inc = 0
    BY <1>3, <1>4, <2>1, <2>2, TopFacts DEF FrameType
  <2> QED
    BY <1>3, <1>4, <2>3, TopFacts DEF Continues
<1>6. nny' = nny + (IF c.act /\ c.inc = 1 THEN 1 ELSE 0)
  BY <1>3, <1>4, <1>5, TopFacts
<1>7. \E b : Pushed(c, b)
  BY <1>3, <1>5, PendingInOrder, EnterPushes DEF IInv
<1> QED
  BY <1>3, <1>5, <1>6, <1>7, PushInv

\* lua_pcallk, with and without a continuation.
LEMMA PcallInv ==
  ASSUME IInv, NEW handler \in BOOLEAN, NEW k \in BOOLEAN, Pcall(handler, k)
  PROVE  IInv'
<1>1. PICK yields \in BOOLEAN : yields <=> k /\ nny = 0
  OBVIOUS
<1>2. yields => nny = 0
  BY <1>1
<1>3. CallProtected(handler, k /\ nny = 0, IF k /\ nny = 0 THEN 0 ELSE 1)
  BY DEF Pcall
<1>4. CASE yields
  BY <1>1, <1>3, <1>4, ProtectedInv
<1>5. CASE ~yields
  BY <1>1, <1>3, <1>5, ProtectedInv
<1> QED
  BY <1>4, <1>5

\* OP_CLOSE calls a closing method after its variable has left the list.
LEMMA LeaveBlockInv ==
  ASSUME IInv, LeaveBlock
  PROVE  IInv'
<1>1. PICK c : c = [Top EXCEPT !.doing = "call"]
  OBVIOUS
<1>2. /\ Running /\ frames # << >> /\ Top.kind = "lua" /\ Top.doing = "run"
      /\ Enter(c, "lua", PopTbc) /\ tbc' = PopTbc
      /\ UNCHANGED <<status, jmps, nny, errfunc, empty>>
  BY <1>1 DEF LeaveBlock, Executes
<1>3. tbc # << >>
  BY Typed DEF LeaveBlock, Pending, IInv
<1>4. c \in FrameType /\ Continues(c) /\ ~c.act /\ nny \in Nat
  BY <1>1, <1>2, TopFacts DEF FrameType, Continues
<1>5. \E b : Pushed(c, b)
  BY <1>2, <1>3, <1>4, PendingInOrder, EnterPushes DEF IInv
<1> QED
  BY <1>2, <1>3, <1>4, <1>5, PushInv

\* luaF_close does, from a return and from a pcall that recovers.
LEMMA CloseNextInv ==
  ASSUME IInv, CloseNext
  PROVE  IInv'
<1>1. PICK inc : inc = IF Top.doing = "closing" /\ ~Top.ypcall THEN 1 ELSE 0
  OBVIOUS
<1>2. PICK c : c = [Top EXCEPT !.act = TRUE, !.inc = inc]
  OBVIOUS
<1>3. /\ Running /\ frames # << >> /\ Top.doing \in {"ret", "closing"}
      /\ Enter(c, "lua", PopTbc) /\ tbc' = PopTbc /\ nny' = nny + inc
      /\ UNCHANGED <<status, jmps, errfunc, empty>>
  BY <1>1, <1>2 DEF CloseNext
<1>4. tbc # << >> /\ ~(Top.kind = "pcall" /\ Top.doing = "ret")
  <2>1. PICK m \in 1..Len(tbc) : tbc[m].place > Top.base
    <3>1. tbc \in Seq(TbcType)
      BY <1>3, TopFacts
    <3> QED
      BY <3>1, LenProperties DEF CloseNext, Pending
  <2>2. /\ tbc[m].place \in Nat /\ Top.base \in Nat /\ tbc # << >>
    BY <1>3, <2>1, TopFacts, Typed DEF IInv, TbcType, FrameType
  <2> QED
    BY <1>3, <2>1, <2>2, TopFacts
<1>5. inc \in 0..1
  BY <1>1
<1>6. c \in FrameType /\ Continues(c) /\ c.act /\ c.inc = inc
  BY <1>1, <1>2, <1>3, <1>4, <1>5, TopFacts DEF FrameType, Continues
<1>7. nny' = nny + (IF c.act /\ c.inc = 1 THEN 1 ELSE 0)
  BY <1>3, <1>5, <1>6, TopFacts
<1>8. \E b : Pushed(c, b)
  BY <1>3, <1>4, <1>6, PendingInOrder, EnterPushes DEF IInv
<1> QED
  BY <1>3, <1>4, <1>6, <1>7, <1>8, PushInv

-----------------------------------------------------------------------------
\* Where no pcall is in progress there is no message handler.
LEMMA NoHandler ==
  ASSUME HandlerInv, \A i \in 1..Len(frames) : ~Active(frames, i)
  PROVE  errfunc = 0
<1>1. HandlerAt(frames, errfunc, Len(frames)) /\ ActiveIn(frames, Len(frames)) = {}
  BY DEF HandlerInv, ActiveIn
<1> QED
  BY <1>1 DEF HandlerAt

\* The jump of lua_resume, or of luaE_resetthread, is alone where no pcall has set one.
LEMMA OneJump ==
  ASSUME TypeOK, JmpInv, Running, \A i \in 1..Len(frames) : ~SetsJump(frames, i)
  PROVE  Len(jmps) = 1 /\ LastJmp = jmps[1]
<1>1. /\ Len(jmps) \in Nat /\ Len(jmps) > 0
      /\ \A m \in 2..Len(jmps) : jmps[m].depth \in 1..Len(frames) /\ SetsJump(frames, jmps[m].depth)
  BY Typed DEF Running, JmpInv, JmpOK
<1>2. \A m \in 2..Len(jmps) : FALSE
  BY <1>1
<1>3. ~(Len(jmps) > 1)
  <2>1. Len(jmps) > 1 => 2 \in 2..Len(jmps)
    BY <1>1
  <2> QED
    BY <1>2, <2>1
<1> QED
  BY <1>1, <1>3 DEF LastJmp

\* The jump that luaE_resetthread sets is always the same one.
LEMMA ResetJump ==
  ASSUME TypeOK, JmpInv, Resetting, Len(jmps) = 1
  PROVE  jmps = <<[what |-> "close", depth |-> 0, nny |-> 0]>>
<1>1. jmps[1] \in JmpType /\ jmps \in Seq(JmpType)
  BY Typed DEF TypeOK
<1>2. jmps[1] = [what |-> "close", depth |-> 0, nny |-> 0]
  BY <1>1 DEF JmpInv, JmpType, Resetting
<1>3. jmps = <<jmps[1]>>
  BY <1>1
<1> QED
  BY <1>2, <1>3

\* Without its only jump the coroutine does not run.
LEMMA PopOneJump ==
  ASSUME TypeOK, Len(jmps) = 1
  PROVE  PopJmp = << >>
  BY DEF PopJmp, TypeOK

\* The jump with which lua_resume or luaE_resetthread starts.
LEMMA FirstJump ==
  ASSUME NEW what \in {"resume", "close"}, NEW j,
         j = <<[what |-> what, depth |-> 0, nny |-> 0]>>
  PROVE  /\ j \in Seq(JmpType) /\ Len(j) = 1 /\ j # << >>
         /\ j[1].what = what /\ j[1].depth = 0 /\ j[1].nny = 0
<1>1. PICK r : r = [what |-> what, depth |-> 0, nny |-> 0]
  OBVIOUS
<1>2. r \in JmpType /\ r.what = what /\ r.depth = 0 /\ r.nny = 0
  BY <1>1 DEF JmpType
<1>3. j = <<r>>
  BY <1>1
<1> QED
  BY <1>2, <1>3

\* The stack of calls is empty: before the body starts, after it has ended, and
\* while luaE_resetthread is between two closing methods.
LEMMA NoFramesInv ==
  ASSUME IInv, frames' = << >>, tbc' = tbc, errfunc' = 0, empty' \in BOOLEAN, status' = "OK",
         nny' \in Nat, Running' => nny' = 0,
         jmps' = << >> \/ jmps' = <<[what |-> "close", depth |-> 0, nny |-> 0]>>,
         jmps' = << >> => tbc = << >>
  PROVE  IInv'
<1>1. Len(frames') = 0 /\ frames' \in Seq(FrameType) /\ TypeOK /\ TbcInv
  BY DEF IInv
<1>2. jmps' \in Seq(JmpType) /\ (jmps' # << >> => Len(jmps') = 1)
  <2>1. CASE jmps' = << >>
    BY <2>1
  <2>2. CASE jmps' = <<[what |-> "close", depth |-> 0, nny |-> 0]>>
    BY <2>2, FirstJump
  <2> QED
    BY <2>1, <2>2
<1>3. TypeOK'
  BY <1>1, <1>2 DEF TypeOK
<1>4. FrameInv' /\ StatusInv' /\ YieldInv'
  BY <1>1 DEF FrameInv, StatusInv, YieldInv
<1>5. JmpInv' /\ NnyInv'
  <2>1. Blocking(frames', 0) = {}
    BY DEF Blocking
  <2>2. Cardinality({}) = 0
    BY FS_EmptySet
  <2>3. NnyInv'
    BY <1>1, <2>1, <2>2 DEF NnyInv
  <2>4. JmpInv'
    <3>1. CASE jmps' = << >>
      BY <3>1 DEF JmpInv, Running
    <3>2. CASE jmps' = <<[what |-> "close", depth |-> 0, nny |-> 0]>>
      <4>1. /\ Len(jmps') = 1 /\ jmps'[1].what = "close" /\ jmps'[1].depth = 0
            /\ jmps'[1].nny = 0
        BY <3>2, FirstJump
      <4> QED
        BY <1>1, <4>1 DEF JmpInv
    <3> QED
      BY <3>1, <3>2
  <2> QED
    BY <2>3, <2>4
<1>6. HandlerInv'
  BY <1>1 DEF HandlerInv, HandlerAt, ActiveIn
<1>7. TbcInv'
  <2>1. jmps' # << >> => Resetting'
    BY DEF Resetting, Running
  <2>2. tbc = << >> => Len(tbc) = 0
    OBVIOUS
  <2> QED
    BY <1>1, <2>1, <2>2 DEF TbcInv
<1> QED
  BY <1>3, <1>4, <1>5, <1>6, <1>7 DEF IInv

\* The body returns: no pcall is left, so no jump but the one of lua_resume.
LEMMA EndsInv ==
  ASSUME IInv, Ends
  PROVE  IInv'
<1>1. /\ TypeOK /\ JmpInv /\ HandlerInv /\ TbcInv /\ StatusInv
      /\ Len(frames) = 1 /\ Running /\ ~Resetting /\ Top = frames[1]
      /\ frames[1].doing = "ret" /\ Pending(frames[1].base) = {}
      /\ frames' = << >> /\ jmps' = PopJmp /\ empty' = TRUE
      /\ UNCHANGED <<status, tbc, nny, errfunc>>
  BY DEF Ends, IInv, Depth, Top
<1>2. \A i \in 1..Len(frames) : ~Active(frames, i) /\ ~SetsJump(frames, i)
  BY <1>1 DEF Active, SetsJump
<1>3. errfunc' = 0 /\ jmps' = << >>
  BY <1>1, <1>2, NoHandler, OneJump, PopOneJump
<1>4. \A m \in 1..Len(tbc) : FALSE
  <2>1. \A m \in 1..Len(tbc) : tbc[m].place \in Nat /\ tbc[m].of \in Nat
    BY <1>1, Typed DEF TbcType
  <2>2. frames[1].base \in Nat
    BY <1>1, Typed DEF FrameType
  <2>3. \A m \in 1..Len(tbc) : ~(tbc[m].place > frames[1].base)
    <3>1. tbc \in Seq(TbcType)
      BY <1>1 DEF TypeOK
    <3> QED
      BY <1>1, <3>1, LenProperties DEF Pending
  <2>4. ASSUME NEW m \in 1..Len(tbc) PROVE FALSE
    <3>1. TbcOK(tbc[m], frames[1]) /\ OwnedIn(frames, 1, tbc[m])
      BY <1>1 DEF TbcInv
    <3>2. frames[1].base = tbc[m].of
      BY <1>1, <3>1 DEF OwnedIn
    <3> QED
      BY <2>1, <2>2, <2>3, <3>1, <3>2 DEF TbcOK
  <2> QED
    BY <2>4
<1>5. tbc = << >>
  <2>1. ~(Len(tbc) > 0)
    BY <1>1, <1>4, Typed
  <2> QED
    BY <1>1, <2>1, Typed
<1>6. status' = "OK" /\ nny' \in Nat /\ ~Running'
  BY <1>1, <1>3 DEF StatusInv, TypeOK, Running
<1> QED
  BY <1>1, <1>3, <1>5, <1>6, NoFramesInv

\* luaE_resetthread gets back from a closing method.
LEMMA ResetGoesOnInv ==
  ASSUME IInv, ResetGoesOn
  PROVE  IInv'
<1>1. /\ TypeOK /\ JmpInv /\ HandlerInv /\ NnyInv /\ StatusInv
      /\ Len(frames) = 1 /\ Running /\ Resetting /\ Top = frames[1]
      /\ frames[1].doing = "ret" /\ frames' = << >> /\ nny' = nny - 1
      /\ UNCHANGED <<status, tbc, jmps, errfunc, empty>>
  BY DEF ResetGoesOn, IInv, Depth, Top, Resetting
<1>2. \A i \in 1..Len(frames) : ~Active(frames, i) /\ ~SetsJump(frames, i)
  BY <1>1 DEF Active, SetsJump
<1>3. errfunc' = 0 /\ Len(jmps) = 1
  BY <1>1, <1>2, NoHandler, OneJump
<1>4. nny' = 0
  <2>1. Blocking(frames, 1) = {} /\ Cardinality({}) = 0
    BY <1>1, FS_EmptySet DEF Blocking, StatusInv
  <2>2. ResetCount = 1
    BY <1>1 DEF ResetCount, Resetting
  <2>3. nny = Cardinality(Blocking(frames, 1)) + ResetCount
    BY <1>1 DEF NnyInv
  <2>4. Cardinality(Blocking(frames, 1)) = 0
    BY <2>1
  <2>5. nny = 1
    BY <2>2, <2>3, <2>4
  <2>6. nny' = nny - 1
    BY <1>1
  <2> QED
    BY <2>5, <2>6
<1>5. jmps' = <<[what |-> "close", depth |-> 0, nny |-> 0]>>
  BY <1>1, <1>3, ResetJump
<1>6. status' = "OK" /\ empty' \in BOOLEAN /\ jmps' # << >>
  BY <1>1 DEF StatusInv, TypeOK, Running
<1>7. frames' = << >> /\ tbc' = tbc
  BY <1>1
<1>8. errfunc' = 0
  BY <1>3
<1>9. nny' \in Nat
  BY <1>4
<1> QED
  BY <1>4, <1>5, <1>6, <1>7, <1>8, <1>9, NoFramesInv

\* lua_closethread drops the frames of a coroutine that does not run.
LEMMA CloseThreadInv ==
  ASSUME IInv, CloseThread
  PROVE  IInv'
  BY NoFramesInv DEF CloseThread, IInv, TypeOK

\* luaE_resetthread has closed all variables.
LEMMA ResetEndsInv ==
  ASSUME IInv, ResetEnds
  PROVE  IInv'
<1>1. /\ TypeOK /\ HandlerInv /\ StatusInv /\ Running
      /\ frames' = << >> /\ Len(frames) = 0 /\ tbc = << >> /\ jmps' = << >> /\ empty' = TRUE
      /\ UNCHANGED <<status, tbc, nny, errfunc>>
  BY DEF ResetEnds, IInv, Resetting
<1>2. errfunc' = 0
  BY <1>1, NoHandler
<1>3. status' = "OK" /\ nny' \in Nat /\ ~Running'
  BY <1>1 DEF StatusInv, TypeOK, Running
<1> QED
  BY <1>1, <1>2, <1>3, NoFramesInv

\* A call without others below it: the body, or a closing method that
\* luaE_resetthread calls.
LEMMA OneFrameInv ==
  ASSUME IInv, NEW what \in {"resume", "close"}, NEW g \in FrameType, NEW b \in Nat, b > 0,
         NewOnTop(g, b), frames' = <<g>>,
         jmps' = <<[what |-> what, depth |-> 0, nny |-> 0]>>,
         nny' = (IF what = "close" THEN 1 ELSE 0),
         errfunc' = 0, status' = "OK", empty' \in BOOLEAN,
         tbc' = tbc \/ (tbc # << >> /\ tbc' = PopTbc),
         \A m \in 1..Len(tbc') : tbc'[m].place < b,
         what = "resume" => tbc' = << >>
  PROVE  IInv'
<1>1. /\ frames' \in Seq(FrameType) /\ Len(frames') = 1 /\ frames'[1] = g /\ TypeOK /\ TbcInv
  BY DEF IInv
<1>2. /\ jmps' \in Seq(JmpType) /\ Len(jmps') = 1 /\ jmps' # << >>
      /\ jmps'[1].what = what /\ jmps'[1].depth = 0 /\ jmps'[1].nny = 0
  BY FirstJump
<1>3. /\ tbc' \in Seq(TbcType) /\ Len(tbc') \in Nat
      /\ \A m \in 1..Len(tbc') : m \in 1..Len(tbc) /\ tbc'[m] = tbc[m]
  <2>1. Len(tbc) \in Nat /\ tbc \in Seq(TbcType)
    BY <1>1, Typed DEF TypeOK
  <2>2. CASE tbc' = tbc
    BY <2>1, <2>2
  <2>3. CASE tbc # << >> /\ tbc' = PopTbc
    BY <1>1, <2>1, <2>3, PopTbcFacts
  <2> QED
    BY <2>2, <2>3
<1>4. /\ g.kind # "pcall" /\ g.base = b /\ g.doing = "run" /\ ~g.act /\ ~g.ypcall
  BY DEF NewOnTop
<1>5. TypeOK'
  <2>1. nny' \in Nat
    OBVIOUS
  <2> QED
    BY <1>1, <1>2, <1>3, <2>1 DEF TypeOK
<1>6. FrameInv'
  <2>1. ASSUME NEW i \in 1..1 PROVE FrameOK(frames', 1, i)
    BY <1>1, <1>4, <2>1 DEF FrameOK
  <2>2. ASSUME NEW i \in 1..1, NEW j \in 1..1 PROVE FramePairOK(frames', i, j)
    BY <2>2 DEF FramePairOK
  <2> QED
    BY <1>1, <2>1, <2>2 DEF FrameInv
<1>7. StatusInv'
  BY <1>1, <1>2, <1>4 DEF StatusInv, Running, Blocks
<1>8. YieldInv'
  <2>1. ASSUME NEW i \in 1..1 PROVE YieldOK(frames', 1, i)
    BY <1>1, <1>4, <2>1 DEF YieldOK
  <2>2. \A i, j \in 1..1 : ~(i < j)
    OBVIOUS
  <2> QED
    BY <1>1, <2>1, <2>2 DEF YieldInv
<1>9. \A i \in 1..1 : ~Active(frames', i) /\ ~SetsJump(frames', i) /\ ~Blocks(frames', i)
  BY <1>1, <1>4 DEF Active, SetsJump, Blocks
<1>10. JmpInv'
  <2>1. \A i \in 1..Len(frames') : ~frames'[i].ypcall
    BY <1>1, <1>4
  <2> QED
    BY <1>1, <1>2, <1>9, <2>1 DEF JmpInv
<1>11. NnyInv'
  <2>1. Blocking(frames', 1) = {} /\ Cardinality({}) = 0
    BY <1>9, FS_EmptySet DEF Blocking
  <2>2. nny' = ResetCount' /\ ResetCount' \in 0..1
    BY <1>2 DEF ResetCount
  <2>3. Cardinality(Blocking(frames', 1)) = 0
    BY <2>1
  <2>4. nny' = Cardinality(Blocking(frames', 1)) + ResetCount'
    BY <2>2, <2>3
  <2> QED
    BY <1>1, <2>4 DEF NnyInv
<1>12. HandlerInv'
  <2>1. ActiveIn(frames', 1) = {}
    BY <1>9 DEF ActiveIn
  <2>2. HandlerAt(frames', 0, 1)
    BY <2>1 DEF HandlerAt
  <2> QED
    BY <1>1, <1>9, <2>2 DEF HandlerInv
<1>13. TbcInv'
  <2>1. \A m \in 1..Len(tbc') : /\ tbc'[m] = tbc[m] /\ tbc[m].of < tbc[m].place
                                /\ tbc[m].place \in Nat /\ tbc[m].of \in Nat
                                /\ tbc[m].place < b
    BY <1>1, <1>3, Typed DEF TbcInv, TbcType
  <2>2. \A l, m \in 1..Len(tbc') : l < m => tbc'[l].place < tbc'[m].place
    BY <1>1, <1>3 DEF TbcInv
  <2>3. ASSUME NEW m \in 1..Len(tbc'), NEW i \in 1..1 PROVE TbcOK(tbc'[m], frames'[i])
    BY <1>1, <1>4, <2>1, <2>3 DEF TbcOK
  <2>4. ~Resetting' => Len(tbc') = 0
    BY <1>2 DEF Resetting, Running
  <2> QED
    BY <1>1, <2>1, <2>2, <2>3, <2>4 DEF TbcInv
<1> QED
  BY <1>5, <1>6, <1>7, <1>8, <1>10, <1>11, <1>12, <1>13 DEF IInv

\* lua_resume starts the body.
LEMMA StartInv ==
  ASSUME IInv, Start
  PROVE  IInv'
<1>1. /\ ~Running /\ frames = << >> /\ status = "OK"
      /\ jmps' = <<[what |-> "resume", depth |-> 0, nny |-> 0]>> /\ nny' = 0
      /\ UNCHANGED <<status, tbc, errfunc, empty>>
  BY DEF Start, Begin
<1>2. PICK kind \in {"lua", "C"} : frames' = <<NewFrame(kind, 1)>>
  BY DEF Start, Begin
<1>3. PICK g : g = NewFrame(kind, 1)
  OBVIOUS
<1>4. g \in FrameType /\ NewOnTop(g, 1)
  BY <1>3, NewFrameFacts DEF NewOnTop
<1>5. tbc = << >>
  <2>1. Len(frames) = 0 /\ ~Resetting
    BY <1>1 DEF Resetting
  <2>2. \A m \in 1..Len(tbc) : FALSE
    BY <2>1 DEF IInv, TbcInv, OwnedIn
  <2>3. ~(Len(tbc) > 0)
    BY <2>2, Typed DEF IInv
  <2> QED
    BY <2>3, Typed DEF IInv
<1>6. errfunc = 0 /\ empty \in BOOLEAN
  <2>1. Len(frames) = 0
    BY <1>1
  <2> QED
    BY <2>1, NoHandler DEF IInv, TypeOK
<1>7. \A m \in 1..Len(tbc') : tbc'[m].place < 1
  BY <1>1, <1>5
<1>8. frames' = <<g>> /\ tbc' = tbc /\ tbc' = << >>
  BY <1>1, <1>2, <1>3, <1>5
<1>9. errfunc' = 0 /\ status' = "OK" /\ empty' \in BOOLEAN
  BY <1>1, <1>6
<1> QED
  BY <1>1, <1>4, <1>7, <1>8, <1>9, OneFrameInv

\* luaE_resetthread calls the next closing method, with no yields.
LEMMA ResetClosesNextInv ==
  ASSUME IInv, ResetClosesNext
  PROVE  IInv'
<1>1. /\ TypeOK /\ JmpInv /\ NnyInv /\ HandlerInv /\ StatusInv /\ Resetting /\ Running
      /\ frames = << >> /\ tbc # << >> /\ tbc' = PopTbc
      /\ frames' = <<NewFrame("lua", Place(0, PopTbc))>> /\ nny' = nny + 1
      /\ status' = status /\ jmps' = jmps /\ errfunc' = errfunc /\ empty' = empty
  BY DEF ResetClosesNext, IInv, Resetting
<1>2. PICK b : b = Place(0, PopTbc)
  OBVIOUS
<1>3. PICK g : g = NewFrame("lua", b)
  OBVIOUS
<1>4. b \in Nat /\ b > 0 /\ \A m \in 1..Len(tbc') : tbc'[m].place < b
  <2>1. 0 \in 0..Depth
    BY <1>1, Typed DEF Depth
  <2>2. /\ PopTbc \in Seq(TbcType)
        /\ \A l, m \in 1..Len(PopTbc) : l < m => PopTbc[l].place < PopTbc[m].place
    BY <1>1, PendingInOrder
  <2>3. b \in Nat /\ b > 0 /\ \A m \in 1..Len(PopTbc) : b > PopTbc[m].place
    BY <1>1, <1>2, <2>1, <2>2, PlaceAbove
  <2>4. \A m \in 1..Len(PopTbc) : PopTbc[m].place \in Nat
    <3>1. \A m \in 1..Len(PopTbc) : PopTbc[m] \in TbcType
      BY <2>2, ElementOfSeq
    <3> QED
      BY <3>1 DEF TbcType
  <2> QED
    BY <1>1, <2>3, <2>4
<1>5. g \in FrameType /\ NewOnTop(g, b) /\ frames' = <<g>>
  BY <1>1, <1>2, <1>3, <1>4, NewFrameFacts DEF NewOnTop
<1>6. errfunc' = 0 /\ Len(jmps) = 1
  <2>1. Len(frames) = 0
    BY <1>1
  <2> QED
    BY <1>1, <2>1, NoHandler, OneJump
<1>7. nny' = 1
  <2>1. Blocking(frames, 0) = {} /\ Cardinality({}) = 0 /\ Len(frames) = 0
    BY <1>1, FS_EmptySet DEF Blocking
  <2>2. Cardinality(Blocking(frames, 0)) = 0
    BY <2>1
  <2>3. nny = Cardinality(Blocking(frames, 0)) + 0
    BY <1>1, <2>1 DEF NnyInv
  <2>4. nny = 0 /\ nny' = nny + 1
    BY <1>1, <2>2, <2>3
  <2> QED
    BY <2>4
<1>8. jmps' = <<[what |-> "close", depth |-> 0, nny |-> 0]>>
  BY <1>1, <1>6, ResetJump
<1>9. status' = "OK" /\ empty' \in BOOLEAN
  BY <1>1 DEF StatusInv, TypeOK
<1>10. tbc # << >> /\ tbc' = PopTbc
  BY <1>1
<1> QED
  BY <1>4, <1>5, <1>6, <1>7, <1>8, <1>9, <1>10, OneFrameInv

\* A yield and the resume after it leave the calls as they are, without C code.
LEMMA SwitchInv ==
  ASSUME IInv, ~Resetting, Len(frames) > 0,
         frames' \in Seq(FrameType), Len(frames') = Len(frames),
         \A i \in 1..Len(frames) :
            /\ ~frames'[i].act /\ ~Blocks(frames, i) /\ ~SetsJump(frames, i)
            /\ frames'[i].kind = frames[i].kind /\ frames'[i].base = frames[i].base
            /\ frames'[i].k = frames[i].k /\ frames'[i].ypcall = frames[i].ypcall
            /\ frames'[i].rec = frames[i].rec /\ frames'[i].old = frames[i].old,
         \A i \in 1..(Len(frames) - 1) : frames'[i].doing = frames[i].doing,
         frames[Len(frames)].kind = "lua", nny' = 0,
         \/ /\ status' = "YIELD" /\ jmps' = << >> /\ frames'[Len(frames)].doing = "call"
         \/ /\ status' = "OK" /\ jmps' = <<[what |-> "resume", depth |-> 0, nny |-> 0]>>
            /\ frames'[Len(frames)].doing = "run",
         tbc' = tbc, errfunc' = errfunc, empty' = empty
  PROVE  IInv'
<1> DEFINE D == Len(frames)
<1>0. /\ TypeOK /\ FrameInv /\ YieldInv /\ HandlerInv /\ TbcInv
  BY DEF IInv
<1>1. /\ D \in Nat /\ D > 0 /\ frames' \in Seq(FrameType) /\ Len(frames') = D
      /\ frames[D].kind = "lua"
      /\ \A i \in 1..(D - 1) : frames'[i].doing = frames[i].doing
      /\ frames'[D].doing \in {"run", "call"}
  BY <1>0, Typed
<1>2. \A i \in 1..D :
        /\ ~frames'[i].act /\ ~Blocks(frames, i) /\ ~SetsJump(frames, i)
        /\ frames'[i].kind = frames[i].kind /\ frames'[i].base = frames[i].base
        /\ frames'[i].k = frames[i].k /\ frames'[i].ypcall = frames[i].ypcall
        /\ frames'[i].rec = frames[i].rec /\ frames'[i].old = frames[i].old
  OBVIOUS
<1>3. /\ jmps' \in Seq(JmpType)
      /\ \/ ~Running' /\ status' = "YIELD" /\ frames'[D].doing = "call"
         \/ /\ Running' /\ Len(jmps') = 1 /\ jmps'[1].what = "resume"
            /\ jmps'[1].depth = 0 /\ jmps'[1].nny = 0
            /\ status' = "OK" /\ frames'[D].doing = "run"
  <2>1. CASE jmps' = << >> /\ status' = "YIELD" /\ frames'[D].doing = "call"
    BY <2>1 DEF Running
  <2>2. CASE /\ jmps' = <<[what |-> "resume", depth |-> 0, nny |-> 0]>>
             /\ status' = "OK" /\ frames'[D].doing = "run"
    BY <2>2, FirstJump DEF Running
  <2> QED
    BY <2>1, <2>2
<1> HIDE DEF D
<1>4. /\ \A i \in 1..D : FrameOK(frames, D, i) /\ YieldOK(frames, D, i)
      /\ \A i, l \in 1..D : FramePairOK(frames, i, l)
  BY <1>0 DEF FrameInv, YieldInv, D
<1>5. \A i \in 1..D : /\ Active(frames', i) <=> Active(frames, i)
                      /\ ~SetsJump(frames', i) /\ ~Blocks(frames', i)
  <2>1. ASSUME NEW i \in 1..D
        PROVE  /\ Active(frames', i) <=> Active(frames, i)
               /\ ~SetsJump(frames', i) /\ ~Blocks(frames', i)
    <3>1. CASE i = D
      BY <1>1, <1>2, <3>1 DEF Active, SetsJump, Blocks
    <3>2. CASE i # D
      <4>1. frames'[i].doing = frames[i].doing
        BY <1>1, <3>2
      <4> QED
        BY <1>2, <4>1 DEF Active, SetsJump, Blocks
    <3> QED
      BY <3>1, <3>2
  <2> QED
    BY <2>1
<1>6. TypeOK'
  BY <1>0, <1>1, <1>3 DEF TypeOK
<1>7. FrameInv'
  <2>1. ASSUME NEW i \in 1..D PROVE FrameOK(frames', D, i)
    <3>1. FrameOK(frames, D, i)
      BY <1>4
    <3> QED
      BY <3>1, <1>1, <1>2 DEF FrameOK
  <2>2. ASSUME NEW i \in 1..D, NEW l \in 1..D PROVE FramePairOK(frames', i, l)
    <3>1. FramePairOK(frames, i, l)
      BY <1>4
    <3> QED
      BY <3>1, <1>1, <1>2 DEF FramePairOK
  <2> QED
    BY <1>1, <2>1, <2>2 DEF FrameInv
<1>8. StatusInv'
  <2>1. D \in 1..D
    BY <1>1
  <2>2. CASE ~Running' /\ status' = "YIELD" /\ frames'[D].doing = "call"
    BY <1>1, <1>2, <1>5, <2>1, <2>2 DEF StatusInv
  <2>3. CASE Running' /\ status' = "OK" /\ frames'[D].doing = "run"
    BY <1>1, <1>2, <1>5, <2>1, <2>3 DEF StatusInv
  <2> QED
    BY <1>3, <2>2, <2>3
<1>9. YieldInv'
  <2>1. ASSUME NEW i \in 1..D PROVE YieldOK(frames', D, i)
    <3>1. YieldOK(frames, D, i)
      BY <1>4
    <3>2. CASE i = D
      BY <1>1, <1>2, <1>5, <3>1, <3>2 DEF YieldOK, Active
    <3>3. CASE i # D
      <4>1. frames'[i].doing = frames[i].doing
        BY <1>1, <3>3
      <4> QED
        BY <1>1, <1>2, <1>5, <3>1, <4>1 DEF YieldOK
    <3> QED
      BY <3>2, <3>3
  <2> QED
    BY <1>1, <1>5, <2>1 DEF YieldInv
<1>10. JmpInv'
  <2>1. CASE ~Running'
    BY <2>1 DEF JmpInv
  <2>2. CASE /\ Len(jmps') = 1 /\ jmps'[1].what = "resume"
             /\ jmps'[1].depth = 0 /\ jmps'[1].nny = 0
    BY <1>1, <1>5, <2>2 DEF JmpInv
  <2> QED
    BY <1>3, <2>1, <2>2
<1>11. NnyInv'
  <2>1. Blocking(frames', D) = {} /\ Cardinality({}) = 0
    BY <1>5, FS_EmptySet DEF Blocking
  <2>2. Cardinality(Blocking(frames', D)) = 0
    BY <2>1
  <2>3. Running' => ResetCount' = 0
    BY <1>3 DEF ResetCount
  <2> QED
    BY <1>1, <2>2, <2>3 DEF NnyInv
<1>12. HandlerInv'
  <2>1. ASSUME NEW n \in 0..D, NEW h, HandlerAt(frames, h, n) PROVE HandlerAt(frames', h, n)
    <3>1. ActiveIn(frames', n) = ActiveIn(frames, n)
      BY <1>1, <1>5 DEF ActiveIn
    <3>2. \A i \in ActiveIn(frames, n) : frames'[i].base = frames[i].base
      BY <1>1, <1>2 DEF ActiveIn
    <3> QED
      BY <2>1, <3>1, <3>2, HandlerAtSame
  <2>2. HandlerAt(frames', errfunc', D)
    <3>1. HandlerAt(frames, errfunc, D) /\ D \in 0..D
      BY <1>0, <1>1 DEF HandlerInv, D
    <3> QED
      BY <2>1, <3>1
  <2>3. ASSUME NEW p \in 1..D, Active(frames', p)
        PROVE  HandlerAt(frames', frames'[p].old, p - 1)
    <3>1. Active(frames, p) /\ p - 1 \in 0..D
      BY <1>1, <1>5, <2>3
    <3>2. HandlerAt(frames, frames[p].old, p - 1)
      BY <1>0, <3>1 DEF HandlerInv, D
    <3> QED
      BY <1>2, <2>1, <3>1, <3>2
  <2> QED
    BY <1>1, <2>2, <2>3 DEF HandlerInv
<1>13. TbcInv'
  <2>1. \A m \in 1..Len(tbc), i \in 1..D : TbcOK(tbc[m], frames[i])
    BY <1>0 DEF TbcInv, D
  <2>2. ASSUME NEW m \in 1..Len(tbc), NEW i \in 1..D PROVE TbcOK(tbc[m], frames'[i])
    <3>1. TbcOK(tbc[m], frames[i])
      BY <2>1
    <3>2. CASE i = D
      BY <1>1, <1>2, <3>1, <3>2 DEF TbcOK
    <3>3. CASE i # D
      <4>1. frames'[i].doing = frames[i].doing
        BY <1>1, <3>3
      <4> QED
        BY <1>2, <3>1, <4>1 DEF TbcOK
    <3> QED
      BY <3>2, <3>3
  <2>3. ASSUME NEW m \in 1..Len(tbc) PROVE OwnedIn(frames', D, tbc[m])
    <3>1. OwnedIn(frames, D, tbc[m])
      BY <1>0 DEF TbcInv, D
    <3>2. PICK i \in 1..D : frames[i].base = tbc[m].of
                            \/ (frames[i].doing = "closing" /\ frames[i].base < tbc[m].of)
      BY <3>1 DEF OwnedIn
    <3>3. frames[i].doing = "closing" => frames'[i].doing = "closing"
      <4>1. frames[i].doing = "closing" => i # D
        BY <1>1, <1>4 DEF FrameOK
      <4> QED
        BY <1>1, <4>1
    <3> QED
      BY <1>2, <3>2, <3>3 DEF OwnedIn
  <2> QED
    BY <1>0, <1>1, <2>2, <2>3 DEF TbcInv
<1> QED
  BY <1>6, <1>7, <1>8, <1>9, <1>10, <1>11, <1>12, <1>13 DEF IInv

\* lua_resume continues after a yield.
LEMMA ResumeInv ==
  ASSUME IInv, Resume
  PROVE  IInv'
<1> DEFINE D == Len(frames)
<1>1. /\ TypeOK /\ StatusInv /\ ~Running /\ ~Resetting /\ status = "YIELD" /\ Depth = D
      /\ status' = "OK" /\ jmps' = <<[what |-> "resume", depth |-> 0, nny |-> 0]>>
      /\ frames' = [frames EXCEPT ![D].doing = "run"] /\ nny' = 0
      /\ tbc' = tbc /\ errfunc' = errfunc /\ empty' = empty
  BY DEF Resume, IInv, Resetting, Depth
<1>2. /\ D \in Nat /\ D > 0 /\ frames[D].kind = "lua" /\ frames[D] \in FrameType
      /\ \A i \in 1..D : ~frames[i].act /\ ~SetsJump(frames, i)
  BY <1>1, Typed DEF StatusInv
<1>3. PICK x : x = [frames[D] EXCEPT !.doing = "run"]
  OBVIOUS
<1>4. /\ x \in FrameType /\ x.kind = frames[D].kind /\ x.base = frames[D].base
      /\ x.doing = "run" /\ x.act = frames[D].act /\ x.k = frames[D].k
      /\ x.ypcall = frames[D].ypcall /\ x.rec = frames[D].rec /\ x.old = frames[D].old
  BY <1>2, <1>3 DEF FrameType
<1>5. /\ frames' \in Seq(FrameType) /\ Len(frames') = D
      /\ \A i \in 1..D : frames'[i] = IF i = D THEN x ELSE frames[i]
  <2>1. frames \in Seq(FrameType) /\ D \in 1..Len(frames)
    BY <1>1, <1>2 DEF TypeOK
  <2>2. frames' = [frames EXCEPT ![D] = x]
    BY <1>1, <1>3
  <2> QED
    BY <2>1, <2>2, <1>4, ExceptSeq
<1>6. \A i \in 1..D :
        /\ ~frames'[i].act /\ ~Blocks(frames, i) /\ ~SetsJump(frames, i)
        /\ frames'[i].kind = frames[i].kind /\ frames'[i].base = frames[i].base
        /\ frames'[i].k = frames[i].k /\ frames'[i].ypcall = frames[i].ypcall
        /\ frames'[i].rec = frames[i].rec /\ frames'[i].old = frames[i].old
  <2>1. D \in 1..D
    BY <1>2
  <2> QED
    BY <1>2, <1>4, <1>5, <2>1 DEF Blocks
<1>7. (\A i \in 1..(D - 1) : frames'[i].doing = frames[i].doing) /\ frames'[D].doing = "run"
  BY <1>2, <1>4, <1>5
<1> QED
  BY <1>1, <1>2, <1>5, <1>6, <1>7, SwitchInv

\* A call whose C code is lost.
LostC(f) == [f EXCEPT !.act = FALSE, !.inc = 0]
\* Losing the C code of a frame changes nothing else in it.
LEMMA LostFacts ==
  ASSUME NEW f \in FrameType, NEW y, y = LostC(f)
  PROVE  /\ y \in FrameType
         /\ y.kind = f.kind /\ y.base = f.base /\ y.doing = f.doing /\ ~y.act
         /\ y.inc = 0 /\ y.k = f.k
         /\ y.ypcall = f.ypcall /\ y.rec = f.rec /\ y.old = f.old
<1>0. PICK z \in 0..1 : z = 0
  OBVIOUS
<1>1. y \in FrameType
  <2>1. y = [f EXCEPT !.act = FALSE, !.inc = z]
    BY <1>0 DEF LostC
  <2> QED
    BY <1>0, <2>1 DEF FrameType
<1>2. y.kind = f.kind /\ y.base = f.base /\ y.doing = f.doing /\ y.k = f.k
  BY DEF FrameType, LostC
<1>3. y.act = FALSE /\ y.inc = 0
  BY DEF FrameType, LostC
<1>4. y.ypcall = f.ypcall /\ y.rec = f.rec /\ y.old = f.old
  BY DEF FrameType, LostC
<1> QED
  BY <1>1, <1>2, <1>3, <1>4

SameButC(g, f) ==
    /\ g.kind = f.kind /\ g.base = f.base /\ g.doing = f.doing /\ ~g.act /\ g.inc = 0
    /\ g.k = f.k /\ g.ypcall = f.ypcall /\ g.rec = f.rec /\ g.old = f.old
\* The same for all frames.
LEMMA LoseCFacts ==
  ASSUME NEW fs \in Seq(FrameType), NEW gs, gs = LoseC(fs)
  PROVE  /\ gs \in Seq(FrameType) /\ Len(gs) = Len(fs)
         /\ \A i \in 1..Len(fs) : gs[i] \in FrameType /\ SameButC(gs[i], fs[i])
<1>1. DOMAIN fs = 1..Len(fs) /\ Len(fs) \in Nat /\ \A i \in 1..Len(fs) : fs[i] \in FrameType
  BY LenProperties, ElementOfSeq
<1>2. gs = [i \in 1..Len(fs) |-> LostC(fs[i])]
  BY <1>1 DEF LoseC, LostC
<1>3. ASSUME NEW i \in 1..Len(fs) PROVE gs[i] \in FrameType /\ SameButC(gs[i], fs[i])
  <2>1. PICK f \in FrameType : f = fs[i]
    BY <1>1
  <2>2. PICK y : y = LostC(f)
    OBVIOUS
  <2>3. y \in FrameType /\ SameButC(y, f)
    BY <2>1, <2>2, LostFacts DEF SameButC
  <2>4. gs[i] = y
    BY <1>2, <2>1, <2>2
  <2> QED
    BY <2>1, <2>3, <2>4
<1>4. gs \in [1..Len(fs) -> FrameType]
  <2>1. \A i \in 1..Len(fs) : LostC(fs[i]) \in FrameType
    BY <1>2, <1>3
  <2> QED
    BY <1>2, <2>1
<1>5. gs \in Seq(FrameType) /\ Len(gs) = Len(fs)
  BY <1>1, <1>4, SeqDef, LenProperties
<1> QED
  BY <1>3, <1>5

\* lua_yield: with nny = 0 no call blocks it and no pcall has set a jump.
LEMMA YieldActionInv ==
  ASSUME IInv, Yield
  PROVE  IInv'
<1> DEFINE D == Len(frames)
<1>1. /\ TypeOK /\ StatusInv /\ JmpInv /\ NnyInv /\ YieldInv /\ Running /\ frames # << >>
      /\ Depth = D /\ Top = frames[D] /\ Top.doing = "run" /\ Top.kind = "lua" /\ nny = 0
      /\ status' = "YIELD" /\ jmps' = PopJmp /\ nny' = LastJmp.nny
      /\ frames' = [LoseC(frames) EXCEPT ![D].doing = "call"]
      /\ tbc' = tbc /\ errfunc' = errfunc /\ empty' = empty
  BY DEF Yield, Executes, IInv, Depth, Top
<1>2. D \in Nat /\ D > 0 /\ D \in 1..D /\ \A i \in 1..D : frames[i] \in FrameType
  BY <1>1, Typed
<1>3. ResetCount = 0 /\ \A i \in 1..D : ~Blocks(frames, i)
  <2>1. nny = Cardinality(Blocking(frames, D)) + ResetCount /\ ResetCount \in 0..1
    BY <1>1, <1>2 DEF NnyInv, ResetCount
  <2>2. IsFiniteSet(Blocking(frames, D)) /\ Cardinality(Blocking(frames, D)) \in Nat
    BY <1>2, BlockingCount
  <2>3. Cardinality(Blocking(frames, D)) = 0 /\ ResetCount = 0
    BY <1>1, <2>1, <2>2
  <2>4. Blocking(frames, D) = {}
    BY <2>2, <2>3, FS_EmptySet
  <2> QED
    BY <2>3, <2>4 DEF Blocking
<1>4. \A i \in 1..D : ~SetsJump(frames, i)
  <2>1. ASSUME NEW i \in 1..D PROVE ~SetsJump(frames, i)
    <3>1. YieldOK(frames, D, i)
      BY <1>1 DEF YieldInv
    <3>2. CASE i < D
      BY <1>3, <3>1, <3>2 DEF YieldOK
    <3>3. CASE i = D
      BY <1>1, <3>3 DEF SetsJump, Active
    <3> QED
      BY <1>2, <3>2, <3>3
  <2> QED
    BY <2>1
<1>5. jmps' = << >> /\ nny' = 0 /\ ~Resetting
  <2>1. Len(jmps) = 1 /\ LastJmp = jmps[1]
    BY <1>1, <1>4, OneJump
  <2>2. jmps[1].nny = 0 /\ jmps[1].what # "close"
    BY <1>1, <1>3 DEF JmpInv, ResetCount
  <2> QED
    BY <1>1, <2>1, <2>2, PopOneJump DEF Resetting
<1>6. PICK g : g = LoseC(frames)
  OBVIOUS
<1>7. /\ g \in Seq(FrameType) /\ Len(g) = D
      /\ \A i \in 1..D : g[i] \in FrameType /\ SameButC(g[i], frames[i])
  <2>1. frames \in Seq(FrameType)
    BY <1>1 DEF TypeOK
  <2> QED
    BY <1>6, <2>1, LoseCFacts
<1>8. PICK x : x = [g[D] EXCEPT !.doing = "call"]
  OBVIOUS
<1>9. /\ x \in FrameType /\ x.kind = g[D].kind /\ x.base = g[D].base
      /\ x.doing = "call" /\ x.act = g[D].act /\ x.k = g[D].k
      /\ x.ypcall = g[D].ypcall /\ x.rec = g[D].rec /\ x.old = g[D].old
  <2>1. g[D] \in FrameType
    BY <1>2, <1>7
  <2> QED
    BY <2>1, <1>8 DEF FrameType
<1>10. /\ frames' \in Seq(FrameType) /\ Len(frames') = D
       /\ \A i \in 1..D : frames'[i] = IF i = D THEN x ELSE g[i]
  <2>1. frames' = [g EXCEPT ![D] = x]
    BY <1>1, <1>6, <1>8
  <2>2. g \in Seq(FrameType) /\ D \in 1..Len(g)
    BY <1>2, <1>7
  <2>3. /\ frames' \in Seq(FrameType) /\ Len(frames') = Len(g)
        /\ \A i \in 1..Len(g) : frames'[i] = IF i = D THEN x ELSE g[i]
    BY <1>9, <2>1, <2>2, ExceptSeq
  <2> QED
    BY <1>7, <2>3
<1>11. \A i \in 1..D :
         /\ ~frames'[i].act /\ ~Blocks(frames, i) /\ ~SetsJump(frames, i)
         /\ frames'[i].kind = frames[i].kind /\ frames'[i].base = frames[i].base
         /\ frames'[i].k = frames[i].k /\ frames'[i].ypcall = frames[i].ypcall
         /\ frames'[i].rec = frames[i].rec /\ frames'[i].old = frames[i].old
  BY <1>2, <1>3, <1>4, <1>7, <1>9, <1>10 DEF SameButC
<1>12. /\ \A i \in 1..(D - 1) : frames'[i].doing = frames[i].doing
       /\ frames'[D].doing = "call"
  BY <1>2, <1>7, <1>9, <1>10 DEF SameButC
<1> QED
  BY <1>1, <1>2, <1>5, <1>10, <1>11, <1>12, SwitchInv

-----------------------------------------------------------------------------
\* JmpOK with the depth of the jump named.
LEMMA JmpOKWhen ==
  ASSUME NEW f, NEW j, NEW d, NEW first, d = j.depth
  PROVE  JmpOK(f, j, first) <=>
           /\ SetsJump(f, d)
           /\ j.what = (IF f[d].doing = "call" THEN "pcall" ELSE "close")
           /\ j.nny = Cardinality(Blocking(f, d - 1)) + first
  BY DEF JmpOK

\* Frame e gets an error: it becomes x, and the calls above it are no more.  Its
\* jump, if it has one, is now that of luaD_closeprotected.
Recovered(e, x) ==
    /\ x \in FrameType /\ x.kind = "pcall" /\ x.base = frames[e].base /\ x.doing = "closing"
    /\ x.inc = 0 /\ x.k = frames[e].k /\ x.ypcall = frames[e].ypcall /\ x.old = frames[e].old
    /\ x.ypcall => x.rec = "ERROR"
    /\ frames' \in Seq(FrameType) /\ Len(frames') = e /\ frames'[e] = x
    /\ \A i \in 1..(e - 1) :
         /\ Blocks(frames', i) <=> Blocks(frames, i)
         /\ frames'[i].kind = frames[i].kind /\ frames'[i].base = frames[i].base
         /\ frames'[i].doing = frames[i].doing /\ frames'[i].k = frames[i].k
         /\ frames'[i].ypcall = frames[i].ypcall /\ frames'[i].rec = frames[i].rec
         /\ frames'[i].old = frames[i].old
    /\ jmps' \in Seq(JmpType) /\ Len(jmps') = Len(jmps) /\ jmps'[1] = jmps[1]
    /\ \A m \in 1..Len(jmps) :
         /\ jmps[m].depth <= e
         /\ jmps'[m].depth = jmps[m].depth /\ jmps'[m].nny = jmps[m].nny
         /\ jmps'[m].what = IF m > 1 /\ jmps[m].depth = e THEN "close" ELSE jmps[m].what
    /\ nny' = Cardinality(Blocking(frames, e - 1)) + ResetCount
    /\ status' = status /\ tbc' = tbc /\ errfunc' = errfunc /\ empty' = empty

\* An error arrives at frame e, the innermost pcall in progress.
LEMMA RecoverInv ==
  ASSUME IInv, Running, NEW e \in 1..Len(frames), Active(frames, e),
         \A i \in 1..Len(frames) : i > e => ~Active(frames, i),
         NEW x, Recovered(e, x)
  PROVE  IInv'
<1> DEFINE D == Len(frames)
<1>0. /\ TypeOK /\ FrameInv /\ StatusInv /\ YieldInv /\ JmpInv /\ NnyInv
      /\ HandlerInv /\ TbcInv
  BY DEF IInv
<1>1. /\ D \in Nat /\ D > 0 /\ e \in Nat /\ e > 0 /\ e <= D
      /\ frames' \in Seq(FrameType) /\ Len(frames') = e /\ frames'[e] = x
      /\ frames[e].kind = "pcall" /\ frames[e].doing # "ret"
      /\ \A i \in 1..D : i > e => ~Active(frames, i)
  BY <1>0, Typed DEF Active, Recovered
<1>2. \A i \in 1..(e - 1) :
        /\ Blocks(frames', i) <=> Blocks(frames, i)
        /\ frames'[i].kind = frames[i].kind /\ frames'[i].base = frames[i].base
        /\ frames'[i].doing = frames[i].doing /\ frames'[i].k = frames[i].k
        /\ frames'[i].ypcall = frames[i].ypcall /\ frames'[i].rec = frames[i].rec
        /\ frames'[i].old = frames[i].old
  BY DEF Recovered
<1>3. /\ Len(jmps) \in Nat /\ Len(jmps) > 0 /\ jmps' \in Seq(JmpType)
      /\ Len(jmps') = Len(jmps) /\ jmps'[1] = jmps[1] /\ Running' /\ status = "OK"
  <2>1. Len(jmps) \in Nat /\ Len(jmps) > 0
    BY <1>0, Typed DEF Running
  <2>2. jmps' \in Seq(JmpType) /\ Len(jmps') = Len(jmps) /\ jmps'[1] = jmps[1]
    BY DEF Recovered
  <2>3. jmps' # << >>
    BY <2>1, <2>2
  <2> QED
    BY <2>1, <2>2, <2>3, <1>0 DEF Running, StatusInv
<1>4. \A m \in 1..Len(jmps) :
        /\ jmps'[m].depth = jmps[m].depth /\ jmps'[m].nny = jmps[m].nny
        /\ jmps'[m].what = IF m > 1 /\ jmps[m].depth = e THEN "close" ELSE jmps[m].what
        /\ jmps[m].depth <= e
  BY DEF Recovered
<1>5. /\ x \in FrameType /\ x.kind = "pcall" /\ x.base = frames[e].base /\ x.doing = "closing"
      /\ x.inc = 0 /\ x.k = frames[e].k /\ x.ypcall = frames[e].ypcall
      /\ x.old = frames[e].old /\ (x.ypcall => x.rec = "ERROR")
  BY DEF Recovered
<1>51. /\ nny' = Cardinality(Blocking(frames, e - 1)) + ResetCount
       /\ status' = status /\ tbc' = tbc /\ errfunc' = errfunc /\ empty' = empty
  BY DEF Recovered
<1> HIDE DEF D
<1>6. /\ \A i \in 1..D : FrameOK(frames, D, i) /\ YieldOK(frames, D, i)
      /\ \A i, l \in 1..D : FramePairOK(frames, i, l)
      /\ \A i, l \in 1..D : i < l /\ frames[l].ypcall => ~Blocks(frames, i)
  BY <1>0 DEF FrameInv, YieldInv, D
<1>7. /\ \A i \in 1..e : /\ Active(frames', i) <=> Active(frames, i)
                         /\ SetsJump(frames', i) <=> SetsJump(frames, i)
                         /\ frames'[i].kind = frames[i].kind
                         /\ frames'[i].base = frames[i].base
                         /\ frames'[i].old = frames[i].old
                         /\ frames'[i].ypcall = frames[i].ypcall
                         /\ i \in 1..D /\ (i < e => i < D)
      /\ ~Blocks(frames', e)
  <2>1. ASSUME NEW i \in 1..e
        PROVE  /\ Active(frames', i) <=> Active(frames, i)
               /\ SetsJump(frames', i) <=> SetsJump(frames, i)
               /\ frames'[i].kind = frames[i].kind
               /\ frames'[i].base = frames[i].base
               /\ frames'[i].old = frames[i].old
               /\ frames'[i].ypcall = frames[i].ypcall
               /\ i \in 1..D /\ (i < e => i < D)
    <3>1. i \in 1..D /\ (i < e => i < D)
      BY <1>1
    <3>2. CASE i = e
      BY <1>1, <1>5, <3>1, <3>2 DEF Active, SetsJump
    <3>3. CASE i # e
      <4>1. i \in 1..(e - 1)
        BY <1>1, <3>3
      <4> QED
        BY <1>2, <3>1, <4>1 DEF Active, SetsJump
    <3> QED
      BY <3>2, <3>3
  <2> QED
    BY <1>1, <1>5, <2>1 DEF Blocks
<1>8. TypeOK'
  <2>1. nny' \in Nat
    BY <1>1, <1>51, BlockingCount DEF ResetCount
  <2> QED
    BY <1>0, <1>1, <1>3, <1>51, <2>1 DEF TypeOK
<1>9. FrameInv'
  <2>1. ASSUME NEW i \in 1..e PROVE FrameOK(frames', e, i)
    <3>1. FrameOK(frames, D, i)
      BY <1>6, <1>7
    <3>2. CASE i = e
      BY <3>1, <3>2, <1>1, <1>5 DEF FrameOK
    <3>3. CASE i # e
      <4>1. i \in 1..(e - 1) /\ i < e /\ i < D
        BY <1>1, <3>3
      <4> QED
        BY <3>1, <4>1, <1>2 DEF FrameOK
    <3> QED
      BY <3>2, <3>3
  <2>2. ASSUME NEW i \in 1..e, NEW l \in 1..e PROVE FramePairOK(frames', i, l)
    <3>1. FramePairOK(frames, i, l)
      BY <1>6, <1>7
    <3>2. CASE i = e
      BY <1>1, <3>2 DEF FramePairOK
    <3>3. CASE i # e
      <4>1. i \in 1..(e - 1)
        BY <1>1, <3>3
      <4> QED
        BY <3>1, <4>1, <1>2, <1>7 DEF FramePairOK
    <3> QED
      BY <3>2, <3>3
  <2> QED
    BY <1>1, <2>1, <2>2 DEF FrameInv
<1>10. StatusInv'
  BY <1>1, <1>3, <1>5, <1>51, <1>7 DEF StatusInv
<1>11. YieldInv'
  <2>1. ASSUME NEW i \in 1..e PROVE YieldOK(frames', e, i)
    <3>1. YieldOK(frames, D, i)
      BY <1>6, <1>7
    <3>2. CASE i = e
      BY <3>1, <3>2, <1>1, <1>5, <1>7 DEF YieldOK, Active
    <3>3. CASE i # e
      <4>1. i \in 1..(e - 1) /\ i < D
        BY <1>1, <3>3
      <4> QED
        BY <3>1, <4>1, <1>2, <1>7 DEF YieldOK
    <3> QED
      BY <3>2, <3>3
  <2>2. ASSUME NEW i \in 1..e, NEW l \in 1..e, i < l, frames'[l].ypcall
        PROVE  ~Blocks(frames', i)
    <3>1. ~Blocks(frames, i)
      BY <1>6, <1>7, <2>2
    <3>2. i \in 1..(e - 1)
      BY <1>1, <2>2
    <3> QED
      BY <1>2, <3>1, <3>2
  <2> QED
    BY <1>1, <2>1, <2>2 DEF YieldInv
<1>12. ResetCount' = ResetCount
  BY <1>3 DEF ResetCount
<1>13. JmpInv'
  <2>1. /\ jmps[1].what \in {"resume", "close"} /\ jmps[1].depth = 0 /\ jmps[1].nny = 0
        /\ jmps[1].what = "close" => \A i \in 1..D : ~frames[i].ypcall
        /\ \A l, m \in 1..Len(jmps) : l < m => jmps[l].depth < jmps[m].depth
        /\ \A m \in 2..Len(jmps) : jmps[m].depth \in 1..D /\ JmpOK(frames, jmps[m], ResetCount)
        /\ \A i \in 1..D : SetsJump(frames, i) => \E m \in 2..Len(jmps) : jmps[m].depth = i
    BY <1>0 DEF JmpInv, D
  <2>2. ASSUME NEW m \in 2..Len(jmps)
        PROVE  jmps'[m].depth \in 1..e /\ JmpOK(frames', jmps'[m], ResetCount)
    <3>1. m \in 1..Len(jmps) /\ m > 1
      BY <1>3
    <3>2. PICK d \in 1..e : d = jmps[m].depth /\ d = jmps'[m].depth
      BY <1>1, <1>4, <2>1, <3>1
    <3>3. /\ SetsJump(frames, d)
          /\ jmps[m].what = IF frames[d].doing = "call" THEN "pcall" ELSE "close"
          /\ jmps[m].nny = Cardinality(Blocking(frames, d - 1)) + ResetCount
      <4>1. PICK q : q = jmps[m]
        OBVIOUS
      <4>2. JmpOK(frames, q, ResetCount) /\ d = q.depth
        BY <2>1, <3>2, <4>1
      <4>3. /\ SetsJump(frames, d)
            /\ q.what = IF frames[d].doing = "call" THEN "pcall" ELSE "close"
            /\ q.nny = Cardinality(Blocking(frames, d - 1)) + ResetCount
        BY <4>2, JmpOKWhen
      <4> QED
        BY <4>1, <4>3
    <3>4. SetsJump(frames', d)
      BY <1>7, <3>3
    <3>5. Blocking(frames', d - 1) = Blocking(frames, d - 1)
      BY <1>1, <1>2, <3>2 DEF Blocking
    <3>6. jmps'[m].nny = Cardinality(Blocking(frames', d - 1)) + ResetCount
      BY <1>4, <3>1, <3>3, <3>5
    <3>7. jmps'[m].what = IF frames'[d].doing = "call" THEN "pcall" ELSE "close"
      <4>1. CASE d = e
        BY <1>1, <1>4, <1>5, <3>1, <3>2, <4>1
      <4>2. CASE d # e
        <5>1. d \in 1..(e - 1)
          BY <1>1, <3>2, <4>2
        <5>2. jmps'[m].what = jmps[m].what
          BY <1>4, <3>1, <3>2, <4>2
        <5> QED
          BY <1>2, <3>3, <5>1, <5>2
      <4> QED
        BY <4>1, <4>2
    <3>8. PICK j : j = jmps'[m]
      OBVIOUS
    <3>9. JmpOK(frames', j, ResetCount)
      BY <3>2, <3>4, <3>6, <3>7, <3>8, JmpOKWhen
    <3> QED
      BY <3>2, <3>8, <3>9
  <2>3. \A l, m \in 1..Len(jmps) : l < m => jmps'[l].depth < jmps'[m].depth
    BY <1>4, <2>1
  <2>4. ASSUME NEW i \in 1..e, SetsJump(frames', i)
        PROVE  \E m \in 2..Len(jmps) : jmps'[m].depth = i
    <3>1. SetsJump(frames, i) /\ i \in 1..D
      BY <1>7, <2>4
    <3>2. PICK m \in 2..Len(jmps) : jmps[m].depth = i
      BY <2>1, <3>1
    <3>3. jmps'[m].depth = i
      BY <1>3, <1>4, <3>2
    <3> QED
      BY <3>2, <3>3
  <2>5. jmps'[1].what = "close" => \A i \in 1..e : ~frames'[i].ypcall
    BY <1>3, <1>7, <2>1
  <2> QED
    BY <1>1, <1>3, <1>12, <2>1, <2>2, <2>3, <2>4, <2>5 DEF JmpInv
<1>14. NnyInv'
  <2>1. Blocking(frames', e) = Blocking(frames, e - 1)
    BY <1>1, <1>2, <1>7 DEF Blocking
  <2> QED
    BY <1>1, <1>12, <1>51, <2>1 DEF NnyInv
<1>15. HandlerInv'
  <2>1. ASSUME NEW n \in 0..e, NEW h, HandlerAt(frames, h, n) PROVE HandlerAt(frames', h, n)
    <3>1. ActiveIn(frames', n) = ActiveIn(frames, n)
      BY <1>1, <1>7 DEF ActiveIn
    <3>2. \A i \in ActiveIn(frames, n) : frames'[i].base = frames[i].base
      BY <1>1, <1>7 DEF ActiveIn
    <3> QED
      BY <2>1, <3>1, <3>2, HandlerAtSame
  <2>2. HandlerAt(frames', errfunc', e)
    <3>1. HandlerAt(frames, errfunc, D)
      BY <1>0 DEF HandlerInv, D
    <3>2. ActiveIn(frames', e) = ActiveIn(frames, D)
      BY <1>1, <1>7 DEF ActiveIn
    <3>3. \A i \in ActiveIn(frames, D) : i \in 1..e
      BY <1>1 DEF ActiveIn
    <3>4. \A i \in ActiveIn(frames, D) : frames'[i].base = frames[i].base
      BY <1>7, <3>3
    <3> QED
      BY <1>51, <3>1, <3>2, <3>4, HandlerAtSame
  <2>3. ASSUME NEW p \in 1..e, Active(frames', p)
        PROVE  HandlerAt(frames', frames'[p].old, p - 1)
    <3>1. Active(frames, p) /\ p - 1 \in 0..e /\ p \in 1..D
      BY <1>1, <1>7, <2>3
    <3>2. HandlerAt(frames, frames[p].old, p - 1)
      BY <1>0, <3>1 DEF HandlerInv, D
    <3> QED
      BY <1>7, <2>1, <3>1, <3>2
  <2> QED
    BY <1>1, <2>2, <2>3 DEF HandlerInv
<1>16. TbcInv'
  <2>1. \A m \in 1..Len(tbc) : tbc[m].place \in Nat /\ tbc[m].of \in Nat
    BY <1>0, Typed DEF TbcType
  <2>2. \A m \in 1..Len(tbc), i \in 1..D : TbcOK(tbc[m], frames[i])
    BY <1>0 DEF TbcInv, D
  <2>3. ASSUME NEW m \in 1..Len(tbc), NEW i \in 1..e PROVE TbcOK(tbc[m], frames'[i])
    <3>1. TbcOK(tbc[m], frames[i])
      BY <1>7, <2>2
    <3>2. CASE i = e
      BY <1>1, <1>5, <3>1, <3>2 DEF TbcOK
    <3>3. CASE i # e
      <4>1. i \in 1..(e - 1)
        BY <1>1, <3>3
      <4> QED
        BY <1>2, <3>1, <4>1 DEF TbcOK
    <3> QED
      BY <3>2, <3>3
  <2>4. ASSUME ~Resetting', NEW m \in 1..Len(tbc) PROVE OwnedIn(frames', e, tbc[m])
    <3>1. ~Resetting
      BY <1>3, <2>4 DEF Resetting
    <3>2. OwnedIn(frames, D, tbc[m])
      BY <1>0, <3>1 DEF TbcInv, D
    <3>3. PICK i \in 1..D : frames[i].base = tbc[m].of
                            \/ (frames[i].doing = "closing" /\ frames[i].base < tbc[m].of)
      BY <3>2 DEF OwnedIn
    <3>4. CASE i < e
      <4>1. i \in 1..(e - 1) /\ i \in 1..e
        BY <1>1, <3>4
      <4> QED
        BY <1>2, <3>3, <4>1 DEF OwnedIn
    <3>5. CASE i = e
      <4>1. e \in 1..e
        BY <1>1
      <4> QED
        BY <1>1, <1>5, <3>3, <3>5, <4>1 DEF OwnedIn
    <3>6. CASE i > e
      <4>1. FramePairOK(frames, e, i) /\ e \in 1..e
        BY <1>1, <1>6, <3>6
      <4>2. frames[e].base < frames[i].base
        BY <3>6, <4>1 DEF FramePairOK
      <4>3. frames[e].base \in Nat /\ frames[i].base \in Nat
        BY <1>0, <1>1, Typed DEF FrameType, D
      <4>4. frames[e].base < tbc[m].of
        BY <2>1, <3>3, <4>2, <4>3
      <4> QED
        BY <1>1, <1>5, <4>1, <4>4 DEF OwnedIn
    <3> QED
      BY <1>1, <3>4, <3>5, <3>6
  <2> QED
    BY <1>0, <1>1, <1>51, <2>3, <2>4 DEF TbcInv
<1> QED
  BY <1>8, <1>9, <1>10, <1>11, <1>13, <1>14, <1>15, <1>16 DEF IInv

\* The last jump, where it is not the first: that of the innermost pcall in
\* progress.
LEMMA LastJumpFacts ==
  ASSUME IInv, Running, Len(jmps) # 1, NEW e, e = LastJmp.depth
  PROVE  /\ e \in 1..Len(frames) /\ SetsJump(frames, e) /\ Active(frames, e)
         /\ LastJmp.nny = Cardinality(Blocking(frames, e - 1)) + ResetCount
         /\ LastJmp.what \in {"pcall", "close"}
         /\ Len(jmps) \in Nat /\ Len(jmps) > 1
         /\ \A m \in 1..(Len(jmps) - 1) : jmps[m].depth < e
         /\ \A i \in 1..Len(frames) : i > e => ~Active(frames, i)
<1> DEFINE D == Len(frames)
           L == Len(jmps)
<1>1. TypeOK /\ JmpInv /\ YieldInv
  BY DEF IInv
<1>2. D \in Nat /\ L \in Nat /\ L > 1 /\ \A m \in 1..L : jmps[m].depth \in Nat
  <2>1. D \in Nat /\ L \in Nat /\ L > 0
    BY <1>1, Typed DEF Running
  <2>2. \A m \in 1..L : jmps[m].depth \in Nat
    BY <1>1, Typed DEF JmpType
  <2>3. L > 1
    BY <2>1
  <2> QED
    BY <2>1, <2>2, <2>3
<1>3. PICK j : j = LastJmp
  OBVIOUS
<1>4. e \in 1..D /\ JmpOK(frames, j, ResetCount) /\ e = j.depth
  <2>1. L \in 2..L
    BY <1>2
  <2> QED
    BY <1>1, <1>3, <2>1 DEF JmpInv, LastJmp
<1>5. /\ SetsJump(frames, e)
      /\ j.what = (IF frames[e].doing = "call" THEN "pcall" ELSE "close")
      /\ j.nny = Cardinality(Blocking(frames, e - 1)) + ResetCount
  BY <1>4, JmpOKWhen
<1>6. \A m \in 1..(L - 1) : jmps[m].depth < e
  <2>1. \A l, m \in 1..L : l < m => jmps[l].depth < jmps[m].depth
    BY <1>1 DEF JmpInv
  <2>2. L \in 1..L /\ \A m \in 1..(L - 1) : m \in 1..L /\ m < L
    BY <1>2
  <2> QED
    BY <2>1, <2>2 DEF LastJmp
<1>7. ASSUME NEW i \in 1..D, i > e, Active(frames, i) PROVE FALSE
  <2>1. CASE frames[i].ypcall
    <3>1. ~Blocks(frames, e)
      BY <1>1, <1>4, <1>7, <2>1 DEF YieldInv
    <3>2. YieldOK(frames, D, e)
      BY <1>1, <1>4 DEF YieldInv
    <3>3. e < D
      BY <1>2, <1>4, <1>7
    <3> QED
      BY <1>5, <3>1, <3>2, <3>3 DEF YieldOK
  <2>2. CASE ~frames[i].ypcall
    <3>1. SetsJump(frames, i)
      BY <1>7, <2>2 DEF SetsJump
    <3>2. PICK m \in 2..L : jmps[m].depth = i
      BY <1>1, <3>1 DEF JmpInv
    <3>3. m = L \/ m \in 1..(L - 1)
      BY <1>2, <3>2
    <3>4. i = e \/ i < e
      BY <1>6, <3>2, <3>3 DEF LastJmp
    <3> QED
      BY <1>2, <1>4, <1>7, <3>4
  <2> QED
    BY <2>1, <2>2
<1> QED
  BY <1>2, <1>3, <1>4, <1>5, <1>6, <1>7 DEF SetsJump

\* Only the jump of lua_resume is for errors that luaD_pcall does not see.
LEMMA ResumeJumps ==
  ASSUME IInv, Running, LastJmp.what = "resume"
  PROVE  /\ Len(jmps) = 1 /\ LastJmp = jmps[1] /\ ResetCount = 0 /\ ~Resetting
         /\ jmps[1].nny = 0 /\ jmps[1].depth = 0
         /\ \A i \in 1..Len(frames) : ~SetsJump(frames, i)
<1>1. Len(jmps) = 1
  BY LastJumpFacts
<1>2. LastJmp = jmps[1]
  BY <1>1 DEF LastJmp
<1>3. ResetCount = 0 /\ ~Resetting
  BY <1>2 DEF ResetCount, Resetting
<1>4. /\ jmps[1].nny = 0 /\ jmps[1].depth = 0
      /\ \A i \in 1..Len(frames) : ~SetsJump(frames, i)
  BY <1>1 DEF IInv, JmpInv
<1> QED
  BY <1>1, <1>2, <1>3, <1>4

\* A frame as 'Recover' makes it.
Recovering(c, r) == [c EXCEPT !.doing = "closing", !.act = TRUE, !.inc = 0, !.rec = r]
\* What an error changes in the pcall that it arrives at.
LEMMA RecoverFacts ==
  ASSUME NEW c \in FrameType, NEW r \in {"OK", "ERROR"}, NEW x, x = Recovering(c, r)
  PROVE  /\ x \in FrameType /\ x.kind = c.kind /\ x.base = c.base /\ x.doing = "closing"
         /\ x.inc = 0 /\ x.k = c.k /\ x.ypcall = c.ypcall /\ x.rec = r /\ x.old = c.old
<1>1. PICK z \in 0..1 : z = 0
  OBVIOUS
<1>2. x = [c EXCEPT !.doing = "closing", !.act = TRUE, !.inc = z, !.rec = r]
  BY <1>1 DEF Recovering
<1> QED
  BY <1>1, <1>2 DEF FrameType

\* One more element.
LEMMA AppendSeq ==
  ASSUME NEW S, NEW g \in Seq(S), NEW x \in S, NEW n \in Nat \ {0}, Len(g) = n - 1,
         NEW h, h = Append(g, x)
  PROVE  /\ h \in Seq(S) /\ Len(h) = n /\ h[n] = x
         /\ \A i \in 1..(n - 1) : h[i] = g[i]
<1>1. n - 1 + 1 = n
  OBVIOUS
<1> QED
  BY <1>1, AppendProperties

\* lua_resume gets the error and unrolls from the innermost lua_pcallk.
ToResume(e) ==
    /\ LastJmp.what = "resume" /\ e \in FindPcall
    /\ frames' = Recover(e, LoseC(Below(e - 1)), "ERROR")
    /\ status' = status /\ jmps' = jmps /\ nny' = LastJmp.nny
    /\ tbc' = tbc /\ errfunc' = errfunc /\ empty' = empty
\* An error caught in lua_resume, recovered at a pcall that set no jump.
LEMMA ThrowToResumeInv ==
  ASSUME IInv, Running, NEW e, ToResume(e)
  PROVE  IInv'
<1> DEFINE D == Len(frames)
<1>1. TypeOK /\ YieldInv /\ JmpInv
  BY DEF IInv
<1>2. /\ D \in Nat /\ frames \in Seq(FrameType)
      /\ \A i \in 1..D : frames[i] \in FrameType
  BY <1>1, Typed DEF TypeOK
<1>3. e \in 1..D /\ frames[e].ypcall /\ \A j \in (e + 1)..D : ~frames[j].ypcall
  BY <1>2, LenProperties DEF FindPcall, Depth, ToResume
<1>4. /\ Len(jmps) = 1 /\ LastJmp = jmps[1] /\ ResetCount = 0 /\ jmps[1].nny = 0
      /\ jmps[1].depth = 0 /\ \A i \in 1..D : ~SetsJump(frames, i)
  BY ResumeJumps DEF ToResume
<1>5. \A i \in 1..D : i > e => ~Active(frames, i)
  <2>1. ASSUME NEW i \in 1..D, i > e, Active(frames, i) PROVE FALSE
    <3>1. i \in (e + 1)..D
      BY <1>2, <1>3, <2>1
    <3> QED
      BY <1>3, <1>4, <2>1, <3>1 DEF SetsJump
  <2> QED
    BY <2>1
<1>6. Active(frames, e) /\ frames[e].kind = "pcall"
  BY <1>1, <1>3 DEF YieldInv, YieldOK, Active
<1>7. PICK c : c = frames[e]
  OBVIOUS
<1>8. PICK x : x = Recovering(c, "ERROR")
  OBVIOUS
<1>9. /\ x \in FrameType /\ x.kind = c.kind /\ x.base = c.base /\ x.doing = "closing"
      /\ x.inc = 0 /\ x.k = c.k /\ x.ypcall = c.ypcall /\ x.rec = "ERROR" /\ x.old = c.old
  <2>1. c \in FrameType
    BY <1>2, <1>3, <1>7
  <2> QED
    BY <1>8, <2>1, RecoverFacts
<1>10. PICK h : h = SubSeq(frames, 1, e - 1)
  OBVIOUS
<1>11. h \in Seq(FrameType) /\ Len(h) = e - 1 /\ \A i \in 1..(e - 1) : h[i] = frames[i]
  <2>1. e - 1 \in 0..Len(frames)
    BY <1>2, <1>3
  <2> QED
    BY <1>2, <1>10, <2>1, FrontSeq
<1>12. PICK g : g = LoseC(h)
  OBVIOUS
<1>13. /\ g \in Seq(FrameType) /\ Len(g) = e - 1
       /\ \A i \in 1..(e - 1) : SameButC(g[i], frames[i])
  <2>1. /\ g \in Seq(FrameType) /\ Len(g) = Len(h)
        /\ \A i \in 1..Len(h) : g[i] \in FrameType /\ SameButC(g[i], h[i])
    BY <1>11, <1>12, LoseCFacts
  <2> QED
    BY <1>11, <2>1
<1>14. frames' = Append(g, x)
  BY <1>7, <1>8, <1>10, <1>12 DEF ToResume, Recover, Below, Recovering
<1>15. /\ frames' \in Seq(FrameType) /\ Len(frames') = e /\ frames'[e] = x
       /\ \A i \in 1..(e - 1) : frames'[i] = g[i]
  <2>1. e \in Nat \ {0}
    BY <1>2, <1>3
  <2> QED
    BY <2>1, <1>9, <1>13, <1>14, AppendSeq
<1>16. \A i \in 1..(e - 1) :
         /\ Blocks(frames', i) <=> Blocks(frames, i)
         /\ frames'[i].kind = frames[i].kind /\ frames'[i].base = frames[i].base
         /\ frames'[i].doing = frames[i].doing /\ frames'[i].k = frames[i].k
         /\ frames'[i].ypcall = frames[i].ypcall /\ frames'[i].rec = frames[i].rec
         /\ frames'[i].old = frames[i].old
  <2>1. \A i \in 1..(e - 1) : ~Blocks(frames, i)
    <3>1. \A i \in 1..(e - 1) : i \in 1..D /\ i < e
      BY <1>2, <1>3
    <3> QED
      BY <1>1, <1>3, <3>1 DEF YieldInv
  <2>2. \A i \in 1..(e - 1) : ~Blocks(frames', i)
    BY <1>13, <1>15 DEF Blocks, SameButC
  <2> QED
    BY <1>11, <1>13, <1>15, <2>1, <2>2 DEF SameButC
<1>17. nny' = Cardinality(Blocking(frames, e - 1)) + ResetCount
  <2>1. \A i \in 1..(e - 1) : i \in 1..D /\ i < e
    BY <1>2, <1>3
  <2>2. Blocking(frames, e - 1) = {} /\ Cardinality({}) = 0
    BY <1>1, <1>3, <2>1, FS_EmptySet DEF YieldInv, Blocking
  <2>3. Cardinality(Blocking(frames, e - 1)) = 0
    BY <2>2
  <2> QED
    BY <1>4, <2>3 DEF ToResume
<1>18. /\ jmps' \in Seq(JmpType) /\ Len(jmps') = Len(jmps) /\ jmps'[1] = jmps[1]
       /\ \A m \in 1..Len(jmps) :
            /\ jmps[m].depth <= e
            /\ jmps'[m].depth = jmps[m].depth /\ jmps'[m].nny = jmps[m].nny
            /\ jmps'[m].what = IF m > 1 /\ jmps[m].depth = e THEN "close" ELSE jmps[m].what
  BY <1>1, <1>3, <1>4 DEF TypeOK, ToResume
<1>19. Recovered(e, x)
  BY <1>6, <1>7, <1>9, <1>15, <1>16, <1>17, <1>18 DEF Recovered, ToResume
<1> QED
  BY <1>3, <1>5, <1>6, <1>19, RecoverInv

\* luaD_pcall or luaD_closeprotected gets the error.
ToPcall(e) ==
    /\ Len(jmps) # 1 /\ e = LastJmp.depth
    /\ frames' = Recover(e, Below(e - 1), "OK")
    /\ \/ LastJmp.what = "pcall" /\ jmps' = [jmps EXCEPT ![Len(jmps)].what = "close"]
       \/ LastJmp.what = "close" /\ jmps' = jmps
    /\ status' = status /\ nny' = LastJmp.nny
    /\ tbc' = tbc /\ errfunc' = errfunc /\ empty' = empty
\* An error caught in luaD_pcall, first or while it closes variables.
LEMMA ThrowToPcallInv ==
  ASSUME IInv, Running, NEW e, ToPcall(e)
  PROVE  IInv'
<1> DEFINE D == Len(frames)
           L == Len(jmps)
<1>1. TypeOK
  BY DEF IInv
<1>2. /\ D \in Nat /\ frames \in Seq(FrameType) /\ jmps \in Seq(JmpType)
      /\ \A i \in 1..D : frames[i] \in FrameType
      /\ \A m \in 1..L : jmps[m] \in JmpType
  BY <1>1, Typed DEF TypeOK
<1>3. /\ e \in 1..D /\ SetsJump(frames, e) /\ Active(frames, e)
      /\ LastJmp.nny = Cardinality(Blocking(frames, e - 1)) + ResetCount
      /\ L \in Nat /\ L > 1
      /\ \A m \in 1..(L - 1) : jmps[m].depth < e
      /\ \A i \in 1..D : i > e => ~Active(frames, i)
  BY LastJumpFacts DEF ToPcall
<1>4. frames[e].kind = "pcall" /\ ~frames[e].ypcall
  BY <1>3 DEF Active, SetsJump
<1>5. PICK c : c = frames[e]
  OBVIOUS
<1>6. PICK x : x = Recovering(c, "OK")
  OBVIOUS
<1>7. /\ x \in FrameType /\ x.kind = c.kind /\ x.base = c.base /\ x.doing = "closing"
      /\ x.inc = 0 /\ x.k = c.k /\ x.ypcall = c.ypcall /\ x.old = c.old
  <2>1. c \in FrameType
    BY <1>2, <1>3, <1>5
  <2> QED
    BY <1>6, <2>1, RecoverFacts
<1>8. frames' = Append(SubSeq(frames, 1, e - 1), x)
  BY <1>5, <1>6 DEF ToPcall, Recover, Below, Recovering
<1>9. /\ frames' \in Seq(FrameType) /\ Len(frames') = e /\ frames'[e] = x
      /\ \A i \in 1..(e - 1) : frames'[i] = frames[i]
  BY <1>2, <1>3, <1>7, <1>8, ReplaceTopSeq
<1>10. /\ jmps' \in Seq(JmpType) /\ Len(jmps') = L /\ jmps'[1] = jmps[1]
       /\ \A m \in 1..L :
            /\ jmps[m].depth <= e
            /\ jmps'[m].depth = jmps[m].depth /\ jmps'[m].nny = jmps[m].nny
            /\ jmps'[m].what = IF m > 1 /\ jmps[m].depth = e THEN "close" ELSE jmps[m].what
  <2>1. PICK j : j = [jmps[L] EXCEPT !.what = "close"]
    OBVIOUS
  <2>2. L \in 1..L /\ jmps[L] = LastJmp /\ e = LastJmp.depth
    BY <1>3 DEF LastJmp, ToPcall
  <2>3. j \in JmpType /\ j.depth = LastJmp.depth /\ j.nny = LastJmp.nny /\ j.what = "close"
    BY <1>2, <2>1, <2>2 DEF JmpType
  <2>4. /\ jmps' \in Seq(JmpType) /\ Len(jmps') = L
        /\ \A m \in 1..L : jmps'[m] = jmps[m] \/ (m = L /\ jmps'[m] = j)
        /\ jmps'[L].what = "close"
    <3>1. CASE LastJmp.what = "pcall" /\ jmps' = [jmps EXCEPT ![Len(jmps)].what = "close"]
      <4>1. jmps' = [jmps EXCEPT ![L] = j]
        BY <2>1, <3>1
      <4>2. /\ jmps' \in Seq(JmpType) /\ Len(jmps') = L
            /\ \A m \in 1..L : jmps'[m] = IF m = L THEN j ELSE jmps[m]
        BY <1>2, <2>2, <2>3, <4>1, ExceptSeq
      <4> QED
        BY <2>2, <2>3, <4>2
    <3>2. CASE LastJmp.what = "close" /\ jmps' = jmps
      BY <1>2, <2>2, <3>2
    <3> QED
      BY <3>1, <3>2 DEF ToPcall
  <2>5. ASSUME NEW m \in 1..L
        PROVE  /\ jmps[m].depth <= e
               /\ jmps'[m].depth = jmps[m].depth /\ jmps'[m].nny = jmps[m].nny
               /\ jmps'[m].what = IF m > 1 /\ jmps[m].depth = e THEN "close" ELSE jmps[m].what
    <3>1. CASE m = L
      BY <1>3, <2>2, <2>3, <2>4, <3>1
    <3>2. CASE m # L
      <4>1. m \in 1..(L - 1) /\ jmps'[m] = jmps[m]
        BY <1>3, <2>4, <3>2
      <4>2. jmps[m].depth < e /\ jmps[m].depth \in Nat /\ e \in Nat
        BY <1>2, <1>3, <4>1 DEF JmpType
      <4> QED
        BY <4>1, <4>2
    <3> QED
      BY <3>1, <3>2
  <2>6. jmps'[1] = jmps[1]
    BY <1>3, <2>4
  <2> QED
    BY <2>4, <2>5, <2>6
<1>11. \A i \in 1..(e - 1) : Blocks(frames', i) <=> Blocks(frames, i)
  BY <1>9 DEF Blocks
<1>12. nny' = Cardinality(Blocking(frames, e - 1)) + ResetCount
  BY <1>3 DEF ToPcall
<1>13. Recovered(e, x)
  BY <1>4, <1>5, <1>7, <1>9, <1>10, <1>11, <1>12 DEF Recovered, ToPcall
<1> QED
  BY <1>3, <1>13, RecoverInv

\* Errors, wherever they arrive: also in luaE_resetthread, or nowhere.
LEMMA ThrowInv ==
  ASSUME IInv, Throw
  PROVE  IInv'
<1>1. /\ Running /\ nny' = LastJmp.nny
      /\ tbc' = tbc /\ errfunc' = errfunc /\ empty' = empty
  BY DEF Throw, Unwind, Executes
<1>2. CASE LastJmp.what = "resume" /\ FindPcall # {}
  <2>1. PICK e \in FindPcall : frames' = Recover(e, LoseC(Below(e - 1)), "ERROR")
    BY <1>2 DEF Throw, Unwind
  <2>2. status' = status /\ jmps' = jmps
    BY <1>2 DEF Throw, Unwind
  <2>3. ToResume(e)
    BY <1>1, <1>2, <2>1, <2>2 DEF ToResume
  <2> QED
    BY <1>1, <2>3, ThrowToResumeInv
<1>3. CASE LastJmp.what = "resume" /\ FindPcall = {}
  <2>1. status' = "ERROR" /\ jmps' = << >> /\ frames' = frames
    BY <1>3 DEF Throw, Unwind
  <2>2. /\ TypeOK /\ FrameInv /\ StatusInv /\ YieldInv /\ JmpInv /\ NnyInv
        /\ HandlerInv /\ TbcInv
    BY DEF IInv
  <2>3. nny' = 0 /\ ~Resetting
    BY <1>1, <1>3, ResumeJumps
  <2>4. TypeOK' /\ ~Running'
    BY <1>1, <2>1, <2>2, <2>3 DEF TypeOK, Running
  <2>5. FrameInv' /\ YieldInv' /\ HandlerInv'
    BY <1>1, <2>1, <2>2 DEF FrameInv, YieldInv, HandlerInv
  <2>6. StatusInv' /\ JmpInv' /\ NnyInv'
    BY <2>1, <2>4 DEF StatusInv, JmpInv, NnyInv
  <2>7. TbcInv'
    BY <1>1, <2>1, <2>2, <2>3 DEF TbcInv
  <2> QED
    BY <2>4, <2>5, <2>6, <2>7 DEF IInv
<1>4. CASE LastJmp.what = "pcall" \/ (LastJmp.what = "close" /\ LastJmp.depth # 0)
  <2>1. Len(jmps) # 1
    <3>1. jmps[1].what \in {"resume", "close"} /\ jmps[1].depth = 0
      BY <1>1 DEF IInv, JmpInv
    <3> QED
      BY <1>4, <3>1 DEF LastJmp
  <2>2. PICK e : e = LastJmp.depth
    OBVIOUS
  <2>3. ToPcall(e)
    BY <1>1, <1>4, <2>1, <2>2 DEF Throw, Unwind, ToPcall
  <2> QED
    BY <1>1, <2>3, ThrowToPcallInv
<1>5. CASE LastJmp.what = "close" /\ LastJmp.depth = 0
  <2>1. frames' = << >> /\ status' = status /\ jmps' = jmps
    BY <1>5 DEF Throw, Unwind
  <2>2. TypeOK /\ JmpInv /\ HandlerInv /\ StatusInv /\ YieldInv
    BY DEF IInv
  <2>3. Len(jmps) = 1 /\ LastJmp = jmps[1]
    <3>1. Len(jmps) = 1
      <4>1. Len(jmps) # 1 => 0 \in 1..Len(frames)
        BY <1>1, <1>5, LastJumpFacts
      <4> QED
        BY <4>1
    <3> QED
      BY <3>1 DEF LastJmp
  <2>4. Resetting /\ jmps' = <<[what |-> "close", depth |-> 0, nny |-> 0]>>
    <3>1. Resetting
      BY <1>1, <1>5, <2>3 DEF Resetting
    <3> QED
      BY <2>1, <2>2, <2>3, <3>1, ResetJump
  <2>5. nny' = 0
    BY <1>1, <2>2, <2>3 DEF JmpInv
  <2>6. errfunc = 0
    <3>1. \A i \in 1..Len(frames) : ~SetsJump(frames, i) /\ ~frames[i].ypcall
      <4>1. \A i \in 1..Len(frames) : ~frames[i].ypcall
        BY <1>1, <1>5, <2>2, <2>3 DEF JmpInv
      <4>2. \A i \in 1..Len(frames) : SetsJump(frames, i) => \E m \in 2..Len(jmps) : TRUE
        BY <1>1, <2>2 DEF JmpInv
      <4> QED
        BY <2>3, <4>1, <4>2
    <3>2. \A i \in 1..Len(frames) : ~Active(frames, i)
      BY <3>1 DEF SetsJump
    <3> QED
      BY <2>2, <3>2, NoHandler
  <2>7. status' = "OK" /\ errfunc' = 0 /\ empty' \in BOOLEAN /\ nny' \in Nat /\ jmps' # << >>
    BY <1>1, <2>1, <2>2, <2>5, <2>6 DEF StatusInv, TypeOK, Running
  <2>8. tbc' = tbc
    BY <1>1
  <2> QED
    BY <2>1, <2>4, <2>5, <2>7, <2>8, NoFramesInv
<1> QED
  BY <1>2, <1>3, <1>4, <1>5 DEF Throw, Unwind

-----------------------------------------------------------------------------
\* A new thread satisfies the invariant.
LEMMA InitInv == Init => IInv
<1> SUFFICES ASSUME Init PROVE IInv
  OBVIOUS
<1>1. Len(frames) = 0 /\ Len(tbc) = 0 /\ ~Running /\ status = "OK" /\ errfunc = 0
  BY DEF Init, Running
<1>2. TypeOK
  <2>1. frames \in Seq(FrameType) /\ tbc \in Seq(TbcType) /\ jmps \in Seq(JmpType)
    BY EmptySeq DEF Init
  <2>2. empty \in BOOLEAN
    BY DEF Init
  <2>3. status \in {"OK", "YIELD", "ERROR"} /\ nny \in Nat /\ errfunc \in Nat
    BY DEF Init
  <2> QED
    BY <2>1, <2>2, <2>3 DEF TypeOK
<1>3. FrameInv /\ StatusInv /\ YieldInv /\ JmpInv /\ NnyInv
  BY <1>1 DEF FrameInv, StatusInv, YieldInv, JmpInv, NnyInv
<1>4. HandlerInv
  BY <1>1 DEF HandlerInv, HandlerAt, ActiveIn
<1>5. TbcInv
  BY <1>1 DEF TbcInv
<1> QED
  BY <1>2, <1>3, <1>4, <1>5 DEF IInv

\* So does a step that leaves the coroutine alone.
LEMMA StutterInv ==
  ASSUME IInv, UNCHANGED vars
  PROVE  IInv'
<1>1. /\ TypeOK' /\ FrameInv' /\ StatusInv' /\ YieldInv' /\ JmpInv' /\ NnyInv'
      /\ HandlerInv' /\ TbcInv'
  BY DEF IInv, vars, TypeOK, FrameInv, StatusInv, YieldInv, JmpInv, NnyInv, HandlerInv,
         TbcInv, Running, ResetCount, Resetting
<1> QED
  BY <1>1 DEF IInv

\* Every step preserves the invariant.
LEMMA NextInv == IInv /\ [Next]_vars => IInv'
<1> SUFFICES ASSUME IInv, [Next]_vars PROVE IInv'
  OBVIOUS
<1>1. CASE CallLua \/ CallC
  BY <1>1, CallInv
<1>2. CASE NewTbc
  BY <1>2, NewTbcInv
<1>3. CASE Return
  BY <1>3, ReturnInv
<1>4. CASE LeaveBlock
  BY <1>4, LeaveBlockInv
<1>5. CASE \E k \in BOOLEAN : Callk(k)
  BY <1>5, CallkInv
<1>6. CASE \E handler, k \in BOOLEAN : Pcall(handler, k)
  BY <1>6, PcallInv
<1>7. CASE CloseNext
  BY <1>7, CloseNextInv
<1>8. CASE PosCall
  BY <1>8, PosCallInv
<1>9. CASE PcallFails
  BY <1>9, PcallFailsInv
<1>10. CASE Ends
  BY <1>10, EndsInv
<1>11. CASE Throw
  BY <1>11, ThrowInv
<1>12. CASE Yield
  BY <1>12, YieldActionInv
<1>13. CASE Start
  BY <1>13, StartInv
<1>14. CASE Resume
  BY <1>14, ResumeInv
<1>15. CASE CloseThread
  BY <1>15, CloseThreadInv
<1>16. CASE ResetClosesNext
  BY <1>16, ResetClosesNextInv
<1>17. CASE ResetGoesOn
  BY <1>17, ResetGoesOnInv
<1>18. CASE ResetEnds
  BY <1>18, ResetEndsInv
<1>19. CASE UNCHANGED vars
  BY <1>19, StutterInv
<1> QED
  BY <1>1, <1>2, <1>3, <1>4, <1>5, <1>6, <1>7, <1>8, <1>9, <1>10, <1>11, <1>12, <1>13,
     <1>14, <1>15, <1>16, <1>17, <1>18, <1>19 DEF Next

\* What holds of every state that a coroutine can be in.
THEOREM CallsConsistent == Spec => []IInv
  BY InitInv, NextInv, PTL DEF Spec

-----------------------------------------------------------------------------
\* The properties that the run of this module checks.

\* The index sets that the properties use.
LEMMA Indices ==
  ASSUME TypeOK
  PROVE  /\ DOMAIN frames = 1..Len(frames) /\ DOMAIN tbc = 1..Len(tbc)
         /\ ToSet(frames) = {frames[i] : i \in 1..Len(frames)}
         /\ ToSet(tbc) = {tbc[m] : m \in 1..Len(tbc)}
<1>1. DOMAIN frames = 1..Len(frames) /\ DOMAIN tbc = 1..Len(tbc)
  BY LenProperties DEF TypeOK
<1> QED
  BY <1>1 DEF ToSet

\* The first of the checked invariants follows from TbcInv and FrameInv.
LEMMA NoneLeft == IInv => NoneLeftBehind
<1> SUFFICES ASSUME IInv PROVE NoneLeftBehind
  OBVIOUS
<1>1. TypeOK /\ TbcInv
  BY DEF IInv
<1>2. \A i, j \in DOMAIN tbc : i < j => tbc[i].place < tbc[j].place
  BY <1>1, Indices DEF TbcInv
<1>3. ASSUME NEW v \in ToSet(tbc), NEW c \in ToSet(frames)
      PROVE  v.place > c.base <=> v.of >= c.base
  <2>1. PICK m \in 1..Len(tbc) : v = tbc[m]
    BY <1>1, Indices
  <2>2. PICK i \in 1..Len(frames) : c = frames[i]
    BY <1>1, Indices
  <2>3. TbcOK(v, c)
    BY <1>1, <2>1, <2>2 DEF TbcInv
  <2> QED
    BY <2>3 DEF TbcOK
<1>4. ASSUME ~Resetting, NEW v \in ToSet(tbc) PROVE Owned(v)
  <2>1. PICK m \in 1..Len(tbc) : v = tbc[m]
    BY <1>1, Indices
  <2>2. OwnedIn(frames, Len(frames), v)
    BY <1>1, <1>4, <2>1 DEF TbcInv
  <2>3. PICK i \in 1..Len(frames) :
           frames[i].base = v.of \/ (frames[i].doing = "closing" /\ frames[i].base < v.of)
    BY <2>2 DEF OwnedIn
  <2>4. i \in DOMAIN frames
    BY <1>1, Indices
  <2> QED
    BY <2>3, <2>4 DEF Owned
<1> QED
  BY <1>2, <1>3, <1>4 DEF NoneLeftBehind

\* The count from NnyInv, one call at a time.
LEMMA Counted == IInv => NnyExact
<1> SUFFICES ASSUME IInv PROVE NnyExact
  OBVIOUS
<1>1. TypeOK /\ NnyInv /\ JmpInv
  BY DEF IInv
<1>2. DOMAIN frames = 1..Len(frames)
  BY <1>1, Indices
<1>3. {i \in DOMAIN frames : frames[i].act /\ frames[i].inc = 1} = Blocking(frames, Len(frames))
  BY <1>2 DEF Blocking, Blocks
<1>4. ASSUME Running
      PROVE  nny = Cardinality({i \in DOMAIN frames : frames[i].act /\ frames[i].inc = 1})
                     + (IF Resetting /\ frames # << >> THEN 1 ELSE 0)
  <2>1. nny = Cardinality(Blocking(frames, Len(frames)))
                + (IF Len(frames) = 0 THEN 0 ELSE ResetCount)
    BY <1>1, <1>4 DEF NnyInv
  <2>2. ResetCount = IF Resetting THEN 1 ELSE 0
    BY <1>1, <1>4 DEF ResetCount, Resetting, JmpInv
  <2>3. frames # << >> <=> Len(frames) # 0
    BY <1>1, Typed
  <2>4. (IF Len(frames) = 0 THEN 0 ELSE ResetCount)
          = (IF Resetting /\ frames # << >> THEN 1 ELSE 0)
    BY <2>2, <2>3
  <2> QED
    BY <1>3, <2>1, <2>4
<1> QED
  BY <1>1, <1>4 DEF NnyExact

\* nny = 0 leaves no jump but the first, from JmpInv and NnyInv.
LEMMA YieldsSafeInv == IInv => YieldsSafe
<1> SUFFICES ASSUME IInv PROVE YieldsSafe
  OBVIOUS
<1> DEFINE D == Len(frames)
<1>1. TypeOK /\ YieldInv /\ NnyInv /\ JmpInv /\ FrameInv
  BY DEF IInv
<1>2. D \in Nat /\ Depth = D /\ (frames # << >> => D > 0)
  BY <1>1, Typed DEF Depth
<1>3. ASSUME Running, nny = 0, frames # << >>, Top.doing = "run"
      PROVE  Len(jmps) = 1 /\ LastJmp.what = "resume"
  <2>1. IsFiniteSet(Blocking(frames, D)) /\ Cardinality(Blocking(frames, D)) \in Nat
    BY <1>2, BlockingCount
  <2>2. nny = Cardinality(Blocking(frames, D)) + ResetCount /\ ResetCount \in 0..1
    BY <1>1, <1>2, <1>3 DEF NnyInv, ResetCount
  <2>3. Cardinality(Blocking(frames, D)) = 0 /\ ResetCount = 0
    BY <1>3, <2>1, <2>2
  <2>4. Blocking(frames, D) = {}
    BY <2>1, <2>3, FS_EmptySet
  <2>5. ASSUME NEW i \in 1..D PROVE ~SetsJump(frames, i)
    <3>1. YieldOK(frames, D, i) /\ FrameOK(frames, D, i)
      BY <1>1 DEF YieldInv, FrameInv
    <3>2. CASE i < D
      BY <2>4, <3>1, <3>2 DEF YieldOK, Blocking
    <3>3. CASE i = D
      BY <1>2, <1>3, <3>1, <3>3 DEF FrameOK, SetsJump, Active, Top
    <3> QED
      BY <1>2, <3>2, <3>3
  <2>6. Len(jmps) = 1 /\ LastJmp = jmps[1]
    BY <1>1, <1>3, <2>5, OneJump
  <2> QED
    BY <1>1, <1>3, <2>3, <2>6 DEF JmpInv, ResetCount
<1>4. ASSUME NEW i \in 1..(Depth - 1), frames[i].kind # "lua", ~frames[i].act,
             frames[i].doing # "ret"
      PROVE  frames[i].k
  <2>1. i \in 1..D /\ i < D
    BY <1>2
  <2>2. YieldOK(frames, D, i)
    BY <1>1, <2>1 DEF YieldInv
  <2> QED
    BY <1>4, <2>1, <2>2 DEF YieldOK, Blocks
<1> QED
  BY <1>3, <1>4 DEF YieldsSafe, YieldReachesResume, CanFinish

\* Both sides of InnermostCatches, by the pcall that the handler's invariant names.
LEMMA Innermost == IInv => InnermostCatches
<1> SUFFICES ASSUME IInv, Running
             PROVE  Catcher = Max({0} \cup {i \in DOMAIN frames :
                                 frames[i].kind = "pcall" /\ frames[i].doing # "ret"})
  BY DEF InnermostCatches
<1> DEFINE D == Len(frames)
           A == {0} \cup ActiveIn(frames, D)
<1>1. TypeOK /\ YieldInv /\ JmpInv /\ HandlerInv
  BY DEF IInv
<1>2. D \in Nat /\ Depth = D /\ DOMAIN frames = 1..D
  BY <1>1, Typed, Indices DEF Depth
<1>3. {0} \cup {i \in DOMAIN frames : frames[i].kind = "pcall" /\ frames[i].doing # "ret"} = A
  BY <1>2 DEF ActiveIn, Active
<1>4. PICK e \in A : \A j \in ActiveIn(frames, D) : j <= e
  BY <1>1 DEF HandlerInv, HandlerAt
<1>5. Max(A) = e
  <2>1. A \in SUBSET Int /\ \A j \in A : e >= j
    BY <1>2, <1>4 DEF ActiveIn
  <2> QED
    BY <1>4, <2>1, MaxIs
<1>6. e \in 0..D /\ (e = 0 \/ Active(frames, e)) /\ \A i \in 1..D : i > e => ~Active(frames, i)
  BY <1>2, <1>4 DEF ActiveIn
<1>7. CASE LastJmp.what = "resume"
  <2>1. \A i \in 1..D : ~SetsJump(frames, i)
    BY <1>7, ResumeJumps
  <2>2. \A i \in 1..D : frames[i].ypcall <=> Active(frames, i)
    BY <1>1, <2>1 DEF YieldInv, YieldOK, SetsJump
  <2>3. \A i \in FindPcall : i = e
    <3>1. ASSUME NEW i \in FindPcall PROVE i = e
      <4>1. i \in 1..D /\ frames[i].ypcall /\ \A j \in (i + 1)..D : ~frames[j].ypcall
        BY <1>2 DEF FindPcall
      <4>2. i <= e
        BY <1>2, <1>6, <2>2, <4>1
      <4>3. CASE i < e
        <5>1. e \in (i + 1)..D /\ e \in 1..D /\ e # 0
          BY <1>2, <1>6, <4>1, <4>3
        <5> QED
          BY <1>6, <2>2, <4>1, <5>1
      <4> QED
        BY <1>2, <1>6, <4>1, <4>2, <4>3
    <3> QED
      BY <3>1
  <2>4. e # 0 => e \in FindPcall
    <3>1. ASSUME e # 0 PROVE e \in FindPcall
      <4>1. e \in 1..D /\ \A j \in (e + 1)..D : j \in 1..D /\ j > e
        BY <1>2, <1>6, <3>1
      <4> QED
        BY <1>2, <1>6, <2>2, <3>1, <4>1 DEF FindPcall
    <3> QED
      BY <3>1
  <2>5. /\ {0} \cup FindPcall \in SUBSET Int /\ e \in {0} \cup FindPcall
        /\ \A i \in {0} \cup FindPcall : e >= i
    BY <1>6, <2>3, <2>4
  <2>6. Max({0} \cup FindPcall) = e
    BY <2>5, MaxIs
  <2> QED
    BY <1>3, <1>5, <1>7, <2>6 DEF Catcher
<1>8. CASE LastJmp.what # "resume"
  <2>1. LastJmp.depth = e
    <3>1. CASE Len(jmps) # 1
      <4>1. PICK d : d = LastJmp.depth
        OBVIOUS
      <4>2. d \in 1..D /\ Active(frames, d) /\ \A i \in 1..D : i > d => ~Active(frames, i)
        BY <3>1, <4>1, LastJumpFacts
      <4>3. d = e
        <5>1. ~(d > e) /\ (e > d => e \in 1..D)
          BY <1>2, <1>6, <4>2
        <5>2. ~(e > d)
          BY <1>2, <1>6, <4>2, <5>1
        <5> QED
          BY <1>2, <1>6, <4>2, <5>1, <5>2
      <4> QED
        BY <4>1, <4>3
    <3>2. CASE Len(jmps) = 1
      <4>1. LastJmp = jmps[1]
        BY <3>2 DEF LastJmp
      <4>2. jmps[1].what = "close" /\ jmps[1].depth = 0 /\ \A i \in 1..D : ~frames[i].ypcall
        BY <1>1, <1>8, <4>1 DEF JmpInv
      <4>3. \A i \in 1..D : ~SetsJump(frames, i)
        <5>1. \A i \in 1..D : SetsJump(frames, i) => \E m \in 2..Len(jmps) : TRUE
          BY <1>1 DEF JmpInv
        <5> QED
          BY <3>2, <5>1
      <4>4. e = 0
        <5>1. ~Active(frames, e) \/ e = 0
          BY <1>6, <4>2, <4>3 DEF SetsJump
        <5> QED
          BY <1>6, <5>1
      <4> QED
        BY <4>1, <4>2, <4>4
    <3> QED
      BY <3>1, <3>2
  <2> QED
    BY <1>3, <1>5, <1>8, <2>1 DEF Catcher
<1> QED
  BY <1>7, <1>8

\* The jumps and the marks together, from JmpInv, YieldInv and HandlerInv.
LEMMA ErrorsCaughtInv == IInv => ErrorsCaught
<1> SUFFICES ASSUME IInv PROVE ErrorsCaught
  OBVIOUS
<1> DEFINE D == Len(frames)
<1>1. TypeOK /\ YieldInv /\ HandlerInv
  BY DEF IInv
<1>2. D \in Nat /\ Depth = D /\ DOMAIN frames = 1..D
  BY <1>1, Typed, Indices DEF Depth
<1>3. StatusKept
  BY <1>1, <1>2 DEF StatusKept, YieldInv, YieldOK
<1>4. HandlerRight
  <2>1. PICK i \in {0} \cup ActiveIn(frames, D) :
          /\ \A j \in ActiveIn(frames, D) : j <= i
          /\ errfunc = 0 \/ (i > 0 /\ errfunc = frames[i].base)
    BY <1>1 DEF HandlerInv, HandlerAt
  <2>2. i \in {0} \cup DOMAIN frames /\ i \in 0..D
    BY <1>2, <2>1 DEF ActiveIn
  <2>3. i = 0 \/ (frames[i].kind = "pcall" /\ frames[i].doing # "ret")
    BY <2>1 DEF ActiveIn, Active
  <2>4. ASSUME NEW j \in (i + 1)..Depth, frames[j].kind = "pcall" PROVE frames[j].doing = "ret"
    <3>1. j \in 1..D /\ ~(j <= i)
      BY <1>2, <2>2
    <3>2. j \notin ActiveIn(frames, D)
      BY <2>1, <3>1
    <3> QED
      BY <2>4, <3>1, <3>2 DEF ActiveIn, Active
  <2>5. errfunc \in {0, IF i = 0 THEN 0 ELSE frames[i].base}
    BY <2>1, <2>2
  <2> QED
    BY <2>2, <2>3, <2>4, <2>5 DEF HandlerRight
<1> QED
  BY <1>3, <1>4, Innermost DEF ErrorsCaught

\* NoneLeftBehind: a pending variable always has a call that will close it.
THEOREM VariablesClosed == Spec => []NoneLeftBehind
  BY CallsConsistent, NoneLeft, PTL

\* ErrorsCaught: the jumps and marks lead to the innermost pcall.
THEOREM ErrorsReachTheirPcall == Spec => []ErrorsCaught
  BY CallsConsistent, ErrorsCaughtInv, PTL

\* YieldsSafe: yields go to lua_resume, and what they lose can be continued.
THEOREM YieldsReachTheirResume == Spec => []YieldsSafe
  BY CallsConsistent, YieldsSafeInv, PTL

\* NnyExact: nny counts the calls that no yield may cross.
THEOREM CountExact == Spec => []NnyExact
  BY CallsConsistent, Counted, PTL

-----------------------------------------------------------------------------
\* The refinement of CoroutineLife.
LifeNow == IF Resetting THEN "closing" ELSE IF Running THEN "running" ELSE AuxStatus
LifeStep ==
    \/ LifeNow' = LifeNow
    \/ LifeNow = "suspended" /\ LifeNow' = "running"
    \/ LifeNow = "running" /\ LifeNow' = "suspended"
    \/ LifeNow = "running" /\ LifeNow' = "dead"
    \/ LifeNow \in {"suspended", "dead"} /\ LifeNow' = "closing"
    \/ LifeNow = "closing" /\ LifeNow' = "dead"

\* The coroutine goes on running, or being closed, while its first jump stays.
LEMMA GoesOn ==
  ASSUME TypeOK, Running, Len(jmps') > 0, jmps' \in Seq(JmpType), jmps'[1] = jmps[1]
  PROVE  LifeNow' = LifeNow
<1>1. jmps' # << >>
  BY EmptySeq
<1>2. Running' /\ (Resetting' <=> Resetting)
  BY <1>1 DEF Running, Resetting
<1> QED
  BY <1>2 DEF LifeNow

\* Nor does a step that sets and leaves no jump change its life.
LEMMA GoesOnWithAll ==
  ASSUME TypeOK, Running, jmps' = jmps
  PROVE  LifeNow' = LifeNow
<1>1. Running' /\ (Resetting' <=> Resetting)
  BY DEF Running, Resetting
<1> QED
  BY <1>1 DEF LifeNow

\* A jump that luaD_pcall leaves is not the first one.
LEMMA GoesOnWithout ==
  ASSUME IInv, IInv', Running, status' = status, Len(frames') > 0,
         jmps' = jmps \/ jmps' = PopJmp
  PROVE  LifeNow' = LifeNow
<1>1. TypeOK /\ TypeOK' /\ StatusInv /\ StatusInv'
  BY DEF IInv
<1>2. CASE jmps' = jmps
  BY <1>1, <1>2, GoesOnWithAll
<1>3. CASE jmps' = PopJmp
  <2>1. Running'
    BY <1>1 DEF StatusInv
  <2>2. jmps' \in Seq(JmpType) /\ Len(jmps') > 0
    BY <1>1, <2>1, EmptySeq DEF TypeOK, Running
  <2>3. Len(jmps') = Len(jmps) - 1 /\ \A m \in 1..(Len(jmps) - 1) : jmps'[m] = jmps[m]
    BY <1>1, <1>3, PopJmpFacts
  <2>4. jmps'[1] = jmps[1]
    BY <1>1, <2>2, <2>3, Typed
  <2> QED
    BY <1>1, <2>2, <2>4, GoesOn
<1> QED
  BY <1>2, <1>3

\* Each action is a step of the coroutine's life, or none.
LEMMA LifeStepTaken == IInv /\ IInv' /\ [Next]_vars => LifeStep
<1> SUFFICES ASSUME IInv, IInv', [Next]_vars PROVE LifeStep
  OBVIOUS
<1>1. /\ TypeOK /\ StatusInv /\ JmpInv /\ NnyInv
      /\ TypeOK' /\ StatusInv' /\ JmpInv'
  BY DEF IInv
<1>2. CASE \/ CallLua \/ CallC \/ NewTbc \/ Return \/ LeaveBlock
           \/ (\E k \in BOOLEAN : Callk(k)) \/ CloseNext \/ ResetClosesNext \/ ResetGoesOn
  <2>1. Running /\ jmps' = jmps
    BY <1>2 DEF CallLua, CallC, NewTbc, Return, LeaveBlock, Callk, CloseNext,
                ResetClosesNext, ResetGoesOn, Executes, Resetting
  <2> QED
    BY <1>1, <2>1, GoesOnWithAll DEF LifeStep
<1>3. CASE \E handler, k \in BOOLEAN : Pcall(handler, k)
  <2>1. PICK j : Running /\ (jmps' = jmps \/ jmps' = Append(jmps, j))
    BY <1>3 DEF Pcall, CallProtected, Executes
  <2>2. CASE jmps' = jmps
    BY <1>1, <2>1, <2>2, GoesOnWithAll DEF LifeStep
  <2>3. CASE jmps' = Append(jmps, j)
    <3>1. Len(jmps) \in Nat /\ Len(jmps) > 0 /\ jmps \in Seq(JmpType)
      BY <1>1, <2>1, Typed DEF Running, TypeOK
    <3>2. /\ Len(jmps') = Len(jmps) + 1 /\ jmps' \in Seq(JmpType)
          /\ jmps'[1] = jmps[1]
      BY <1>1, <2>3, <3>1 DEF TypeOK
    <3> QED
      BY <1>1, <2>1, <3>1, <3>2, GoesOn DEF LifeStep
  <2> QED
    BY <2>1, <2>2, <2>3
<1>4. CASE PosCall \/ PcallFails
  <2>1. Running /\ status' = status /\ (jmps' = jmps \/ jmps' = PopJmp)
    BY <1>4 DEF PosCall, PcallFails
  <2>2. Len(frames') > 0
    <3>1. CASE PosCall
      <4>1. Depth > 1 /\ Depth = Len(frames) /\ \E d : frames' = Append(Below(Depth - 2), d)
        BY <3>1 DEF PosCall, Depth
      <4>2. Len(frames) - 2 \in 0..Len(frames) /\ frames \in Seq(FrameType)
        BY <1>1, <4>1, Typed DEF TypeOK
      <4>3. Below(Depth - 2) \in Seq(FrameType)
        BY <4>1, <4>2, FrontSeq DEF Below
      <4> QED
        BY <4>1, <4>3
    <3>2. CASE PcallFails
      <4>1. frames # << >> /\ \E d : frames' = [frames EXCEPT ![Depth] = d]
        BY <3>2 DEF PcallFails
      <4>2. Len(frames) > 0 /\ frames \in Seq(FrameType)
        BY <1>1, <4>1, Typed DEF TypeOK
      <4> QED
        BY <4>1, <4>2
    <3> QED
      BY <1>4, <3>1, <3>2
  <2> QED
    BY <2>1, <2>2, GoesOnWithout DEF LifeStep
<1>5. CASE Ends
  <2>1. /\ Running /\ ~Resetting /\ Len(frames) = 1 /\ frames[1].doing = "ret"
        /\ frames' = << >> /\ jmps' = PopJmp /\ empty' = TRUE /\ status' = status
    BY <1>5 DEF Ends, Depth, Top
  <2>2. jmps' = << >>
    <3>1. \A i \in 1..Len(frames) : ~SetsJump(frames, i)
      BY <2>1 DEF SetsJump, Active
    <3> QED
      BY <1>1, <2>1, <3>1, OneJump, PopOneJump
  <2>3. status' = "OK" /\ ~Running'
    BY <1>1, <2>1, <2>2 DEF StatusInv, Running
  <2>4. LifeNow = "running" /\ LifeNow' = "dead"
    BY <2>1, <2>3 DEF LifeNow, AuxStatus, Resetting
  <2> QED
    BY <2>4 DEF LifeStep
<1>6. CASE Throw
  <2>1. Running
    BY <1>6 DEF Throw, Unwind, Executes
  <2>2. CASE LastJmp.what = "resume" /\ FindPcall = {}
    <3>1. status' = "ERROR" /\ jmps' = << >>
      BY <1>6, <2>2 DEF Throw, Unwind
    <3>2. ~Resetting
      BY <2>1, <2>2, ResumeJumps
    <3>3. LifeNow = "running" /\ LifeNow' = "dead"
      BY <2>1, <3>1, <3>2 DEF LifeNow, AuxStatus, Resetting, Running
    <3> QED
      BY <3>3 DEF LifeStep
  <2>3. CASE LastJmp.what = "pcall"
    <3>1. jmps' = [jmps EXCEPT ![Len(jmps)].what = "close"]
      BY <1>6, <2>3 DEF Throw, Unwind
    <3>2. Len(jmps) # 1
      BY <1>1, <2>1, <2>3 DEF JmpInv, LastJmp
    <3>3. Len(jmps) \in Nat /\ Len(jmps) > 0 /\ jmps \in Seq(JmpType)
      BY <1>1, <2>1, Typed DEF Running, TypeOK
    <3>4. Len(jmps') > 0 /\ jmps'[1] = jmps[1] /\ jmps' \in Seq(JmpType)
      BY <1>1, <3>1, <3>2, <3>3 DEF TypeOK
    <3> QED
      BY <1>1, <2>1, <3>4, GoesOn DEF LifeStep
  <2>4. CASE LastJmp.what = "close" \/ (LastJmp.what = "resume" /\ FindPcall # {})
    <3>1. jmps' = jmps
      BY <1>6, <2>4 DEF Throw, Unwind
    <3> QED
      BY <1>1, <2>1, <3>1, GoesOnWithAll DEF LifeStep
  <2> QED
    BY <1>6, <2>2, <2>3, <2>4 DEF Throw, Unwind
<1>7. CASE Yield
  <2>1. Running /\ nny = 0 /\ frames # << >> /\ Top.doing = "run" /\ status' = "YIELD"
    BY <1>7 DEF Yield, Executes
  <2>2. LastJmp.what = "resume"
    BY <2>1, YieldsSafeInv DEF YieldsSafe, YieldReachesResume
  <2>3. ~Resetting /\ ~Running'
    BY <1>1, <2>1, <2>2, ResumeJumps DEF StatusInv
  <2>4. LifeNow = "running" /\ LifeNow' = "suspended"
    BY <2>1, <2>3 DEF LifeNow, AuxStatus, Resetting
  <2> QED
    BY <2>4 DEF LifeStep
<1>8. CASE Start \/ Resume
  <2>1. /\ ~Running /\ (status = "YIELD" \/ (status = "OK" /\ frames = << >> /\ ~empty))
        /\ jmps' = <<[what |-> "resume", depth |-> 0, nny |-> 0]>>
    BY <1>8 DEF Start, Begin, Resume
  <2>2. jmps' # << >> /\ jmps'[1].what = "resume"
    BY <2>1, FirstJump
  <2>3. LifeNow = "suspended" /\ LifeNow' = "running"
    BY <2>1, <2>2 DEF LifeNow, AuxStatus, Resetting, Running
  <2> QED
    BY <2>3 DEF LifeStep
<1>9. CASE CloseThread
  <2>1. ~Running /\ jmps' = <<[what |-> "close", depth |-> 0, nny |-> 0]>>
    BY <1>9 DEF CloseThread
  <2>2. jmps' # << >> /\ jmps'[1].what = "close" /\ jmps'[1].depth = 0
    BY <2>1, FirstJump
  <2>3. frames # << >> => Len(frames) > 0
    BY <1>1, Typed
  <2>4. status \in {"OK", "YIELD", "ERROR"} /\ (status = "OK" => frames = << >>)
    BY <1>1, <2>1, <2>3 DEF StatusInv, TypeOK
  <2>5. LifeNow \in {"suspended", "dead"} /\ LifeNow' = "closing"
    BY <2>1, <2>2, <2>4 DEF LifeNow, AuxStatus, Resetting, Running
  <2> QED
    BY <2>5 DEF LifeStep
<1>10. CASE ResetEnds
  <2>1. Resetting /\ frames' = << >> /\ jmps' = << >> /\ empty' = TRUE /\ status' = status
    BY <1>10 DEF ResetEnds
  <2>2. status' = "OK"
    BY <1>1, <2>1 DEF StatusInv, Resetting
  <2>3. LifeNow = "closing" /\ LifeNow' = "dead"
    BY <2>1, <2>2 DEF LifeNow, AuxStatus, Resetting, Running
  <2> QED
    BY <2>3 DEF LifeStep
<1>11. CASE UNCHANGED vars
  BY <1>11 DEF vars, LifeStep, LifeNow, Resetting, Running, AuxStatus
<1> QED
  BY <1>2, <1>3, <1>4, <1>5, <1>6, <1>7, <1>8, <1>9, <1>10, <1>11 DEF Next

\* LivesAsDocumented: every step of a coroutine is one that the manual gives it,
\* or is not seen from outside; none leads from "dead" to "running".
THEOREM CoroutinesLive == Spec => LivesAsDocumented
<1>1. Init => Life!Init
  BY DEF Init, Life!Init, Resetting, Running, AuxStatus
<1>2. IInv /\ IInv' /\ [Next]_vars
        => [Life!Next]_(IF Resetting THEN "closing" ELSE IF Running THEN "running" ELSE AuxStatus)
  <2> SUFFICES ASSUME IInv, IInv', [Next]_vars
      PROVE [Life!Next]_(IF Resetting THEN "closing" ELSE IF Running THEN "running" ELSE AuxStatus)
    OBVIOUS
  <2>1. LifeStep
    BY LifeStepTaken
  <2> QED
    BY <2>1 DEF LifeStep, LifeNow, Life!Next, Life!Resume, Life!Yield, Life!End, Life!Close,
                Life!Closed
<1> QED
  BY <1>1, <1>2, CallsConsistent, PTL DEF Spec, LivesAsDocumented, Life!Spec
=============================================================================
