--------------------------- MODULE LineInfoProofs ---------------------------
(***************************************************************************)
(* Proofs about LineInfo: ldebug.c finds the line of every instruction,    *)
(* for functions of any length and for any two limits.                     *)
(***************************************************************************)
EXTENDS LineInfo, SequenceTheorems, WellFoundedInduction, TLAPS

AbsEntry == [pc : Nat, line : Int]
Func ==
    [linedefined : Int, previousline : Int, iwthabs : Int, lineinfo : Seq(Int),
     abslineinfo : Seq(AbsEntry), lines : Seq(Int), asserts : BOOLEAN]

(***************************************************************************)
(* Of n instructions with their lines, 'info' has the differences and      *)
(* 'abs' the m absolute lines.                                             *)
(***************************************************************************)
\* how far the first k absolute lines may reach
Reach(k) == MaxIWthAbs * k
\* An entry of 'abs' is right, and in time.
EntryRight(info, n, abs, lines, i) ==
    /\ abs[i] \in AbsEntry /\ abs[i].pc < n /\ abs[i].pc <= Reach(i)
    /\ abs[i].line = lines[abs[i].pc + 1] /\ info[abs[i].pc + 1] = AbsLineInfo
Sorted(abs, m) == \A i, j \in 1..m : i < j => abs[i].pc < abs[j].pc
\* An instruction without one has the difference from the line before.
Before(lines, first, pc) == IF pc = 0 THEN first ELSE lines[pc]
InfoRight(info, abs, m, lines, first, k) ==
    /\ info[k] \in Int /\ lines[k] \in Int
    /\ IF info[k] = AbsLineInfo THEN \E i \in 1..m : abs[i].pc = k - 1
       ELSE info[k] = lines[k] - Before(lines, first, k - 1)
Right(info, n, abs, m, lines, first) ==
    /\ first \in Int
    /\ \A i \in 1..m : EntryRight(info, n, abs, lines, i)
    /\ Sorted(abs, m)
    /\ \A k \in 1..n : InfoRight(info, abs, m, lines, first, k)
    /\ n <= Reach(m + 1)
LastAbs(abs, m) == IF m = 0 THEN 0 ELSE abs[m].pc

Size(f) == Len(f.lineinfo)
Entries(f) == Len(f.abslineinfo)
Recorded(f) ==
    /\ f \in Func /\ Len(f.lines) = Size(f) /\ f.asserts
    /\ Right(f.lineinfo, Size(f), f.abslineinfo, Entries(f), f.lines, f.linedefined)
\* The generator knows the last line and how far the last absolute one is.
Counted(f) ==
    /\ f.iwthabs = Size(f) - LastAbs(f.abslineinfo, Entries(f)) /\ f.iwthabs <= MaxIWthAbs
    /\ f.previousline = Before(f.lines, f.linedefined, Size(f))
\* Or the next line must be absolute.
Ready(f) == Counted(f) \/ f.iwthabs > MaxIWthAbs

LinesInv == Recorded(fs) /\ Ready(fs) /\ replacing \in BOOLEAN /\ (~replacing => Counted(fs))

\* s and t have the same first n elements.
Agree(s, t, n) == \A k \in 1..n : t[k] = s[k]

-----------------------------------------------------------------------------
\* One more entry leaves room for MaxIWthAbs more instructions.
LEMMA OneMore ==
  ASSUME NEW k \in Nat
  PROVE  Reach(k) \in Nat /\ Reach(k + 1) = Reach(k) + MaxIWthAbs
BY LinesAssumption, SMT DEF Reach

LEMMA ReachGrows ==
  ASSUME NEW j \in Nat, NEW k \in Nat, j <= k
  PROVE  Reach(j) <= Reach(k)
BY LinesAssumption, SMT DEF Reach

\* An absolute line for one more instruction.
LEMMA FarIsRight ==
  ASSUME NEW n \in Nat, NEW m \in Nat, NEW info, NEW abs, NEW lines, NEW first,
         Right(info, n, abs, m, lines, first),
         NEW line \in Int, NEW info2, NEW abs2, NEW lines2,
         info2[n + 1] = AbsLineInfo, lines2[n + 1] = line,
         abs2[m + 1] \in AbsEntry, abs2[m + 1].pc = n, abs2[m + 1].line = line,
         Agree(info, info2, n), Agree(lines, lines2, n), Agree(abs, abs2, m)
  PROVE  Right(info2, n + 1, abs2, m + 1, lines2, first)
<1> USE DEF Agree
<1>1. ASSUME NEW i \in 1..(m + 1) PROVE EntryRight(info2, n + 1, abs2, lines2, i)
  <2>1. CASE i = m + 1
    BY <2>1 DEF EntryRight, Right
  <2>2. CASE i \in 1..m
    <3>1. EntryRight(info, n, abs, lines, i) /\ abs2[i] = abs[i]
      BY <2>2 DEF Right
    <3>2. abs[i].pc \in Nat
      BY <3>1 DEF EntryRight, AbsEntry
    <3>3. abs[i].pc + 1 \in 1..n
      BY <3>1, <3>2 DEF EntryRight
    <3> QED
      BY <3>1, <3>2, <3>3 DEF EntryRight
  <2> QED
    BY <2>1, <2>2
<1>2. Sorted(abs2, m + 1)
  <2>1. \A i \in 1..m : abs[i].pc < n
    BY DEF Right, EntryRight
  <2> QED
    BY <2>1 DEF Right, Sorted
<1>3. ASSUME NEW k \in 1..(n + 1) PROVE InfoRight(info2, abs2, m + 1, lines2, first, k)
  <2>1. CASE k = n + 1
    BY <2>1, LinesAssumption DEF InfoRight, AbsLineInfo
  <2>2. CASE k \in 1..n
    <3>1. InfoRight(info, abs, m, lines, first, k)
      BY <2>2 DEF Right
    <3>2. Before(lines2, first, k - 1) = Before(lines, first, k - 1)
      BY <2>2 DEF Before
    <3>3. \A i \in 1..m : i \in 1..(m + 1)
      OBVIOUS
    <3> QED
      BY <2>2, <3>1, <3>2, <3>3 DEF InfoRight
  <2> QED
    BY <2>1, <2>2
<1>4. n + 1 <= Reach((m + 1) + 1)
  BY OneMore, LinesAssumption DEF Right
<1> QED
  BY <1>1, <1>2, <1>3, <1>4 DEF Right

\* A difference for one more instruction.
LEMMA NearIsRight ==
  ASSUME NEW n \in Nat, NEW m \in Nat, NEW info, NEW abs, NEW lines, NEW first,
         Right(info, n, abs, m, lines, first),
         NEW line \in Int, NEW info2, NEW lines2,
         info2[n + 1] \in Int, info2[n + 1] # AbsLineInfo, lines2[n + 1] = line,
         info2[n + 1] = line - Before(lines, first, n),
         Agree(info, info2, n), Agree(lines, lines2, n),
         n - LastAbs(abs, m) < MaxIWthAbs
  PROVE  Right(info2, n + 1, abs, m, lines2, first)
<1> USE DEF Agree
<1>1. ASSUME NEW i \in 1..m
      PROVE  EntryRight(info2, n + 1, abs, lines2, i) /\ abs[i].pc \in Nat /\ abs[i].pc <= Reach(i)
  <2>1. EntryRight(info, n, abs, lines, i)
    BY DEF Right
  <2>2. abs[i].pc \in Nat
    BY <2>1 DEF EntryRight, AbsEntry
  <2>3. abs[i].pc + 1 \in 1..n
    BY <2>1, <2>2 DEF EntryRight
  <2> QED
    BY <2>1, <2>2, <2>3 DEF EntryRight
<1>2. Sorted(abs, m)
  BY DEF Right
<1>3. ASSUME NEW k \in 1..(n + 1) PROVE InfoRight(info2, abs, m, lines2, first, k)
  <2>1. Before(lines2, first, k - 1) = Before(lines, first, k - 1)
    BY DEF Before
  <2>2. CASE k = n + 1
    BY <2>1, <2>2 DEF InfoRight
  <2>3. CASE k \in 1..n
    <3>1. InfoRight(info, abs, m, lines, first, k)
      BY <2>3 DEF Right
    <3> QED
      BY <2>1, <2>3, <3>1 DEF InfoRight
  <2> QED
    BY <2>2, <2>3
<1>4. n + 1 <= Reach(m + 1)
  <2>1. LastAbs(abs, m) \in Nat /\ LastAbs(abs, m) <= Reach(m)
    BY <1>1, OneMore DEF LastAbs
  <2> QED
    BY <2>1, OneMore, LinesAssumption
<1> QED
  BY <1>1, <1>2, <1>3, <1>4 DEF Right

\* The last instruction goes, with its absolute line if it has one.
LEMMA KeptRight ==
  ASSUME NEW n \in Nat, NEW m \in Nat, NEW info, NEW abs, NEW lines, NEW first,
         Right(info, n + 1, abs, m, lines, first),
         NEW info2, NEW lines2, NEW abs2, NEW m2 \in 0..m,
         Agree(info, info2, n), Agree(lines, lines2, n), Agree(abs, abs2, m2),
         \A i \in 1..m : i \in 1..m2 <=> abs[i].pc # n,
         n <= Reach(m2 + 1)
  PROVE  Right(info2, n, abs2, m2, lines2, first)
<1> USE DEF Agree
<1>1. ASSUME NEW k \in 1..n PROVE InfoRight(info2, abs2, m2, lines2, first, k)
  <2>1. InfoRight(info, abs, m, lines, first, k)
    BY DEF Right
  <2>2. Before(lines2, first, k - 1) = Before(lines, first, k - 1)
    BY DEF Before
  <2>3. ASSUME info[k] = AbsLineInfo PROVE \E i \in 1..m2 : abs2[i].pc = k - 1
    <3>1. PICK i \in 1..m : abs[i].pc = k - 1
      BY <2>1, <2>3 DEF InfoRight
    <3>2. i \in 1..m2 /\ abs2[i] = abs[i]
      BY <3>1
    <3> QED
      BY <3>1, <3>2
  <2> QED
    BY <2>1, <2>2, <2>3 DEF InfoRight
<1>2. ASSUME NEW i \in 1..m2 PROVE EntryRight(info2, n, abs2, lines2, i)
  <2>1. EntryRight(info, n + 1, abs, lines, i) /\ abs[i].pc # n /\ abs2[i] = abs[i]
    BY DEF Right
  <2>2. abs[i].pc \in Nat
    BY <2>1 DEF EntryRight, AbsEntry
  <2>3. abs[i].pc + 1 \in 1..n
    BY <2>1, <2>2 DEF EntryRight
  <2> QED
    BY <2>1, <2>2, <2>3 DEF EntryRight
<1>3. Sorted(abs2, m2) /\ first \in Int
  BY DEF Right, Sorted
<1> QED
  BY <1>1, <1>2, <1>3 DEF Right

LEMMA NearRemoved ==
  ASSUME NEW n \in Nat, NEW m \in Nat, NEW info, NEW abs, NEW lines, NEW first,
         Right(info, n + 1, abs, m, lines, first), info[n + 1] # AbsLineInfo,
         NEW info2, NEW lines2, Agree(info, info2, n), Agree(lines, lines2, n)
  PROVE  Right(info2, n, abs, m, lines2, first) /\ LastAbs(abs, m) <= n
<1>1. ASSUME NEW i \in 1..m PROVE abs[i].pc # n /\ abs[i].pc < n + 1 /\ abs[i].pc \in Nat
  BY DEF Right, EntryRight, AbsEntry
<1>2. LastAbs(abs, m) <= n
  BY <1>1 DEF LastAbs
<1>3. n <= Reach(m + 1)
  BY OneMore DEF Right
<1> QED
  BY <1>1, <1>2, <1>3, KeptRight DEF Agree

\* The absolute line of the last instruction is the last one.
LEMMA FarIsLast ==
  ASSUME NEW n \in Nat, NEW m \in Nat, NEW info, NEW abs, NEW lines, NEW first,
         Right(info, n + 1, abs, m, lines, first), info[n + 1] = AbsLineInfo
  PROVE  m # 0 /\ abs[m].pc = n /\ \A i \in 1..(m - 1) : abs[i].pc # n
<1>1. InfoRight(info, abs, m, lines, first, n + 1)
  BY DEF Right
<1>2. PICK j \in 1..m : abs[j].pc = n
  BY <1>1 DEF InfoRight
<1>3. \A i \in 1..m : abs[i].pc < n + 1 /\ abs[i].pc \in Nat
  BY DEF Right, EntryRight, AbsEntry
<1>4. Sorted(abs, m)
  BY DEF Right
<1>5. ~(j < m)
  BY <1>2, <1>3, <1>4 DEF Sorted
<1> QED
  BY <1>2, <1>3, <1>4, <1>5 DEF Sorted

LEMMA FarRemoved ==
  ASSUME NEW n \in Nat, NEW m \in Nat, NEW info, NEW abs, NEW lines, NEW first,
         Right(info, n + 1, abs, m + 1, lines, first), info[n + 1] = AbsLineInfo,
         NEW info2, NEW lines2, NEW abs2,
         Agree(info, info2, n), Agree(lines, lines2, n), Agree(abs, abs2, m)
  PROVE  Right(info2, n, abs2, m, lines2, first)
<1>1. abs[m + 1].pc = n /\ \A i \in 1..m : abs[i].pc # n
  BY FarIsLast
<1>2. n <= Reach(m + 1)
  BY <1>1 DEF Right, EntryRight
<1>3. \A i \in 1..(m + 1) : i \in 1..m <=> abs[i].pc # n
  BY <1>1
<1> QED
  BY <1>2, <1>3, KeptRight

-----------------------------------------------------------------------------
(***************************************************************************)
(* lcode.c.                                                                *)
(***************************************************************************)
\* A sequence with one more element, and without its last one.
LEMMA AppendIs ==
  ASSUME NEW T, NEW s \in Seq(T), NEW x \in T
  PROVE  /\ Append(s, x) \in Seq(T) /\ Len(Append(s, x)) = Len(s) + 1
         /\ Append(s, x)[Len(s) + 1] = x
         /\ Agree(s, Append(s, x), Len(s))
BY AppendProperties DEF Agree

LEMMA FrontIs ==
  ASSUME NEW T, NEW s \in Seq(T), NEW n \in Nat, Len(s) = n + 1
  PROVE  /\ Front(s) \in Seq(T) /\ Len(Front(s)) = n
         /\ Agree(s, Front(s), n)
BY SubSeqProperties DEF Front, Agree

\* The parts of a function.
LEMMA FuncIs ==
  ASSUME NEW f \in Func
  PROVE  /\ f.linedefined \in Int /\ f.previousline \in Int /\ f.iwthabs \in Int /\ f.asserts \in BOOLEAN
         /\ f.lineinfo \in Seq(Int) /\ f.abslineinfo \in Seq(AbsEntry) /\ f.lines \in Seq(Int)
         /\ Size(f) \in Nat /\ Entries(f) \in Nat
BY DEF Func, Size, Entries

\* A function that was just opened.
LEMMA OpenRight ==
  ASSUME NEW line \in Int
  PROVE  Recorded(OpenFunc(line)) /\ Counted(OpenFunc(line))
<1> PICK f : f = OpenFunc(line)
  OBVIOUS
<1>1. f \in Func /\ Len(f.lines) = 0 /\ Size(f) = 0 /\ Entries(f) = 0 /\ f.asserts
      /\ f.iwthabs = 0 /\ f.previousline = line /\ f.linedefined = line
  BY DEF OpenFunc, Func, Size, Entries
<1>2. Right(f.lineinfo, 0, f.abslineinfo, 0, f.lines, line)
  BY OneMore DEF Right, Sorted
<1>3. Recorded(f)
  BY <1>1, <1>2 DEF Recorded
<1>4. Counted(f)
  BY <1>1, LinesAssumption DEF Counted, Before, LastAbs
<1> QED
  BY <1>3, <1>4

\* Does savelineinfo save an absolute line?
Absolute(f, line) == AbsVal(line - f.previousline) >= LimLineDiff \/ f.iwthabs >= MaxIWthAbs
\* After savelineinfo everything is recorded and counted.
LEMMA SaveRight ==
  ASSUME NEW f, Recorded(f), Ready(f), NEW line \in Int
  PROVE  Recorded(SaveLineInfo(f, line)) /\ Counted(SaveLineInfo(f, line))
<1> PICK r : r = SaveLineInfo(f, line)
  OBVIOUS
<1> PICK n \in Nat, m \in Nat : n = Size(f) /\ m = Entries(f)
  BY FuncIs DEF Recorded
<1> PICK e \in AbsEntry : e.pc = n /\ e.line = line /\ e = [pc |-> n, line |-> line]
  BY DEF AbsEntry
<1>1. /\ f \in Func /\ Len(f.lines) = n /\ Len(f.lineinfo) = n /\ Len(f.abslineinfo) = m /\ f.asserts
      /\ Right(f.lineinfo, n, f.abslineinfo, m, f.lines, f.linedefined)
  BY DEF Recorded, Size, Entries
<1> DEFINE A == IF Absolute(f, line) THEN Append(f.abslineinfo, e) ELSE f.abslineinfo
           I == Append(f.lineinfo, IF Absolute(f, line) THEN AbsLineInfo ELSE line - f.previousline)
           W == IF Absolute(f, line) THEN 1 ELSE f.iwthabs + 1
           L == Append(f.lines, line)
<1>2. /\ r \in Func /\ r.linedefined = f.linedefined /\ r.previousline = line
      /\ r.asserts /\ r.lines = L /\ r.iwthabs = W /\ r.lineinfo = I /\ r.abslineinfo = A
  <2>1. AbsLineInfo \in Int
    BY LinesAssumption DEF AbsLineInfo
  <2>2. A \in Seq(AbsEntry) /\ W \in Int /\ L \in Seq(Int)
    BY <1>1, FuncIs, AppendIs
  <2>3. (IF Absolute(f, line) THEN AbsLineInfo ELSE line - f.previousline) \in Int
    BY <1>1, <2>1, FuncIs
  <2>4. I \in Seq(Int)
    BY <1>1, <2>3, FuncIs, AppendIs
  <2>5. r = [f EXCEPT !.iwthabs = W, !.abslineinfo = A, !.lineinfo = I, !.previousline = line, !.lines = L]
    <3>1. LastPC(f) + 1 = n
      BY <1>1 DEF LastPC
    <3> QED
      BY <3>1 DEF SaveLineInfo, Absolute
  <2> HIDE DEF A, I, W, L
  <2> QED
    BY <1>1, <2>2, <2>4, <2>5 DEF Func
<1>3. Len(r.lines) = n + 1 /\ r.lines[n + 1] = line /\ Agree(f.lines, r.lines, n)
  <2>1. f.lines \in Seq(Int) /\ r.lines = Append(f.lines, line) /\ Len(f.lines) = n
    BY <1>1, <1>2, FuncIs
  <2> QED
    BY <2>1, AppendIs
<1>4. ASSUME NEW x \in Int, r.lineinfo = Append(f.lineinfo, x)
      PROVE  Len(r.lineinfo) = n + 1 /\ r.lineinfo[n + 1] = x /\ Agree(f.lineinfo, r.lineinfo, n)
  BY <1>1, <1>4, FuncIs, AppendIs
<1>5. r.previousline = Before(r.lines, r.linedefined, n + 1)
  BY <1>2, <1>3 DEF Before
<1>6. CASE Absolute(f, line)
  <2>1. AbsLineInfo \in Int
    BY LinesAssumption DEF AbsLineInfo
  <2>2. Size(r) = n + 1 /\ r.lineinfo[n + 1] = AbsLineInfo /\ Agree(f.lineinfo, r.lineinfo, n)
    BY <1>2, <1>4, <1>6, <2>1 DEF Size
  <2>3. /\ Entries(r) = m + 1 /\ r.abslineinfo[m + 1] = e
        /\ Agree(f.abslineinfo, r.abslineinfo, m)
    <3>1. f.abslineinfo \in Seq(AbsEntry) /\ r.abslineinfo = Append(f.abslineinfo, e) /\ Len(f.abslineinfo) = m
      BY <1>1, <1>2, <1>6, FuncIs
    <3> QED
      BY <3>1, AppendIs DEF Entries
  <2>4. Right(r.lineinfo, n + 1, r.abslineinfo, m + 1, r.lines, f.linedefined)
    BY ZenonT(60), <1>1, <1>3, <2>2, <2>3, FarIsRight
  <2>5. Recorded(r)
    BY <1>2, <1>3, <2>2, <2>3, <2>4 DEF Recorded
  <2>6. LastAbs(r.abslineinfo, Entries(r)) = n
    BY <2>3 DEF LastAbs
  <2>7. Counted(r)
    BY <1>2, <1>5, <1>6, <2>2, <2>6, LinesAssumption DEF Counted
  <2> QED
    BY <2>5, <2>7
<1>7. CASE ~Absolute(f, line)
  <2>1. f.iwthabs < MaxIWthAbs /\ f.iwthabs \in Int
    BY <1>1, <1>7, FuncIs, LinesAssumption DEF Absolute
  <2>2. f.iwthabs = n - LastAbs(f.abslineinfo, m) /\ f.previousline = Before(f.lines, f.linedefined, n)
    BY <2>1, LinesAssumption DEF Ready, Counted
  <2>3. line - f.previousline \in Int /\ line - f.previousline # AbsLineInfo
    BY <1>1, <1>7, FuncIs, LinesAssumption DEF Absolute, AbsVal, AbsLineInfo
  <2>4. Size(r) = n + 1 /\ r.lineinfo[n + 1] = line - f.previousline /\ Agree(f.lineinfo, r.lineinfo, n)
    BY <1>2, <1>4, <1>7, <2>3 DEF Size
  <2>5. Right(r.lineinfo, n + 1, f.abslineinfo, m, r.lines, f.linedefined)
    BY <1>1, <1>3, <2>1, <2>2, <2>3, <2>4, NearIsRight
  <2>6. r.abslineinfo = f.abslineinfo /\ Entries(r) = m
    BY <1>2, <1>7 DEF Entries
  <2>7. Recorded(r)
    BY <1>2, <1>3, <2>4, <2>5, <2>6 DEF Recorded
  <2>8. Counted(r)
    <3>1. LastAbs(f.abslineinfo, m) \in Int
      BY <1>1 DEF Right, EntryRight, AbsEntry, LastAbs
    <3>2. LastAbs(r.abslineinfo, Entries(r)) = LastAbs(f.abslineinfo, m)
      BY <2>6
    <3>3. r.iwthabs = f.iwthabs + 1
      BY <1>2, <1>7
    <3>4. r.iwthabs = Size(r) - LastAbs(r.abslineinfo, Entries(r)) /\ r.iwthabs <= MaxIWthAbs
      BY <2>1, <2>2, <2>4, <3>1, <3>2, <3>3, LinesAssumption
    <3> QED
      BY <1>5, <2>4, <3>4 DEF Counted
  <2> QED
    BY <2>7, <2>8
<1> QED
  BY <1>6, <1>7

\* The record that removelastlineinfo leaves.
LEMMA NearRemovedIs ==
  ASSUME NEW f \in Func, NEW n \in Nat, Size(f) = n + 1, f.lineinfo[n + 1] # AbsLineInfo,
         NEW r, r = RemoveLastLineInfo(f)
  PROVE  /\ f.lineinfo[n + 1] \in Int
         /\ r = [f EXCEPT !.lineinfo = Front(f.lineinfo), !.lines = Front(f.lines),
                          !.previousline = f.previousline - f.lineinfo[n + 1], !.iwthabs = f.iwthabs - 1]
<1>1. LastPC(f) = n /\ Info(f, LastPC(f)) = f.lineinfo[n + 1] /\ f.lineinfo[n + 1] \in Int
  BY FuncIs DEF LastPC, Info, Size
<1> QED
  BY <1>1 DEF RemoveLastLineInfo, Func

LEMMA FarRemovedIs ==
  ASSUME NEW f \in Func, NEW n \in Nat, Size(f) = n + 1, f.lineinfo[n + 1] = AbsLineInfo,
         f.abslineinfo[Entries(f)].pc = n, f.asserts, NEW r, r = RemoveLastLineInfo(f)
  PROVE  r = [f EXCEPT !.lineinfo = Front(f.lineinfo), !.lines = Front(f.lines),
                       !.abslineinfo = Front(f.abslineinfo), !.iwthabs = MaxIWthAbs + 1]
<1>1. LastPC(f) = n /\ Info(f, LastPC(f)) = f.lineinfo[n + 1]
  BY FuncIs DEF LastPC, Info, Size
<1>2. Last(f.abslineinfo) = f.abslineinfo[Entries(f)]
  BY DEF Last, Entries
<1>3. f.asserts = TRUE
  BY DEF Func
<1>4. r = [f EXCEPT !.lineinfo = Front(f.lineinfo), !.lines = Front(f.lines),
                    !.abslineinfo = Front(f.abslineinfo), !.iwthabs = MaxIWthAbs + 1, !.asserts = TRUE]
  BY <1>1, <1>2, <1>3 DEF RemoveLastLineInfo, Func
<1> QED
  BY <1>3, <1>4 DEF Func

\* After removelastlineinfo the next line may have to be absolute.
LEMMA RemoveRight ==
  ASSUME NEW f, Recorded(f), Counted(f), f.lineinfo # <<>>
  PROVE  Recorded(RemoveLastLineInfo(f)) /\ Ready(RemoveLastLineInfo(f))
<1> PICK r : r = RemoveLastLineInfo(f)
  OBVIOUS
<1>1. f \in Func /\ Size(f) # 0 /\ Size(f) \in Nat
  BY FuncIs, EmptySeq DEF Recorded, Size
<1> PICK n \in Nat, m \in Nat : n + 1 = Size(f) /\ m = Entries(f)
  <2>1. Size(f) - 1 \in Nat /\ (Size(f) - 1) + 1 = Size(f)
    BY <1>1
  <2> QED
    BY <1>1, <2>1, FuncIs
<1>2. /\ Size(f) = n + 1 /\ Len(f.lines) = n + 1 /\ Len(f.lineinfo) = n + 1 /\ Len(f.abslineinfo) = m /\ f.asserts
      /\ Right(f.lineinfo, n + 1, f.abslineinfo, m, f.lines, f.linedefined)
  BY <1>1 DEF Recorded, Size, Entries
<1>3. f.lineinfo[n + 1] = AbsLineInfo => m # 0 /\ f.abslineinfo[m].pc = n
  BY <1>2, FarIsLast
<1>4. Front(f.lineinfo) \in Seq(Int) /\ Front(f.lines) \in Seq(Int)
      /\ Len(Front(f.lineinfo)) = n /\ Len(Front(f.lines)) = n
      /\ Agree(f.lineinfo, Front(f.lineinfo), n) /\ Agree(f.lines, Front(f.lines), n)
  <2>1. f.lineinfo \in Seq(Int) /\ f.lines \in Seq(Int)
    BY <1>1, FuncIs
  <2> QED
    BY <1>2, <2>1, FrontIs
<1>5. ASSUME r \in Func, r.lineinfo = Front(f.lineinfo), r.lines = Front(f.lines)
      PROVE  /\ Size(r) = n /\ Len(r.lines) = n
             /\ Agree(f.lineinfo, r.lineinfo, n) /\ Agree(f.lines, r.lines, n)
  BY <1>4, <1>5 DEF Size
<1>6. CASE f.lineinfo[n + 1] # AbsLineInfo
  <2> DEFINE prev == f.previousline - f.lineinfo[n + 1]
             count == f.iwthabs - 1
  <2>1. r = [f EXCEPT !.lineinfo = Front(f.lineinfo), !.lines = Front(f.lines), !.previousline = prev, !.iwthabs = count]
        /\ prev \in Int /\ count \in Int
    <3>1. /\ f.lineinfo[n + 1] \in Int
          /\ r = [f EXCEPT !.lineinfo = Front(f.lineinfo), !.lines = Front(f.lines),
                           !.previousline = f.previousline - f.lineinfo[n + 1], !.iwthabs = f.iwthabs - 1]
      BY <1>1, <1>2, <1>6, NearRemovedIs
    <3>2. f.previousline \in Int /\ f.iwthabs \in Int
      BY <1>1, FuncIs
    <3> QED
      BY <3>1, <3>2
  <2> HIDE DEF prev, count
  <2>2. /\ r \in Func /\ r.linedefined = f.linedefined /\ r.lineinfo = Front(f.lineinfo) /\ r.lines = Front(f.lines)
        /\ r.abslineinfo = f.abslineinfo /\ r.asserts = f.asserts /\ r.previousline = prev /\ r.iwthabs = count
    BY <1>1, <1>4, <2>1 DEF Func
  <2>3. Size(r) = n /\ Len(r.lines) = n /\ Agree(f.lineinfo, r.lineinfo, n) /\ Agree(f.lines, r.lines, n)
    BY <1>5, <2>2
  <2>4. Right(r.lineinfo, n, f.abslineinfo, m, r.lines, f.linedefined) /\ LastAbs(f.abslineinfo, m) <= n
    BY <1>2, <1>6, <2>3, NearRemoved
  <2>5. Recorded(r) /\ Entries(r) = m
    BY <1>2, <2>2, <2>3, <2>4 DEF Recorded, Entries
  <2>6. /\ f.lines[n + 1] \in Int /\ f.lineinfo[n + 1] \in Int
        /\ f.lineinfo[n + 1] = f.lines[n + 1] - Before(f.lines, f.linedefined, n)
    <3>1. InfoRight(f.lineinfo, f.abslineinfo, m, f.lines, f.linedefined, n + 1)
      BY <1>2 DEF Right
    <3> QED
      BY <1>6, <3>1 DEF InfoRight
  <2>7. f.previousline = f.lines[n + 1] /\ f.iwthabs = (n + 1) - LastAbs(f.abslineinfo, m) /\ f.iwthabs <= MaxIWthAbs
    BY <1>2 DEF Counted, Before
  <2>8. Before(r.lines, f.linedefined, n) = Before(f.lines, f.linedefined, n) /\ Before(f.lines, f.linedefined, n) \in Int
    <3>1. f.lines[n] \in Int \/ n = 0
      BY <1>1, <1>2, FuncIs
    <3>2. f.linedefined \in Int
      BY <1>1, FuncIs
    <3> QED
      BY <2>3, <3>1, <3>2 DEF Before, Agree
  <2>9. LastAbs(f.abslineinfo, m) \in Int
    BY <1>2 DEF Right, EntryRight, AbsEntry, LastAbs
  <2>10. prev = Before(f.lines, f.linedefined, n) /\ count = n - LastAbs(f.abslineinfo, m) /\ count <= MaxIWthAbs
    BY <2>6, <2>7, <2>8, <2>9, LinesAssumption DEF prev, count
  <2>11. Counted(r)
    BY <2>2, <2>3, <2>5, <2>8, <2>10 DEF Counted
  <2> QED
    BY <2>5, <2>11 DEF Ready
<1>7. CASE f.lineinfo[n + 1] = AbsLineInfo
  <2>1. PICK k \in Nat : m = k + 1
    <3>1. m - 1 \in Nat /\ m = (m - 1) + 1
      BY <1>3, <1>7
    <3> QED
      BY <3>1
  <2>2. Front(f.abslineinfo) \in Seq(AbsEntry) /\ Len(Front(f.abslineinfo)) = k
        /\ Agree(f.abslineinfo, Front(f.abslineinfo), k)
    <3>1. f.abslineinfo \in Seq(AbsEntry) /\ Len(f.abslineinfo) = k + 1
      BY <1>1, <1>2, <2>1, FuncIs
    <3> QED
      BY <3>1, FrontIs
  <2> DEFINE count == MaxIWthAbs + 1
  <2>3. r = [f EXCEPT !.lineinfo = Front(f.lineinfo), !.lines = Front(f.lines),
                      !.abslineinfo = Front(f.abslineinfo), !.iwthabs = count]
        /\ count \in Int /\ count > MaxIWthAbs
    <3>1. f.abslineinfo[Entries(f)].pc = n /\ f.asserts /\ f \in Func /\ Size(f) = n + 1
      BY <1>1, <1>2, <1>3, <1>7
    <3>2. r = [f EXCEPT !.lineinfo = Front(f.lineinfo), !.lines = Front(f.lines),
                        !.abslineinfo = Front(f.abslineinfo), !.iwthabs = MaxIWthAbs + 1]
      BY <1>7, <3>1, FarRemovedIs
    <3> QED
      BY <3>2, LinesAssumption
  <2> HIDE DEF count
  <2>4. /\ r \in Func /\ r.linedefined = f.linedefined /\ r.lineinfo = Front(f.lineinfo) /\ r.lines = Front(f.lines)
        /\ r.abslineinfo = Front(f.abslineinfo) /\ r.asserts = f.asserts /\ r.iwthabs = count
    BY <1>1, <1>4, <2>2, <2>3 DEF Func
  <2>5. Size(r) = n /\ Len(r.lines) = n /\ Agree(f.lineinfo, r.lineinfo, n) /\ Agree(f.lines, r.lines, n)
    BY <1>5, <2>4
  <2>6. Right(r.lineinfo, n, r.abslineinfo, k, r.lines, f.linedefined)
    BY <1>2, <1>7, <2>1, <2>2, <2>4, <2>5, FarRemoved
  <2>7. Recorded(r)
    BY <1>2, <2>2, <2>4, <2>5, <2>6 DEF Recorded, Entries
  <2>8. r.iwthabs > MaxIWthAbs
    BY <2>3, <2>4
  <2> QED
    BY <2>7, <2>8 DEF Ready
<1> QED
  BY <1>6, <1>7

-----------------------------------------------------------------------------
(***************************************************************************)
(* The state.                                                              *)
(***************************************************************************)
\* Everything but the first instruction after a removal starts from counted lines.
THEOREM LinesTyped == LinesSpec => []LinesInv
<1>1. LinesInit => LinesInv
  <2> SUFFICES ASSUME LinesInit PROVE LinesInv
    OBVIOUS
  <2>1. PICK line \in SourceLines : fs = OpenFunc(line) /\ replacing = FALSE
    BY DEF LinesInit
  <2>2. line \in Int
    BY LinesAssumption
  <2> QED
    BY <2>1, <2>2, OpenRight DEF LinesInv, Ready
<1>2. LinesInv /\ [LinesNext]_linesVars => LinesInv'
  <2> SUFFICES ASSUME LinesInv, [LinesNext]_linesVars PROVE LinesInv'
    OBVIOUS
  <2>1. ASSUME NEW f, NEW b \in BOOLEAN, fs' = f, replacing' = b, Recorded(f), Ready(f), ~b => Counted(f) PROVE LinesInv'
    BY <2>1 DEF LinesInv
  <2>2. Recorded(fs) /\ Ready(fs) /\ replacing \in BOOLEAN /\ (~replacing => Counted(fs))
    BY DEF LinesInv
  <2>3. ASSUME NEW line \in SourceLines, EmitInstruction(line) PROVE LinesInv'
    <3>1. line \in Int
      BY LinesAssumption
    <3>2. Recorded(SaveLineInfo(fs, line)) /\ Counted(SaveLineInfo(fs, line))
      BY <2>2, <3>1, SaveRight
    <3> QED
      BY <2>1, <2>3, <3>2 DEF EmitInstruction, CodeLine, Ready
  <2>4. ASSUME NEW line \in SourceLines, FixLastLine(line) PROVE LinesInv'
    <3>1. line \in Int
      BY LinesAssumption
    <3> PICK r : r = RemoveLastLineInfo(fs)
      OBVIOUS
    <3>2. Recorded(r) /\ Ready(r)
      BY <2>2, <2>4, RemoveRight DEF FixLastLine
    <3>3. Recorded(SaveLineInfo(r, line)) /\ Counted(SaveLineInfo(r, line))
      BY <3>1, <3>2, SaveRight
    <3> QED
      BY <2>1, <2>2, <2>4, <3>3 DEF FixLastLine, FixLine, Ready
  <2>5. CASE RemoveInstruction
    <3>1. Recorded(RemoveLastLineInfo(fs)) /\ Ready(RemoveLastLineInfo(fs))
      BY <2>2, <2>5, RemoveRight DEF RemoveInstruction
    <3> QED
      BY <2>1, <2>5, <3>1 DEF RemoveInstruction, RemoveLastInstruction
  <2>6. CASE UNCHANGED linesVars
    BY <2>1, <2>2, <2>6 DEF linesVars
  <2> QED
    BY <2>3, <2>4, <2>5, <2>6 DEF LinesNext
<1> QED
  BY <1>1, <1>2, PTL DEF LinesSpec

-----------------------------------------------------------------------------
(***************************************************************************)
(* ldebug.c, for a function that is recorded right.                        *)
(***************************************************************************)
LEMMA LeastLine ==
  ASSUME NEW S, S \subseteq Nat, S # {}
  PROVE  \E j \in S : \A i \in S : j <= i
<1>1. PICK j \in S : \A i \in S : ~ (<<i, j>> \in OpToRel(<, Nat))
  BY NatLessThanWellFounded, WFMin
<1>2. \A i \in S : ~ (i < j)
  BY <1>1 DEF OpToRel
<1> QED
  BY <1>2

\* The line of an instruction; before the first one it is where the function is defined.
Line(f, pc) == Before(f.lines, f.linedefined, pc + 1)
\* No absolute line in between.
Plain(f, from, to) == \A i \in (from + 1)..to : Info(f, i) # AbsLineInfo

LEMMA LineIs ==
  ASSUME NEW f, Recorded(f), NEW n \in Nat, n = Size(f)
  PROVE  /\ LastPC(f) = n - 1 /\ Line(f, -1) = f.linedefined
         /\ \A pc \in (-1)..(n - 1) : Line(f, pc) \in Int
         /\ \A pc \in 0..(n - 1) : /\ Line(f, pc) = f.lines[pc + 1] /\ Info(f, pc) \in Int
                                   /\ Info(f, pc) # AbsLineInfo => Info(f, pc) = Line(f, pc) - Line(f, pc - 1)
<1> DEFINE info == f.lineinfo
           abs == f.abslineinfo
<1>1. LastPC(f) = n - 1
  BY DEF LastPC, Size
<1>2. f.linedefined \in Int /\ Right(info, n, abs, Entries(f), f.lines, f.linedefined)
  BY FuncIs DEF Recorded
<1> HIDE DEF info, abs
<1>3. ASSUME NEW k \in 1..n PROVE InfoRight(info, abs, Entries(f), f.lines, f.linedefined, k)
  BY <1>2 DEF Right
<1>4. ASSUME NEW k \in 1..n PROVE f.lines[k] \in Int /\ Line(f, k - 1) = f.lines[k]
  BY <1>3 DEF InfoRight, Line, Before
<1>5. Line(f, -1) = f.linedefined
  BY DEF Line, Before
<1>6. \A pc \in (-1)..(n - 1) : Line(f, pc) \in Int
  <2> SUFFICES ASSUME NEW pc \in (-1)..(n - 1) PROVE Line(f, pc) \in Int
    OBVIOUS
  <2>1. CASE pc = -1
    BY <1>2, <1>5, <2>1
  <2>2. CASE pc + 1 \in 1..n
    BY <1>4, <2>2
  <2> QED
    BY <2>1, <2>2
<1>7. ASSUME NEW pc \in 0..(n - 1)
      PROVE  /\ Line(f, pc) = f.lines[pc + 1] /\ Info(f, pc) \in Int
             /\ Info(f, pc) # AbsLineInfo => Info(f, pc) = Line(f, pc) - Line(f, pc - 1)
  <2>1. InfoRight(info, abs, Entries(f), f.lines, f.linedefined, pc + 1) /\ Line(f, pc) = f.lines[pc + 1]
    BY <1>3, <1>4
  <2>2. Info(f, pc) = info[pc + 1]
    BY DEF Info, info
  <2>3. Line(f, pc - 1) = Before(f.lines, f.linedefined, (pc + 1) - 1)
    BY DEF Line
  <2> QED
    BY <2>1, <2>2, <2>3 DEF InfoRight
<1> QED
  BY <1>1, <1>5, <1>6, <1>7

\* The loop over the differences.
LEMMA WalkIs ==
  ASSUME NEW f, Recorded(f), NEW n \in Nat, n = Size(f),
         NEW first \in (-1)..(n - 1), NEW last \in first..(n - 1), Plain(f, first, last), NEW start \in Int
  PROVE  Walk(f, first, start, last) = start + (Line(f, last) - Line(f, first))
<1> DEFINE Is(r) == r = [pc \in first..last |-> IF pc = first THEN start ELSE r[pc - 1] + Info(f, pc)]
           line == CHOOSE r : Is(r)
           sum(pc) == start + (Line(f, pc) - Line(f, first))
           S == {k \in Nat : first + k \in first..last /\ line[first + k] # sum(first + k)}
<1>1. /\ \A pc \in first..last : Line(f, pc) \in Int
      /\ \A pc \in (first + 1)..last : Info(f, pc) = Line(f, pc) - Line(f, pc - 1) /\ pc - 1 \in first..last
  BY LineIs DEF Plain
<1>2. Is(line)
  <2> DEFINE r == [pc \in first..last |-> sum(pc)]
  <2>1. ASSUME NEW pc \in first..last PROVE r[pc] = IF pc = first THEN start ELSE r[pc - 1] + Info(f, pc)
    <3>1. CASE pc = first
      BY <1>1, <3>1
    <3>2. CASE pc # first
      <4>1. pc \in (first + 1)..last
        BY <3>2
      <4>2. r[pc] = sum(pc) /\ r[pc - 1] = sum(pc - 1)
        BY <1>1, <4>1
      <4>3. sum(pc) = sum(pc - 1) + Info(f, pc)
        BY <1>1, <4>1
      <4> QED
        BY <3>2, <4>2, <4>3
    <3> QED
      BY <3>1, <3>2
  <2>2. Is(r)
    <3>1. r = [pc \in first..last |-> r[pc]]
      OBVIOUS
    <3> HIDE DEF r
    <3> QED
      BY <2>1, <3>1
  <2> HIDE DEF Is
  <2> QED
    BY <2>2
<1>3. Walk(f, first, start, last) = line[last]
  BY DEF Walk
<1>4. ASSUME NEW pc \in first..last PROVE line[pc] = IF pc = first THEN start ELSE line[pc - 1] + Info(f, pc)
  BY <1>2
<1> HIDE DEF line
<1>5. S = {}
  <2> SUFFICES ASSUME S # {} PROVE FALSE
    OBVIOUS
  <2>1. PICK k \in S : \A i \in S : k <= i
    BY LeastLine
  <2>2. k \in Nat /\ first + k \in first..last /\ line[first + k] # sum(first + k)
    OBVIOUS
  <2>3. CASE k = 0
    BY <1>1, <1>4, <2>2, <2>3
  <2>4. CASE k # 0
    <3>1. k - 1 \in Nat /\ k - 1 \notin S
      BY <2>1, <2>2, <2>4
    <3>2. first + (k - 1) = (first + k) - 1 /\ first + k \in (first + 1)..last
      BY <2>2, <2>4
    <3>3. line[(first + k) - 1] = sum((first + k) - 1)
      BY <1>1, <3>1, <3>2
    <3>4. line[first + k] = sum((first + k) - 1) + Info(f, first + k)
      BY <1>4, <2>2, <2>4, <3>3
    <3> QED
      BY <1>1, <2>2, <3>2, <3>4
  <2> QED
    BY <2>3, <2>4
<1>6. line[last] = sum(last)
  <2>1. PICK k \in Nat : first + k = last
    <3>1. last - first \in Nat /\ first + (last - first) = last
      OBVIOUS
    <3> QED
      BY <3>1
  <2>2. k \notin S
    BY <1>5
  <2> QED
    BY <2>1, <2>2
<1> QED
  BY <1>3, <1>6

\* The base line that luaG_getfuncline starts from.
LEMMA BaseIs ==
  ASSUME NEW f, Recorded(f), NEW n \in Nat, n = Size(f), NEW pc \in 0..(n - 1),
         NEW base, base = GetBaseLine(f, pc)
  PROVE  /\ base.pc \in (-1)..pc /\ base.line = Line(f, base.pc) /\ base.line \in Int
         /\ Plain(f, base.pc, pc)
         /\ FromStart(f, pc) \/ BaseIsLow(f, pc)
<1> PICK m, abs : m \in Nat /\ m = Entries(f) /\ abs = f.abslineinfo
  BY FuncIs DEF Recorded
<1>1. /\ \A i \in 1..m : /\ abs[i].pc \in 0..(n - 1) /\ abs[i].pc <= Reach(i) /\ abs[i].line = Line(f, abs[i].pc)
      /\ Sorted(abs, m) /\ n <= Reach(m + 1)
  <2>1. ASSUME NEW i \in 1..m
        PROVE  abs[i].pc \in 0..(n - 1) /\ abs[i].pc <= Reach(i) /\ abs[i].line = f.lines[abs[i].pc + 1]
    BY DEF Recorded, Right, EntryRight, AbsEntry
  <2>2. \A i \in 0..(n - 1) : Line(f, i) = f.lines[i + 1]
    BY LineIs
  <2>3. Sorted(abs, m) /\ n <= Reach(m + 1)
    BY DEF Recorded, Right
  <2> QED
    BY <2>1, <2>2, <2>3
<1>2. \A i \in 0..(n - 1) : Info(f, i) = AbsLineInfo => \E j \in 1..m : abs[j].pc = i
  <2> SUFFICES ASSUME NEW i \in 0..(n - 1), Info(f, i) = AbsLineInfo PROVE \E j \in 1..m : abs[j].pc = i
    OBVIOUS
  <2>1. InfoRight(f.lineinfo, abs, m, f.lines, f.linedefined, i + 1)
    BY DEF Recorded, Right
  <2>2. f.lineinfo[i + 1] = AbsLineInfo
    BY DEF Info
  <2> QED
    BY <2>1, <2>2 DEF InfoRight
<1>3. \A i \in (-1)..(n - 1) : Line(f, i) \in Int
  BY LineIs
<1>4. Line(f, -1) = f.linedefined
  BY LineIs
<1>5. Len(f.abslineinfo) = m /\ (f.abslineinfo = <<>> <=> m = 0) /\ AbsAt(f, 0) = abs[1]
      /\ \A i \in Int : AbsAt(f, i) = abs[i + 1] /\ AbsAt(f, i + 1) = abs[i + 2]
  <2>1. f.abslineinfo \in Seq(AbsEntry) /\ Len(f.abslineinfo) = m
    BY FuncIs DEF Recorded, Entries
  <2>2. \A i \in Int : (i + 1) + 1 = i + 2
    OBVIOUS
  <2> QED
    BY <2>1, <2>2, EmptySeq DEF AbsAt
<1>6. CASE FromStart(f, pc)
  <2>1. base.pc = -1 /\ base.line = f.linedefined
    BY <1>6 DEF GetBaseLine
  <2>2. \A j \in 1..m : pc < abs[j].pc
    <3>1. m = 0 \/ pc < abs[1].pc
      BY <1>5, <1>6 DEF FromStart
    <3> QED
      BY <1>1, <3>1 DEF Sorted
  <2>3. Plain(f, -1, pc)
    BY <1>1, <1>2, <2>2 DEF Plain
  <2> QED
    BY <1>3, <1>4, <1>6, <2>1, <2>3
<1>7. CASE ~FromStart(f, pc)
  <2> PICK e \in Int : e = Estimate(pc)
    BY LinesAssumption DEF Estimate
  <2>1. m # 0 /\ abs[1].pc <= pc
    <3>1. m # 0 /\ ~(pc < abs[1].pc)
      BY <1>5, <1>7 DEF FromStart
    <3>2. abs[1].pc \in Int
      BY <1>1, <3>1
    <3> QED
      BY <3>1, <3>2
  <2>2. e >= -1 /\ Reach(e + 1) <= pc /\ pc < Reach(e + 1) + MaxIWthAbs
    BY LinesAssumption, SMT DEF Estimate, Reach
  <2>3. e < m
    <3> SUFFICES ASSUME e >= m PROVE FALSE
      BY <2>2
    <3>1. Reach(m + 1) <= Reach(e + 1)
      BY <2>2, ReachGrows
    <3> QED
      BY <1>1, <2>2, <3>1, OneMore
  <2>4. BaseIsLow(f, pc) /\ (e >= 0 => abs[e + 1].pc <= pc)
    <3>1. e >= 0 => abs[e + 1].pc <= Reach(e + 1) /\ abs[e + 1].pc \in 0..(n - 1)
      BY <1>1, <2>2, <2>3
    <3>2. Reach(e + 1) \in Int
      BY <2>2, OneMore
    <3>3. e >= 0 => abs[e + 1].pc <= pc
      BY <2>2, <3>1, <3>2
    <3>4. AbsAt(f, e) = abs[e + 1] /\ Len(f.abslineinfo) = m
      BY <1>5
    <3>5. e < 0 \/ (e < Len(f.abslineinfo) /\ AbsAt(f, e).pc <= pc)
      BY <2>3, <3>3, <3>4
    <3> QED
      BY <3>3, <3>5 DEF BaseIsLow
  <2> DEFINE End(i) == i + 1 >= m \/ pc < abs[i + 2].pc
  <2>5. \A i \in Int : Ends(f, pc, i) <=> End(i)
    BY <1>5 DEF Ends
  <2>6. \E i \in e..m : End(i) /\ \A j \in e..(i - 1) : ~End(j)
    <3> DEFINE S == {k \in Nat : k - 1 \in e..m /\ End(k - 1)}
    <3>1. m + 1 \in S
      BY <2>2, <2>3
    <3> HIDE DEF End
    <3>2. PICK k \in S : \A i \in S : k <= i
      BY <3>1, LeastLine
    <3>3. k - 1 \in e..m /\ End(k - 1)
      OBVIOUS
    <3>4. ASSUME NEW j \in e..((k - 1) - 1), End(j) PROVE FALSE
      <4>1. j + 1 \in Nat /\ (j + 1) - 1 = j /\ j \in e..m
        BY <2>2, <3>3
      <4>2. j + 1 \in S
        BY <3>4, <4>1
      <4> QED
        BY <3>2, <3>3, <4>2
    <3> QED
      BY <3>3, <3>4
  <2> PICK a : a = Adjust(f, pc)
    OBVIOUS
  <2>7. a \in e..m /\ End(a) /\ \A j \in e..(a - 1) : ~End(j)
    <3> HIDE DEF End
    <3>1. \E i \in Estimate(pc)..Len(f.abslineinfo) :
              Ends(f, pc, i) /\ \A j \in Estimate(pc)..(i - 1) : ~Ends(f, pc, j)
      BY <1>5, <2>5, <2>6
    <3>2. /\ a \in Estimate(pc)..Len(f.abslineinfo) /\ Ends(f, pc, a)
          /\ \A j \in Estimate(pc)..(a - 1) : ~Ends(f, pc, j)
      BY <3>1 DEF Adjust
    <3> QED
      BY <1>5, <2>5, <3>2
  <2>8. a \in 0..(m - 1) /\ abs[a + 1].pc <= pc
    <3>1. CASE a = e
      BY <1>1, <2>1, <2>2, <2>3, <2>4, <2>7, <3>1
    <3>2. CASE a > e
      <4>1. ~End(a - 1)
        BY <2>7, <3>2
      <4> QED
        BY <1>1, <2>2, <2>7, <3>2, <4>1
    <3> QED
      BY <2>7, <3>1, <3>2
  <2>9. base = abs[a + 1]
    <3>1. base = AbsAt(f, a)
      BY <1>7 DEF GetBaseLine
    <3>2. AbsAt(f, a) = abs[a + 1]
      BY DEF AbsAt
    <3> QED
      BY <3>1, <3>2
  <2>10. Plain(f, abs[a + 1].pc, pc)
    <3> SUFFICES ASSUME NEW i \in (abs[a + 1].pc + 1)..pc, Info(f, i) = AbsLineInfo PROVE FALSE
      BY DEF Plain
    <3>1. PICK j \in 1..m : abs[j].pc = i
      BY <1>1, <1>2, <2>8
    <3>2. abs[a + 1].pc < abs[j].pc
      BY <1>1, <2>8, <3>1
    <3>3. j > a + 1
      BY <1>1, <2>8, <3>2 DEF Sorted
    <3>4. abs[a + 2].pc <= abs[j].pc
      BY <1>1, <2>8, <3>3 DEF Sorted
    <3> QED
      BY <1>1, <2>7, <2>8, <3>1, <3>3, <3>4
  <2> QED
    BY <1>1, <1>3, <2>4, <2>8, <2>9, <2>10
<1> QED
  BY <1>6, <1>7

\* luaG_getfuncline.
LEMMA LineFound ==
  ASSUME NEW f, Recorded(f), NEW n \in Nat, n = Size(f), NEW pc \in 0..(n - 1)
  PROVE  GetFuncLine(f, pc) = Line(f, pc) /\ LineAsserts(f, pc)
<1> PICK base : base = GetBaseLine(f, pc)
  OBVIOUS
<1>1. /\ base.pc \in (-1)..pc /\ base.line = Line(f, base.pc) /\ base.line \in Int
      /\ Plain(f, base.pc, pc) /\ (FromStart(f, pc) \/ BaseIsLow(f, pc))
  BY BaseIs
<1>2. Walk(f, base.pc, base.line, pc) = base.line + (Line(f, pc) - Line(f, base.pc))
  BY <1>1, WalkIs
<1>3. Line(f, pc) \in Int
  BY LineIs
<1> QED
  BY <1>1, <1>2, <1>3 DEF GetFuncLine, LineAsserts, Plain

\* changedline: a new line, whether it adds the differences or finds the two lines.
LEMMA LineChanged ==
  ASSUME NEW f, Recorded(f), NEW n \in Nat, n = Size(f), NEW old \in 0..(n - 1), NEW new \in 0..(n - 1)
  PROVE  LineHook(f, old, new) <=> (new <= old \/ f.lines[old + 1] # f.lines[new + 1])
<1>1. /\ Line(f, old) = f.lines[old + 1] /\ Line(f, old) \in Int
      /\ Line(f, new) = f.lines[new + 1] /\ Line(f, new) \in Int
  BY LineIs
<1>2. GetFuncLine(f, old) = Line(f, old) /\ GetFuncLine(f, new) = Line(f, new)
  BY LineFound
<1>3. ASSUME old < new, Plain(f, old, new) PROVE Walk(f, old, 0, new) = 0 + (Line(f, new) - Line(f, old))
  BY <1>3, WalkIs
<1>4. ASSUME old < new PROVE ChangedLine(f, old, new) <=> Line(f, old) # Line(f, new)
  <2>1. CASE Plain(f, old, new)
    <3>1. Walk(f, old, 0, new) # 0 <=> Line(f, old) # Line(f, new)
      <4>1. Walk(f, old, 0, new) = 0 + (Line(f, new) - Line(f, old))
        BY <1>3, <1>4, <2>1
      <4> PICK a \in Int, b \in Int : a = Line(f, old) /\ b = Line(f, new)
        BY <1>1
      <4>2. CASE a = b
        <5>1. 0 + (b - a) = 0
          BY <4>2
        <5> QED
          BY <4>1, <4>2, <5>1
      <4>3. CASE a # b
        <5> PICK d \in Int : d = b - a
          OBVIOUS
        <5>1. d # 0
          BY <4>3
        <5>2. 0 + d = d
          OBVIOUS
        <5> QED
          BY <4>1, <4>3, <5>1, <5>2
      <4> QED
        BY <4>2, <4>3
    <3> QED
      BY <1>2, <3>1 DEF ChangedLine
  <2>2. CASE ~Plain(f, old, new)
    BY <1>2, <2>2 DEF ChangedLine, Plain
  <2> QED
    BY <2>1, <2>2
<1> QED
  BY <1>1, <1>4 DEF LineHook

\* collectvalidlines keeps the line of the last instruction it saw.
LEMMA CollectedIs ==
  ASSUME NEW f, Recorded(f), NEW n \in Nat, n = Size(f), NEW pc \in 0..(n - 1)
  PROVE  Collected(f)[pc] = f.lines[pc + 1]
<1> DEFINE last(r, i) == IF i = 0 THEN f.linedefined ELSE r[i - 1]
           Is(r) == r = [i \in 0..LastPC(f) |-> NextLine(f, last(r, i), i)]
           line == CHOOSE r : Is(r)
           S == {i \in Nat : i \in 0..(n - 1) /\ line[i] # Line(f, i)}
<1>1. LastPC(f) = n - 1 /\ Line(f, -1) = f.linedefined /\ \A i \in (-1)..(n - 1) : Line(f, i) \in Int
  BY LineIs
<1>2. ASSUME NEW i \in 0..(n - 1) PROVE NextLine(f, Line(f, i - 1), i) = Line(f, i)
  <2>1. Info(f, i) \in Int /\ (Info(f, i) # AbsLineInfo => Info(f, i) = Line(f, i) - Line(f, i - 1))
    BY LineIs
  <2>2. GetFuncLine(f, i) = Line(f, i)
    BY LineFound
  <2>3. Line(f, i) \in Int /\ Line(f, i - 1) \in Int
    BY <1>1
  <2> QED
    BY <2>1, <2>2, <2>3 DEF NextLine
<1>3. Is(line)
  <2> DEFINE r == [i \in 0..LastPC(f) |-> Line(f, i)]
  <2>1. ASSUME NEW i \in 0..LastPC(f) PROVE r[i] = NextLine(f, last(r, i), i)
    <3>1. last(r, i) = Line(f, i - 1)
      BY <1>1
    <3>2. r[i] = Line(f, i)
      OBVIOUS
    <3> QED
      BY <1>1, <1>2, <3>1, <3>2
  <2>2. r = [i \in 0..LastPC(f) |-> r[i]]
    OBVIOUS
  <2> HIDE DEF r, last
  <2>3. Is(r)
    BY <2>1, <2>2
  <2> HIDE DEF Is
  <2> QED
    BY <2>3
<1>4. Collected(f) = line
  BY DEF Collected
<1>5. ASSUME NEW i \in 0..(n - 1) PROVE line[i] = NextLine(f, last(line, i), i)
  BY <1>1, <1>3
<1> HIDE DEF line
<1>6. S = {}
  <2> SUFFICES ASSUME S # {} PROVE FALSE
    OBVIOUS
  <2>1. PICK i \in S : \A j \in S : i <= j
    BY LeastLine
  <2>2. i \in Nat /\ i \in 0..(n - 1) /\ line[i] # Line(f, i)
    OBVIOUS
  <2>3. last(line, i) = Line(f, i - 1)
    <3>1. CASE i = 0
      BY <1>1, <3>1
    <3>2. CASE i # 0
      <4>1. i - 1 \in Nat /\ i - 1 \in 0..(n - 1) /\ ~(i <= i - 1)
        BY <2>2, <3>2
      <4> QED
        BY <2>1, <3>2, <4>1
    <3> QED
      BY <3>1, <3>2
  <2> HIDE DEF last
  <2> QED
    BY <1>2, <1>5, <2>2, <2>3
<1>7. pc \notin S
  BY <1>6
<1>8. line[pc] = Line(f, pc)
  BY <1>7
<1> QED
  BY <1>4, <1>8, LineIs

-----------------------------------------------------------------------------
\* ldebug.c finds the line that the code generator gave to every instruction, whatever
\* the generator fixed and removed on the way; the line hook and activelines see the
\* same lines, and the assertions of both files hold (lcode.c, ldebug.c).
THEOREM LinesAlwaysRight == LinesSpec => []LinesRight
<1>1. LinesInv => LinesRight
  <2> SUFFICES ASSUME LinesInv, ~replacing PROVE LinesRight
    BY DEF LinesRight
  <2>1. Recorded(fs)
    BY DEF LinesInv
  <2> PICK n \in Nat : n = Size(fs)
    BY <2>1, FuncIs DEF Recorded
  <2>2. LastPC(fs) = n - 1
    BY <2>1, LineIs
  <2>3. fs.asserts
    BY <2>1 DEF Recorded
  <2>4. \A pc \in 0..(n - 1) : LineAsserts(fs, pc) /\ GetFuncLine(fs, pc) = fs.lines[pc + 1]
    <3> TAKE pc \in 0..(n - 1)
    <3>1. GetFuncLine(fs, pc) = Line(fs, pc) /\ LineAsserts(fs, pc)
      BY <2>1, LineFound
    <3>2. Line(fs, pc) = fs.lines[pc + 1]
      BY <2>1, LineIs
    <3> QED
      BY <3>1, <3>2
  <2>5. \A old, new \in 0..(n - 1) : LineHook(fs, old, new) <=> (new <= old \/ fs.lines[old + 1] # fs.lines[new + 1])
    BY <2>1, LineChanged
  <2>6. \A pc \in 0..(n - 1) : Collected(fs)[pc] = fs.lines[pc + 1]
    BY <2>1, CollectedIs
  <2>7. ValidLines(fs, FALSE) = LinesOf(fs, 0) /\ ValidLines(fs, TRUE) = LinesOf(fs, 1)
    BY <2>2, <2>6 DEF ValidLines, LinesOf
  <2>8. \A old, new \in 0..(n - 1) : LineHook(fs, old, new) = (new <= old \/ fs.lines[old + 1] # fs.lines[new + 1])
    BY <2>5 DEF LineHook, ChangedLine
  <2> QED
    BY <2>2, <2>3, <2>4, <2>7, <2>8 DEF LinesRight
<1> QED
  BY <1>1, LinesTyped, PTL
=============================================================================
