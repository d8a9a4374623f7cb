--------------------------- MODULE RequireProofs ---------------------------
(***************************************************************************)
(* Proofs about Require: where loaders come from, and that all requires of *)
(* a module agree.                                                         *)
(***************************************************************************)
EXTENDS Require, FiniteSetTheorems, SequenceTheorems, WellFoundedInduction, TLAPS

\* A library in CLIBS could be loaded, and is there once.
LibsOK(libs) ==
    /\ libs \in Seq({f \in DOMAIN world.libs : world.libs[f].loads})
    /\ IsInjective(libs)

From == {<<":preload:">>} \cup (STRING \X (Module \cup {Root[m] : m \in Module}))
Frame == [m : Module, protected : BOOLEAN, from : From, run : Nat]
Seen == [got : SUBSET Int, early : SUBSET Int, twice : BOOLEAN, false : BOOLEAN, replaced : BOOLEAN]
TypeOK ==
    /\ world \in Worlds
    /\ loaded \in [Module -> Int]
    /\ LibsOK(clibs)
    /\ frames \in Seq(Frame)
    /\ past \in [runs : Nat, of : [Module -> Seen]]
\* Loaders run in the order of their numbers, each from the place it should.
FramesOK ==
    /\ \A i \in DOMAIN frames : frames[i].run \in 1..past.runs
    /\ \A i, j \in DOMAIN frames : i < j => frames[i].run < frames[j].run
    /\ \A i \in DOMAIN frames : ComesFrom(frames[i].m, frames[i].from)
\* What is remembered of a module: as long as its loader did not run inside itself and its
\* entry was not false, a loader runs only where none returned before.
AgreeOK(m) == LET seen == past.of[m] IN
    /\ Nil \notin seen.got \cup seen.early
    /\ ~seen.twice => \A i, j \in Running(m) : i = j
    /\ ~seen.twice /\ ~seen.false =>
           /\ seen.got \subseteq {loaded[m]} /\ loaded[m] # False
           /\ Running(m) # {} => seen.got = {}
           /\ ~seen.replaced => seen.early \subseteq {loaded[m]}
RequireInv == TypeOK /\ FramesOK /\ \A m \in Module : AgreeOK(m)

-----------------------------------------------------------------------------
(***************************************************************************)
(* The least and the greatest of a set of indices.                         *)
(***************************************************************************)
\* A set of numbers that is not empty has a least one.
LEMMA LeastIs ==
  ASSUME NEW S, S \subseteq Nat, S # {}
  PROVE  \E x \in S : \A y \in S : x <= y
<1>1. PICK x \in S : \A y \in S : ~ (<<y, x>> \in OpToRel(<, Nat))
  BY NatLessThanWellFounded, WFMin
<1>2. \A y \in S : ~ (y < x)
  BY <1>1 DEF OpToRel
<1> QED
  BY <1>2

\* The distance to n of the greatest is the least.
LEMMA GreatestIs ==
  ASSUME NEW n \in Nat, NEW S, S \subseteq 1..n, S # {}
  PROVE  \E x \in S : \A y \in S : y <= x
<1> DEFINE D == {n - i : i \in S}
<1>1. \A i \in S : i \in Nat /\ n - i \in Nat
  OBVIOUS
<1>2. D \subseteq Nat /\ D # {}
  BY <1>1
<1>3. PICK d \in D : \A y \in D : d <= y
  <2> HIDE DEF D
  <2> QED
    BY <1>2, LeastIs
<1>4. PICK x \in S : d = n - x
  BY <1>3
<1>5. \A y \in S : n - x <= n - y
  BY <1>3, <1>4
<1> QED
  BY <1>1, <1>5

-----------------------------------------------------------------------------
(***************************************************************************)
(* Searching a path.                                                       *)
(***************************************************************************)
\* None of the files is there, or f is the first that is.
NoFile(path, name, there) == \A i \in 1..Len(path) : <<path[i], name>> \notin there
FirstFile(path, name, there, f) ==
    \E i \in 1..Len(path) :
        /\ f = <<path[i], name>> /\ f \in there
        /\ \A j \in 1..(i - 1) : <<path[j], name>> \notin there

\* The first index of a member of T, or 0.
FirstIn(s, T) == SelectInSeq(s, LAMBDA x : x \in T)
\* SelectInSeq gives the first index.
LEMMA FirstIs ==
  ASSUME NEW s, Len(s) \in Nat, NEW T
  PROVE  \/ FirstIn(s, T) = 0 /\ \A i \in 1..Len(s) : s[i] \notin T
         \/ /\ FirstIn(s, T) \in 1..Len(s) /\ s[FirstIn(s, T)] \in T
            /\ \A i \in 1..Len(s) : s[i] \in T => FirstIn(s, T) <= i
<1> DEFINE I == {i \in 1..Len(s) : s[i] \in T}
<1>1. FirstIn(s, T) = IF I # {} THEN CHOOSE x \in I : \A y \in I : x <= y ELSE 0
  BY DEF FirstIn, SelectInSeq, Min
<1>2. CASE I = {}
  BY <1>1, <1>2
<1>3. CASE I # {}
  <2>1. I \subseteq Nat
    OBVIOUS
  <2>2. \E x \in I : \A y \in I : x <= y
    <3> HIDE DEF I
    <3> QED
      BY <1>3, <2>1, LeastIs
  <2>3. FirstIn(s, T) \in I /\ \A y \in I : FirstIn(s, T) <= y
    <3> HIDE DEF I
    <3> QED
      BY <1>1, <1>3, <2>2
  <2> QED
    BY <2>3
<1> QED
  BY <1>2, <1>3

\* searchpath finds the first file.
LEMMA SearchPathIs ==
  ASSUME NEW path \in Seq(STRING), NEW name, NEW there
  PROVE  \/ SearchPath(path, name, there) = <<>> /\ NoFile(path, name, there)
         \/ /\ SearchPath(path, name, there) # <<>>
            /\ FirstFile(path, name, there, SearchPath(path, name, there))
<1>1. DOMAIN path = 1..Len(path) /\ Len(path) \in Nat
  OBVIOUS
<1>2. PICK files : files = [i \in DOMAIN path |-> <<path[i], name>>]
  OBVIOUS
<1>3. Len(files) = Len(path) /\ \A i \in 1..Len(path) : files[i] = <<path[i], name>>
  BY <1>1, <1>2
<1>4. PICK at : at = FirstIn(files, there)
  OBVIOUS
<1>5. SearchPath(path, name, there) = IF at = 0 THEN <<>> ELSE files[at]
  BY <1>2, <1>4 DEF SearchPath, FirstIn
<1>6. \/ at = 0 /\ \A i \in 1..Len(path) : files[i] \notin there
      \/ /\ at \in 1..Len(path) /\ files[at] \in there
         /\ \A i \in 1..Len(path) : files[i] \in there => at <= i
  BY <1>1, <1>3, <1>4, FirstIs
<1>7. CASE at = 0
  BY <1>1, <1>3, <1>5, <1>6, <1>7 DEF NoFile
<1>8. CASE at # 0
  <2>1. SearchPath(path, name, there) = <<path[at], name>> /\ at \in 1..Len(path)
    BY <1>3, <1>5, <1>6, <1>8
  <2>2. \A j \in 1..(at - 1) : j \in 1..Len(path) /\ ~(at <= j)
    BY <1>1, <2>1
  <2>3. <<path[at], name>> \in there /\ \A j \in 1..(at - 1) : <<path[j], name>> \notin there
    BY <1>3, <1>6, <1>8, <2>1, <2>2
  <2>4. FirstFile(path, name, there, <<path[at], name>>)
    BY <2>1, <2>3 DEF FirstFile
  <2>5. <<path[at], name>> # <<>>
    OBVIOUS
  <2> QED
    BY <2>1, <2>4, <2>5
<1> QED
  BY <1>7, <1>8

-----------------------------------------------------------------------------
(***************************************************************************)
(* The searchers.                                                          *)
(***************************************************************************)
\* lookforfunc loads a library at most once, and finds a function only where it is.
LEMMA LookForFuncIs ==
  ASSUME NEW libs, LibsOK(libs), NEW file, NEW sym, NEW a, a = LookForFunc(libs, file, sym)
  PROVE  /\ LibsOK(a.clibs)
         /\ a.kind = "ok" => /\ file \in DOMAIN world.libs /\ world.libs[file].loads
                             /\ sym = "*" \/ sym \in world.libs[file].syms
<1> DEFINE F == {f \in DOMAIN world.libs : world.libs[f].loads}
<1>1. /\ libs \in Seq(F) /\ Len(libs) \in Nat /\ DOMAIN libs = 1..Len(libs)
      /\ \A i \in 1..Len(libs) : libs[i] \in F
  BY DEF LibsOK
<1>2. Contains(libs, file) <=> \E i \in 1..Len(libs) : libs[i] = file
  BY <1>1 DEF Contains
<1>3. Contains(libs, file) => file \in F
  BY <1>1, <1>2
<1>4. CASE ~Contains(libs, file) /\ file \notin F
  <2>1. a = Ans("lib", file, libs)
    BY <1>4 DEF LookForFunc
  <2> QED
    BY <2>1 DEF Ans
<1>5. CASE file \in F
  <2>1. PICK all : all = IF Contains(libs, file) THEN libs ELSE Append(libs, file)
    OBVIOUS
  <2>2. LibsOK(all)
    <3>1. CASE ~Contains(libs, file)
      <4>1. all = Append(libs, file) /\ \A i \in 1..Len(libs) : libs[i] # file
        BY <1>2, <2>1, <3>1
      <4>2. all \in Seq(F) /\ Len(all) = Len(libs) + 1
        BY <1>1, <1>5, <4>1
      <4>3. all[Len(libs) + 1] = file /\ \A i \in 1..Len(libs) : all[i] = libs[i]
        BY <1>1, <1>5, <4>1
      <4>4. \A i, j \in 1..Len(libs) : libs[i] = libs[j] => i = j
        BY <1>1 DEF LibsOK, IsInjective
      <4>5. DOMAIN all = 1..(Len(libs) + 1)
        BY <1>1, <4>2
      <4>6. IsInjective(all)
        BY <1>1, <4>1, <4>3, <4>4, <4>5 DEF IsInjective
      <4> QED
        BY <4>2, <4>6 DEF LibsOK
    <3> QED
      BY <2>1, <3>1
  <2>3. a = IF sym = "*" \/ sym \in world.libs[file].syms THEN Ans("ok", file, all) ELSE Ans("func", file, all)
    BY <1>5, <2>1 DEF LookForFunc
  <2> QED
    BY <1>5, <2>2, <2>3 DEF Ans
<1> QED
  BY <1>3, <1>4, <1>5

\* loadfunc finds one of the functions of the module.
LEMMA LoadFuncIs ==
  ASSUME NEW libs, LibsOK(libs), NEW file, NEW m \in Module,
         NEW a, a = LoadFunc(libs, file, m)
  PROVE  LibsOK(a.clibs) /\ (a.kind = "ok" => file \in DOMAIN world.libs /\ Exports(file, m))
<1> DEFINE names == OpenFuncs[m]
<1>1. /\ names \in Seq(STRING) /\ Len(names) \in {1, 2} /\ DOMAIN names = 1..Len(names)
      /\ "*" \notin Range(names)
  BY RequireAssumption
<1>2. \A i \in 1..Len(names) : names[i] \in Range(names)
  BY <1>1 DEF Range
<1> HIDE DEF names
<1>3. PICK first : first = LookForFunc(libs, file, names[1])
  OBVIOUS
<1>4. PICK second : second = LookForFunc(first.clibs, file, names[Len(names)])
  OBVIOUS
<1>5. a = first \/ a = second
  BY <1>3, <1>4 DEF LoadFunc, names
<1>6. LibsOK(first.clibs)
  BY <1>3, LookForFuncIs
<1>7. LibsOK(second.clibs)
  BY <1>4, <1>6, LookForFuncIs
<1>8. ASSUME NEW b, NEW l, LibsOK(l), NEW i \in 1..Len(names), b = LookForFunc(l, file, names[i]),
             b.kind = "ok"
      PROVE  file \in DOMAIN world.libs /\ Exports(file, m)
  <2>1. file \in DOMAIN world.libs /\ world.libs[file].loads
    BY <1>8, LookForFuncIs
  <2>2. names[i] = "*" \/ names[i] \in world.libs[file].syms
    BY <1>8, LookForFuncIs
  <2>3. names[i] \in Range(names) \cap world.libs[file].syms
    BY <1>1, <1>2, <2>2
  <2> QED
    BY <2>1, <2>3 DEF Exports, names
<1>9. 1 \in 1..Len(names) /\ Len(names) \in 1..Len(names)
  BY <1>1
<1> QED
  BY <1>3, <1>4, <1>5, <1>6, <1>7, <1>8, <1>9

\* What the world has on its paths.
Preloaded(m) == world.preload[m] = "function"
LuaFile(m, f) == FirstFile(world.path, m, DOMAIN world.lua, f)
CFile(name, f) == FirstFile(world.cpath, name, DOMAIN world.libs, f)
GoodFrom(m, f) == f \in From /\ ComesFrom(m, f)

\* searcher_Lua gives a loader for the first file of package.path, if it is good.
LEMMA SearcherLuaIs ==
  ASSUME world.path \in Seq(STRING), NEW libs, NEW m \in Module, NEW a, a = SearcherLua(libs, m)
  PROVE  /\ a.clibs = libs
         /\ a.kind = "loader" => LuaFile(m, a.from) /\ world.lua[a.from] = "good" /\ world.path # BadPath
         /\ a.kind = "pass" => NoFile(world.path, m, DOMAIN world.lua) /\ world.path # BadPath
<1>1. PICK file : file = SearchPath(world.path, m, DOMAIN world.lua)
  OBVIOUS
<1>2. \/ file = <<>> /\ NoFile(world.path, m, DOMAIN world.lua)
      \/ file # <<>> /\ LuaFile(m, file)
  BY <1>1, SearchPathIs DEF LuaFile
<1>3. a = IF world.path = BadPath THEN Ans("error", <<>>, libs)
          ELSE IF file = <<>> THEN Ans("pass", <<>>, libs)
          ELSE Ans(IF world.lua[file] = "good" THEN "loader" ELSE "error", file, libs)
  BY <1>1 DEF SearcherLua
<1> QED
  BY <1>2, <1>3 DEF Ans

\* searcher_C does so for the first library of package.cpath, if it exports a function of the module.
LEMMA SearcherCIs ==
  ASSUME world.cpath \in Seq(STRING), NEW libs, LibsOK(libs), NEW m \in Module,
         NEW a, a = SearcherC(libs, m)
  PROVE  /\ LibsOK(a.clibs)
         /\ a.kind = "loader" => CFile(m, a.from) /\ Exports(a.from, m) /\ world.cpath # BadPath
         /\ a.kind = "pass" => NoFile(world.cpath, m, DOMAIN world.libs) /\ world.cpath # BadPath
<1>1. PICK file : file = SearchPath(world.cpath, m, DOMAIN world.libs)
  OBVIOUS
<1>2. \/ file = <<>> /\ NoFile(world.cpath, m, DOMAIN world.libs)
      \/ file # <<>> /\ CFile(m, file)
  BY <1>1, SearchPathIs DEF CFile
<1>3. PICK found : found = LoadFunc(libs, file, m)
  OBVIOUS
<1>4. LibsOK(found.clibs) /\ (found.kind = "ok" => Exports(file, m))
  BY <1>3, LoadFuncIs
<1>5. a = IF world.cpath = BadPath THEN Ans("error", <<>>, libs)
          ELSE IF file = <<>> THEN Ans("pass", <<>>, libs)
          ELSE Ans(IF found.kind = "ok" THEN "loader" ELSE "error", file, found.clibs)
  BY <1>1, <1>3 DEF SearcherC
<1> QED
  BY <1>2, <1>4, <1>5 DEF Ans

\* searcher_Croot does so for the library of the root.
LEMMA SearcherCrootIs ==
  ASSUME world.cpath \in Seq(STRING), NEW libs, LibsOK(libs), NEW m \in Module,
         NEW a, a = SearcherCroot(libs, m)
  PROVE  /\ LibsOK(a.clibs)
         /\ a.kind = "loader" => /\ Root[m] # NoRoot /\ CFile(Root[m], a.from)
                                 /\ Exports(a.from, m) /\ world.cpath # BadPath
<1>1. PICK file : file = SearchPath(world.cpath, Root[m], DOMAIN world.libs)
  OBVIOUS
<1>2. \/ file = <<>> /\ NoFile(world.cpath, Root[m], DOMAIN world.libs)
      \/ file # <<>> /\ CFile(Root[m], file)
  BY <1>1, SearchPathIs DEF CFile
<1>3. PICK found : found = LoadFunc(libs, file, m)
  OBVIOUS
<1>4. LibsOK(found.clibs) /\ (found.kind = "ok" => Exports(file, m))
  BY <1>3, LoadFuncIs
<1>5. a = IF Root[m] = NoRoot THEN Ans("pass", <<>>, libs)
          ELSE IF world.cpath = BadPath THEN Ans("error", <<>>, libs)
          ELSE IF file = <<>> THEN Ans("pass", <<>>, libs)
          ELSE Ans(CASE found.kind = "ok" -> "loader" [] found.kind = "func" -> "pass" [] OTHER -> "error",
                   file, found.clibs)
  BY <1>1, <1>3 DEF SearcherCroot
<1>6. a.kind = "loader" => found.kind = "ok"
  <2>1. CASE found.kind = "ok"
    BY <2>1
  <2>2. CASE found.kind = "func"
    BY <1>5, <2>2 DEF Ans
  <2>3. CASE found.kind # "ok" /\ found.kind # "func"
    BY <1>5, <2>3 DEF Ans
  <2> QED
    BY <2>1, <2>2, <2>3
<1>7. a.clibs = libs \/ a.clibs = found.clibs
  BY <1>5 DEF Ans
<1>8. a.kind = "loader" => Root[m] # NoRoot /\ world.cpath # BadPath /\ file # <<>> /\ a.from = file
  BY <1>5 DEF Ans
<1> QED
  BY <1>2, <1>4, <1>6, <1>7, <1>8

-----------------------------------------------------------------------------
(***************************************************************************)
(* The places where a module may be, as the manual lists them.             *)
(***************************************************************************)
\* Two sequences one after the other.
Joined(s, r, e) ==
    /\ Len(e) = Len(s) + Len(r)
    /\ \A i \in 1..Len(s) : e[i] = s[i]
    /\ \A i \in 1..Len(r) : e[Len(s) + i] = r[i]
\* Where the elements of s \o r are.
LEMMA JoinIs ==
  ASSUME NEW S, NEW s \in Seq(S), NEW r \in Seq(S)
  PROVE  s \o r \in Seq(S) /\ Joined(s, r, s \o r)
<1>1. s \o r \in Seq(S) /\ Len(s \o r) = Len(s) + Len(r) /\ Len(r) \in Nat /\ Len(s) \in Nat
  OBVIOUS
<1>2. ASSUME NEW i \in 1..Len(s) PROVE (s \o r)[i] = s[i]
  OBVIOUS
<1>3. ASSUME NEW i \in 1..Len(r) PROVE (s \o r)[Len(s) + i] = r[i]
  OBVIOUS
<1> QED
  BY <1>1, <1>2, <1>3 DEF Joined

\* Places is package.preload, the path, the path of libraries.
LEMMA PlacesAre ==
  ASSUME world.path \in Seq(STRING), world.cpath \in Seq(STRING), NEW m \in Module,
         NEW n \in Nat, n = Len(world.path), NEW c \in Nat, c = Len(world.cpath)
  PROVE  /\ Len(Places(m)) = 1 + n + c
         /\ Places(m)[1] = Place(<<":preload:">>, Preloaded(m), TRUE)
         /\ world.path # BadPath =>
                \A i \in 1..n : Places(m)[1 + i] = LuaPlace(<<world.path[i], m>>)
         /\ world.cpath # BadPath =>
                \A i \in 1..c : Places(m)[1 + n + i] = CPlace(<<world.cpath[i], m>>, m)
<1>1. PICK a : a = <<Place(<<":preload:">>, Preloaded(m), TRUE)>>
  OBVIOUS
<1>2. PICK b : b = [i \in DOMAIN world.path |->
                       IF world.path = BadPath THEN NoPlace ELSE LuaPlace(<<world.path[i], m>>)]
  OBVIOUS
<1>3. PICK d : d = [i \in DOMAIN world.cpath |->
                       IF world.cpath = BadPath THEN NoPlace ELSE CPlace(<<world.cpath[i], m>>, m)]
  OBVIOUS
<1>4. PICK S : S = {a[1]} \cup {b[i] : i \in 1..n} \cup {d[i] : i \in 1..c}
  OBVIOUS
<1>5. a \in Seq(S) /\ Len(a) = 1
  BY <1>1, <1>4
<1>6. b \in Seq(S) /\ Len(b) = n
  <2>1. DOMAIN world.path = 1..n
    OBVIOUS
  <2>2. b \in [1..n -> S]
    BY <1>2, <1>4, <2>1
  <2> QED
    BY <2>2
<1>7. d \in Seq(S) /\ Len(d) = c
  <2>1. DOMAIN world.cpath = 1..c
    OBVIOUS
  <2>2. d \in [1..c -> S]
    BY <1>3, <1>4, <2>1
  <2> QED
    BY <2>2
<1>8. a \o b \in Seq(S) /\ Joined(a, b, a \o b)
  BY <1>5, <1>6, JoinIs
<1>9. PICK e \in Seq(S) : e = a \o b /\ Joined(a, b, e)
  BY <1>8
<1>10. e \o d \in Seq(S) /\ Joined(e, d, e \o d)
  BY <1>7, JoinIs
<1>11. PICK p \in Seq(S) : p = e \o d /\ Joined(e, d, p)
  BY <1>10
<1>12. Len(e) = 1 + n /\ (\A i \in 1..1 : e[i] = a[i]) /\ \A i \in 1..n : e[1 + i] = b[i]
  BY <1>5, <1>6, <1>9 DEF Joined
<1>13. Len(p) = 1 + n + c
  BY <1>7, <1>11, <1>12 DEF Joined
<1>14. \A i \in 1..(1 + n) : p[i] = e[i]
  BY <1>7, <1>11, <1>12 DEF Joined
<1>15. \A i \in 1..c : p[(1 + n) + i] = d[i]
  BY <1>7, <1>11, <1>12 DEF Joined
<1>16. p = Places(m)
  BY <1>1, <1>2, <1>3, <1>9, <1>11 DEF Places, Preloaded
<1>17. p[1] = Place(<<":preload:">>, Preloaded(m), TRUE)
  <2>1. 1 \in 1..(1 + n) /\ 1 \in 1..1 /\ a[1] = Place(<<":preload:">>, Preloaded(m), TRUE)
    BY <1>1
  <2> QED
    BY <1>12, <1>14, <2>1
<1>18. ASSUME world.path # BadPath, NEW i \in 1..n
       PROVE  p[1 + i] = LuaPlace(<<world.path[i], m>>)
  <2>1. 1 + i \in 1..(1 + n) /\ i \in DOMAIN world.path
    OBVIOUS
  <2>2. p[1 + i] = b[i]
    BY <1>12, <1>14, <2>1
  <2> QED
    BY <1>2, <1>18, <2>1, <2>2
<1>19. ASSUME world.cpath # BadPath, NEW i \in 1..c
       PROVE  p[1 + n + i] = CPlace(<<world.cpath[i], m>>, m)
  <2>1. i \in DOMAIN world.cpath
    OBVIOUS
  <2>2. p[1 + n + i] = d[i]
    BY <1>15
  <2> QED
    BY <1>3, <1>19, <2>1, <2>2
<1> QED
  BY <1>13, <1>16, <1>17, <1>18, <1>19

\* The first one.
LEMMA FirstPlaceIs ==
  ASSUME NEW m, NEW n \in Nat, Len(Places(m)) = n
  PROVE  /\ \A k \in 1..n : /\ Places(m)[k].state # "absent"
                            /\ \A j \in 1..n : j < k => Places(m)[j].state = "absent"
                            => FirstPlace(m) = k
         /\ (\A k \in 1..n : Places(m)[k].state = "absent") => FirstPlace(m) = 0
<1> DEFINE I == {i \in 1..n : Places(m)[i].state # "absent"}
<1>1. FirstPlace(m) = IF I # {} THEN CHOOSE x \in I : \A y \in I : x <= y ELSE 0
  BY DEF FirstPlace, SelectInSeq, Min
<1>2. ASSUME NEW k \in 1..n, Places(m)[k].state # "absent",
             \A j \in 1..n : j < k => Places(m)[j].state = "absent"
      PROVE  FirstPlace(m) = k
  <2>1. k \in I /\ I # {} /\ \A y \in I : k <= y
    BY <1>2
  <2>2. \A x \in I : (\A y \in I : x <= y) => x = k
    BY <2>1
  <2> HIDE DEF I
  <2> QED
    BY <1>1, <2>1, <2>2
<1>3. (\A k \in 1..n : Places(m)[k].state = "absent") => I = {}
  OBVIOUS
<1> QED
  BY <1>1, <1>2, <1>3

\* The state of a place on the path, and of one on the path of libraries.
LuaPlaceOK(q, f) ==
    /\ q.state = "absent" <=> f \notin DOMAIN world.lua
    /\ f \in DOMAIN world.lua /\ world.lua[f] = "good" => q = [from |-> f, state |-> "good"]
CPlaceOK(q, m, f) ==
    /\ q.state = "absent" <=> f \notin DOMAIN world.libs
    /\ f \in DOMAIN world.libs /\ Exports(f, m) => q = [from |-> f, state |-> "good"]
\* Which states they have.
LEMMA StatesAre ==
  ASSUME world.path \in Seq(STRING), world.cpath \in Seq(STRING), NEW m \in Module,
         NEW n \in Nat, n = Len(world.path), NEW c \in Nat, c = Len(world.cpath),
         NEW p, p = Places(m)
  PROVE  /\ p[1].state = "absent" <=> ~Preloaded(m)
         /\ Preloaded(m) => p[1] = [from |-> <<":preload:">>, state |-> "good"]
         /\ world.path # BadPath => \A i \in 1..n : LuaPlaceOK(p[1 + i], <<world.path[i], m>>)
         /\ world.cpath # BadPath => \A i \in 1..c : CPlaceOK(p[1 + n + i], m, <<world.cpath[i], m>>)
<1>1. /\ p[1].state = "absent" <=> ~Preloaded(m)
      /\ Preloaded(m) => p[1] = [from |-> <<":preload:">>, state |-> "good"]
  <2>1. PICK q : q = p[1]
    OBVIOUS
  <2>2. q = Place(<<":preload:">>, Preloaded(m), TRUE)
    BY <2>1, PlacesAre
  <2>3. CASE Preloaded(m)
    BY <2>1, <2>2, <2>3 DEF Place
  <2>4. CASE ~Preloaded(m)
    BY <2>1, <2>2, <2>4 DEF Place
  <2> QED
    BY <2>3, <2>4
<1>2. ASSUME world.path # BadPath, NEW i \in 1..n PROVE LuaPlaceOK(p[1 + i], <<world.path[i], m>>)
  <2>1. PICK f : f = <<world.path[i], m>>
    OBVIOUS
  <2>2. PICK q : q = p[1 + i]
    OBVIOUS
  <2>3. q = Place(f, f \in DOMAIN world.lua, world.lua[f] = "good")
    <3>1. p[1 + i] = LuaPlace(<<world.path[i], m>>)
      BY <1>2, PlacesAre
    <3> QED
      BY <2>1, <2>2, <3>1 DEF LuaPlace
  <2>4. CASE f \notin DOMAIN world.lua
    BY <2>1, <2>2, <2>3, <2>4 DEF Place, LuaPlaceOK
  <2>5. CASE f \in DOMAIN world.lua /\ world.lua[f] = "good"
    BY <2>1, <2>2, <2>3, <2>5 DEF Place, LuaPlaceOK
  <2>6. CASE f \in DOMAIN world.lua /\ world.lua[f] # "good"
    BY <2>1, <2>2, <2>3, <2>6 DEF Place, LuaPlaceOK
  <2> QED
    BY <2>4, <2>5, <2>6
<1>3. ASSUME world.cpath # BadPath, NEW i \in 1..c PROVE CPlaceOK(p[1 + n + i], m, <<world.cpath[i], m>>)
  <2>1. PICK f : f = <<world.cpath[i], m>>
    OBVIOUS
  <2>2. PICK q : q = p[1 + n + i]
    OBVIOUS
  <2>3. q = Place(f, f \in DOMAIN world.libs, Exports(f, m))
    <3>1. p[1 + n + i] = CPlace(<<world.cpath[i], m>>, m)
      BY <1>3, PlacesAre
    <3> QED
      BY <2>1, <2>2, <3>1 DEF CPlace
  <2>4. CASE f \notin DOMAIN world.libs
    BY <2>1, <2>2, <2>3, <2>4 DEF Place, CPlaceOK
  <2>5. CASE f \in DOMAIN world.libs /\ Exports(f, m)
    BY <2>1, <2>2, <2>3, <2>5 DEF Place, CPlaceOK
  <2>6. CASE f \in DOMAIN world.libs /\ ~Exports(f, m)
    BY <2>1, <2>2, <2>3, <2>6 DEF Place, CPlaceOK
  <2> QED
    BY <2>4, <2>5, <2>6
<1> QED
  BY <1>1, <1>2, <1>3

\* The first place, for what each searcher looks at.
LEMMA ComesFromIs ==
  ASSUME world.path \in Seq(STRING), world.cpath \in Seq(STRING), NEW m \in Module
  PROVE  /\ Preloaded(m) => ComesFrom(m, <<":preload:">>)
         /\ ~Preloaded(m) /\ world.path # BadPath => \A f :
                /\ LuaFile(m, f) /\ world.lua[f] = "good" => ComesFrom(m, f)
                /\ NoFile(world.path, m, DOMAIN world.lua) /\ world.cpath # BadPath =>
                       /\ CFile(m, f) /\ Exports(f, m) => ComesFrom(m, f)
                       /\ /\ NoFile(world.cpath, m, DOMAIN world.libs)
                          /\ Root[m] # NoRoot /\ CFile(Root[m], f) /\ Exports(f, m)
                          => ComesFrom(m, f)
<1>1. PICK n \in Nat : n = Len(world.path) /\ DOMAIN world.path = 1..n
  OBVIOUS
<1>2. PICK c \in Nat : c = Len(world.cpath) /\ DOMAIN world.cpath = 1..c
  OBVIOUS
<1>3. PICK p : p = Places(m)
  OBVIOUS
<1>4. Len(p) = 1 + n + c /\ 1 + n + c \in Nat
  <2>1. Len(Places(m)) = 1 + n + c
    BY <1>1, <1>2, PlacesAre, Zenon
  <2> QED
    BY <1>3, <2>1
<1>5. \A k \in 1..(1 + n + c) : (k = 1) \/ (k \in 1..(1 + n) /\ k - 1 \in 1..n) \/ (k - (1 + n) \in 1..c)
  OBVIOUS
<1>6. ASSUME NEW k \in 1..(1 + n + c), p[k].state # "absent",
             \A j \in 1..(1 + n + c) : j < k => p[j].state = "absent",
             NEW f, p[k] = [from |-> f, state |-> "good"]
      PROVE  ComesFrom(m, f)
  <2>1. FirstPlace(m) = k /\ k # 0
    BY SMTT(60), <1>3, <1>4, <1>6, FirstPlaceIs
  <2> QED
    BY <1>3, <1>6, <2>1 DEF ComesFrom
<1>7. /\ p[1].state = "absent" <=> ~Preloaded(m)
      /\ Preloaded(m) => p[1] = [from |-> <<":preload:">>, state |-> "good"]
  BY <1>1, <1>2, <1>3, StatesAre
<1>8. ASSUME world.path # BadPath, NEW i \in 1..n, NEW f, f = <<world.path[i], m>>
      PROVE  /\ p[1 + i].state = "absent" <=> f \notin DOMAIN world.lua
             /\ f \in DOMAIN world.lua /\ world.lua[f] = "good" => p[1 + i] = [from |-> f, state |-> "good"]
  <2>1. \A x \in 1..n : LuaPlaceOK(p[1 + x], <<world.path[x], m>>)
    BY <1>1, <1>2, <1>3, <1>8, StatesAre, Zenon
  <2> QED
    BY <1>8, <2>1 DEF LuaPlaceOK
<1>9. ASSUME world.cpath # BadPath, NEW i \in 1..c, NEW f, f = <<world.cpath[i], m>>
      PROVE  /\ p[1 + n + i].state = "absent" <=> f \notin DOMAIN world.libs
             /\ f \in DOMAIN world.libs /\ Exports(f, m) => p[1 + n + i] = [from |-> f, state |-> "good"]
  <2>1. \A x \in 1..c : CPlaceOK(p[1 + n + x], m, <<world.cpath[x], m>>)
    BY <1>1, <1>2, <1>3, <1>9, StatesAre, Zenon
  <2> QED
    BY <1>9, <2>1 DEF CPlaceOK
<1>10. ASSUME Preloaded(m) PROVE ComesFrom(m, <<":preload:">>)
  <2>1. p[1] = [from |-> <<":preload:">>, state |-> "good"] /\ p[1].state # "absent"
    BY <1>7, <1>10
  <2>2. 1 \in 1..(1 + n + c) /\ \A j \in 1..(1 + n + c) : ~(j < 1)
    OBVIOUS
  <2> QED
    BY <1>6, <2>1, <2>2
<1>11. ASSUME ~Preloaded(m), world.path # BadPath, NEW f, LuaFile(m, f), world.lua[f] = "good" PROVE ComesFrom(m, f)
  <2>1. PICK i \in 1..n : /\ f = <<world.path[i], m>> /\ f \in DOMAIN world.lua
                          /\ \A j \in 1..(i - 1) : <<world.path[j], m>> \notin DOMAIN world.lua
    BY <1>1, <1>11 DEF LuaFile, FirstFile
  <2>2. p[1 + i] = [from |-> f, state |-> "good"] /\ p[1 + i].state # "absent"
    BY <1>8, <1>11, <2>1
  <2>3. ASSUME NEW j \in 1..(1 + n + c), j < 1 + i PROVE p[j].state = "absent"
    <3>1. CASE j = 1
      BY <1>7, <1>11, <3>1
    <3>2. CASE j # 1
      <4>1. PICK x \in 1..n : x = j - 1 /\ j = 1 + x /\ x \in 1..(i - 1)
        BY <2>3, <3>2
      <4>2. <<world.path[x], m>> \notin DOMAIN world.lua
        BY <2>1, <4>1
      <4> QED
        BY <1>8, <1>11, <4>1, <4>2
    <3> QED
      BY <3>1, <3>2
  <2>4. 1 + i \in 1..(1 + n + c)
    OBVIOUS
  <2> QED
    BY <1>6, <2>2, <2>3, <2>4
<1>12. ASSUME ~Preloaded(m), world.path # BadPath, NoFile(world.path, m, DOMAIN world.lua), NEW j \in 1..(1 + n)
       PROVE  p[j].state = "absent"
  <2>1. CASE j = 1
    BY <1>7, <1>12, <2>1
  <2>2. CASE j # 1
    <3>1. PICK x \in 1..n : j = 1 + x
      <4>1. j - 1 \in 1..n /\ j = 1 + (j - 1)
        BY <2>2
      <4> QED
        BY <4>1
    <3>2. <<world.path[x], m>> \notin DOMAIN world.lua
      BY <1>1, <1>12 DEF NoFile
    <3> QED
      BY <1>8, <1>12, <3>1, <3>2
  <2> QED
    BY <2>1, <2>2
<1>13. ASSUME ~Preloaded(m), world.path # BadPath, world.cpath # BadPath, NEW f,
              NoFile(world.path, m, DOMAIN world.lua), CFile(m, f), Exports(f, m)
       PROVE  ComesFrom(m, f)
  <2>1. PICK i \in 1..c : /\ f = <<world.cpath[i], m>> /\ f \in DOMAIN world.libs
                          /\ \A j \in 1..(i - 1) : <<world.cpath[j], m>> \notin DOMAIN world.libs
    BY <1>2, <1>13 DEF CFile, FirstFile
  <2>2. p[1 + n + i] = [from |-> f, state |-> "good"] /\ p[1 + n + i].state # "absent"
    BY <1>9, <1>13, <2>1
  <2>3. ASSUME NEW j \in 1..(1 + n + c), j < 1 + n + i PROVE p[j].state = "absent"
    <3>1. CASE j \in 1..(1 + n)
      BY <1>12, <1>13, <3>1
    <3>2. CASE j \notin 1..(1 + n)
      <4>1. PICK x \in 1..c : j = 1 + n + x /\ x \in 1..(i - 1)
        <5>1. j - (1 + n) \in 1..c /\ j = 1 + n + (j - (1 + n)) /\ j - (1 + n) \in 1..(i - 1)
          BY <2>3, <3>2
        <5> QED
          BY <5>1
      <4>2. <<world.cpath[x], m>> \notin DOMAIN world.libs
        BY <2>1, <4>1
      <4> QED
        BY <1>9, <1>13, <4>1, <4>2
    <3> QED
      BY <3>1, <3>2
  <2>4. 1 + n + i \in 1..(1 + n + c)
    OBVIOUS
  <2> QED
    BY <1>6, <2>2, <2>3, <2>4
<1>14. ASSUME ~Preloaded(m), world.path # BadPath, world.cpath # BadPath, NEW f, NoFile(world.path, m, DOMAIN world.lua),
              NoFile(world.cpath, m, DOMAIN world.libs),
              Root[m] # NoRoot, CFile(Root[m], f), Exports(f, m)
       PROVE  ComesFrom(m, f)
  <2>1. PICK i \in 1..c : /\ f = <<world.cpath[i], Root[m]>> /\ f \in DOMAIN world.libs
                          /\ \A j \in 1..(i - 1) : <<world.cpath[j], Root[m]>> \notin DOMAIN world.libs
    BY <1>2, <1>14 DEF CFile, FirstFile
  <2>2. InRoot(m, f)
    BY <1>2, <1>14, <2>1 DEF InRoot
  <2>3. ASSUME NEW j \in 1..(1 + n + c) PROVE p[j].state = "absent"
    <3>1. CASE j \in 1..(1 + n)
      BY <1>12, <1>14, <3>1
    <3>2. CASE j \notin 1..(1 + n)
      <4>1. PICK x \in 1..c : j = 1 + n + x
        <5>1. j - (1 + n) \in 1..c /\ j = 1 + n + (j - (1 + n))
          BY <3>2
        <5> QED
          BY <5>1
      <4>2. <<world.cpath[x], m>> \notin DOMAIN world.libs
        BY <1>2, <1>14 DEF NoFile
      <4> QED
        BY <1>9, <1>14, <4>1, <4>2
    <3> QED
      BY <3>1, <3>2
  <2>4. FirstPlace(m) = 0
    BY <1>3, <1>4, <2>3, FirstPlaceIs
  <2> QED
    BY <2>2, <2>4 DEF ComesFrom
<1> QED
  BY <1>10, <1>11, <1>13, <1>14

\* A file that is found on a path.
LEMMA FileIs ==
  ASSUME NEW path \in Seq(STRING), NEW name, NEW there, NEW f, FirstFile(path, name, there, f)
  PROVE  \E d \in STRING : f = <<d, name>>
<1>1. PICK i \in 1..Len(path) : f = <<path[i], name>>
  BY DEF FirstFile
<1>2. path[i] \in STRING
  OBVIOUS
<1> QED
  BY <1>1, <1>2

\* findloader: the first place that has the module, or no loader.
LEMMA FindLoaderIs ==
  ASSUME world \in Worlds, LibsOK(clibs), NEW m \in Module, NEW a, a = FindLoader(m)
  PROVE  /\ LibsOK(a.clibs)
         /\ a.kind = "loader" => a.from \in From /\ ComesFrom(m, a.from)
<1>1. world.path \in Seq(STRING) /\ world.cpath \in Seq(STRING)
  BY RequireAssumption
<1>2. ASSUME NEW f, LuaFile(m, f) \/ CFile(m, f) \/ CFile(Root[m], f) PROVE f \in From
  <2>1. \/ \E d \in STRING : f = <<d, m>>
        \/ \E d \in STRING : f = <<d, Root[m]>>
    BY <1>1, <1>2, FileIs DEF LuaFile, CFile
  <2> QED
    BY <2>1 DEF From
<1>3. \A x : /\ Ask("preload", x, m) = SearcherPreload(x, m)
             /\ Ask("Lua", x, m) = SearcherLua(x, m)
             /\ Ask("C", x, m) = SearcherC(x, m)
             /\ Ask("Croot", x, m) = SearcherCroot(x, m)
  BY DEF Ask
<1>4. \A f : LuaFile(m, f) \/ CFile(m, f) \/ CFile(Root[m], f) => f \in From
  BY <1>2
<1>5. PICK b : b = SearcherPreload(clibs, m)
  OBVIOUS
<1>6. /\ b.clibs = clibs
      /\ b.kind = "loader" => b.from = <<":preload:">> /\ Preloaded(m)
      /\ b.kind = "pass" => ~Preloaded(m)
      /\ b.kind \in {"loader", "pass"}
  BY <1>5 DEF SearcherPreload, Ans, Preloaded
<1>7. PICK l : l = SearcherLua(clibs, m)
  OBVIOUS
<1>8. /\ l.clibs = clibs
      /\ l.kind = "loader" => LuaFile(m, l.from) /\ world.lua[l.from] = "good" /\ world.path # BadPath
      /\ l.kind = "pass" => NoFile(world.path, m, DOMAIN world.lua) /\ world.path # BadPath
  BY <1>1, <1>7, SearcherLuaIs
<1>9. PICK d : d = SearcherC(clibs, m)
  OBVIOUS
<1>10. /\ LibsOK(d.clibs)
       /\ d.kind = "loader" => CFile(m, d.from) /\ Exports(d.from, m) /\ world.cpath # BadPath
       /\ d.kind = "pass" => NoFile(world.cpath, m, DOMAIN world.libs) /\ world.cpath # BadPath
  BY <1>1, <1>9, SearcherCIs
<1>11. PICK r : r = SearcherCroot(d.clibs, m)
  OBVIOUS
<1>12. /\ LibsOK(r.clibs)
       /\ r.kind = "loader" => Root[m] # NoRoot /\ CFile(Root[m], r.from) /\ Exports(r.from, m)
  BY <1>1, <1>10, <1>11, SearcherCrootIs
<1>13. PICK e : e = IF b.kind # "pass" THEN b ELSE IF l.kind # "pass" THEN l
                    ELSE IF d.kind # "pass" THEN d ELSE r
  OBVIOUS
<1>14. a = IF e.kind = "pass" THEN [e EXCEPT !.kind = "error"] ELSE e
  <2> DEFINE next(x, searcher) == IF x.kind = "pass" THEN Ask(searcher, x.clibs, m) ELSE x
  <2>1. PICK x : x = next(next(next(next(Ans("pass", <<>>, clibs), "preload"), "Lua"), "C"), "Croot")
    OBVIOUS
  <2>2. a = IF x.kind = "pass" THEN [x EXCEPT !.kind = "error"] ELSE x
    BY <2>1 DEF FindLoader
  <2>3. next(Ans("pass", <<>>, clibs), "preload") = b
    BY <1>3, <1>5 DEF Ans
  <2>4. next(b, "Lua") = IF b.kind # "pass" THEN b ELSE l
    BY <1>3, <1>6, <1>7
  <2>5. next(l, "C") = IF l.kind # "pass" THEN l ELSE d
    BY <1>3, <1>8, <1>9
  <2>6. next(d, "Croot") = IF d.kind # "pass" THEN d ELSE r
    BY <1>3, <1>11
  <2>7. \A y, z : y.kind # "pass" => next(y, z) = y
    OBVIOUS
  <2> HIDE DEF next
  <2>8. x = e
    BY <1>13, <2>1, <2>3, <2>4, <2>5, <2>6, <2>7
  <2> QED
    BY <2>2, <2>8
<1>15. LibsOK(e.clibs)
  BY <1>6, <1>8, <1>10, <1>12, <1>13
<1>16. a.clibs = e.clibs /\ (a.kind = "loader" => e.kind = "loader" /\ a.from = e.from)
  BY <1>14
<1>17. e.kind = "loader" => e.from \in From /\ ComesFrom(m, e.from)
  <2>1. CASE b.kind # "pass"
    <3>1. e = b /\ <<":preload:">> \in From
      BY <1>13, <2>1 DEF From
    <3> QED
      BY <1>1, <1>6, <3>1, ComesFromIs
  <2>2. CASE b.kind = "pass" /\ l.kind # "pass"
    BY <1>1, <1>4, <1>6, <1>8, <1>13, <2>2, ComesFromIs
  <2>3. CASE b.kind = "pass" /\ l.kind = "pass" /\ d.kind # "pass"
    BY <1>1, <1>4, <1>6, <1>8, <1>10, <1>13, <2>3, ComesFromIs
  <2>4. CASE b.kind = "pass" /\ l.kind = "pass" /\ d.kind = "pass"
    BY <1>1, <1>4, <1>6, <1>8, <1>10, <1>12, <1>13, <2>4, ComesFromIs
  <2> QED
    BY <2>1, <2>2, <2>3, <2>4
<1> QED
  BY <1>15, <1>16, <1>17

-----------------------------------------------------------------------------
(***************************************************************************)
(* Steps.                                                                  *)
(***************************************************************************)
\* What is true of a world stays true of it.
LEMMA SameWorld ==
  ASSUME world' = world
  PROVE  /\ \A m, f : ComesFrom(m, f)' <=> ComesFrom(m, f)
         /\ LibsOK(clibs)' <=> LibsOK(clibs')
<1>1. \A m, f : ComesFrom(m, f)' <=> ComesFrom(m, f)
  BY DEF ComesFrom, FirstPlace, Places, InRoot, Exports, SelectInSeq, Min, Place, NoPlace, LuaPlace, CPlace
<1>2. LibsOK(clibs)' <=> LibsOK(clibs')
  BY DEF LibsOK
<1> QED
  BY <1>1, <1>2

\* A sequence up to an index.
LEMMA CutIs ==
  ASSUME NEW S, NEW s \in Seq(S), NEW n \in 0..Len(s), NEW r, r = SubSeq(s, 1, n)
  PROVE  r \in Seq(S) /\ Len(r) = n /\ DOMAIN r = 1..n /\ \A i \in 1..n : i \in DOMAIN s /\ r[i] = s[i]
<1>1. r \in Seq(S) /\ Len(r) = n
  OBVIOUS
<1>2. DOMAIN r = 1..n
  BY <1>1
<1>3. \A i \in 1..n : i \in DOMAIN s /\ r[i] = s[i]
  OBVIOUS
<1> QED
  BY <1>1, <1>2, <1>3

\* What an error leaves.
LEMMA UnwoundIs ==
  ASSUME frames \in Seq(Frame)
  PROVE  \E n \in 0..Len(frames) : Unwound = SubSeq(frames, 1, n)
<1> DEFINE under == {i \in DOMAIN frames : frames[i].protected}
<1>1. Len(frames) \in Nat /\ DOMAIN frames = 1..Len(frames)
  OBVIOUS
<1>2. CASE under = {}
  <2>1. Unwound = <<>> /\ <<>> = SubSeq(frames, 1, 0) /\ 0 \in 0..Len(frames)
    BY <1>1, <1>2 DEF Unwound
  <2> QED
    BY <2>1
<1>3. CASE under # {}
  <2>1. PICK k : k = CHOOSE i \in under : \A j \in under : j <= i
    OBVIOUS
  <2>2. Unwound = SubSeq(frames, 1, k - 1)
    BY <1>3, <2>1 DEF Unwound
  <2>3. under \subseteq 1..Len(frames)
    BY <1>1
  <2>4. k \in under
    <3> HIDE DEF under
    <3>1. \E i \in under : \A j \in under : j <= i
      BY <1>1, <1>3, <2>3, GreatestIs
    <3> QED
      BY <2>1, <3>1
  <2>5. k \in 1..Len(frames)
    BY <2>3, <2>4
  <2>6. k - 1 \in 0..Len(frames)
    BY <1>1, <2>5
  <2> QED
    BY <2>2, <2>6
<1> QED
  BY <1>2, <1>3

\* A module whose entry and history stay, and of which no loader starts.
LEMMA AgreeSame ==
  ASSUME NEW m, AgreeOK(m), past'.of[m] = past.of[m], loaded'[m] = loaded[m],
         \A i \in Running(m)' : i \in Running(m) /\ frames'[i] = frames[i]
  PROVE  AgreeOK(m)'
<1>1. Running(m)' # {} => Running(m) # {}
  OBVIOUS
<1> QED
  BY <1>1 DEF AgreeOK

\* What is remembered of one module changes.
LEMMA SeeIs ==
  ASSUME TypeOK, NEW m \in Module, NEW h \in Seen, See(m, h)
  PROVE  /\ past' \in [runs : Nat, of : [Module -> Seen]] /\ past'.runs = past.runs
         /\ past'.of[m] = h /\ \A x \in Module : x # m => past'.of[x] = past.of[x]
<1>1. past.runs \in Nat /\ past.of \in [Module -> Seen] /\ past \in [runs : Nat, of : [Module -> Seen]]
  BY DEF TypeOK
<1>2. past' = [past EXCEPT !.of = [past.of EXCEPT ![m] = h]]
  BY <1>1 DEF See
<1>3. PICK o : o = [past.of EXCEPT ![m] = h]
  OBVIOUS
<1>4. o \in [Module -> Seen] /\ o[m] = h /\ \A x \in Module : x # m => o[x] = past.of[x]
  BY <1>1, <1>3
<1>5. past' = [past EXCEPT !.of = o]
  BY <1>2, <1>3
<1>6. past'.runs = past.runs /\ past'.of = o
  BY <1>1, <1>5
<1>7. past' \in [runs : Nat, of : [Module -> Seen]]
  BY <1>1, <1>4, <1>5
<1> QED
  BY <1>4, <1>6, <1>7

\* Loaders end.
LEMMA CutFrames ==
  ASSUME TypeOK, FramesOK, world' = world, past'.runs = past.runs,
         NEW n \in 0..Len(frames), frames' = SubSeq(frames, 1, n)
  PROVE  /\ frames' \in Seq(Frame) /\ FramesOK' /\ DOMAIN frames' = 1..n
         /\ \A i \in 1..n : i \in DOMAIN frames /\ frames'[i] = frames[i]
         /\ \A m : \A i \in Running(m)' : i \in Running(m) /\ frames'[i] = frames[i]
<1>1. frames \in Seq(Frame)
  BY DEF TypeOK
<1>2. /\ frames' \in Seq(Frame) /\ DOMAIN frames' = 1..n
      /\ \A i \in 1..n : i \in DOMAIN frames /\ frames'[i] = frames[i]
  BY <1>1, CutIs
<1>3. FramesOK'
  <2>1. \A m, f : ComesFrom(m, f)' <=> ComesFrom(m, f)
    BY SameWorld
  <2> QED
    BY <1>2, <2>1 DEF FramesOK
<1>4. \A m : \A i \in Running(m)' : i \in Running(m) /\ frames'[i] = frames[i]
  BY <1>2 DEF Running
<1> QED
  BY <1>2, <1>3, <1>4

\* An error, or a search that only loads libraries.
LEMMA CutKeeps ==
  ASSUME RequireInv, world' = world, loaded' = loaded, past' = past, LibsOK(clibs'),
         NEW n \in 0..Len(frames), frames' = SubSeq(frames, 1, n)
  PROVE  RequireInv'
<1>1. TypeOK /\ FramesOK
  BY DEF RequireInv
<1>2. /\ frames' \in Seq(Frame) /\ FramesOK'
      /\ \A m : \A i \in Running(m)' : i \in Running(m) /\ frames'[i] = frames[i]
  BY <1>1, CutFrames
<1>3. TypeOK'
  BY <1>1, <1>2, SameWorld DEF TypeOK
<1>4. ASSUME NEW m \in Module PROVE AgreeOK(m)'
  BY <1>2, AgreeSame DEF RequireInv
<1> QED
  BY <1>2, <1>3, <1>4 DEF RequireInv

\* A module whose loader is about to run inside of nothing, or inside itself.
LEMMA LoaderStarts ==
  ASSUME RequireInv, NEW m \in Module, NEW file \in From, ComesFrom(m, file), NEW p \in BOOLEAN,
         ~Truthy(loaded[m]), world' = world, loaded' = loaded, LibsOK(clibs'),
         frames' = Append(frames, [m |-> m, protected |-> p, from |-> file, run |-> past.runs + 1]),
         past' = [past EXCEPT !.runs = @ + 1, !.of[m].twice = @ \/ Running(m) # {}]
  PROVE  RequireInv'
<1>1. TypeOK /\ FramesOK /\ \A x \in Module : AgreeOK(x)
  BY DEF RequireInv
<1>2. PICK fr : fr = [m |-> m, protected |-> p, from |-> file, run |-> past.runs + 1]
  OBVIOUS
<1>3. past.runs \in Nat /\ past.of \in [Module -> Seen] /\ past \in [runs : Nat, of : [Module -> Seen]]
  BY <1>1 DEF TypeOK
<1>4. fr \in Frame /\ fr.m = m /\ fr.run = past.runs + 1 /\ fr.from = file
  BY <1>2, <1>3 DEF Frame
<1>5. frames \in Seq(Frame) /\ Len(frames) \in Nat /\ DOMAIN frames = 1..Len(frames)
  BY <1>1 DEF TypeOK
<1>6. frames' = Append(frames, fr)
  BY <1>2
<1>7. /\ frames' \in Seq(Frame) /\ DOMAIN frames' = 1..(Len(frames) + 1)
      /\ frames'[Len(frames) + 1] = fr /\ \A i \in 1..Len(frames) : frames'[i] = frames[i]
  BY <1>4, <1>5, <1>6
<1>8. PICK t : t = (past.of[m].twice \/ Running(m) # {}) /\ t \in BOOLEAN
  <2>1. past.of[m].twice \in BOOLEAN
    BY <1>3 DEF Seen
  <2> QED
    BY <2>1
<1>9. past' = [past EXCEPT !.runs = past.runs + 1, !.of = [past.of EXCEPT ![m] = [past.of[m] EXCEPT !.twice = t]]]
  BY <1>3, <1>8
<1>10. past'.runs = past.runs + 1 /\ past'.of = [past.of EXCEPT ![m] = [past.of[m] EXCEPT !.twice = t]]
  BY <1>3, <1>9
<1>11. \A x \in Module : x # m => past'.of[x] = past.of[x]
  BY <1>3, <1>10
<1>12. past'.of[m] = [past.of[m] EXCEPT !.twice = t]
  BY <1>3, <1>10
<1>13. /\ past'.of[m].twice = t /\ past'.of[m].got = past.of[m].got /\ past'.of[m].false = past.of[m].false
       /\ past'.of[m].early = past.of[m].early /\ past'.of[m].replaced = past.of[m].replaced
       /\ past'.of[m] \in Seen
  BY ZenonT(60), <1>3, <1>8, <1>12 DEF Seen
<1>14. past' \in [runs : Nat, of : [Module -> Seen]]
  <2>1. past'.of \in [Module -> Seen]
    BY <1>3, <1>10, <1>12, <1>13
  <2>2. PICK o : o = past'.of
    OBVIOUS
  <2>3. past' = [past EXCEPT !.runs = past.runs + 1, !.of = o]
    BY <1>9, <1>10, <2>2
  <2>4. past.runs + 1 \in Nat /\ o \in [Module -> Seen]
    BY <1>3, <2>1, <2>2
  <2> QED
    BY <1>3, <2>3, <2>4
<1>15. TypeOK'
  BY <1>1, <1>7, <1>14, SameWorld DEF TypeOK
<1>16. FramesOK'
  <2>1. \A x, f : ComesFrom(x, f)' <=> ComesFrom(x, f)
    BY SameWorld
  <2>2. \A i \in 1..Len(frames) : frames[i].run \in 1..past.runs
    BY <1>1, <1>5 DEF FramesOK
  <2>3. \A i \in DOMAIN frames' : frames'[i].run \in 1..past'.runs
    BY <1>3, <1>4, <1>5, <1>7, <1>10, <2>2
  <2>4. ASSUME NEW i \in DOMAIN frames', NEW j \in DOMAIN frames', i < j
        PROVE  frames'[i].run < frames'[j].run
    <3>1. i \in 1..Len(frames)
      BY <1>5, <1>7, <2>4
    <3>2. CASE j \in 1..Len(frames)
      BY <1>1, <1>5, <1>7, <2>4, <3>1, <3>2 DEF FramesOK
    <3>3. CASE j = Len(frames) + 1
      BY <1>3, <1>4, <1>7, <2>2, <3>1, <3>3
    <3> QED
      BY <1>5, <1>7, <2>4, <3>2, <3>3
  <2>5. ASSUME NEW i \in DOMAIN frames' PROVE ComesFrom(frames'[i].m, frames'[i].from)
    <3>1. CASE i \in 1..Len(frames)
      BY <1>1, <1>5, <1>7, <3>1 DEF FramesOK
    <3>2. CASE i = Len(frames) + 1
      BY <1>4, <1>7, <3>2
    <3> QED
      BY <1>5, <1>7, <2>5, <3>1, <3>2
  <2>6. \A i \in DOMAIN frames' : ComesFrom(frames'[i].m, frames'[i].from)
    BY <2>5
  <2> HIDE DEF Frame
  <2> QED
    BY <2>1, <2>3, <2>4, <2>6 DEF FramesOK
<1>17. ASSUME NEW x \in Module, x # m PROVE AgreeOK(x)'
  <2>1. \A i \in Running(x)' : i \in Running(x) /\ frames'[i] = frames[i]
    BY <1>4, <1>5, <1>7, <1>17 DEF Running
  <2>2. past'.of[x] = past.of[x] /\ loaded'[x] = loaded[x] /\ AgreeOK(x)
    BY <1>1, <1>11, <1>17
  <2> QED
    BY <2>1, <2>2, AgreeSame
<1>18. AgreeOK(m)'
  <2>1. CASE t
    BY <1>1, <1>13, <2>1 DEF AgreeOK
  <2>2. CASE ~t
    <3>1. Running(m) = {} /\ ~past.of[m].twice
      BY <1>8, <2>2
    <3>2. Running(m)' = {Len(frames) + 1}
      BY <1>4, <1>5, <1>7, <3>1 DEF Running
    <3>3. /\ Nil \notin past.of[m].got /\ Nil \notin past.of[m].early
          /\ ~past.of[m].false => /\ past.of[m].got \subseteq {loaded[m]} /\ loaded[m] # False
                                  /\ ~past.of[m].replaced => past.of[m].early \subseteq {loaded[m]}
      BY <1>1, <3>1 DEF AgreeOK
    <3>4. loaded[m] # False => loaded[m] = Nil
      BY DEF Truthy
    <3>5. PICK seen \in Seen : seen = past.of[m]
      BY <1>3
    <3>6. seen.false \in BOOLEAN /\ seen.got \in SUBSET Int
      BY DEF Seen
    <3>7. ~seen.false => seen.got = {}
      <4>1. SUFFICES ASSUME ~seen.false PROVE seen.got = {}
        OBVIOUS
      <4>2. Nil \notin seen.got /\ seen.got \subseteq {loaded[m]} /\ loaded[m] # False
        BY <3>3, <3>5, <4>1
      <4>3. loaded[m] = Nil
        BY <3>4, <4>2
      <4> QED
        BY <4>2, <4>3
    <3>8. PICK new \in Seen : new = past'.of[m]
      BY <1>13
    <3>9. /\ new.twice = t /\ new.got = seen.got /\ new.false = seen.false
          /\ new.early = seen.early /\ new.replaced = seen.replaced
      BY <1>13, <3>5, <3>8
    <3>10. ~new.false => /\ new.got = {} /\ loaded'[m] # False
                         /\ ~new.replaced => new.early \subseteq {loaded'[m]}
      BY <3>3, <3>5, <3>7, <3>9
    <3>11. Nil \notin new.got \cup new.early
      BY <3>3, <3>5, <3>9
    <3>12. \A i, j \in Running(m)' : i = j
      BY <3>2
    <3> QED
      BY <3>8, <3>10, <3>11, <3>12 DEF AgreeOK
  <2> QED
    BY <2>1, <2>2
<1> QED
  BY <1>15, <1>16, <1>17, <1>18 DEF RequireInv

\* require of a module that is loaded returns its entry.
LEMMA RequireLoadedKeeps ==
  ASSUME RequireInv, NEW m \in Module, RequireLoaded(m)
  PROVE  RequireInv'
<1>1. TypeOK /\ FramesOK /\ \A x \in Module : AgreeOK(x)
  BY DEF RequireInv
<1>2. PICK seen \in Seen : seen = past.of[m]
  BY <1>1 DEF TypeOK
<1>3. loaded[m] \in Int /\ loaded[m] # Nil
  BY <1>1 DEF TypeOK, RequireLoaded, Truthy
<1>4. PICK h : h = IF Running(m) # {} THEN [seen EXCEPT !.early = seen.early \cup {loaded[m]}]
                                      ELSE [seen EXCEPT !.got = seen.got \cup {loaded[m]}]
  OBVIOUS
<1>5. See(m, h) /\ UNCHANGED <<world, loaded, clibs, frames>>
  BY <1>2, <1>4 DEF RequireLoaded, Seeing, SeeingEarly
<1>6. /\ h \in Seen /\ h.twice = seen.twice /\ h.false = seen.false /\ h.replaced = seen.replaced
      /\ Running(m) # {} => h.early = seen.early \cup {loaded[m]} /\ h.got = seen.got
      /\ Running(m) = {} => h.got = seen.got \cup {loaded[m]} /\ h.early = seen.early
  <2>1. CASE Running(m) # {}
    BY <1>2, <1>3, <1>4, <2>1 DEF Seen
  <2>2. CASE Running(m) = {}
    BY <1>2, <1>3, <1>4, <2>2 DEF Seen
  <2> QED
    BY <2>1, <2>2
<1>7. /\ past' \in [runs : Nat, of : [Module -> Seen]] /\ past'.runs = past.runs
      /\ past'.of[m] = h /\ \A x \in Module : x # m => past'.of[x] = past.of[x]
  BY <1>1, <1>5, <1>6, SeeIs
<1>8. TypeOK'
  BY <1>1, <1>5, <1>7, SameWorld DEF TypeOK
<1>9. FramesOK'
  <2>1. \A x, f : ComesFrom(x, f)' <=> ComesFrom(x, f)
    BY <1>5, SameWorld
  <2> QED
    BY <1>1, <1>5, <1>7, <2>1 DEF FramesOK
<1>10. Running(m)' = Running(m) /\ \A x \in Module : Running(x)' = Running(x)
  BY <1>5 DEF Running
<1>11. ASSUME NEW x \in Module, x # m PROVE AgreeOK(x)'
  <2>1. past'.of[x] = past.of[x] /\ loaded'[x] = loaded[x] /\ AgreeOK(x)
    BY <1>1, <1>5, <1>7, <1>11
  <2>2. \A i \in Running(x)' : i \in Running(x) /\ frames'[i] = frames[i]
    BY <1>5, <1>10
  <2> QED
    BY <2>1, <2>2, AgreeSame
<1>12. AgreeOK(m)'
  <2>1. AgreeOK(m) /\ loaded'[m] = loaded[m] /\ Running(m)' = Running(m)
    BY <1>1, <1>5, <1>10
  <2>2. CASE Running(m) # {}
    BY <1>2, <1>3, <1>6, <1>7, <2>1, <2>2 DEF AgreeOK
  <2>3. CASE Running(m) = {}
    BY <1>2, <1>3, <1>6, <1>7, <2>1, <2>3 DEF AgreeOK
  <2> QED
    BY <2>2, <2>3
<1> QED
  BY <1>8, <1>9, <1>11, <1>12 DEF RequireInv

\* An error before the loader runs may only have loaded libraries.
LEMMA RequireLoaderKeeps ==
  ASSUME RequireInv, NEW m \in Module, NEW p \in BOOLEAN, RequireLoader(m, p)
  PROVE  RequireInv'
<1>1. PICK a : a = FindLoader(m)
  OBVIOUS
<1>2. TypeOK
  BY DEF RequireInv
<1>3. LibsOK(a.clibs) /\ (a.kind = "loader" => a.from \in From /\ ComesFrom(m, a.from))
  BY <1>1, <1>2, FindLoaderIs DEF TypeOK
<1>4. /\ ~Truthy(loaded[m]) /\ clibs' = a.clibs /\ UNCHANGED <<world, loaded>>
      /\ IF a.kind = "loader" /\ Len(frames) < MaxDepth
         THEN /\ frames' = Append(frames, [m |-> m, protected |-> p, from |-> a.from, run |-> past.runs + 1])
              /\ past' = [past EXCEPT !.runs = @ + 1, !.of[m].twice = @ \/ Running(m) # {}]
         ELSE /\ frames' = IF p THEN frames ELSE Unwound
              /\ UNCHANGED past
  BY <1>1 DEF RequireLoader
<1>5. LibsOK(clibs')
  BY <1>3, <1>4
<1>6. CASE a.kind = "loader" /\ Len(frames) < MaxDepth
  BY <1>3, <1>4, <1>5, <1>6, LoaderStarts
<1>7. CASE ~(a.kind = "loader" /\ Len(frames) < MaxDepth)
  <2>1. past' = past /\ frames' = IF p THEN frames ELSE Unwound
    BY <1>4, <1>7
  <2>2. frames \in Seq(Frame) /\ Len(frames) \in Nat
    BY <1>2 DEF TypeOK
  <2>3. Len(frames) \in 0..Len(frames) /\ SubSeq(frames, 1, Len(frames)) = frames
    BY <2>2
  <2>4. PICK n \in 0..Len(frames) : Unwound = SubSeq(frames, 1, n)
    BY <2>2, UnwoundIs
  <2>5. PICK k \in 0..Len(frames) : frames' = SubSeq(frames, 1, k)
    BY <2>1, <2>3, <2>4
  <2> QED
    BY <1>4, <1>5, <2>1, <2>5, CutKeeps
<1> QED
  BY <1>6, <1>7

\* An error drops loaders, down to a require under pcall.
LEMMA LoaderRaisesKeeps ==
  ASSUME RequireInv, LoaderRaises
  PROVE  RequireInv'
<1>1. frames' = Unwound /\ UNCHANGED <<world, loaded, clibs, past>>
  BY DEF LoaderRaises
<1>2. frames \in Seq(Frame) /\ LibsOK(clibs)
  BY DEF RequireInv, TypeOK
<1>3. PICK n \in 0..Len(frames) : Unwound = SubSeq(frames, 1, n)
  BY <1>2, UnwoundIs
<1> QED
  BY <1>1, <1>2, <1>3, CutKeeps

\* package.loadlib only adds to CLIBS.
LEMMA LoadLibKeeps ==
  ASSUME RequireInv, NEW file, NEW sym, LoadLib(file, sym)
  PROVE  RequireInv'
<1>1. clibs' = LookForFunc(clibs, file, sym).clibs /\ UNCHANGED <<world, loaded, frames, past>>
  BY DEF LoadLib
<1>2. frames \in Seq(Frame) /\ Len(frames) \in Nat /\ LibsOK(clibs)
  BY DEF RequireInv, TypeOK
<1>3. LibsOK(clibs')
  BY <1>1, <1>2, LookForFuncIs
<1>4. Len(frames) \in 0..Len(frames) /\ frames' = SubSeq(frames, 1, Len(frames))
  BY <1>1, <1>2
<1> QED
  BY <1>1, <1>3, <1>4, CutKeeps

\* The innermost loader.
LEMMA LastIs ==
  ASSUME TypeOK, frames # <<>>
  PROVE  \E k \in DOMAIN frames :
             /\ k = Len(frames) /\ Last(frames) = frames[k] /\ frames[k].m \in Module
             /\ k \in Running(frames[k].m) /\ k - 1 \in 0..Len(frames)
<1>1. frames \in Seq(Frame) /\ Len(frames) \in Nat /\ DOMAIN frames = 1..Len(frames)
  BY DEF TypeOK
<1>2. PICK k \in Nat : k = Len(frames)
  BY <1>1
<1>3. k # 0
  BY <1>1, <1>2
<1>4. k \in 1..Len(frames) /\ k - 1 \in 0..Len(frames)
  BY <1>2, <1>3
<1>5. frames[k] \in Frame
  BY <1>1, <1>4
<1>6. frames[k].m \in Module
  BY <1>5 DEF Frame
<1> QED
  BY <1>1, <1>2, <1>4, <1>6 DEF Last, Running

\* What is remembered when the entry becomes v.
LEMMA EnteringIs ==
  ASSUME TypeOK, NEW m \in Module, NEW v \in Int, NEW h, h = Entering(past.of[m], m, v)
  PROVE  /\ h \in Seen /\ h.got = past.of[m].got /\ h.early = past.of[m].early /\ h.twice = past.of[m].twice
         /\ h.false = (past.of[m].false \/ v = False)
         /\ h.replaced = (past.of[m].replaced \/ loaded[m] \notin {Nil, v})
<1>1. PICK seen \in Seen : seen = past.of[m]
  BY DEF TypeOK
<1>2. PICK f \in BOOLEAN : f = (seen.false \/ v = False)
  BY <1>1 DEF Seen
<1>3. PICK r \in BOOLEAN : r = (seen.replaced \/ loaded[m] \notin {Nil, v})
  BY <1>1 DEF Seen
<1>4. h = [seen EXCEPT !.false = f, !.replaced = r]
  BY <1>1, <1>2, <1>3 DEF Entering
<1>5. h \in Seen /\ h.got = seen.got /\ h.early = seen.early /\ h.twice = seen.twice /\ h.false = f /\ h.replaced = r
  BY <1>4 DEF Seen
<1> QED
  BY <1>1, <1>2, <1>3, <1>5

\* As long as the loader runs only early requires have returned: they are the ones for
\* whom the entry is replaced.
LEMMA PublishKeeps ==
  ASSUME RequireInv, NEW v \in Int, v # Nil, Publish(v)
  PROVE  RequireInv'
<1>1. TypeOK /\ FramesOK /\ \A x \in Module : AgreeOK(x)
  BY DEF RequireInv
<1>2. PICK k \in DOMAIN frames : Last(frames) = frames[k] /\ frames[k].m \in Module /\ k \in Running(frames[k].m)
  BY <1>1, LastIs DEF Publish
<1>3. PICK m \in Module : m = frames[k].m
  BY <1>2
<1>4. PICK h : h = Entering(past.of[m], m, v)
  OBVIOUS
<1>5. loaded' = [loaded EXCEPT ![m] = v] /\ See(m, h) /\ UNCHANGED <<world, clibs, frames>>
  BY <1>2, <1>3, <1>4 DEF Publish
<1>6. /\ h \in Seen /\ h.got = past.of[m].got /\ h.early = past.of[m].early /\ h.twice = past.of[m].twice
      /\ h.false = (past.of[m].false \/ v = False)
      /\ h.replaced = (past.of[m].replaced \/ loaded[m] \notin {Nil, v})
  BY <1>1, <1>4, EnteringIs
<1>7. /\ past' \in [runs : Nat, of : [Module -> Seen]] /\ past'.runs = past.runs
      /\ past'.of[m] = h /\ \A x \in Module : x # m => past'.of[x] = past.of[x]
  BY <1>1, <1>5, <1>6, SeeIs
<1>8. /\ loaded \in [Module -> Int] /\ loaded' \in [Module -> Int] /\ loaded'[m] = v
      /\ \A x \in Module : x # m => loaded'[x] = loaded[x]
  BY <1>1, <1>5 DEF TypeOK
<1>9. TypeOK'
  BY <1>1, <1>5, <1>7, <1>8, SameWorld DEF TypeOK
<1>10. FramesOK'
  <2>1. \A x, f : ComesFrom(x, f)' <=> ComesFrom(x, f)
    BY <1>5, SameWorld
  <2> QED
    BY <1>1, <1>5, <1>7, <2>1 DEF FramesOK
<1>11. \A x \in Module : Running(x)' = Running(x)
  BY <1>5 DEF Running
<1>12. ASSUME NEW x \in Module, x # m PROVE AgreeOK(x)'
  <2>1. past'.of[x] = past.of[x] /\ loaded'[x] = loaded[x] /\ AgreeOK(x)
    BY <1>1, <1>7, <1>8, <1>12
  <2>2. \A i \in Running(x)' : i \in Running(x) /\ frames'[i] = frames[i]
    BY <1>5, <1>11
  <2> QED
    BY <2>1, <2>2, AgreeSame
<1>13. AgreeOK(m)'
  <2>1. AgreeOK(m) /\ Running(m)' = Running(m) /\ Running(m) # {}
    BY <1>1, <1>2, <1>3, <1>11
  <2>2. ASSUME ~h.twice, ~h.false
        PROVE  h.got = {} /\ v # False /\ (~h.replaced => h.early \subseteq {v})
    BY <1>6, <2>1, <2>2 DEF AgreeOK
  <2>3. Nil \notin h.got \cup h.early /\ (~h.twice => \A i, j \in Running(m) : i = j)
    BY <1>6, <2>1 DEF AgreeOK
  <2> QED
    BY <1>7, <1>8, <2>1, <2>2, <2>3 DEF AgreeOK
<1> QED
  BY <1>9, <1>10, <1>12, <1>13 DEF RequireInv

\* What is returned becomes the entry, unless it is nil and there is one: the first value
\* that is not got early, and the same for all that follow.
LEMMA LoaderReturnsKeeps ==
  ASSUME RequireInv, NEW v \in Int, LoaderReturns(v)
  PROVE  RequireInv'
<1>1. TypeOK /\ FramesOK /\ \A x \in Module : AgreeOK(x)
  BY DEF RequireInv
<1>2. PICK k \in DOMAIN frames : /\ k = Len(frames) /\ Last(frames) = frames[k] /\ frames[k].m \in Module
                                 /\ k \in Running(frames[k].m) /\ k - 1 \in 0..Len(frames)
  BY <1>1, LastIs DEF LoaderReturns
<1>3. PICK m \in Module : m = frames[k].m
  BY <1>2
<1>4. PICK w : w = SetLoaded(m, v)
  OBVIOUS
<1>5. PICK e : e = Entering(past.of[m], m, w)
  OBVIOUS
<1>6. PICK h : h = [e EXCEPT !.got = e.got \cup {w}]
  OBVIOUS
<1>7. loaded' = [loaded EXCEPT ![m] = w] /\ See(m, h) /\ frames' = Front(frames) /\ UNCHANGED <<world, clibs>>
  BY <1>2, <1>3, <1>4, <1>5, <1>6 DEF LoaderReturns, Seeing
<1>8. loaded \in [Module -> Int]
  BY <1>1 DEF TypeOK
<1>9. w \in Int /\ w # Nil
  BY <1>4, <1>8 DEF SetLoaded, Nil, True
<1>10. /\ e \in Seen /\ e.got = past.of[m].got /\ e.early = past.of[m].early /\ e.twice = past.of[m].twice
       /\ e.false = (past.of[m].false \/ w = False)
       /\ e.replaced = (past.of[m].replaced \/ loaded[m] \notin {Nil, w})
  BY <1>1, <1>5, <1>9, EnteringIs
<1>11. /\ h \in Seen /\ h.got = e.got \cup {w} /\ h.early = e.early /\ h.twice = e.twice
       /\ h.false = e.false /\ h.replaced = e.replaced
  BY <1>6, <1>9, <1>10 DEF Seen
<1>12. /\ past' \in [runs : Nat, of : [Module -> Seen]] /\ past'.runs = past.runs
       /\ past'.of[m] = h /\ \A x \in Module : x # m => past'.of[x] = past.of[x]
  BY <1>1, <1>7, <1>11, SeeIs
<1>13. loaded' \in [Module -> Int] /\ loaded'[m] = w /\ \A x \in Module : x # m => loaded'[x] = loaded[x]
  BY <1>7, <1>8, <1>9
<1>14. frames' = SubSeq(frames, 1, k - 1)
  BY <1>2, <1>7 DEF Front
<1>15. /\ frames' \in Seq(Frame) /\ FramesOK' /\ DOMAIN frames' = 1..(k - 1)
       /\ \A i \in 1..(k - 1) : i \in DOMAIN frames /\ frames'[i] = frames[i]
       /\ \A x : \A i \in Running(x)' : i \in Running(x) /\ frames'[i] = frames[i]
  BY <1>1, <1>2, <1>7, <1>12, <1>14, CutFrames
<1>16. TypeOK'
  BY <1>1, <1>7, <1>12, <1>13, <1>15, SameWorld DEF TypeOK
<1>17. ASSUME NEW x \in Module, x # m PROVE AgreeOK(x)'
  <2>1. past'.of[x] = past.of[x] /\ loaded'[x] = loaded[x] /\ AgreeOK(x)
    BY <1>1, <1>12, <1>13, <1>17
  <2> QED
    BY <1>15, <2>1, AgreeSame
<1>18. AgreeOK(m) /\ k \in Running(m)
  BY <1>1, <1>2, <1>3
<1>19. Nil \notin h.got \cup h.early
  BY <1>9, <1>10, <1>11, <1>18 DEF AgreeOK
<1>20. ASSUME ~h.twice PROVE Running(m)' = {}
  <2>1. \A i \in Running(m) : i = k
    BY <1>10, <1>11, <1>18, <1>20 DEF AgreeOK
  <2>2. Running(m)' \subseteq DOMAIN frames'
    BY DEF Running
  <2>3. k \notin 1..(k - 1)
    BY <1>2
  <2> QED
    BY <1>15, <2>1, <2>2, <2>3
<1>21. ASSUME ~h.twice, ~h.false
       PROVE  h.got \subseteq {w} /\ w # False /\ (~h.replaced => h.early \subseteq {w})
  BY <1>10, <1>11, <1>18, <1>21 DEF AgreeOK
<1>22. AgreeOK(m)'
  BY <1>12, <1>13, <1>19, <1>20, <1>21 DEF AgreeOK
<1> QED
  BY <1>15, <1>16, <1>17, <1>22 DEF RequireInv

\* With its entry cleared, nothing is remembered of a module but that two loaders of it run.
LEMMA ResetKeeps ==
  ASSUME RequireInv, NEW m \in Module, Reset(m)
  PROVE  RequireInv'
<1>1. TypeOK /\ FramesOK /\ \A x \in Module : AgreeOK(x)
  BY DEF RequireInv
<1>2. loaded \in [Module -> Int]
  BY <1>1 DEF TypeOK
<1>3. PICK t \in BOOLEAN : t = (\E i, j \in Running(m) : i # j)
  OBVIOUS
<1>4. PICK h : h = [Forget EXCEPT !.twice = t]
  OBVIOUS
<1>5. h \in Seen /\ h.got = {} /\ h.early = {} /\ h.twice = t
  BY <1>4 DEF Forget, Seen
<1>6. loaded' = [loaded EXCEPT ![m] = Nil] /\ See(m, h) /\ UNCHANGED <<world, clibs, frames>>
  BY <1>3, <1>4 DEF Reset
<1>7. /\ past' \in [runs : Nat, of : [Module -> Seen]] /\ past'.runs = past.runs
      /\ past'.of[m] = h /\ \A x \in Module : x # m => past'.of[x] = past.of[x]
  BY <1>1, <1>5, <1>6, SeeIs
<1>8. loaded' \in [Module -> Int] /\ loaded'[m] = Nil /\ \A x \in Module : x # m => loaded'[x] = loaded[x]
  BY <1>2, <1>6 DEF Nil
<1>9. TypeOK'
  BY <1>1, <1>6, <1>7, <1>8, SameWorld DEF TypeOK
<1>10. FramesOK'
  <2>1. \A x, f : ComesFrom(x, f)' <=> ComesFrom(x, f)
    BY <1>6, SameWorld
  <2> QED
    BY <1>1, <1>6, <1>7, <2>1 DEF FramesOK
<1>11. \A x \in Module : Running(x)' = Running(x)
  BY <1>6 DEF Running
<1>12. ASSUME NEW x \in Module, x # m PROVE AgreeOK(x)'
  <2>1. past'.of[x] = past.of[x] /\ loaded'[x] = loaded[x] /\ AgreeOK(x)
    BY <1>1, <1>7, <1>8, <1>12
  <2>2. \A i \in Running(x)' : i \in Running(x) /\ frames'[i] = frames[i]
    BY <1>6, <1>11, <1>12
  <2> QED
    BY <2>1, <2>2, AgreeSame
<1>13. AgreeOK(m)'
  <2>1. ~t => \A i, j \in Running(m)' : i = j
    BY <1>3, <1>11
  <2>2. past'.of[m].got = {} /\ past'.of[m].early = {} /\ past'.of[m].twice = t /\ Nil # False
    BY <1>5, <1>7 DEF Nil, False
  <2> QED
    BY <1>8, <2>1, <2>2 DEF AgreeOK
<1> QED
  BY <1>9, <1>10, <1>12, <1>13 DEF RequireInv

-----------------------------------------------------------------------------
(***************************************************************************)
(* The theorem.                                                            *)
(***************************************************************************)
\* Nothing is loaded at first.
LEMMA RequireInit ==
  ASSUME Init
  PROVE  RequireInv
<1>1. /\ world \in Worlds /\ loaded = [m \in Module |-> Nil] /\ clibs = <<>> /\ frames = <<>>
      /\ past = [runs |-> 0, of |-> [m \in Module |-> Forget]]
  BY DEF Init
<1>2. LibsOK(clibs) /\ frames \in Seq(Frame) /\ DOMAIN frames = {}
  BY <1>1 DEF LibsOK, IsInjective
<1>3. past \in [runs : Nat, of : [Module -> Seen]] /\ \A m \in Module : past.of[m] = Forget
  BY <1>1 DEF Forget, Seen
<1>4. loaded \in [Module -> Int] /\ \A m \in Module : loaded[m] = Nil
  BY <1>1 DEF Nil
<1>5. TypeOK /\ FramesOK
  BY <1>1, <1>2, <1>3, <1>4 DEF TypeOK, FramesOK
<1>6. ASSUME NEW m \in Module PROVE AgreeOK(m)
  <2>1. past.of[m].got = {} /\ past.of[m].early = {} /\ Running(m) = {} /\ loaded[m] # False
    BY <1>2, <1>3, <1>4 DEF Forget, Running, Nil, False
  <2> QED
    BY <2>1 DEF AgreeOK
<1> QED
  BY <1>5, <1>6 DEF RequireInv

\* Every step keeps the invariant.
LEMMA RequireNext ==
  ASSUME RequireInv, [Next]_vars
  PROVE  RequireInv'
<1>1. ASSUME NEW m \in Module, RequireLoaded(m) PROVE RequireInv'
  BY <1>1, RequireLoadedKeeps
<1>2. ASSUME NEW m \in Module, NEW protected \in BOOLEAN, RequireLoader(m, protected) PROVE RequireInv'
  BY <1>2, RequireLoaderKeeps
<1>3. ASSUME NEW v \in ModuleValue \cup {False}, Publish(v) PROVE RequireInv'
  <2>1. v \in Int /\ v # Nil
    BY RequireAssumption DEF False, Nil
  <2> QED
    BY <1>3, <2>1, PublishKeeps
<1>4. CASE ReturnsValue
  <2>1. ModuleValue \subseteq Int
    BY RequireAssumption
  <2> QED
    BY <1>4, <2>1, LoaderReturnsKeeps DEF ReturnsValue
<1>5. CASE ReturnsNothing
  BY <1>5, LoaderReturnsKeeps DEF ReturnsNothing, Nil
<1>6. CASE ReturnsFalse
  BY <1>6, LoaderReturnsKeeps DEF ReturnsFalse, False
<1>7. CASE LoaderRaises
  BY <1>7, LoaderRaisesKeeps
<1>8. ASSUME NEW m \in Module, Reset(m) PROVE RequireInv'
  BY <1>8, ResetKeeps
<1>9. ASSUME NEW file \in LibFiles, NEW sym \in LibSyms, LoadLib(file, sym) PROVE RequireInv'
  BY <1>9, LoadLibKeeps
<1>10. CASE UNCHANGED vars
  <2>1. /\ world' = world /\ loaded' = loaded /\ past' = past /\ clibs' = clibs /\ frames' = frames
        /\ frames \in Seq(Frame) /\ LibsOK(clibs)
    BY <1>10 DEF vars, RequireInv, TypeOK
  <2>2. Len(frames) \in 0..Len(frames) /\ frames' = SubSeq(frames, 1, Len(frames))
    BY <2>1
  <2> QED
    BY <2>1, <2>2, CutKeeps
<1> QED
  BY <1>1, <1>2, <1>3, <1>4, <1>5, <1>6, <1>7, <1>8, <1>9, <1>10 DEF Next

\* At most one running loader of a module: that is how AgreeOK says Cardinality.
LEMMA InvIsRight ==
  ASSUME RequireInv
  PROVE  RequireRight
<1>1. TypeOK /\ FramesOK /\ \A m \in Module : AgreeOK(m)
  BY DEF RequireInv
<1>2. ASSUME NEW m \in Module, Cardinality(Running(m)) > 1 PROVE past.of[m].twice
  <2>1. SUFFICES ASSUME ~past.of[m].twice PROVE FALSE
    OBVIOUS
  <2>2. \A i, j \in Running(m) : i = j
    BY <1>1, <2>1 DEF AgreeOK
  <2>3. CASE Running(m) = {}
    BY <1>2, <2>3, FS_EmptySet
  <2>4. CASE Running(m) # {}
    <3>1. PICK i : Running(m) = {i}
      BY <2>2, <2>4
    <3> QED
      BY <1>2, <3>1, FS_Singleton
  <2> QED
    BY <2>3, <2>4
<1>3. IsInjective(clibs)
  BY <1>1 DEF TypeOK, LibsOK
<1> QED
  BY <1>1, <1>2, <1>3 DEF AgreeOK, FramesOK, RequireRight

\* For every world and whatever loaders set and return: all requires of a module after its
\* loader returned give the value in package.loaded, and those before give it too unless
\* the loader replaced what it had set, by then or by what it returned; this holds unless
\* the module was required again while its loader ran and had set no entry, or its entry
\* was false.  No require gives nil; loaders nest as they were started, each from the first
\* place that has its module; a library is loaded once: ll_require, findloader, the four
\* searchers and lookforfunc.
THEOREM RequiresAgree == Spec => []RequireRight
<1>1. Init => RequireInv
  BY RequireInit
<1>2. RequireInv /\ [Next]_vars => RequireInv'
  BY RequireNext
<1>3. RequireInv => RequireRight
  BY InvIsRight
<1> QED
  BY <1>1, <1>2, <1>3, PTL DEF Spec
=============================================================================
