------------------------------ MODULE Require ------------------------------
(***************************************************************************)
(* require, the searchers and the C libraries of loadlib.c.  Loaders are   *)
(* code of the program: while one runs it requires other modules, or its   *)
(* own again, under pcall or not, sets its entry of package.loaded, to     *)
(* what it returns later or to something else, and ends by returning a     *)
(* value, no value, or by an error.                                        *)
(*                                                                         *)
(* A world says what there is to be found: package.preload, package.path   *)
(* and package.cpath, sequences of directories or BadPath for what is not  *)
(* a string, the files with Lua code, which may be broken, and the         *)
(* libraries, which may not load, with the functions that they export.     *)
(***************************************************************************)
EXTENDS Integers, Sequences, SequencesExt, FiniteSets

CONSTANTS Module,     \* names of modules
          Root,       \* the name up to its first dot, NoRoot when there is none
          OpenFuncs,  \* the functions to look for in a library, by name: two for a name with an ignore mark
          Worlds,     \* see above
          ModuleValue, \* what loaders return and set entries to, apart from nil and false
          LibSyms,    \* functions to load by package.loadlib, or "*"
          LibFiles,   \* the files of libraries in any of them
          MaxDepth,   \* LUAI_MAXCCALLS: loaders that run at once
          MaxRuns     \* bound: loaders that the program runs

\* paths are sequences of directories, a module has the names of one or two functions, and
\* values are numbers, of which 0 stands for true
ASSUME RequireAssumption ==
    /\ \A w \in Worlds : w.path \in Seq(STRING) /\ w.cpath \in Seq(STRING)
    /\ \A m \in Module : /\ OpenFuncs[m] \in Seq(STRING) /\ Len(OpenFuncs[m]) \in {1, 2}
                         /\ "*" \notin Range(OpenFuncs[m])
    /\ ModuleValue \subseteq Nat

VARIABLES world,
          loaded,    \* package.loaded
          clibs,     \* CLIBS: libraries in the order in which they were loaded
          frames,    \* the running loaders, innermost last
          past       \* what the program has seen of each module, see Forget

vars == <<world, loaded, clibs, frames, past>>

NoRoot == "no root"
BadPath == <<"not a string">>
Nil == -2
False == -1
True == 0

(***************************************************************************)
(* Searching.  An answer is [kind, from, clibs], where kind is "loader",   *)
(* "pass" (a message, or nothing) or "error".                              *)
(***************************************************************************)
Ans(kind, from, libs) == [kind |-> kind, from |-> from, clibs |-> libs]

\* searchpath: the first readable file
SearchPath(path, name, readable) ==
    LET files == [i \in DOMAIN path |-> <<path[i], name>>]
        at == SelectInSeq(files, LAMBDA file : file \in readable)
    IN  IF at = 0 THEN <<>> ELSE files[at]

\* lookforfunc, with the library added to CLIBS; sym "*" asks for no function
LookForFunc(libs, file, sym) ==
    IF ~Contains(libs, file) /\ ~(file \in DOMAIN world.libs /\ world.libs[file].loads)
    THEN Ans("lib", file, libs)
    ELSE LET all == IF Contains(libs, file) THEN libs ELSE Append(libs, file) IN
         IF sym = "*" \/ sym \in world.libs[file].syms THEN Ans("ok", file, all) ELSE Ans("func", file, all)
LoadFunc(libs, file, m) ==
    LET first == LookForFunc(libs, file, OpenFuncs[m][1])
        second == OpenFuncs[m][Len(OpenFuncs[m])]
    IN  IF Len(OpenFuncs[m]) = 2 /\ first.kind = "func" THEN LookForFunc(first.clibs, file, second) ELSE first

SearcherPreload(libs, m) ==
    IF world.preload[m] = "function" THEN Ans("loader", <<":preload:">>, libs) ELSE Ans("pass", <<>>, libs)
SearcherLua(libs, m) ==
    IF world.path = BadPath THEN Ans("error", <<>>, libs)
    ELSE LET file == SearchPath(world.path, m, DOMAIN world.lua) IN
         IF file = <<>> THEN Ans("pass", <<>>, libs)
         ELSE Ans(IF world.lua[file] = "good" THEN "loader" ELSE "error", file, libs)
SearcherC(libs, m) ==
    IF world.cpath = BadPath THEN Ans("error", <<>>, libs)
    ELSE LET file == SearchPath(world.cpath, m, DOMAIN world.libs)
             found == LoadFunc(libs, file, m)
         IN  IF file = <<>> THEN Ans("pass", <<>>, libs)
             ELSE Ans(IF found.kind = "ok" THEN "loader" ELSE "error", file, found.clibs)
SearcherCroot(libs, m) ==
    IF Root[m] = NoRoot THEN Ans("pass", <<>>, libs)
    ELSE IF world.cpath = BadPath THEN Ans("error", <<>>, libs)
    ELSE LET file == SearchPath(world.cpath, Root[m], DOMAIN world.libs)
             found == LoadFunc(libs, file, m)
         IN  IF file = <<>> THEN Ans("pass", <<>>, libs)
             ELSE Ans(CASE found.kind = "ok" -> "loader" [] found.kind = "func" -> "pass" [] OTHER -> "error",
                      file, found.clibs)

Ask(searcher, libs, m) ==
    CASE searcher = "preload" -> SearcherPreload(libs, m)
      [] searcher = "Lua" -> SearcherLua(libs, m)
      [] searcher = "C" -> SearcherC(libs, m)
      [] searcher = "Croot" -> SearcherCroot(libs, m)
\* findloader: the searchers in their order until one does not pass
FindLoader(m) ==
    LET next(a, searcher) == IF a.kind = "pass" THEN Ask(searcher, a.clibs, m) ELSE a
        a == next(next(next(next(Ans("pass", <<>>, clibs), "preload"), "Lua"), "C"), "Croot")
    IN  IF a.kind = "pass" THEN [a EXCEPT !.kind = "error"] ELSE a

(***************************************************************************)
(* The program.                                                            *)
(***************************************************************************)
\* of each module, since the program last cleared its entry: the values that require
\* returned, early ones while its loader ran, whether a loader started while another one
\* ran, whether the entry was false, and whether one that was set became another value
Forget == [got |-> {}, early |-> {}, twice |-> FALSE, false |-> FALSE, replaced |-> FALSE]
Init ==
    /\ world \in Worlds
    /\ loaded = [m \in Module |-> Nil]
    /\ clibs = <<>> /\ frames = <<>>
    /\ past = [runs |-> 0, of |-> [m \in Module |-> Forget]]

Running(m) == {i \in DOMAIN frames : frames[i].m = m}
Truthy(v) == v \notin {Nil, False}
\* an error goes to the innermost require under pcall, or out of all of them
Unwound ==
    LET under == {i \in DOMAIN frames : frames[i].protected} IN
    IF under = {} THEN <<>> ELSE SubSeq(frames, 1, (CHOOSE i \in under : \A j \in under : j <= i) - 1)

\* what is seen of m when require returns v, and when the entry becomes v
Seeing(h, v) == [h EXCEPT !.got = @ \cup {v}]
SeeingEarly(h, v) == [h EXCEPT !.early = @ \cup {v}]
Entering(h, m, v) == [h EXCEPT !.false = @ \/ v = False, !.replaced = @ \/ loaded[m] \notin {Nil, v}]
See(m, h) == past' = [past EXCEPT !.of[m] = h]

\* ll_require of a module that is loaded
RequireLoaded(m) ==
    /\ Truthy(loaded[m])
    /\ See(m, IF Running(m) # {} THEN SeeingEarly(past.of[m], loaded[m]) ELSE Seeing(past.of[m], loaded[m]))
    /\ UNCHANGED <<world, loaded, clibs, frames>>
\* ll_require up to the call of the loader, or to an error under pcall or not
RequireLoader(m, protected) ==
    LET a == FindLoader(m) IN
    /\ ~Truthy(loaded[m]) /\ past.runs < MaxRuns
    /\ clibs' = a.clibs
    /\ IF a.kind = "loader" /\ Len(frames) < MaxDepth
       THEN /\ frames' = Append(frames, [m |-> m, protected |-> protected, from |-> a.from, run |-> past.runs + 1])
            /\ past' = [past EXCEPT !.runs = @ + 1, !.of[m].twice = @ \/ Running(m) # {}]
       ELSE /\ frames' = IF protected THEN frames ELSE Unwound
            /\ UNCHANGED past
    /\ UNCHANGED <<world, loaded>>

\* the loader sets package.loaded[m] itself, as modules that require one another do
Publish(v) ==
    /\ frames # <<>>
    /\ \E m \in {Last(frames).m} :
           /\ loaded' = [loaded EXCEPT ![m] = v]
           /\ See(m, Entering(past.of[m], m, v))
    /\ UNCHANGED <<world, clibs, frames>>
\* mutant: no value of its own is set for a module that returns none
SetLoadedOnly(m, v) == IF v # Nil THEN v ELSE loaded[m]
\* the entry after the loader returned v
SetLoaded(m, v) == IF v # Nil THEN v ELSE IF loaded[m] = Nil THEN True ELSE loaded[m]
\* the rest of ll_require after its loader returned v
LoaderReturns(v) ==
    /\ frames # <<>>
    /\ \E m \in {Last(frames).m} : \E w \in {SetLoaded(m, v)} :
           /\ loaded' = [loaded EXCEPT ![m] = w]
           /\ See(m, Seeing(Entering(past.of[m], m, w), w))
    /\ frames' = Front(frames)
    /\ UNCHANGED <<world, clibs>>
ReturnsValue == \E v \in ModuleValue : LoaderReturns(v)
ReturnsNothing == LoaderReturns(Nil)
ReturnsFalse == LoaderReturns(False)
LoaderRaises ==
    /\ frames # <<>> /\ frames' = Unwound
    /\ UNCHANGED <<world, loaded, clibs, past>>

\* the program drops a module to load it again; package.loadlib, of one function or of none
Reset(m) ==
    /\ loaded[m] # Nil
    /\ loaded' = [loaded EXCEPT ![m] = Nil]
    /\ See(m, [Forget EXCEPT !.twice = \E i, j \in Running(m) : i # j])
    /\ UNCHANGED <<world, clibs, frames>>
LoadLib(file, sym) ==
    /\ clibs' = LookForFunc(clibs, file, sym).clibs
    /\ UNCHANGED <<world, loaded, frames, past>>

Next ==
    \/ \E m \in Module : RequireLoaded(m)
    \/ \E m \in Module, protected \in BOOLEAN : RequireLoader(m, protected)
    \/ \E v \in ModuleValue \cup {False} : Publish(v)
    \/ ReturnsValue
    \/ ReturnsNothing
    \/ ReturnsFalse
    \/ LoaderRaises
    \/ \E m \in Module : Reset(m)
    \/ \E file \in LibFiles, sym \in LibSyms : LoadLib(file, sym)
Spec == Init /\ [][Next]_vars

(***************************************************************************)
(* Properties.                                                             *)
(***************************************************************************)
\* where a module may be, in the order of the manual, and in which state it is there
Place(from, there, good) == [from |-> from, state |-> IF ~there THEN "absent" ELSE IF good THEN "good" ELSE "broken"]
Exports(file, m) == world.libs[file].loads /\ Range(OpenFuncs[m]) \cap world.libs[file].syms # {}
\* a path that is not a string is one place, and a broken one
NoPlace == Place(<<>>, TRUE, FALSE)
LuaPlace(file) == Place(file, file \in DOMAIN world.lua, world.lua[file] = "good")
CPlace(file, m) == Place(file, file \in DOMAIN world.libs, Exports(file, m))
Places(m) ==
    <<Place(<<":preload:">>, world.preload[m] = "function", TRUE)>>
    \o [i \in DOMAIN world.path |-> IF world.path = BadPath THEN NoPlace ELSE LuaPlace(<<world.path[i], m>>)]
    \o [i \in DOMAIN world.cpath |-> IF world.cpath = BadPath THEN NoPlace ELSE CPlace(<<world.cpath[i], m>>, m)]
FirstPlace(m) == SelectInSeq(Places(m), LAMBDA place : place.state # "absent")
\* a submodule may also be inside the library of its root, the first one there is
InRoot(m, file) ==
    /\ Root[m] # NoRoot /\ file \in DOMAIN world.libs /\ file[2] = Root[m] /\ Exports(file, m)
    /\ \E i \in DOMAIN world.cpath :
           /\ world.cpath[i] = file[1]
           /\ \A j \in 1..(i - 1) : <<world.cpath[j], Root[m]>> \notin DOMAIN world.libs
ComesFrom(m, file) ==
    IF FirstPlace(m) = 0 THEN InRoot(m, file)
    ELSE Places(m)[FirstPlace(m)] = [from |-> file, state |-> "good"]

\* All parts of a program that require a module after its loader returned get one and the
\* same value, the one in package.loaded, also when the loader had set its entry to
\* something else before it returned.  Those that require it while the loader runs, as
\* modules that require one another do, get this value too, unless the entry that they
\* were given was replaced, by the loader or by what it returned.  All of this holds until
\* the module is required again while its loader runs and its entry is not set, or its
\* entry is false: then each run of the loader may give another value, and only then is
\* an entry false.  No require gives nil.
\* The error of a loader ends at the innermost require under pcall, so that loaders nest
\* as they were started.  A loader runs only from the first place that has the module, and
\* never when that one is broken, whatever a later place has: a path that is not a string
\* is broken for all modules that are not found before it.  A library is loaded once.
RequireRight ==
    /\ \A m \in Module : LET seen == past.of[m] IN
           /\ Nil \notin seen.got \cup seen.early
           /\ ~seen.twice /\ ~seen.false =>
                  /\ seen.got \subseteq {loaded[m]} /\ loaded[m] # False
                  /\ Running(m) # {} => seen.got = {}
                  /\ ~seen.replaced => seen.early \subseteq {loaded[m]}
           /\ Cardinality(Running(m)) > 1 => seen.twice
    /\ \A i, j \in DOMAIN frames : i < j => frames[i].run < frames[j].run
    /\ \A i \in DOMAIN frames : ComesFrom(frames[i].m, frames[i].from)
    /\ IsInjective(clibs)
=============================================================================
