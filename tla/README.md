# A TLA+ model of DeLua

DeLua is Lua 5.4.8 with a CMake build, a few additions to the interpreter, and
PAM, a package manager written in Lua.  Its logic is the C code in
`src/lua/src`; the repository has no test suite, so the code, its comments and
its assertions, and the manual `src/lua/doc/manual.html` are what the models
are written from and measured against.

Contents: [inventory](#1-inventory), [modules](#2-modules),
[runs](#3-runs), [fairness](#4-fairness), [proofs](#5-proofs),
[what is not modelled](#6-what-is-not-modelled), [plan](#7-plan).
`PROJECT.json` maps every definition to the lines it models and lists the
hazards with the properties that answer them.  Operators that only it mentions
(`BarrierBackNever`, `ScanDownUnchecked`, ...) are wrong variants of the definition below
them: put in its place, each makes a run fail, which shows that the property
notices that mistake.

## 1. Inventory

All files are under `src/lua/src` unless a path says otherwise.

| Component | State | Operations | What is hard | Correct when |
|---|---|---|---|---|
| Garbage collector (`lgc.c`, `lmem.c`) | the lists `allgc`, `finobj`, `tobefnz`; colors and ages in `marked`; `gray`, `grayagain` and the weak lists; `gcstate`, `currentwhite`, `sweepgc` | `singlestep`, `luaC_step`, `luaC_fullgc`, the barriers, `luaC_newobj`, `luaC_checkfinalizer`, `youngcollection`, `luaC_changemode` | every step interleaves with the program; finalizers are program code run by the collector; an allocation that fails starts a whole collection inside whatever runs | nothing reachable is freed, garbage is freed in the end, finalizers run once their objects are unreachable |
| Tables (`ltable.c`) | array part with `alimit` and the bit `BITRAS`; node vector with relative links, `lastfree`; dead keys | get, set, resize, `luaH_next`, `luaH_getn` | a limit that is a size or a hint; chains that share nodes; allocations that fail half way; keys the collector frees | a dictionary; a traversal meets every key once; `#t` is a border |
| Calls, errors, coroutines (`ldo.c`, `lstate.c`, `lcorolib.c`) | the `CallInfo` list, `errorJmp`, `nCcalls`, `status`, `errfunc` | `luaD_call`, `lua_callk`, `lua_pcallk`, `luaD_throw`, `lua_resume`, `lua_yieldk`, `lua_closethread` | errors and yields are `longjmp`s; what the lost C code had left to do is redone from the `CallInfo` | an error reaches the innermost protected call, counts and handlers are restored, a coroutine lives as the manual says |
| Upvalues and to-be-closed variables (`lfunc.c`) | `openupval`, `tbclist` with 16-bit distances | `luaF_findupval`, `luaF_close`, `luaF_newtbcupval` | closing methods raise errors and yield; loops leave blocks in every way | every variable is closed once, in order; closures share the variable they name |
| Strings (`lstring.c`) | the string table, the cache of `luaS_new` | `internshrstr`, `luaS_resize`, `luaS_clearcache` | a string found there may be dead already; a resize may fail half way | equal short strings are one object |
| C API (`lapi.c`) | stack and registry | about 100 functions | every store needs its barrier | as the components it calls |
| Parser (`lparser.c`) | blocks, active variables, pending gotos, labels | one function per construct | what a jump leaves and closes is known only after it was written | a program means what the manual says; illegal ones are refused |
| Code generator (`lcode.c`) | registers, jump lists, constants | `luaK_*` | jump lists threaded through the code; registers reused; operands that do not fit | the code computes what the source says, in its order |
| Lexer (`llex.c`, `lzio.c`) | current character and token, one token ahead | `luaX_next`, `luaX_lookahead` | line ends, escapes, long brackets | what `%q` writes is read back |
| Virtual machine (`lvm.c`) | program counter, stack | byte code, `luaV_finishOp` | `for` loops and comparisons at the edges of the numbers | arithmetic of the manual, at the edges too |
| Values and conversions (`lobject.c`) | none | arithmetic on constants, numerals, utf8 escapes | wrap-around | numerals give their value modulo 2^64 |
| Debug interface (`ldebug.c`) | line and variable tables | `luaG_getfuncline`, `luaF_getlocalname` | relative line information that overflows | the line and the name that the source has |
| Precompiled chunks (`ldump.c`, `lundump.c`) | none | `luaU_dump`, `luaU_undump` | sizes of several bytes, foreign and truncated streams | what is dumped is read back, all else is refused |
| package library (`loadlib.c`) | `package.loaded`, `package.preload`, `CLIBS`, searchers | `require`, `package.loadlib` | loads that recurse, fail or set `package.loaded` | all requires of a module agree on its value |
| String library (`lstrlib.c`) | `MatchState` | find, match, gmatch, gsub, `%q` | backtracking over captures; `gsub` and `gmatch` on empty matches | the first match in the order of the manual |
| Table library (`ltablib.c`) | the part, scans and waiting calls of a sort | sort, insert, remove, move, unpack | comparison functions that are no order; indices at the ends of the integers | the same elements in order or an error, in the end; what was there is moved, or an error |
| UTF-8 library (`lutf8lib.c`) | none | len, codepoint, offset, codes | malformed sequences | decodes what is encoded and nothing else |
| Metamethods (`ltm.c`) | the cache in `flags` | `luaT_gettm` | stale cache | a set metamethod is seen |
| Auxiliary library, other libraries, programs | references in the registry | `luaL_ref`, buffers, I/O | formatting, I/O | |
| PAM (`src/modules/pam`, `src/modules/pamlib`) | settings file, repositories on disk | `bootstrap`, settings, version comparison, options | crashes and failing commands between steps | a bootstrap that failed can be repeated, settings survive |

How they interact: the virtual machine and the C API call into every other
component.  The collector runs inside them wherever they allocate
(`luaC_checkGC`), and calls back into them for finalizers.  Tables mark dead
keys when the collector traverses them and meet those keys again in `next`.
Coroutines hold stacks that the collector visits without barriers.  Errors cut
through all of it.  The lexer, the parser and the code generator work as one
pass; what they write is read by the virtual machine, the debug interface and
`ldump.c`.

## 2. Modules

| Module | Models | Built on |
|---|---|---|
| `IncrementalGC` | `lgc.c` in incremental mode against the program | |
| `IncrementalGCProofs` | theorems about it | `IncrementalGC` |
| `GenerationalGC` | `lgc.c` in generational mode: ages, weak tables, upvalues, `lua_close` | |
| `Dict` | what a table promises | |
| `LuaTable` | `ltable.c`: one table | refines `Dict` |
| `LuaTableProofs` | lemmas about its operators, theorems about its array part and `#t` | `LuaTable` |
| `LuaTableChains` | theorems about its hash part and the traversal; that it implements `Dict` | `LuaTableProofs` |
| `CoroutineLife` | what the manual says of a coroutine | |
| `Coroutine` | `ldo.c`, `lfunc.c`: one coroutine | refines `CoroutineLife` |
| `CoroutineProofs` | its inductive invariant with lemmas, theorems about it | `Coroutine` |
| `ExprCode` | `lcode.c`: expressions, jumps, registers, constants | |
| `ExprParser` | `lparser.c`: expressions, assignments, calls, constructors | `ExprCode` |
| `ExprVM` | `lvm.c`: the code of one statement | `ExprCode` |
| `ExprMeaning` | what a statement means; properties | `ExprVM`, `ExprParser` |
| `Scopes` | `lparser.c`: blocks, variables, labels, loops, functions | |
| `ScopeRun` | `lvm.c`, `lfunc.c`: the code of `Scopes`, upvalues, variables to be closed | `Scopes` |
| `ScopeMeaning` | what a program means; properties | `ScopeRun` |
| `LuaPattern`, `PatternMeaning` | the matcher of `lstrlib.c`, and what a pattern means | |
| `LuaNumbers` | numbers in `lvm.c`, `lobject.c` | |
| `Chunk` | `ldump.c`, `lundump.c` | |
| `Utf8` | `lutf8lib.c` | |
| `LuaLexer` | `llex.c`, `%q` of `lstrlib.c` | `Utf8` |
| `Library` | a caller of these five parts; properties | all of them |
| `Sort` | `ltablib.c`: table.sort | |
| `TableLib` | `ltablib.c`: move, insert, remove, unpack | |
| `TableLibProofs` | lemmas about both, theorems about both | `Sort`, `TableLib` |
| `LineInfo` | line information in `lcode.c`, `ldebug.c` | |
| `LineInfoProofs` | lemmas about its operators, theorem about it | `LineInfo` |
| `StringTable` | `lstring.c` under a collector | |
| `StringTableProofs` | lemmas about its operators, theorem about it | `StringTable` |
| `Require` | `loadlib.c` | |
| `RequireProofs` | lemmas about its operators, theorem about it | `Require` |

The modules whose names begin with `MC` give TLC its instances:
`MCIncrementalGC`, `MCGenerationalGC`, `MCLuaTable`, `MCExpr`, `MCScopes`,
and `MCLibrary`, which runs `Library`, `Sort`, `TableLib`, `LineInfo`,
`StringTable` and `Require` side by side, as many of them as `Parts` names.

### IncrementalGC

The objects of the heap are the elements of `Obj`; one that is in none of the
lists `allgc`, `finobj`, `tobefnz` is a free address, so an object that is
freed while something points to it shows as a reference to a free address, or
to whatever is created there next.  `refs[o]` is what `o` points to, whether
through fields, upvalues, a metatable or stack slots.  Linked lists are sets
and a step takes any member: every order the code could meet is covered, and
nothing depends on one.  `sweepgc` is the set of objects behind the pointer
`sweepgc`, not swept yet.  Types appear as far as the collector acts on them:
`Thread` (no barriers, visited again), `Leaf` (strings: black at once, found
again by interning), and the rest.

The collector's actions are the cases of `singlestep` (`Restart`,
`PropagateMark`, `FinishPropagate`, `Atomic`, `SweepList`, `SweepNextList`,
`SweepEnd`, `RunFinalizers`, `EndCycle`).  A full collection is a progress
marker (`full`, `emergency`) with the same single steps inside it: `FullGC` or
`EmergencyGC` starts it (with the sweep of `fullinc` when marking was under
way), `FullRestart` and `FullDone` are the two points where `fullinc` goes on.
During an emergency collection nothing else runs.  During a full collection the
program runs only in a finalizer, where GC steps are off (`GCSTPGC`) but an
emergency collection can still happen.

The program's actions are the operations that change the heap graph:
allocation, interning, loads, stores with either barrier, deletions,
`setmetatable`, moves between stacks, resume and yield.  A value must be on the
stack of the running thread to be stored, as in the API.  `setmetatable` moves
an object with `__gc` to `finobj` (`CheckFinalizer`); when the sweep stands on
that object, it first goes on to the next live one (`SweptOn`, which is
`sweeptolive`).  On which object the sweep stands the model leaves open, since
the lists have no order: any object that it has left behind in `allgc`.

Constants: `Obj`, `Thread`, `Leaf`, `HasGC` (tables with a `__gc` field),
`MainThread`, `Registry`, and four bounds, `Hidden` (objects the program does
not load, to shrink the state space; that the program holds fewer references
only restricts which states TLC reaches, and the proofs leave `Hidden` free),
`Requests`, `MaxRefs` and `GCSWEEPMAX` (100 in the code).

### GenerationalGC

A collection runs from its start to the calls of finalizers without the
program, so it is one step here, and what varies is the heap it meets.  The
record `g` is `global_State`: the lists with age marks (`survival`, `old1`,
`reallyold`, `firstold1`) are sequences, because the marks are positions in
them; gray lists are sets.  `Young`, `Major`, `GoodCollection` and
`BadCollection` are the four ways of `genstep`; `StartCycle`, `EndCycle`,
`ChangeToInc` and `ChangeToGen` the other mode and the way there and back (a new
state is in incremental mode); `Collect` is a full collection.  In incremental
mode with marking under way and finalizers waiting it takes several steps:
`fullinc` sweeps the old cycle to its end (`CallsFirst`, `Abandoned`), the
finalizers are called, and `NewCycle`, which starts when the last one has
returned (`full`), frees what they have left.  `Emergency`, `CallFinalizer`, `Close` and `FreeAllObjects` do what their names
say.  Inside them the functions of `lgc.c` appear by name (`TraverseEphemeron`,
`ConvergeEphemerons`, `RemarkUpvals`, `ClearByKeys`, `SweepGen`, `MarkOld`, ...).
Weak tables and open upvalues are here and not in `IncrementalGC`, because the
atomic phase, where they matter, is one step in both modes.

### Dict and LuaTable

A table is the record `t` with the array part, `alimit` and `isreal` (the
complement of `BITRAS`), the node vector with its relative `next` links, and
`lastfree`.  The operators follow the functions of `ltable.c` by name:
`RealSize`, `MainPosition`, `NewKey` with `Relocate` and `Link`, `Rehash` with
`Sizes`, `Resized`, `FindIndex`, `Getn`, `HashSearch`.  Around the table, `alive` is the
set of collectable keys that exist and two keys of `RefKey` and `StrKey` may
have one address at different times (`Addr`); `ClearKeys`, `Collect` and
`Create` are what the collector and the program do with them.  `cursor` and
`visited` are the traversal that a program has in progress.

`PutFails` is an assignment in which an allocation of `luaH_resize` fails: that of
the nodes (`NodesFail`), before anything is done, or that of the array
(`ArrayFails`).  When the array was to shrink, by then the table has had its new
size and hash part and has taken in the slice that vanishes (`Pretended`); it
gets back what it had (`Restored`).  `Read` and `Length` are actions because
both move `alimit`.

`Dict` is the promise: a map from keys to values, and a traversal that returns
each present key once and ends when none is left, provided that the program
adds no key meanwhile.  `IsDict` says two things.  `D!Spec`: the steps of
`LuaTable` are steps of `Dict`.  As an assignment in `Dict` may be of any key,
that alone does not say that a step does what its operation was asked, so
`MapAsAsked` and `NextAsAsked` say that of each operation, in every state: an assignment gives its
key its value and leaves all others, one that fails changes nothing, whichever
allocation it is, nor does a read, a length or the collector, and `next` returns
an entry that it has not returned yet, or nil when there is none.

Loops are recursive functions over numbers (`at[n]`, the position after `n`
links or halvings), so that the proofs can unfold them.

### CoroutineLife and Coroutine

`frames` is the `CallInfo` list; a frame has the fields of a `CallInfo` that
control depends on, and `act`, which says whether the C code that made the call
above is still on the C stack.  `jmps` is the chain of `errorJmp`s with the
count of calls each will restore, `tbc` the list of pending to-be-closed
variables.  `BackToC` is what C code does when its callee returns; `Unroll` is
what `unroll` does in its place after a yield.  `Throw` covers `luaD_throw`
together with the code behind the `setjmp` it reaches: `lua_resume` with
`precover`, `luaD_pcall`, or `luaD_closeprotected`.  A protected call is in one
of two notations, a jump on the C stack or the mark `CIST_YPCALL` in its frame.

The functions that run are nondeterministic: whatever runs may call, call
protected (with or without a continuation), declare a variable, return, yield
or raise an error, and so may every closing method.

### ExprCode, ExprParser, ExprVM, ExprMeaning

`ExprParser` reads a statement token by token, one action per rule; its stack
of frames stands for the recursion of `subexpr`, `suffixedexp`, `restassign`
and the rest, and every frame calls the operators of `ExprCode` where the C
function calls `luaK_*`.  These take and return the function state with its
code, free register, constants and the expression description with its two
jump lists.  An `lua_assert` that fails clears `ok` (`AssertsHold`).

`ExprVM` runs the code in an environment that answers indexing, calls and
metamethods; all that it asks is recorded.  `ExprMeaning` evaluates the same
tokens by the grammar of the manual, with no registers, jumps or constants.
`ExprRight`: values, questions and their order agree.

### Scopes, ScopeRun, ScopeMeaning

`Scopes` compiles whole programs whose expressions are reduced to what scopes
have to do with: a use, an assignment, a condition, a closure.  Its actions
read one statement head each; `EnterBlock`, `LeaveBlock`, `MoveGotosOut`,
`SolveGoto`, `CreateLabel`, `SingleVarAux`, `MarkUpval`, `Finished` (the pass
of `luaK_finish`) are the functions of the parser.  `ScopeRun` runs the code
with the open upvalues and the list of variables to be closed, whose entries
span at most `MaxDelta` slots and are padded with dummies as in `lfunc.c`.
`ScopeMeaning` gives the program's meaning by the manual's rules of visibility,
but for one: which labels of the same name exclude each other is taken from
`checkrepeated` (`RepeatedLabel`), since the manual's rule (`LabelsAsDocumented`)
does not hold, see the violations below.
`RunsAsWritten` compares the two traces for every sequence of conditions,
`RejectsWhatItMust` the errors, `LocalNamesRight` the names that
`luaF_getlocalname` finds with the variables that are in scope.

### Library and its parts

Each part is a module of operators named after the C functions; the action of
`Library` builds an argument piece by piece, and a property per part compares
the result with a definition that does not follow the code: `PatternMeaning`
(the ways through a list of items, in order), arithmetic on unbounded integers,
the function that was dumped, the text that was quoted, the code points that
were encoded.

### Sort and TableLib

`Sort` takes one step for each answer of the comparison function.  The state
(`sort`) is the table with the variables of `auxsort` and `partition`; `calls`
are the invocations of `auxsort` that wait for another to return, each with the
part that it goes on with and the variables `n` and `rnd` that decide whether a
new random pivot is drawn then.  `pc` names the comparison that was asked for:
`ends`, `low` and `high` order three elements, `up` and `down` are the two
scans of `partition`.  When `ordered` is false the program answers as it likes,
differently each time if it likes, so every comparison function is covered, and
every table with it: which values are compared is then without effect.
`SortRight` says what the code touches, that no element gets lost, how deep
calls nest, and that with an order the table is sorted in the end and no error
is raised; `SortEnds` that each answer leaves less to do.

`TableLib` has the other functions over integers that wrap around; a table is a
function on all integers, `Copied` is the loop of `lua_geti` and `lua_seti` that
`tmove`, `tinsert` and `tremove` share.  The state (`list`) is one call with any
arguments.  `ListsRight` compares its result with the table that has the
elements where they should be, and asks that `tmove` computes no signed value
that overflows.

### LineInfo, StringTable and Require

The state of `LineInfo` is a function while it is compiled (`fs`): instructions
are emitted with any line, the line of the last one is fixed, or it is removed
and another follows (`replacing`), as `luaK_code`, `luaK_fixline` and
`removelastinstruction` do.  `lines`, the list of the lines that were given, is
no field of the code; `LinesRight` compares with it what the functions of
`ldebug.c` compute from the differences in `lineinfo` and from `abslineinfo`.

`StringTable` keeps the chains of the string table, as the sets of their
strings, and the cache of `luaS_new`.  The operators follow the C functions on
a record `G`, which is `global_State`: a resize first moves the strings
(`Depopulated`), then asks for the other vector, with an emergency collection
when that is refused (`AfterTrying`), then goes on or back (`Fitted`,
`Restored`).  A growing or a creating allocation has one of three answers: it
succeeds, it succeeds after an emergency collection, or it fails; a step with
an allocation takes the answer as a parameter.  Both kinds of collector remove
strings: step by step between steps of the program, or all at once.
`StringsUnique` is what a table of unique strings must be, and that none of
them is lost, referred to when dead, or linked into a vector that is gone.

`Require` has a stack of running loaders (`frames`), `package.loaded`, the
list `CLIBS`, and a world that says which files exist and what they hold.
`RequireLoader` is `ll_require` with the four searchers; while a loader runs it
may require again, set its entry to any value of `ModuleValue` or to false
(`Publish`), return one of them, which need not be the same, or nothing, or
raise, and a protected frame stops an error.  `past` records what the program
has seen.  `RequireRight`: all requires of a module after its loader returned
give what is in `package.loaded`.  Those that came while the loader ran give it
too, unless the entry that they were given was replaced: when a loader sets its
entry and then returns something else, `ll_require` stores what it returns, and
modules that required it in a circle keep the other value.  No more is claimed
of a module whose loader ran inside itself, or whose entry was false.  And a
loader comes from the first place, in the order of the searchers, that has the
module.

## 3. Runs

| Run | Instance | Question and answer |
|---|---|---|
| `gc_heap` | main thread, registry, a coroutine, a table; full and emergency collections | Do the barriers keep the invariants of marking at every point of a cycle, and does the atomic phase find what stacks hold without barriers? They do, and only garbage is freed. |
| `gc_final` | main thread, registry, a table with `__gc`, a string | Do objects that move between lists escape the sweep? Is an object finalized while reachable? Do the string table and the cache hand out freed strings? None does. |
| `gc_full` | main thread, registry, a table with `__gc`; full and emergency collections, also nested; fair | Is garbage freed, and are finalizers called? They are, unless emergency collections keep coming. |
| `gen` | worlds of two or three objects: fresh ones, weak tables, ephemerons, upvalues of a coroutine, user data; and a chain of five ephemerons, where each holds the key of another | Is anything lost that is reachable (`NothingLost`)? Does a full collection keep exactly what the manual says (`FullCollectionExact`)? Do the age marks stay right, and is every old object that refers to a young one watched? All hold. |
| `table` | seven tables in four uses, see below | Is it a dictionary, does each operation do what it was asked (`IsDict`), do chains survive, is the array part's size known, is `#t` a border, does a traversal find its cursor again? All hold. |
| `coroutine` | 6 nested calls, 2 pending variables | Do errors, yields and closing methods, nested, leave anything wrong behind? They do not. |
| `expr` | thirteen grammars with their statements, three environments | Does the code compute what the source means, and do the assertions of `lcode.c` hold? Both. |
| `scopes` | shapes of programs with loops, gotos, closures and variables to be closed | Does a program do what it says, and is it refused exactly when it must be (a repeated label by the rule of `checkrepeated`)? Yes. |
| `library` | arguments of all parts of `Library`, tables of up to seven elements, list operations on all integers, three strings, seven worlds of two modules, one inside the other's name, and two values besides false | Do the libraries agree with their definitions, does `table.sort` keep inside its part and end with any comparison function, are short strings unique, do all requires of a module agree and take the first place that has it (`RequireRight`)? Yes, the last with the exceptions named there. |
| `scopes_label` | the programs of `scopes` | violation, see below |
| `for_nan` | the numbers of `library` | violation, see below |
| `strings_gen` | the strings of `library`, an allocator that refuses to shrink | violation, see below |

Deadlock is checked in the runs of the collector's incremental mode, of the
table and of the coroutine, which never stop.  The others do: a program or an
argument is complete at its bound, and in `gen` the state is closed in the end.

*Bounds.*  A violation of the tri-color invariant needs a black object, a white
one and a third that held the only other path: the registry, a thread and two
more objects give that, with the stack unbounded and one reference for each
other object (`MaxRefs = 1`).  `GCSWEEPMAX = 1` puts a program step between any
two objects that are swept.  In `gen`, two objects and the registry hold an old
object, a young one and what watches it; the worlds that are built before the
program begins give each of the weak tables with what it refers to; an object
needs three collections to become old, which the run passes many times.  In the
chain of ephemerons the first visits of `convergeephemerons` find only some of
the keys, in whichever direction they go through the list, so that they must
be repeated.

In tables, three keys in one chain is where relocation and linking differ, four
nodes is where `lastfree` can skip one (names that collide, an object that
shares an address with one of them); an array part of eight slots has a lower
and an upper half with limits in between, and its growth fails in every step;
sixteen slots are needed for a hint with present slots on both sides of an
absent one behind it, the second case of `luaH_getn`; and with a largest
integer of 3 the search for a border meets its end.

For coroutines, six frames hold two nested protected calls with a function
below, between and above them, a closing method on top, and an error or a yield
in it.  Expressions have up to six tokens over a few tokens at a time, chosen
so that each case of an operator with each kind of operand is in one grammar;
operands (`MAXARG_C = 2`, `MAXARG_Bx = 1`, `MAXINDEXRK = 0`) are so narrow that
the second or third constant takes the long form.  Programs of `scopes` have up
to some fifteen words: two nested blocks that can be left by `break`, `goto`,
`return` and their ends, with a closure or a variable to be closed in each;
with `MaxDelta = 1` every other slot needs a dummy entry.  In `library`,
integers have four bits and the largest is 7, so that all pairs of operands are
tried and every overflow occurs; a list has fewer elements than the largest
integer.  A sort has up to seven elements: all tables of three values, two of
them equal to the order, and free answers for each size.  That is enough for
both recursions of `auxsort`, for a part that waits on either side, and with
`RanLimit = 4` (100 in the code) and `Imbalance = 2` (128) for random pivots,
drawn from three seeds.  Patterns
have three items and one more, subjects three characters; texts have four bytes.
A function has up to six instructions of three lines: with an absolute line
after four and for differences of two, it has up to six of them, for either
reason.
Three strings share a chain of a table of one chain and are apart in one of
eight; a table that begins with one chain grows twice for them, and one that
begins with eight is made smaller when one string is left, on a chain that
stays or on one that goes.  For `require`, three loaders run, two of them at
once: enough for a module that requires itself, and for an error or a cleared
entry between two loads with a third load after them.  Two values, one of which
stands for `true`, suffice for a loader that sets one and returns another.

*The violations.*

- `scopes_label`: `do ::b:: end ::b::` is compiled.  `manual.html:1726-1732` makes
  a label visible in the entire block where it is defined and forbids one where
  another of the same name is visible; `checkrepeated` (`lparser.c:1447`) sees
  only the labels already read, so an inner label may come before an outer one.
- `for_nan`: `forlimit` (`lvm.c:184-191`) takes a limit that is NaN for one below
  all integers, so a loop with a negative step runs down to the smallest
  integer.  `manual.html:1818-1820` lets it continue only while the value is
  greater than or equal to the limit.  With a positive step the loop does not
  run.  In a loop over floats, `forprep` skips the body only when the limit is
  less than the initial value (`lvm.c:248-250`), which a NaN is not, so the body
  runs once.  `NumbersRight` checks what the code does with a NaN in each place.
- `strings_gen`: `luaS_resize` rehashes the strings before it asks for the
  smaller vector, and "any non-zero size should work correctly" when that is
  refused (`lstring.c:78-88`).  In a young collection `checkSizes` runs without
  `gcstopem` (`lgc.c:1239`), so the refusal starts an emergency collection
  (`lmem.c:56-58`) while half of the work is done; a string is then removed from
  a chain that does not hold it.

Two smaller differences have no run.  `find(")")`, with an unbalanced bracket,
is an error as a pattern, but `find` takes a pattern without the characters of
`SPECIALS` (`lstrlib.c:383`) literally, and `)` is not one of them.  And
`lgc.h:47-48` describes `keepinvariant` as the time when "white objects cannot
point to black ones"; the code keeps the converse, as `lgc.h:18-20` says: a black
object never points to a white one (`TriColor`, checked and proved).  The models
follow the code in both.

## 4. Fairness

Only `gc_full` needs it.  `WF(Collector)`: allocation runs up a debt
(`GCdebt`), and `luaC_step` pays it with single steps, so a program that goes on
allocating cannot stop the collector from stepping, and a full collection runs
to its end without the program.  A program that never allocates again creates
no need to free anything.  `WF(FinalizerReturns)`: finalizers terminate; one
that does not stops its thread, and with it the program.  No fairness is
assumed of the program itself.

`GarbageFinalized` has another outcome, that an emergency collection comes first: an emergency collection leaves `callfin` without calling a
finalizer (`lgc.c:1631`), and a program whose every allocation fails first can
put finalizers off forever.

## 5. Proofs

The theorems hold for every value of the constants that satisfies the named
assumptions of the modules, and take nothing else: `ObjAssumption` and
`BoundAssumption` of `IncrementalGC` (the main thread is a thread, the registry
is an object that is neither thread nor string, the bounds are positive),
`BoundAssumption` of `Coroutine`, `KeyAssumption` of `LuaTable` (the kinds of
keys are apart, integer keys are positive and not larger than the largest
integer of their use, a use has finitely many keys), `RequireAssumption` of
`Require` (paths are sequences of names, a module has one or two functions to
look for, neither called `*`, values are numbers), `StringsAssumption` of `StringTable` (memory is
finite, contents have a hash, the table and the cache are not empty),
`LinesAssumption` of `LineInfo` (both limits are positive, lines are integers),
`SortAssumption` of `Sort` (the order is a weak order: of two values one is at
most the other, and that is transitive; `RanLimit` is at least 4, as a random
pivot divides by half a quarter of the part; there is a seed) and
`ListsAssumption` of `TableLib` (the largest integer is positive).
TLC evaluates each of them on a run.

| Theorem | Module | Property |
|---|---|---|
| `Invariance` | `IncrementalGCProofs` | `IInv` |
| `NeverDangling` | `IncrementalGCProofs` | `NoDangling`: whatever the program or the collector can get at is allocated and not about to be freed |
| `BarriersKeepTriColor` | `IncrementalGCProofs` | `TriColor` |
| `GrayNeverLost` | `IncrementalGCProofs` | `GrayListed` |
| `SweepsComplete` | `IncrementalGCProofs` | `SweepInvariant` |
| `BarrierAssertionsHold` | `IncrementalGCProofs` | `BarrierAsserts` |
| `OnlyGarbageFreed` | `IncrementalGCProofs` | `FreesOnlyGarbage` |
| `OnlyGarbageFinalized` | `IncrementalGCProofs` | `FinalizesOnlyGarbage` |
| `DeadNeverRevived` | `IncrementalGCProofs` | `DeadStaysDead` |
| `CallsConsistent` | `CoroutineProofs` | `IInv` |
| `VariablesClosed` | `CoroutineProofs` | `NoneLeftBehind` |
| `ErrorsReachTheirPcall` | `CoroutineProofs` | `ErrorsCaught` |
| `YieldsReachTheirResume` | `CoroutineProofs` | `YieldsSafe` |
| `CountExact` | `CoroutineProofs` | `NnyExact` |
| `CoroutinesLive` | `CoroutineProofs` | `LivesAsDocumented`: `Coroutine` implements `CoroutineLife` |
| `TablesTyped` | `LuaTableProofs` | `TypeOK` |
| `ArrayPartIsSound` | `LuaTableProofs` | `ArrayPartSound` |
| `LengthIsABorder` | `LuaTableProofs` | `BorderFound` |
| `NodesStaySound` | `LuaTableChains` | `NodesSound` |
| `CursorNeverLost` | `LuaTableChains` | `CursorFound` |
| `TablesAreDictionaries` | `LuaTableChains` | `IsDict`: `LuaTable` implements `Dict`, and each operation does what it was asked |
| `RequiresAgree` | `RequireProofs` | `RequireRight` |
| `LinesAlwaysRight` | `LineInfoProofs` | `LinesRight` |
| `SortInvariance` | `TableLibProofs` | `SortInv` |
| `SortAlwaysRight` | `TableLibProofs` | `SortRight` |
| `SortAlwaysEnds` | `TableLibProofs` | `SortEnds` |
| `ListsAlwaysRight` | `TableLibProofs` | `ListsRight` |
| `StringsStayUnique` | `StringTableProofs` | `StringsUnique`, under a hypothesis on the allocator |

### The collector

`NoDangling` is not inductive: that no live object points to a dead one after
the whites flip depends on marking having found everything, that on `TriColor`
and `GrayListed` (a black object's references are marked, a gray object is
still to be visited), and for the next cycle on `SweepInvariant` (nothing keeps
a mark from one cycle to the next).  `IInv` is their conjunction with three
parts of its own.  `HeapInv`: free addresses and strings point to nothing.
`MarkInv`: while marking, the main thread is marked and no thread is black, so
that pushing a value on a stack needs no barrier.  `ThreadInv`: the main thread
leads along the chain of resumed coroutines to the running one; `atomic()` marks
only the running thread and the registry afresh, and it is by this chain that
waiting coroutines are found.

The atomic phase is the heart of it.  Lemmas about `MarkClosure` show that it
contains its start, is closed under references to white objects, and is the
least such set; hence after it every object is either marked with all its
references marked, or white and unreferenced from the marked ones.  Then there
is one step per action, and under it one for each part of `IInv` it disturbs.
The action properties follow from `IInv`: a live set that contains the roots
and is closed under references contains all that is reachable, and the sweep
erases only what is outside it.

### Coroutines

The four properties speak of the innermost call; what makes them hold after an
error or a yield is what was saved for the calls around it.  One call leaves up
to four records: its frame, a jump, one in `nny`, and the handler it replaced.
`IInv` says for every call, not only the last, how they agree.

- `FrameInv`: places grow along the list, only the last call may be running,
  and only a `pcall` can be closing.
- `StatusInv`: what each status says of the calls; in particular a coroutine
  that has yielded has no call with C code under it and no jump.
- `YieldInv`: the mark `CIST_YPCALL` is on protected calls that can be
  continued, and no call below one of them blocks yields.  With it a yield
  reaches its resume.
- `JmpInv`: the jumps on the C stack are those of the protected calls that set
  one, in order, and each saved as many non-yieldable calls as there are below
  its call.  Without the last part `nny` would be wrong after the next error.
- `NnyInv`: `nny` is the number of calls that no yield may cross.
- `HandlerInv`: the message handler is that of the innermost protected call,
  and what each one saved is that of the call around it.
- `TbcInv`: pending variables are in order, each above the call that owns it.

The lemmas speak of one kind of change to the calls each (a call on top, a call
returns, the calls above one are dropped), so that each of the actions is one
or two of them.  `CoroutinesLive` maps every step to a step of `CoroutineLife`
or to a stutter.

### Tables

`IInv` of `LuaTableProofs` is `TypeOK`, `LimitOK`, `KeysOK` and `ShadowOK`.
`LimitOK`: `alimit` is the size of the array part, or a hint in the upper half
of an array whose size is a power of two.  That is what `luaH_realasize` and
`limitequalsasize` rely on: from a hint they round up to a power of two.
`ShadowOK`: a key that the array part holds has no live node; it is kept in
every rehash because all nodes are reinserted into a new vector.  `KeysOK`: the
keys of nodes are keys, and a dead one has no value.

Three definitions work on bits and by bisection.  The proofs about them need
induction, and no prover here can apply the induction rules of the library, so
`LuaTableProofs` begins with a lemma `Induction` that states it for a set
instead of a predicate, proved by the pigeonhole principle of the library; the
recursive functions are unfolded by showing that a function with their equation
exists.  Then: `BitTest` (a power of two and its predecessor share no bit, and
only then), `RealSizeIs` (the real size is recomputed from any limit that
`LimitOK` admits), `SearchIs` and `HashSearchIs` (bisection between a present
and an absent index ends at a border, also when doubling stops at the largest
integer), `SetInPlaceInv`, `RehashInv` (an insertion, also through a rehash,
keeps the invariant), and `GetnIs` from all of them: `luaH_getn` answers a
border of any table in `IInv`, whichever of its six ways it takes.

The hash part needs more, because `NodesSound` speaks of walks along the links
and an insertion changes links in the middle of chains that it does not walk.
`ChainInv` of `LuaTableChains` adds to `IInv`:

- `HashInv`: there are a path `c[i]` and a rank `r[i]` for each node such that
  a link leads to the next rank of the same path and only the last node of a
  path has none (`Linked`); a key's node comes after its main position on one
  path, and the node there is in its own main position (`Homes`); no node
  between the two could be taken for it, not even by the comparison of
  addresses that `next` uses (`Firsts`).  A path may begin with nodes whose
  chain starts further on: a main position without a value is taken over by a
  key although it is in the middle of another chain, and from then on two
  chains share their tail.  So paths are what stays apart, and not chains.
  Also: a key that is not dead belongs to an object that exists, and
  `lastfree` has passed no node without a key (`NoneMissed`).
- `AddrOK`: two objects that exist do not share an address.
- `TravOK`: the cursor is at an index of the traversal, its entry may be
  cleared or dead, and the entries with values that were returned are those up
  to that index.

An insertion without a rehash has three lemmas, one for each way a key gets its
node (`FillChained`, `LinkChained`, `RelocateChained`), each with its own new
paths and ranks.  A rehash never rehashes within itself and loses nothing:
`Ready` says that the keys still to come have slots or nodes, and since a new
node is used only for one of them, `getfreepos` finds one for each by the
pigeonhole principle (`SetReady`, `ReinsertIs`).  `PutIs` puts it together:
after `t[k] = v`, a lookup of `k` gives `v` and that of any other key what it
gave.  `Firsts` and `AddrOK` are what makes `next` safe against the collector:
an address that is used again is that of a key which does not exist any more,
and a key that does exist is met before its double.

`TablesAreDictionaries` maps each step to a step of `Dict` or to a stutter:
`Put`, the three traversal actions to theirs, and `PutFails`, `Read`, `Length`
and everything the collector does to none.  That each operation does what it was asked follows from `ChainInv`
in each state: for assignments it is `PutIs`; for an allocation that fails the
proof follows the table through `Pretended`, which says that reinserting the
slice changes nothing but the new hash part, so that `Restored` gives back the
table that was; for `next` it is what `TravOK` says of the cursor.

### require

`RequireRight` speaks of what the program has seen of a module after any
history of loads, and compares the search of the code, four searchers one after
the other, with one list of places.  Two parts of the proof follow from that.

- The search: `SearchPathIs`, `LookForFuncIs` and `LoadFuncIs` say what the
  helpers find; `PlacesAre` and `FirstPlaceIs` what the list holds and which
  place is its first; `ComesFromIs` and `FindLoaderIs` join them: what
  `findloader` answers is the first place that has the module, and a library is
  added to `CLIBS` only when it is not there and can be loaded.
- The history: `RequireInv` is `TypeOK` (with `LibsOK`, that `CLIBS` has no
  library twice), `FramesOK` (loaders nest in the order of their numbers, each
  from the first place of its module) and, for each module, `AgreeOK`: unless
  its loader ran inside itself, at most one runs; unless its entry was also
  false, what requires got after its loader returned is what the entry holds,
  and while a loader runs there are no such requires; and unless a set entry was
  replaced by another value, earlier requires got it too.  That there are none
  while a loader runs is what the other parts need to be kept: a loader that
  returns may change the entry, and nobody has got the old one but early.  It
  holds when a loader starts because the entry is then empty.

`CutKeeps` is about errors, which drop loaders down to the innermost `require`
under `pcall`; `LoaderStarts`, `PublishKeeps`, `LoaderReturnsKeeps` and
`ResetKeeps` are about the steps that change what is seen.

### Line information

`ldebug.c` estimates where in `abslineinfo` to begin from `pc / MAXIWTHABS`, and
may only search upwards from there.  So `LinesInv` has to say not only that the
records are right but that they are dense enough (`Right`): absolute entries
are sorted, each has the line of its instruction, the i-th of them is for an
instruction not after the `MaxIWthAbs * i`-th, and of m entries the last is
still near enough to the end (`MaxIWthAbs * (m + 1)`); an instruction without
one has the difference from the line before it.
`Counted` is what the generator knows: `iwthabs` counts from the last absolute
entry, and `previousline` is the last line.  After an absolute entry was taken
back neither is known any more; all that holds is that the counter is beyond
its limit (`Ready`), which makes the next entry absolute.  `FixLine` relies on
that at once, a removed instruction at the next one.

`BaseIs` gets the base from `Right`: the estimate is at most the number of
entries, its entry is not after the instruction, and the search ends at the last
entry that is not.  `WalkIs` adds up differences by induction; from them follow
the line of each instruction, `changedline` and `collectvalidlines`.  The
numbers `MaxIWthAbs` and `LimLineDiff`, the length of the function and the lines
themselves are arbitrary, so the theorem also covers the lengths near 128 and
the distances near 2^7 that the run replaces by 4 and 2.

### Short strings

`StringsStayUnique` has a hypothesis besides the assumption: an allocator under
a generational collector does not refuse to make a block smaller
(`~YoungShrinkFails`).  Without it the theorem is false, which is what
`strings_gen` finds.  When `Kinds` has only the incremental collector the
hypothesis is empty, and the theorem holds for every answer of the allocator.

`Good`, the invariant, is `Table` (every string in the chain of its hash and in
no other, none twice, `nuse` their number) and `Live` (what the program or the
cache refers to is allocated and not dead; what is still to be swept is
allocated; under a generational collector nothing is ever dead between two
steps).  `StringsInv` adds that between two calls no collection is under way
that forbids another.  The lemmas take the C functions in the order in which
they call each other: `TableRehashIs`, `DepopulatedIs`, `FittedIs` and
`RestoredIs` follow the strings through the two halves of `luaS_resize`, where
they are in the chains of the new size while the size is still the old one;
`RemovedIs`, `CollectIs` and `EmergencyIs` say what a collection leaves, and
that one in an emergency leaves the vector where it is; `ResizeIs` then needs
that a table which is to be made smaller is not collected in between; `AddIs`
links a new string into the chain that was chosen before its allocation;
`WhitenedIs` brings one back that was found dead.  `Fewer` carries through
growth and collections that a string which was not there still is not.

### table.sort

`SortRight` holds between answers only because of what earlier answers
established, in this call of `auxsort` and in those that wait.  `SortInv` says
that in four parts.

- `PartsRight`: the parts that wait are inside the table and have no index in
  common, with one another or with the part that is being sorted.  The k-th has
  at most `(n + 1) / 2^(k - 1) - 1` elements, since the smaller part is sorted
  first (`HalfFits`); hence the depth of calls.
- `StageRight`: where the indices of each stage are, whatever was answered, and
  what the answers said if they were those of the order: what the scan upwards
  has passed is at most the pivot, what the scan downwards has passed is at
  least the pivot.  The scan upwards ends at the pivot itself, which is at
  `up - 1`, the one downwards at `i - 1` at the latest: these are the two
  errors "invalid order function", and with an order neither can occur.
- `OrderRight`: with an order, any two elements are in order unless both are in
  one part that waits, or both in the part being sorted (`SortedBut`).  An
  exchange inside a part disturbs no such pair (`ExchangeKeepsOrder`), a pivot
  in its place splits one exception in two (`SplitKeepsOrder`), and when no part
  is left none is.
- `ElementsRight`: each value occurs as often as in the table given.

There is a lemma for each comparison, with its own new stage (`EndsKeeps`,
`LowKeeps`, ..., `SplitKeeps`, `ReturnKeeps`).  `SortAlwaysEnds` needs `SortInv`
too: with each answer the set of indices that are in no place yet (`Pending`)
gets smaller, or stays as it is with fewer calls waiting, or with as many and a
smaller distance of the scans (`Left`).  All three are numbers that are never
negative, so a sort of n elements ends.  The step from `SortEnds` to
termination is left to the reader: it is an induction, and it needs fairness, a
comparison function that returns.

### Lists

The loops of `tmove`, `tinsert` and `tremove` copy one element after the other
within one table.  `CopiedIs` says when that is one simultaneous copy: no
element is read after it was written.  `CopiedUp` and `CopiedDown` are the two
orders, the first for a destination that begins at or before the source or lies
behind it, the second for one that begins later: what `tmove` decides by
`t > e || t <= f`.  The rest is arithmetic on integers that wrap around
(`UnsignedIs`), for which the conversions are unfolded to a remainder once.
The width of the integers is arbitrary.

### Only model-checked

- Liveness: `GarbageFreed` and `GarbageFinalized`.  Proofs of liveness need
  `ENABLED`, which the prover does not support.
- What recursive definitions compute, for every input: `GenerationalGC`, the
  compiler and the parts of `Library` follow loops and recursive C functions
  with recursive operators, and the prover cannot reason in modules that have
  them.  Their runs try every input up to the bounds.

## 6. What is not modelled

- Collector: how much one step does (debt and pause only decide when steps
  happen, and any time is allowed), `luaC_fix`, the shrinking of stacks; in the
  generational mode, a collection in the middle of an operation of the program.
- Tables: conversion of float keys, boolean and other keys without identity
  (they behave as integers without an array part), `luaH_resizearray`, the
  error "table overflow", a collection in the middle of `luaH_resize`,
  metamethods.  A rehash inside a rehash is not modelled; it would lose a key
  and show as a violation of `IsDict`.
- Coroutines: the run of a message handler, hooks, `lua_yieldk` with a
  continuation of its own, tail calls, the sizes of the Lua and C stacks, the
  encoding of `tbclist` (it is in `ScopeRun`), what a coroutine that it resumed
  itself does.
- Compiler: limits of registers, variables, nesting and code size, methods
  declared with `:`, `OP_EXTRAARG` in jumps; instructions interrupted by a
  yield (`luaV_finishOp`).
- Libraries: `format` but for `%q`, `pack` and `unpack`, `concat`, numbers to
  text; a comparison function that changes the table while it is being sorted
  (then the values compared are not those in it, and its elements are the
  program's own doing), one that raises an error (the table is then as it is
  between two answers); a list whose `__len` answers the largest integer.  `Chunk` follows
  `loadUnsigned` in that it refuses the last 128 values of a size, which
  `dumpSize` can write.
- `Require`: the depth of the C stack (a bound takes its place), the unloading
  of libraries when the state is closed, and `lua_expandhome`, DeLua's own,
  which replaces a leading `~` in paths.
- PAM, the auxiliary library, input and output, the programs and the C++
  target, with the reasons in `PROJECT.json`.  PAM's settings file is rewritten
  in place, and a crash while it is written loses it; that hazard is listed and
  not modelled, nor is the overflow of a stack.

## 7. Plan

1. `GenerationalGC` without recursive operators (closures as least fixed
   points, as in `IncrementalGC`), and from that a proof of `NothingLost`.
2. The limits of the two stacks in `Coroutine`, with the run of a message
   handler in the space that is kept for it.
