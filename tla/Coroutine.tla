------------------------------ MODULE Coroutine ------------------------------
(***************************************************************************)
(* One coroutine of ldo.c: its stack of calls, the protected calls and the *)
(* to-be-closed variables in it, and what errors, yields, resumes and      *)
(* coroutine.close make of them.                                           *)
(*                                                                         *)
(* A yield throws the C stack of the coroutine away.  From then on         *)
(* 'unroll' does what the lost C code had left to do, with nothing but the *)
(* CallInfo records to go by.                                              *)
(***************************************************************************)
EXTENDS Integers, Sequences, FiniteSets, FiniteSetsExt, SequencesExt

CONSTANTS
    MaxCalls,   \* bound: nested calls, closing methods not counted
    MaxTbc      \* bound: pending to-be-closed variables

ASSUME BoundAssumption == MaxCalls \in Nat \ {0} /\ MaxTbc \in Nat

VARIABLES
    status,    \* L->status: "OK", "YIELD", or "ERROR" for a thread that failed
    frames,    \* the CallInfo list above base_ci
    tbc,       \* L->tbclist: the pending variables, by place in the stack
    jmps,      \* L->errorJmp: the setjmp points of the C stack, while L runs
    nny,       \* non-yieldable calls in progress (upper half of L->nCcalls)
    errfunc,   \* L->errfunc: the message handler, 0 or the place of a frame
    empty      \* whether the stack of a thread without calls is empty

vars == <<status, frames, tbc, jmps, nny, errfunc, empty>>

-----------------------------------------------------------------------------
(***************************************************************************)
(* A call:                                                                 *)
(*   kind    "lua", "C", or "pcall" for the C functions pcall and xpcall   *)
(*   base    its place in the stack                                        *)
(*   doing   "run", "call" (waits for the function it called), "ret"       *)
(*           (returns: its variables are being closed) or "closing" (a     *)
(*           pcall after an error: the variables of the failed call are)   *)
(*   act     the C code that made the call above is on the C stack         *)
(*   inc     1 when that call may not yield                                *)
(*   k       there is a continuation function                              *)
(*   ypcall  bit CIST_YPCALL: errors may recover here                      *)
(*   rec     CIST_RECST: the status to recover with                        *)
(*   old     old_errfunc                                                   *)
(***************************************************************************)
Depth == Len(frames)
Top == frames[Depth]
Below(n) == SubSeq(frames, 1, n)

\* the first place above the frame 'frames[n]' and the variables in 'pending'
Place(n, pending) ==
    1 + Max({0} \cup (IF n = 0 THEN {} ELSE {frames[n].base})
                \cup {pending[i].place : i \in DOMAIN pending})

NewFrame(kind, base) ==
    [kind |-> kind, base |-> base, doing |-> "run", act |-> FALSE, inc |-> 0,
     k |-> FALSE, ypcall |-> FALSE, rec |-> "OK", old |-> 0]

Jmp(what, depth) == [what |-> what, depth |-> depth, nny |-> nny]
Running == jmps # << >>
LastJmp == jmps[Len(jmps)]
PopJmp == SubSeq(jmps, 1, Len(jmps) - 1)

\* lua_closethread runs the closing methods itself, without a frame
Resetting == Running /\ jmps[1].what = "close" /\ jmps[1].depth = 0

\* The frame on top runs its own code.
Executes(kinds) ==
    /\ Running /\ frames # << >>
    /\ Top.doing = "run" /\ Top.kind \in kinds

\* luaF_close takes the variables above a level, the last one first
Pending(base) == {i \in DOMAIN tbc : tbc[i].place > base}
PopTbc == SubSeq(tbc, 1, Len(tbc) - 1)

-----------------------------------------------------------------------------
(***************************************************************************)
(* Calls.                                                                  *)
(***************************************************************************)
\* 'caller' (the frame on top, changed) calls a function with variables
\* 'pending' below it
Enter(caller, kind, pending) ==
    frames' = Append(Append(Below(Depth - 1), caller),
                     NewFrame(kind, Place(Depth, pending)))

\* OP_CALL of a Lua function needs no C code of its own
CallLua ==
    /\ Executes({"lua"})
    /\ Depth < MaxCalls
    /\ Enter([Top EXCEPT !.doing = "call"], "lua", tbc)
    /\ UNCHANGED <<status, tbc, jmps, nny, errfunc, empty>>

\* OP_CALL of a C function
CallC ==
    /\ Executes({"lua"})
    /\ Depth < MaxCalls
    /\ Enter([Top EXCEPT !.doing = "call"], "C", tbc)
    /\ UNCHANGED <<status, tbc, jmps, nny, errfunc, empty>>

\* lua_callk that lets any call yield: not what the code does
CallkYields(k) ==
    /\ Executes({"C"})
    /\ Depth < MaxCalls
    /\ Enter([Top EXCEPT !.doing = "call", !.act = TRUE, !.inc = IF nny = 0 THEN 0 ELSE 1,
                         !.k = k], "lua", tbc)
    /\ nny' = nny + (IF nny = 0 THEN 0 ELSE 1)
    /\ UNCHANGED <<status, tbc, jmps, errfunc, empty>>

\* lua_callk: the call can yield if there is a continuation and nothing around
\* forbids it
Callk(k) ==
    /\ Executes({"C"})
    /\ Depth < MaxCalls
    /\ LET inc == IF k /\ nny = 0 THEN 0 ELSE 1
       IN  /\ Enter([Top EXCEPT !.doing = "call", !.act = TRUE, !.inc = inc,
                                !.k = inc = 0], "lua", tbc)
           /\ nny' = nny + inc
    /\ UNCHANGED <<status, tbc, jmps, errfunc, empty>>

\* lua_pcallk, called by pcall and xpcall with a continuation and by other C
\* functions without one.  Where a yield is possible the error recovery is left
\* to lua_resume, elsewhere luaD_pcall sets a jump; 'inc' is 1 for
\* luaD_callnoyield.
CallProtected(handler, yields, inc) ==
    /\ Executes({"lua"})
    /\ Depth + 1 < MaxCalls
    /\ LET base  == Place(Depth, tbc)
           pcall == [kind |-> "pcall", base |-> base, doing |-> "call", act |-> TRUE,
                     inc |-> inc, k |-> yields, ypcall |-> yields, rec |-> "OK",
                     old |-> errfunc]
       IN  /\ frames' = Below(Depth - 1)
                        \o <<[Top EXCEPT !.doing = "call"], pcall,
                             NewFrame("lua", base + 1)>>
           /\ jmps' = IF yields THEN jmps ELSE Append(jmps, Jmp("pcall", Depth + 1))
           /\ errfunc' = IF handler THEN base ELSE 0
    /\ nny' = nny + inc
    /\ UNCHANGED <<status, tbc, empty>>

Pcall(handler, k) ==
    LET yields == k /\ nny = 0 IN CallProtected(handler, yields, IF yields THEN 0 ELSE 1)

\* luaF_newtbcupval: a local variable of a Lua function, lua_toclose in C
NewTbc ==
    /\ Executes({"lua", "C"})
    /\ Len(tbc) < MaxTbc /\ Depth <= MaxCalls
    /\ tbc' = Append(tbc, [place |-> Place(Depth, tbc), of |-> Top.base])
    /\ UNCHANGED <<status, frames, jmps, nny, errfunc, empty>>

-----------------------------------------------------------------------------
(***************************************************************************)
(* Returning and closing.                                                  *)
(***************************************************************************)
\* the frame on top returns; luaF_close comes first
Return ==
    /\ Executes({"lua", "C"})
    /\ frames' = [frames EXCEPT ![Depth].doing = "ret"]
    /\ UNCHANGED <<status, tbc, jmps, nny, errfunc, empty>>

\* the block of a variable ends (OP_CLOSE)
LeaveBlock ==
    /\ Executes({"lua"})
    /\ Pending(Top.base) # {}
    /\ tbc' = PopTbc
    /\ Enter([Top EXCEPT !.doing = "call"], "lua", PopTbc)
    /\ UNCHANGED <<status, jmps, nny, errfunc, empty>>

\* One round of luaF_close: the variable leaves the list, then its method is
\* called, from where it may yield unless luaD_closeprotected is around.
CloseNext ==
    /\ Running /\ frames # << >>
    /\ Top.doing \in {"ret", "closing"}
    /\ Pending(Top.base) # {}
    /\ tbc' = PopTbc
    /\ LET inc == IF Top.doing = "closing" /\ ~Top.ypcall THEN 1 ELSE 0
       IN  /\ Enter([Top EXCEPT !.act = TRUE, !.inc = inc], "lua", PopTbc)
           /\ nny' = nny + inc
    /\ UNCHANGED <<status, jmps, errfunc, empty>>

\* finishpcallk and the end of lua_pcallk, for a call that went well
SucceedsStaysMarked(c) == [c EXCEPT !.doing = "ret", !.act = FALSE]
Succeeds(c) == [c EXCEPT !.doing = "ret", !.act = FALSE, !.ypcall = FALSE]

\* The function that frame c called has returned.
\*  - The C code that called it goes on ...
BackToC(c) ==
    IF c.kind = "pcall" /\ c.doing = "call" THEN Succeeds(c)
    ELSE [c EXCEPT !.act = FALSE, !.doing = IF @ = "call" THEN "run" ELSE @]
\*  - ... or 'unroll' does: luaV_finishOp repeats a return that was closing
\*    variables, finishCcall does the same for C functions (CIST_CLSRET), calls
\*    a continuation, or finishes a lua_pcallk by its status.
UnrollForgetsError(c) ==
    IF c.kind = "pcall" THEN Succeeds(c)
    ELSE [c EXCEPT !.doing = IF @ = "call" THEN "run" ELSE @]
Unroll(c) ==
    IF c.kind = "pcall"
    THEN IF c.rec = "OK" THEN Succeeds(c) ELSE [c EXCEPT !.doing = "closing"]
    ELSE [c EXCEPT !.doing = IF @ = "call" THEN "run" ELSE @]

\* Frame c, if it is a pcall that succeeds, restores the message handler, and
\* leaves luaD_pcall if it is in there.
Leaves(c) == c.kind = "pcall" /\ c.doing = "ret"

\* luaD_poscall of the frame on top

PosCall ==
    /\ Running /\ Depth > 1
    /\ Top.doing = "ret" /\ Pending(Top.base) = {}
    /\ LET c == frames[Depth - 1]
           d == IF c.act THEN BackToC(c) ELSE Unroll(c)
       IN  /\ frames' = Append(Below(Depth - 2), d)
           /\ nny' = nny - (IF c.act THEN c.inc ELSE 0)
           /\ errfunc' = IF Leaves(d) THEN d.old ELSE errfunc
           /\ jmps' = IF Leaves(d) /\ ~c.ypcall THEN PopJmp ELSE jmps
    /\ UNCHANGED <<status, tbc, empty>>

\* a pcall has closed all that the failed call left behind and returns the error:
\* the end of finishpcallk, or of luaD_pcall
PcallFails ==
    /\ Running /\ frames # << >>
    /\ Top.doing = "closing" /\ Pending(Top.base) = {}
    /\ frames' = [frames EXCEPT ![Depth] = [Succeeds(@) EXCEPT !.rec = "OK"]]
    /\ errfunc' = Top.old
    /\ jmps' = IF Top.ypcall THEN jmps ELSE PopJmp
    /\ UNCHANGED <<status, tbc, nny, empty>>

\* the body of the coroutine returns, and lua_resume does; the results leave the
\* stack
Ends ==
    /\ Running /\ ~Resetting /\ Depth = 1
    /\ Top.doing = "ret" /\ Pending(Top.base) = {}
    /\ frames' = << >> /\ jmps' = PopJmp
    /\ empty' = TRUE
    /\ UNCHANGED <<status, tbc, nny, errfunc>>

-----------------------------------------------------------------------------
(***************************************************************************)
(* Errors.                                                                 *)
(***************************************************************************)
\* The C code that a longjmp to lua_resume leaves is lost.
LoseC(fs) == [i \in DOMAIN fs |-> [fs[i] EXCEPT !.act = FALSE, !.inc = 0]]

\* Frame i, a pcall, gets an error from a call that is no more; 'below' are the
\* frames below it.
Recover(i, below, rec) ==
    Append(below, [frames[i] EXCEPT !.doing = "closing", !.act = TRUE,
                                           !.inc = 0, !.rec = rec])

\* findpcall
FindPcall == {i \in DOMAIN frames : frames[i].ypcall
                 /\ \A j \in (i + 1)..Depth : ~frames[j].ypcall}

\* luaD_throw, to the last jump.  luaD_rawrunprotected restores the count of C
\* calls.  In lua_resume, precover unrolls from the innermost lua_pcallk, or
\* the coroutine dies with all its frames and variables.  In luaD_pcall,
\* luaD_closeprotected takes over, and catches the errors of closing methods.
Unwind ==
    /\ Executes({"lua", "C"})
    /\ \/ /\ LastJmp.what = "resume"
          /\ IF FindPcall = {}
             THEN status' = "ERROR" /\ jmps' = << >> /\ UNCHANGED frames
             ELSE /\ \E i \in FindPcall :
                        frames' = Recover(i, LoseC(Below(i - 1)), "ERROR")
                  /\ UNCHANGED <<status, jmps>>
       \/ /\ LastJmp.what = "pcall"
          /\ frames' = Recover(LastJmp.depth, Below(LastJmp.depth - 1), "OK")
          /\ jmps' = [jmps EXCEPT ![Len(jmps)].what = "close"]
          /\ UNCHANGED status
       \/ /\ LastJmp.what = "close"
          /\ frames' = IF LastJmp.depth = 0 THEN << >>
                        ELSE Recover(LastJmp.depth, Below(LastJmp.depth - 1), "OK")
          /\ UNCHANGED <<status, jmps>>
    /\ UNCHANGED <<tbc, errfunc, empty>>

ThrowKeepsCount == Unwind /\ UNCHANGED nny
Throw == Unwind /\ nny' = LastJmp.nny

-----------------------------------------------------------------------------
(***************************************************************************)
(* Yielding, resuming and closing the coroutine.                           *)
(***************************************************************************)
\* lua_yield, called from Lua code; where it is not allowed, it is an error
Yield ==
    /\ Executes({"lua"})
    /\ nny = 0
    /\ status' = "YIELD"
    /\ jmps' = PopJmp
    /\ nny' = LastJmp.nny
    /\ frames' = [LoseC(frames) EXCEPT ![Depth].doing = "call"]
    /\ UNCHANGED <<tbc, errfunc, empty>>

\* lua_resume starts the body, if it is there ...
Begin ==
    /\ ~Running /\ status = "OK" /\ frames = << >>
    /\ \E kind \in {"lua", "C"} : frames' = <<NewFrame(kind, 1)>>
    /\ jmps' = <<[what |-> "resume", depth |-> 0, nny |-> 0]>>
    /\ nny' = 0
    /\ UNCHANGED <<status, tbc, errfunc, empty>>

StartAgain == Begin
Start == Begin /\ ~empty

\* ... or goes on after a yield.
Resume ==
    /\ ~Running /\ status = "YIELD"
    /\ status' = "OK"
    /\ frames' = [frames EXCEPT ![Depth].doing = "run"]
    /\ jmps' = <<[what |-> "resume", depth |-> 0, nny |-> 0]>>
    /\ nny' = 0
    /\ UNCHANGED <<tbc, errfunc, empty>>

\* lua_closethread, from coroutine.close or from a wrap that failed: luaE_resetthread
\* drops all calls, and closes the variables in luaD_closeprotected
CloseThread ==
    /\ ~Running
    /\ status' = "OK" /\ frames' = << >> /\ errfunc' = 0
    /\ jmps' = <<[what |-> "close", depth |-> 0, nny |-> 0]>>
    /\ nny' = 0
    /\ UNCHANGED <<tbc, empty>>

ResetClosesNext ==
    /\ Resetting /\ frames = << >>
    /\ tbc # << >>
    /\ tbc' = PopTbc
    /\ frames' = <<NewFrame("lua", Place(0, PopTbc))>>
    /\ nny' = nny + 1
    /\ UNCHANGED <<status, jmps, errfunc, empty>>

\* a closing method returns to luaE_resetthread
ResetGoesOn ==
    /\ Resetting /\ Depth = 1
    /\ Top.doing = "ret" /\ Pending(Top.base) = {}
    /\ frames' = << >> /\ nny' = nny - 1
    /\ UNCHANGED <<status, tbc, jmps, errfunc, empty>>

ResetEnds ==
    /\ Resetting /\ frames = << >>
    /\ tbc = << >>
    /\ jmps' = << >>
    /\ empty' = TRUE
    /\ UNCHANGED <<status, frames, tbc, nny, errfunc>>

-----------------------------------------------------------------------------
\* coroutine.create: the body waits in the stack
Init ==
    /\ status = "OK" /\ frames = << >> /\ tbc = << >> /\ jmps = << >>
    /\ nny = 0 /\ errfunc = 0 /\ empty = FALSE

Next ==
    \/ CallLua \/ CallC \/ NewTbc \/ Return \/ LeaveBlock
    \/ \E k \in BOOLEAN : Callk(k)
    \/ \E handler, k \in BOOLEAN : Pcall(handler, k)
    \/ CloseNext \/ PosCall \/ PcallFails \/ Ends
    \/ Throw
    \/ Yield \/ Start \/ Resume
    \/ CloseThread \/ ResetClosesNext \/ ResetGoesOn \/ ResetEnds

Spec == Init /\ [][Next]_vars

-----------------------------------------------------------------------------
(***************************************************************************)
(* Properties.                                                             *)
(***************************************************************************)
FrameType ==
    [kind : {"lua", "C", "pcall"}, base : Nat,
     doing : {"run", "call", "ret", "closing"}, act : BOOLEAN, inc : 0..1,
     k : BOOLEAN, ypcall : BOOLEAN, rec : {"OK", "ERROR"}, old : Nat]
TbcType == [place : Nat, of : Nat]
JmpType == [what : {"resume", "pcall", "close"}, depth : Nat, nny : Nat]

TypeOK ==
    /\ status \in {"OK", "YIELD", "ERROR"}
    /\ frames \in Seq(FrameType) /\ tbc \in Seq(TbcType) /\ jmps \in Seq(JmpType)
    /\ nny \in Nat /\ errfunc \in Nat /\ empty \in BOOLEAN

\* The places of pending variables go up along the list (the assertion of
\* luaF_newtbcupval), and the base of a call separates its variables and those of
\* later calls from those of earlier ones: luaF_close takes none that is not its
\* own.  When calls end, by return, by error, or with yields in between, their
\* variables have been closed: unless the coroutine is being closed, each pending
\* one belongs to a call in progress, or to a failed one that a pcall below is
\* cleaning up.
Owned(v) ==
    \/ \E i \in DOMAIN frames : frames[i].base = v.of
    \/ \E i \in DOMAIN frames : frames[i].doing = "closing" /\ frames[i].base < v.of
NoneLeftBehind ==
    /\ \A i, j \in DOMAIN tbc : i < j => tbc[i].place < tbc[j].place
    /\ \A v \in ToSet(tbc), c \in ToSet(frames) : v.place > c.base <=> v.of >= c.base
    /\ ~Resetting => \A v \in ToSet(tbc) : Owned(v)

\* Where an error thrown now would arrive.
Catcher ==
    IF LastJmp.what = "resume" THEN Max({0} \cup FindPcall) ELSE LastJmp.depth

\* whether that one left a jump on the C stack or only its mark in the CallInfo
InnermostCatches ==
    Running => Catcher = Max({0} \cup {i \in DOMAIN frames :
                                frames[i].kind = "pcall" /\ frames[i].doing # "ret"})
StatusKept ==
    \A i \in DOMAIN frames :
        frames[i].ypcall => (frames[i].rec = "ERROR" <=> frames[i].doing = "closing")
HandlerRight ==
    Running => \E i \in {0} \cup DOMAIN frames :
        /\ i = 0 \/ (frames[i].kind = "pcall" /\ frames[i].doing # "ret")
        /\ \A j \in (i + 1)..Depth : frames[j].kind = "pcall" => frames[j].doing = "ret"
        /\ errfunc \in {0, IF i = 0 THEN 0 ELSE frames[i].base}
\* An error is caught by the innermost pcall around it, after the message handler of that
\* pcall, or none, has seen it; and a pcall that recovers from an error keeps that in its
\* CallInfo until it is done, so that a yield in a closing method does not turn failure
\* into success.
ErrorsCaught == InnermostCatches /\ HandlerRight /\ StatusKept

YieldReachesResume ==
    Running /\ nny = 0 /\ frames # << >> /\ Top.doing = "run"
        => Len(jmps) = 1 /\ LastJmp.what = "resume"
CanFinish ==
    \A i \in 1..(Depth - 1) :
        frames[i].kind # "lua" /\ ~frames[i].act /\ frames[i].doing # "ret" => frames[i].k
\* Yields are possible only where the jump of lua_resume is the last one: no other jump
\* would know what to do with LUA_YIELD.  And, the assertion in finishCcall, a C function
\* that lost its C code to a yield has a continuation, or was only closing its variables.
YieldsSafe == YieldReachesResume /\ CanFinish

\* The count of non-yieldable calls is exact, after any errors and yields: a
\* count too high would forbid yields forever, a count too low would allow one
\* that loses C code in progress.
NnyExact ==
    /\ TypeOK
    /\ Running => nny = Cardinality({i \in DOMAIN frames : frames[i].act /\ frames[i].inc = 1})
                        + (IF Resetting /\ frames # << >> THEN 1 ELSE 0)

\* auxstatus, as another coroutine sees it
AuxStatus ==
    IF status = "YIELD" THEN "suspended"
    ELSE IF status = "ERROR" THEN "dead"
    ELSE IF frames # << >> THEN "running"
    ELSE IF empty THEN "dead" ELSE "suspended"

\* Coroutines live as the manual says; in particular nothing revives a dead one.
Life == INSTANCE CoroutineLife WITH
    life <- IF Resetting THEN "closing"
            ELSE IF Running THEN "running" ELSE AuxStatus
LivesAsDocumented == Life!Spec
=============================================================================
