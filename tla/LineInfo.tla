------------------------------ MODULE LineInfo ------------------------------
(***************************************************************************)
(* Line information: lcode.c saves the difference from the last line with  *)
(* every instruction and an absolute line now and then; ldebug.c finds the *)
(* line of an instruction from the nearest absolute one.                   *)
(*                                                                         *)
(* The state is a function as the code generator emits it: instructions    *)
(* are added, the line of the last one is fixed, or the last one is        *)
(* removed and another takes its place.                                    *)
(***************************************************************************)
EXTENDS Integers, Sequences, SequencesExt, FiniteSets

CONSTANTS MaxIWthAbs,      \* MAXIWTHABS: instructions without absolute line information
          LimLineDiff,     \* LIMLINEDIFF: differences below it fit in a byte
          SourceLines,     \* lines of the source; the main function is defined at line 0
          MaxInstructions  \* bound

ASSUME LinesAssumption ==
    /\ MaxIWthAbs \in Nat \ {0} /\ LimLineDiff \in Nat \ {0}
    /\ SourceLines \subseteq Int /\ MaxInstructions \in Nat

VARIABLES fs,         \* the function that is being compiled
          replacing   \* an instruction was removed, and the one that replaces it comes next

linesVars == <<fs, replacing>>

AbsLineInfo == -LimLineDiff
AbsVal(x) == IF x < 0 THEN -x ELSE x

\* the fields of FuncState and Proto; instruction pc is element pc + 1; 'lines' is
\* no field: the line each instruction was given
OpenFunc(linedefined) ==
    [linedefined |-> linedefined, previousline |-> linedefined, iwthabs |-> 0,
     lineinfo |-> <<>>, abslineinfo |-> <<>>, lines |-> <<>>, asserts |-> TRUE]
LastPC(f) == Len(f.lineinfo) - 1
Info(f, pc) == f.lineinfo[pc + 1]

\* saves the line of a new instruction, the next one
SaveLineInfo(f, line) ==
    LET far == AbsVal(line - f.previousline) >= LimLineDiff
        absolute == far \/ f.iwthabs >= MaxIWthAbs
        pc == LastPC(f) + 1
    IN  [f EXCEPT !.iwthabs = IF absolute THEN 1 ELSE @ + 1,
                  !.abslineinfo = IF absolute THEN Append(@, [pc |-> pc, line |-> line]) ELSE @,
                  !.lineinfo = Append(@, IF absolute THEN AbsLineInfo ELSE line - f.previousline),
                  !.previousline = line,
                  !.lines = Append(@, line)]
\* mutant: the next instruction need not be absolute
RemoveLastLineInfoCounts(f) ==
    LET last == Info(f, LastPC(f))
        g == [f EXCEPT !.lineinfo = Front(@), !.lines = Front(@), !.iwthabs = @ - 1]
    IN  IF last # AbsLineInfo THEN [g EXCEPT !.previousline = @ - last]
        ELSE [g EXCEPT !.abslineinfo = Front(@)]
RemoveLastLineInfo(f) ==
    LET last == Info(f, LastPC(f))
        g == [f EXCEPT !.lineinfo = Front(@), !.lines = Front(@)]
    IN  IF last # AbsLineInfo THEN [g EXCEPT !.previousline = @ - last, !.iwthabs = @ - 1]
        ELSE [g EXCEPT !.abslineinfo = Front(@), !.iwthabs = MaxIWthAbs + 1,
                       !.asserts = @ /\ Last(f.abslineinfo).pc = LastPC(f)]

\* luaK_code, luaK_fixline, and removelastinstruction with the instruction that replaces it
CodeLine(f, line) == SaveLineInfo(f, line)
FixLine(f, line) == SaveLineInfo(RemoveLastLineInfo(f), line)
RemoveLastInstruction(f) == RemoveLastLineInfo(f)

(***************************************************************************)
(* ldebug.c                                                                *)
(***************************************************************************)
Estimate(pc) == (pc \div MaxIWthAbs) - 1
AbsAt(f, i) == f.abslineinfo[i + 1]
BaseIsLow(f, pc) ==
    \/ Estimate(pc) < 0
    \/ Estimate(pc) < Len(f.abslineinfo) /\ AbsAt(f, Estimate(pc)).pc <= pc
\* the loop ends at the first entry whose successor is not there, or is after pc
Ends(f, pc, i) == i + 1 >= Len(f.abslineinfo) \/ pc < AbsAt(f, i + 1).pc
Adjust(f, pc) ==
    CHOOSE i \in Estimate(pc)..Len(f.abslineinfo) :
        Ends(f, pc, i) /\ \A j \in Estimate(pc)..(i - 1) : ~Ends(f, pc, j)
FromStart(f, pc) == f.abslineinfo = <<>> \/ pc < AbsAt(f, 0).pc
GetBaseLine(f, pc) ==
    IF FromStart(f, pc) THEN [pc |-> -1, line |-> f.linedefined] ELSE AbsAt(f, Adjust(f, pc))
\* adds the differences of the instructions after 'first'
Walk(f, first, start, last) ==
    LET line[pc \in first..last] == IF pc = first THEN start ELSE line[pc - 1] + Info(f, pc)
    IN  line[last]
GetFuncLine(f, pc) == LET base == GetBaseLine(f, pc) IN Walk(f, base.pc, base.line, pc)
\* the assertions of the two functions
LineAsserts(f, pc) ==
    /\ FromStart(f, pc) \/ BaseIsLow(f, pc)
    /\ \A i \in (GetBaseLine(f, pc).pc + 1)..pc : Info(f, i) # AbsLineInfo

ChangedLine(f, oldpc, newpc) ==
    IF newpc - oldpc < MaxIWthAbs \div 2 /\ \A i \in (oldpc + 1)..newpc : Info(f, i) # AbsLineInfo
    THEN Walk(f, oldpc, 0, newpc) # 0
    ELSE GetFuncLine(f, oldpc) # GetFuncLine(f, newpc)
\* luaG_traceexec: is the line hook called at npci?
LineHook(f, oldpc, npci) == npci <= oldpc \/ ChangedLine(f, oldpc, npci)

\* collectvalidlines; a vararg function does not count its first instruction
NextLine(f, currentline, pc) ==
    IF Info(f, pc) # AbsLineInfo THEN currentline + Info(f, pc) ELSE GetFuncLine(f, pc)
Collected(f) ==
    LET line[pc \in 0..LastPC(f)] == NextLine(f, IF pc = 0 THEN f.linedefined ELSE line[pc - 1], pc)
    IN  line
ValidLines(f, vararg) == {Collected(f)[pc] : pc \in (IF vararg THEN 1 ELSE 0)..LastPC(f)}

(***************************************************************************)
(* The function as it is compiled.                                         *)
(***************************************************************************)
LinesInit == \E line \in SourceLines : fs = OpenFunc(line) /\ replacing = FALSE
EmitInstruction(line) ==
    /\ Len(fs.lineinfo) < MaxInstructions
    /\ fs' = CodeLine(fs, line) /\ replacing' = FALSE
FixLastLine(line) ==
    /\ ~replacing /\ fs.lineinfo # <<>>
    /\ fs' = FixLine(fs, line) /\ UNCHANGED replacing
\* a jump or test takes its place
RemoveInstruction ==
    /\ ~replacing /\ fs.lineinfo # <<>>
    /\ fs' = RemoveLastInstruction(fs) /\ replacing' = TRUE
LinesNext ==
    \/ \E line \in SourceLines : EmitInstruction(line) \/ FixLastLine(line)
    \/ RemoveInstruction
LinesSpec == LinesInit /\ [][LinesNext]_linesVars

LinesOf(f, first) == {f.lines[pc + 1] : pc \in first..LastPC(f)}
\* From differences and a few absolute lines, ldebug.c finds the line that the code
\* generator gave to every instruction, also after lines were fixed and instructions
\* replaced; the line hook sees a new line exactly when the line changes or the program
\* jumps back; activelines lists exactly the lines with code, of a vararg function those
\* after its first instruction; the assertions hold.
LinesRight ==
    ~replacing =>
        /\ fs.asserts
        /\ \A pc \in 0..LastPC(fs) : LineAsserts(fs, pc) /\ GetFuncLine(fs, pc) = fs.lines[pc + 1]
        /\ \A old, new \in 0..LastPC(fs) :
              LineHook(fs, old, new) = (new <= old \/ fs.lines[old + 1] # fs.lines[new + 1])
        /\ ValidLines(fs, FALSE) = LinesOf(fs, 0)
        /\ fs.lineinfo # <<>> => ValidLines(fs, TRUE) = LinesOf(fs, 1)
=============================================================================
