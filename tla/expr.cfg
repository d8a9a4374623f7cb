SPECIFICATION Spec
CONSTANTS
    MAXARG_C = 2
    OFFSET_sC = 1
    MAXARG_Bx = 1
    MAXINT_sBx = 2
    MAXINDEXRK = 0
    LFIELDS_PER_FLUSH = 3
    Bits = 4
    NumRegs = 14
    Grammars <- MCGrammars
    Envs <- MCEnvs
    CompileTime <- MCCompileTime
INVARIANTS ExprRight AssertsHold
CHECK_DEADLOCK FALSE
