SPECIFICATION MCSpec
CONSTANTS
    MaxCCalls = 9
    MaxCaptures = 2
    MaxInteger = 7
    MaxResults = 3
    RanLimit = 4
    Imbalance = 2
    NBits = 4
    NBM = 2
    MaxSteps = 6
    MaxIWthAbs = 4
    LimLineDiff = 2
    IntMax = 2147483647
    MaxSize = 2147483647
    MaxLines = 10
    Parts <- OnlyStrings
    PatternItems <- MCItems
    Subjects <- MCSubjects
    MaxItems = 3
    LastItems <- MCLastItems
    Datum <- MCDatum
    Order <- MCOrder
    Inputs <- MCInputs
    Seeds = {0, 1, 2}
    TooBig = 8
    Digit <- MCDigit
    MaxDigits = 3
    SourceLines <- MCSourceLines
    MaxInstructions = 6
    MaxPieces = 2
    Lines <- MCLines
    TextByte <- MCTextByte
    Utf8Byte <- MCUtf8Byte
    MaxText = 4
    Str <- MCStr
    Obj = {1, 2, 3}
    Hash <- MCHash
    StartSizes = {1, 8}
    MaxTabSize = 8
    CacheSize = 1
    Kinds = {"generational"}
    YoungShrinkFails = TRUE
    Module <- MCMod
    Root <- MCRoot
    OpenFuncs <- MCOpenFuncs
    Worlds <- MCWorlds
    LibSyms = {"*", "luaopen_a"}
    LibFiles <- MCLibFiles
    MaxDepth = 2
    MaxRuns = 3
    ModuleValue = {0, 1}
INVARIANT RemoveFinds
CHECK_DEADLOCK FALSE
