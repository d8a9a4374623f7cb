SPECIFICATION FairSpec
CONSTANTS
    main = main  reg = reg  co = co  a = a  b = b  s = s
    Obj = {main, reg, b}
    Thread = {main}
    Leaf = {}
    HasGC = {b}
    MainThread = main
    Registry = reg
    Hidden = {main, reg}
    Requests = {"full", "emergency"}
    MaxRefs = 1
    GCSWEEPMAX = 1
PROPERTIES GarbageFreed GarbageFinalized
