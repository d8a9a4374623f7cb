SPECIFICATION Spec
CONSTANTS
    main = main  reg = reg  co = co  a = a  b = b  s = s
    Obj = {main, reg, co, a}
    Thread = {main, co}
    Leaf = {}
    HasGC = {}
    MainThread = main
    Registry = reg
    Hidden = {main, reg}
    Requests = {"full", "emergency"}
    MaxRefs = 1
    GCSWEEPMAX = 1
INVARIANTS TriColor GrayListed BarrierAsserts
PROPERTIES FreesOnlyGarbage
