SPECIFICATION Spec
CONSTANTS
    main = main  reg = reg  co = co  a = a  b = b  s = s
    Obj = {main, reg, b, s}
    Thread = {main}
    Leaf = {s}
    HasGC = {b}
    MainThread = main
    Registry = reg
    Hidden = {main, reg}
    Requests = {"full", "emergency"}
    MaxRefs = 1
    GCSWEEPMAX = 1
INVARIANTS SweepInvariant NoDangling
PROPERTIES FinalizesOnlyGarbage DeadStaysDead
