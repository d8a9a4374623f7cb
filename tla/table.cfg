SPECIFICATION Spec
CONSTANTS
    s1 = s1  s2 = s2  s3 = s3  r1 = r1  v1 = v1  v2 = v2  Nil = Nil
    IntKey = {1, 2, 3, 4, 6, 8, 9, 10, 11, 14, 15}
    StrKey = {s1, s2, s3}
    RefKey = {r1}
    Hash <- MCHash
    Addr <- MCAddr
    Value = {v1, v2}
    Bits = 4
    Uses <- MCUses
INVARIANTS NodesSound ArrayPartSound BorderFound CursorFound
PROPERTIES IsDict
