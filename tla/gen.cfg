SPECIFICATION Spec
CONSTANTS
    Worlds <- MCWorlds
    MaxEntries = 1
    MaxStack = 2
INVARIANTS NothingLost FullCollectionExact MarksRight YoungWatched
CHECK_DEADLOCK FALSE
