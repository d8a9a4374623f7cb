SPECIFICATION Spec
CONSTANTS
    MaxCalls = 6
    MaxTbc = 2
INVARIANTS NoneLeftBehind ErrorsCaught YieldsSafe NnyExact
PROPERTIES LivesAsDocumented
