SPECIFICATION Spec
CONSTANTS
    MaxDelta = 1
    StackSize = 40
    MaxEvents = 6
    MaxChoices = 3
    MaxIdle = 30
    Shapes <- MCShapes
INVARIANT LabelsAsDocumented
CHECK_DEADLOCK FALSE
