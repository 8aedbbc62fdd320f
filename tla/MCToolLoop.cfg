CONSTANTS
    Call = {"create", "read"}
    MaxSame = 1
    File = {"f", "g"}
    Steps = 2
    Phases = 3
    EmergencyMax = 4
    CheckpointInterval = 4
    StallThreshold = 1
    MaxCheckpoints = 1
    LoopThreshold = 3
    BreakLimit = 2
SPECIFICATION Spec
CHECK_DEADLOCK FALSE
INVARIANTS TypeOK TurnsWithinBudget NoEndlessRepeat BarrenPhaseEnds NoFileForgotten
PROPERTIES PlanEnds
