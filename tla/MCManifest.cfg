CONSTANTS
    Call = {"create", "read"}
    MaxSame = 1
    File = {"f"}
    Steps = 1
    Phases = 2
    EmergencyMax = 5
    CheckpointInterval = 4
    StallThreshold = 3
    MaxCheckpoints = 1
    LoopThreshold = 2
    BreakLimit = 2
SPECIFICATION Spec
CHECK_DEADLOCK FALSE
INVARIANT ManifestIsAccurate
