CONSTANTS
    Sender = {ann}
    NoSender = nobody
    MaxActive = 2
    Projects = FALSE
    MaxMessages = 1
    MaxEvents = 0
    MaxGoalTasks = 0
    MaxSteps = 0
    PreemptEvery = 1
    MaxRevisions = 0
    MaxFixRounds = 1
    MaxFiles = 1
    EventsPerCheck = 1
    TimerSave = {save1, save2}
    Stops = {}
    StopsAfter = {}
    MaxBoots = 0
SPECIFICATION CoordinatorSpec
CHECK_DEADLOCK FALSE
INVARIANTS NeverHalfWritten
