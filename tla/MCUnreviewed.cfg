CONSTANTS
    Sender = {ann}
    NoSender = nobody
    MaxActive = 2
    Projects = FALSE
    MaxMessages = 1
    MaxEvents = 1
    MaxGoalTasks = 0
    MaxSteps = 2
    PreemptEvery = 1
    MaxRevisions = 1
    MaxFixRounds = 1
    MaxFiles = 2
    EventsPerCheck = 2
SPECIFICATION Spec
CHECK_DEADLOCK FALSE
INVARIANTS FilesAreReviewed
