CONSTANTS
    Sender = {ann}
    NoSender = nobody
    MaxActive = 1
    Projects = FALSE
    MaxMessages = 1
    MaxEvents = 0
    MaxGoalTasks = 1
    MaxSteps = 2
    PreemptEvery = 1
    MaxRevisions = 1
    MaxFixRounds = 1
    MaxFiles = 1
    EventsPerCheck = 2
SPECIFICATION Spec
CHECK_DEADLOCK FALSE
INVARIANTS NoOrphan
PROPERTIES ImplementsService EveryTaskCloses EveryReplyLeaves
