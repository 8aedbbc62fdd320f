CONSTANTS
    Sender = {ann, bob}
    NoSender = nobody
    MaxActive = 2
    Projects = FALSE
    MaxMessages = 4
    MaxEvents = 0
    MaxGoalTasks = 0
SPECIFICATION IntakeSpec
CHECK_DEADLOCK FALSE
INVARIANTS NoMessageLost NotOvertaken
PROPERTIES EveryMessageTaken
