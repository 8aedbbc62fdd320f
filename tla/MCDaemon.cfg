CONSTANTS
    Person = {ann, bob}
    Kinds = {"task", "command", "yes"}
    MaxRequests = 1
    MaxWritten = 3
    MaxDays = 1
SPECIFICATION DaemonSpec
CHECK_DEADLOCK FALSE
INVARIANTS DaemonTypeOK HandedOnce AnswerIsNotATask ReportedOnce
PROPERTIES EveryMessageHeard ReportIsTaken
