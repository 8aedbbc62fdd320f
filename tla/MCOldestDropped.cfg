CONSTANTS
    EventTypes = {"test_failed", "scheduled"}
    MaxQueueSize = 1
    MaxEmitted = 2
    MaxOpenGoals = 2
    MaxTotalGoals = 2
    MaxGoals = 3
    EventsPerCheck = 1
    GoalUpdates = {"in_progress", "blocked", "done"}
    MaxUserTasks = 1
SPECIFICATION IdleSpec
CHECK_DEADLOCK FALSE
PROPERTIES OldestDropped
