CONSTANTS
    EventTypes = {"test_failed", "scheduled"}
    MaxQueueSize = 1
    MaxEmitted = 0
    MaxOpenGoals = 1
    MaxTotalGoals = 1
    MaxGoals = 1
    EventsPerCheck = 1
    GoalUpdates = {"done"}
    MaxUserTasks = 0
    Titles = {"test", "fragile"}
    MaxOpenIssues = 1
    MaxTotalIssues = 1
    MaxIssues = 2
    MaxSaves = 1
    MaxExperiments = 0
    GitFails = FALSE
SPECIFICATION Spec
CHECK_DEADLOCK FALSE
INVARIANTS NoDuplicateIssue
PROPERTIES GraveIssuesStay
