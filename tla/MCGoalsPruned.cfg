CONSTANTS
    EventTypes = {"test_failed"}
    MaxQueueSize = 1
    MaxEmitted = 0
    MaxOpenGoals = 2
    MaxTotalGoals = 2
    MaxGoals = 2
    EventsPerCheck = 1
    GoalUpdates = {"done"}
    MaxUserTasks = 0
    Titles = {"test"}
    MaxOpenIssues = 1
    MaxTotalIssues = 1
    MaxIssues = 1
    MaxSaves = 0
    MaxExperiments = 0
    GitFails = FALSE
SPECIFICATION Spec
CHECK_DEADLOCK FALSE
PROPERTIES AgentDecides
