CONSTANTS
    EventTypes = {"test_failed"}
    MaxQueueSize = 1
    MaxEmitted = 0
    MaxOpenGoals = 2
    MaxTotalGoals = 2
    MaxGoals = 3
    EventsPerCheck = 1
    GoalUpdates = {}
    MaxUserTasks = 0
    Titles = {"test"}
    MaxOpenIssues = 1
    MaxTotalIssues = 1
    MaxIssues = 1
    MaxSaves = 0
    MaxExperiments = 1
    GitFails = TRUE
SPECIFICATION Spec
CHECK_DEADLOCK FALSE
INVARIANTS TypeOK RejectedIsGone
PROPERTIES AcceptedChangeStays OpenGoalsStay UsersGoalsStay
