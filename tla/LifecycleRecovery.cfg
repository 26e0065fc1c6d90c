SPECIFICATION RecoverySpec
CONSTANTS
    Null = Null
    Jobs = {j1}
    Workers = {w1, w2}
    Schedulers = {s1}
    Requests = {}
    MaxAttemptsChoices = {2}
    ScheduleChoices = {0}
    Answers = {"OK", "HTTP_5XX"}
    BaseDelay = 1
    MaxDelay = 1
    LeaseDuration = 1
    BatchSize = 1
    MaxTime = 5
    MaxExecutions = 2
    MaxInFlight = 1
    Faulty = {"crash", "database", "scheduler"}
    MaxFaults = 1
PROPERTIES
    LeaseEnds
