SPECIFICATION PacedSpec
CONSTANTS
    Null = Null
    Jobs = {j1, j2}
    Workers = {w1}
    Schedulers = {s1}
    Requests = {}
    MaxAttemptsChoices = {1}
    ScheduleChoices = {0, 1}
    Answers = {"OK", "HTTP_5XX"}
    BaseDelay = 1
    MaxDelay = 1
    LeaseDuration = 1
    BatchSize = 1
    MaxTime = 8
    MaxExecutions = 2
    MaxInFlight = 0
    Faulty = {"crash"}
    MaxFaults = 1
INVARIANTS
    ExecutionBudget
PROPERTIES
    EveryJobEnds
