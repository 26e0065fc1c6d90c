SPECIFICATION QSpec
CONSTANTS
    Null = Null
    Jobs = {j1}
    Workers = {w1, w2}
    Schedulers = {s1}
    Requests = {a1}
    MaxAttemptsChoices = {2}
    ScheduleChoices = {0}
    Answers = {"OK", "HTTP_5XX", "HTTP_4XX"}
    BaseDelay = 1
    MaxDelay = 1
    LeaseDuration = 1
    BatchSize = 1
    MaxTime = 8
    MaxExecutions = 3
    MaxInFlight = 0
    Faulty = {}
    MaxFaults = 0
SYMMETRY Symmetry
INVARIANTS
    EveryExecutionCharged
