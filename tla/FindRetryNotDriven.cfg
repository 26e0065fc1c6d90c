SPECIFICATION QSpec
CONSTANTS
    Null = Null
    Jobs = {j1}
    Workers = {w1, w2}
    Schedulers = {s1}
    Requests = {}
    MaxAttemptsChoices = {2}
    ScheduleChoices = {0}
    Answers = {"OK", "HTTP_5XX"}
    BaseDelay = 1
    MaxDelay = 1
    LeaseDuration = 1
    BatchSize = 1
    MaxTime = 4
    MaxExecutions = 2
    MaxInFlight = 0
    Faulty = {}
    MaxFaults = 0
SYMMETRY Symmetry
INVARIANTS
    QueuedIsDriven
