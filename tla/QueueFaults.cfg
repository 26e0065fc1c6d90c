SPECIFICATION QSpec
CONSTANTS
    Null = Null
    Jobs = {j1}
    Workers = {w1, w2}
    Schedulers = {s1}
    Requests = {a1}
    MaxAttemptsChoices = {2}
    ScheduleChoices = {0}
    Answers = {"OK", "HTTP_5XX"}
    BaseDelay = 1
    MaxDelay = 1
    LeaseDuration = 1
    BatchSize = 1
    MaxTime = 4
    MaxExecutions = 2
    MaxInFlight = 1
    Faulty = {"crash", "database", "scheduler", "request", "scheduler_redis", "request_redis", "stall"}
    MaxFaults = 1
SYMMETRY Symmetry
INVARIANTS
    QTypeOK
    MessageOnlyOnceQueued
