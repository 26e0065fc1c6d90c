SPECIFICATION QSpec
CONSTANTS
    Null = Null
    Jobs = {j1}
    Workers = {w1, w2}
    Schedulers = {s1}
    Requests = {}
    MaxAttemptsChoices = {2}
    ScheduleChoices = {0}
    Answers = {"OK"}
    BaseDelay = 1
    MaxDelay = 1
    LeaseDuration = 1
    BatchSize = 1
    MaxTime = 4
    MaxExecutions = 2
    MaxInFlight = 0
    Faulty = {"database"}
    MaxFaults = 1
SYMMETRY Symmetry
PROPERTIES
    DeliveredNotDead
