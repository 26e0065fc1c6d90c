SPECIFICATION Spec
CONSTANTS
    Null = Null
    Jobs = {j1}
    Workers = {w1, w2}
    Schedulers = {s1}
    Requests = {a1}
    MaxAttemptsChoices = {1, 2}
    ScheduleChoices = {0}
    Answers = {"OK", "HTTP_5XX", "HTTP_4XX"}
    BaseDelay = 1
    MaxDelay = 1
    LeaseDuration = 1
    BatchSize = 1
    MaxTime = 4
    MaxExecutions = 3
    MaxInFlight = 1
    Faulty = {"crash", "database", "scheduler", "request"}
    MaxFaults = 1
SYMMETRY Symmetry
INVARIANTS
    TypeOK
    LeaseIffProcessing
    ExclusiveOwner
    OwnerIsCurrent
    NoPhantomAttempt
    RetryingHasBudget
    DiagnosisKept
PROPERTIES
    SucceededIsFinal
    StatusMovesAllowed
    LiveLeaseRespected
    ImplementsLedger
