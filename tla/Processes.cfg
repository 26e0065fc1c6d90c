SPECIFICATION PFairSpec
CONSTANTS
    Jobs = {j1, j2}
    LeaseDuration = 5
    MaxFaults = 1
    RenewalInterval = 1
    Lateness = 1
    MaxLatency = 1
    MaxSilence = 3
    WebhookTimeout = 3
    Endings = {"SUCCEEDED", "RETRYING"}
    Buckets = {0, 1}
    MaxRunning = 2
INVARIANTS
    PTypeOK
    LiveWorkerKeepsLease
    WorkerExitSettles
    SchedulerExitEnqueues
    MetricsFollowTransitions
    HistogramIsCumulative
PROPERTIES
    SignalEndsProcess
