SPECIFICATION Spec
CONSTANTS
    j1 = j1
    j2 = j2
    w1 = w1
    w2 = w2
    NoJob = NoJob
    Jobs = {j1}
    Workers = {w1}
    BotJobs = {j1}
    OrphanKinds = {}
    MaxRetries = 1
    MaxTicks = 1
    MaxSubmitFaults = 0
    MaxRequeueFaults = 0
    MaxCrashes = 0
    MaxOutlasted = 0
PROPERTY CompletedIsFinal
