SPECIFICATION FairSpec
CONSTANTS
    j1 = j1
    j2 = j2
    w1 = w1
    w2 = w2
    NoJob = NoJob
    Jobs = {j1, j2}
    Workers = {w1, w2}
    BotJobs = {j1, j2}
    OrphanKinds = {}
    MaxRetries = 1
    MaxTicks = 0
    MaxSubmitFaults = 0
    MaxRequeueFaults = 0
    MaxCrashes = 0
    MaxOutlasted = 0
PROPERTY EventuallySettled
