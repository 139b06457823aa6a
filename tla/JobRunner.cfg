SPECIFICATION Spec
CONSTANTS
    j1 = j1
    j2 = j2
    w1 = w1
    w2 = w2
    NoJob = NoJob
    Jobs = {j1, j2}
    Workers = {w1, w2}
    BotJobs = {j1}
    OrphanKinds = {j2}
    MaxRetries = 1
    MaxTicks = 1
    MaxSubmitFaults = 1
    MaxRequeueFaults = 1
    MaxCrashes = 1
    MaxOutlasted = 1
SYMMETRY Symmetry
INVARIANTS TypeOK Tokens HandlerExclusive EffectsOnce OutcomeOnce JobsAccounted
PROPERTY CancelledIsSkipped
