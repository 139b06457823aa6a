CONSTANTS
    w1 = w1
    w2 = w2
    p1 = p1
    p2 = p2
    s1 = s1
    s2 = s2
    r1 = r1
    r2 = r2
    NoWatch = NoWatch
    Watches = {w1, w2}
    Workers = {p1}
    Requests = {}
    Schedulers = {s1, s2}
    MaxMsgs = 0
    Limit = 1
    Searchable = {}
    BatchSize = 2
    MaxQueued = 1
    MaxFaults = 1
SPECIFICATION FairSpec
PROPERTY KeepsPolling
