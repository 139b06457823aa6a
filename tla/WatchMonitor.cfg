CONSTANTS
    w1 = w1
    w2 = w2
    p1 = p1
    p2 = p2
    s1 = s1
    s2 = s2
    r1 = r1
    r2 = r2
    NoWatch = NoWatch
    Watches = {w1}
    Workers = {p1}
    Requests = {r1}
    Schedulers = {s1}
    MaxMsgs = 3
    Limit = 2
    Searchable = {2}
    BatchSize = 1
    MaxQueued = 1
    MaxFaults = 1
SPECIFICATION Spec
INVARIANTS TypeOK NothingSkipped SerialPollsReportOnce
