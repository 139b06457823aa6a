CONSTANTS
    p1 = p1
    c1 = c1
    c2 = c2
    u1 = u1
    u2 = u2
    u3 = u3
    MaxRetries = 3
    NoReport = NoReport
    Sessions = {c1, c2}
    Values = {u1, u2, u3}
    MaxWatches = 1
    Processes = {p1}
    Clients = {u1, u2}
    Calls = {c1, c2}
    Limit = 1
    Burst = 3
    WindowSeconds = 1
    Second = 2
    MaxTrouble = 1
    MaxTime = 3
    MaxRedirects = 2
    Entities = {c1, c2}
    Handles = {u1, u2}
    NoKey = NoKey
    MaxRenames = 1
    MaxRows = 3
    Generators = {c1, c2}
    EvidenceCap = 2
    MaxRefs = 1
    MaxEvidence = 2
    MaxTries = 2
    GraphNodes = {c1, c2, u1, u2}
    NodeLimits = {3, 5}
    EdgeLimit = 2
    Depths = {1, 2}
    MaxGrowth = 1
    Posts <- MCPosts
    AliasSites = {u1, u2}
    AliasScores = {40, 70}
    MaxPosts = 2
    MaxAttempts = 2
    NoChat = NoChat
    NoScore = NoScore
    MaxEvents = 2
    MaxWhen = 2
    MaxCommits = 3
    NoTime = NoTime
SYMMETRY Symmetry
SPECIFICATION ServicesSpec
INVARIANTS
    ServicesTypeOK
    InvestigationAccounts WatchlistBounded LimiterKeepsWord FindingsSourced
    AnswersMatch ReportWhole ViewsHonest
PROPERTY OwnLimitOnly
CHECK_DEADLOCK FALSE
