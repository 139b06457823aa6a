CONSTANTS
    r1 = r1
    r2 = r2
    r3 = r3
    c1 = c1
    c2 = c2
    Requests = {r1, r2, r3}
    MaxTokens = 3
    Fetches = {c1, c2}
    MaxRefresh = 3
    Apis = {c1, c2}
    Users = {r1, r2, r3, c1}
    AllowListed = {c1}
    PublicBot = TRUE
    FreeActions = 1
    Unlock = 2
    None = None
    MaxTargets = 3
SYMMETRY Symmetry
SPECIFICATION PlatformSpec
INVARIANTS PlatformTypeOK TokensSafe SessionSafe SchemaSafe 
PROPERTY UnlockIsPermanent
