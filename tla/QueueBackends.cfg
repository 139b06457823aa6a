SPECIFICATION Spec
CONSTANTS
    j1 = j1
    j2 = j2
    c1 = c1
    c2 = c2
    Jobs = {j1, j2}
    Clients = {c1, c2}
    Delays = {1, 2}
    MaxTime = 4
    MaxLen = 3
    MaxCrashes = 1
INVARIANTS TypeOK SingleCopy
PROPERTIES ImplementsQueue KeepsIds
