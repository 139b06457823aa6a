CONSTANTS
    i1 = i1
    i2 = i2
    n1 = n1
    n2 = n2
    s1 = s1
    s2 = s2
    Sessions = {s1, s2}
    Ids = {i1, i2}
    Names = {n1, n2}
    None = None
    MaxRows = 2
    MaxBatch = 1
SPECIFICATION Spec
SYMMETRY Symmetry
PROPERTY KeysNeverMove
