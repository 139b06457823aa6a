CONSTANTS
    n1 = n1
    n2 = n2
    n3 = n3
    s1 = s1
    s2 = s2
    Sessions = {s1, s2}
    Nodes = {n1, n2, n3}
    Target = Target
    Ioc = Ioc
    Contents = {"bio"}
    Weak = 1
    Strong = 2
    None = None
    MaxUnits = 3
    MaxMsgs = 2
    MaxFaults = 1
SPECIFICATION Spec
SYMMETRY Symmetry
INVARIANTS TypeOK GraphConsistent
PROPERTIES EvidenceKept SerialWorkKeeps
CHECK_DEADLOCK FALSE
