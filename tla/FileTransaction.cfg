SPECIFICATION Spec
CONSTANTS
    Procs = {p1, p2}
    Sessions = {s1, s2}
    None = None
    Batches = {2}
    MaxTxn = 3
    MaxOutage = 1
SYMMETRY Symmetry
CHECK_DEADLOCK FALSE
INVARIANTS
    StoreInv
    AckedIsDurable
    CommittedIsThere
    FailedLeavesNoTrace
    OpenIsConsistent
