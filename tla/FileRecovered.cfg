SPECIFICATION Spec
CONSTANTS
    Procs = {p1}
    Sessions = {s1}
    None = None
    Batches = {2}
    MaxTxn = 2
    MaxOutage = 0
CHECK_DEADLOCK FALSE
INVARIANT RecoveredIsSynced
