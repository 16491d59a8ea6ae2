SPECIFICATION RTSpec
CONSTANTS
    Hosts = {h1, h2}
    Producers = {p1, p2}
    Purposes = {}
    Candidates = {}
    None = None
    Recovering = {h1, h2}
    WindowTTL = 1
    GrantTTL = 1
    MaxEpoch = 2
    MaxIdleEpoch = 8
    MaxLog = 0
    MaxClock = 0
SYMMETRY Symmetry
CHECK_DEADLOCK FALSE
INVARIANTS
    RuntimeInv
    ExecutionTracked
    RecoveredMeansQuiet
