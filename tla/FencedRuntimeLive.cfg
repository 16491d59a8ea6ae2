SPECIFICATION RTFairSpec
CONSTANTS
    Hosts = {h1}
    Producers = {p1, p2}
    Purposes = {}
    Candidates = {}
    None = None
    Recovering = {}
    WindowTTL = 1
    GrantTTL = 1
    MaxEpoch = 2
    MaxIdleEpoch = 8
    MaxLog = 1
    MaxClock = 0
CHECK_DEADLOCK FALSE
INVARIANTS
    HandoffCompletedOnce
    WindowReachesJob
PROPERTIES
    GuardEventuallyEnds
