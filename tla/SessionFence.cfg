SPECIFICATION Spec
CONSTANTS
    Hosts = {h1, h2}
    Producers = {p1, p2}
    Purposes = {"approval", "session_lifecycle", "handoff"}
    Candidates = {c1}
    None = None
    WindowTTL = 1
    GrantTTL = 1
    MaxEpoch = 2
    MaxIdleEpoch = 5
    MaxLog = 3
    MaxClock = 1
SYMMETRY Symmetry
CHECK_DEADLOCK FALSE
INVARIANTS
    TypeOK
    StaleProducerNeverWrites
    CurrentWindowExcludesFence
    CurrentWindowIsFresh
    OneCheckpointPerJob
    CheckpointCoversSource
PROPERTIES
    FenceLeavesOnlyByItsOwner
