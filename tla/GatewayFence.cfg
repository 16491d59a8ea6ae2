SPECIFICATION Spec
CONSTANTS
    s1 = s1
    s2 = s2
    p1 = p1
    r1 = r1
    r2 = r2
    i1 = i1
    q1 = q1
    None = None
    Senders = {s1}
    Prompters = {}
    Reconcilers = {r1}
    Interrupters = {}
    Closers = {}
    Scenarios = {{s1, r1}}
    Faults = {"observer", "parent", "start", "release", "recover", "lost", "reported"}
    MaxTurns = 2
INVARIANT CancelWaitsForFence
