SPECIFICATION FairSpec
CONSTANTS
    s1 = s1
    s2 = s2
    p1 = p1
    r1 = r1
    r2 = r2
    i1 = i1
    q1 = q1
    None = None
    Senders = {s1, s2}
    Prompters = {p1}
    Reconcilers = {r1}
    Interrupters = {}
    Closers = {q1}
    Scenarios = {{s1, s2, q1}, {s1, p1}, {p1, r1}, {s1, r1}}
    Faults = {"lost"}
    MaxTurns = 2
PROPERTIES
    CallReturns
