SPECIFICATION Spec
CONSTANTS
    s1 = s1
    s2 = s2
    p1 = p1
    r1 = r1
    r2 = r2
    i1 = i1
    q1 = q1
    None = None
    Senders = {s1, s2}
    Prompters = {p1}
    Reconcilers = {r1, r2}
    Interrupters = {i1}
    Closers = {q1}
    Scenarios = {{s1, s2, q1}, {p1, r1, r2, i1}}
    Faults = {"observer", "parent", "start", "release", "recover", "lost", "reported"}
    MaxTurns = 2
SYMMETRY Symmetry
INVARIANTS
    TurnInv
    QuiescedIsFinal
    InputAtMostOnce
    AcceptedInputRuns
    ReconcileIsAlone
