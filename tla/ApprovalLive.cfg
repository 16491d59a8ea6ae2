SPECIFICATION FairSpec
CONSTANTS
    r1 = r1
    r2 = r2
    r3 = r3
    c1 = c1
    c2 = c2
    c3 = c3
    s1 = s1
    o1 = o1
    o2 = o2
    None = None
    Requests = {r1, r3}
    Calls = {c1, c2, c3}
    Steps = {s1}
    Owners = {o1, o2}
    Call <- MCCall
    Step <- MCStep
    Owner <- MCOwner
    Detached = {r3}
    Modes <- CohortFirst
    Ends <- FinishFirst
    MaxSteer = 1
CHECK_DEADLOCK FALSE
PROPERTIES
    QueuedEventuallyActive
    SteeringVoidsReviews
