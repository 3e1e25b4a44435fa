SPECIFICATION Spec
CONSTANTS
    g1 = g1
    g2 = g2
    c1 = c1
    c2 = c2
    c3 = c3
    r1 = r1
    rb = rb
    Goal = {g1, g2}
    Deps <- NoDeps
    ReadGoal = {}
    Call = {c1, c2, c3}
    Readable = {}
    Read = {r1, rb}
    Readback = rb
    Plan <- SharedPlans
    MaxSteps = 6
    MaxUserTurns = 3
    MaxGets = 2
    MaxResults = 2
    None = None
CHECK_DEADLOCK FALSE
INVARIANTS
    TypeOK
    OneOutstandingSet
    AtMostOnce
    DoneMeansVerified
    NoStaleEvidence
PROPERTIES
    SentOnlyWithConsent
