\* A workflow dispatch and an issue notice, two workers.
CONSTANTS
    w1 = w1  w2 = w2
    dispatch1 = dispatch1  issue = issue
    failure = failure  recovery = recovery  email = email
    NoWorker = NoWorker
    Worker = {w1, w2}
    Delivery = {dispatch1, issue}
    KindOf <- Kinds
    FailuresOf <- Incident
    MaxAttempts = 2
SPECIFICATION Spec
SYMMETRY Workers
CHECK_DEADLOCK FALSE
INVARIANTS Inv DispatchedOnce
PROPERTIES StaleHolderFenced
