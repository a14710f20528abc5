\* An e-mail notice whose send is uncertain.
CONSTANTS
    w1 = w1  w2 = w2
    dispatch1 = dispatch1  issue = issue
    failure = failure  recovery = recovery  email = email
    NoWorker = NoWorker
    Worker = {w1}
    Delivery = {email}
    KindOf <- Kinds
    FailuresOf <- Incident
    MaxAttempts = 2
SPECIFICATION Spec
CHECK_DEADLOCK FALSE
INVARIANTS EmailSentOnce
