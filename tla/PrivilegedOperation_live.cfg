\* One operation of any descriptor, two workers, one foreign write, two crashes.
CONSTANTS
    o1 = o1  o2 = o2  w1 = w1  w2 = w2
    NoWorker = NoWorker  NoOp = NoOp
    Op = {o1}
    Worker = {w1, w2}
    Kinds = {"secrets", "authz", "import", "backup"}
    MaxDrifts = 1
    MaxCrashes = 2
SPECIFICATION FairSpec
CHECK_DEADLOCK FALSE
INVARIANTS Inv
PROPERTIES AuthorizedAtEffect ClaimsAreDecided
