\* Two operations of two policy descriptors, two workers, one foreign write, one crash.
CONSTANTS
    o1 = o1  o2 = o2  w1 = w1  w2 = w2
    NoWorker = NoWorker  NoOp = NoOp
    Op = {o1, o2}
    Worker = {w1, w2}
    Kinds = {"import", "backup"}
    MaxDrifts = 1
    MaxCrashes = 1
SPECIFICATION Spec
SYMMETRY Interchangeable
CHECK_DEADLOCK FALSE
INVARIANTS AppliedAsReviewed RecordIsTrue DoubtHoldsTarget
