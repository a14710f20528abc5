\* A two-slot Client release and the rollback that recovers it.
CONSTANTS
    w1 = w1  w2 = w2  NoWorker = NoWorker
    bootstrap = bootstrap  restore = restore  promotion = promotion
    recovery = recovery
    Worker = {w1, w2}
    Op = {promotion, recovery}
    KindOf <- Kinds
    ClientRelease = {promotion, recovery}
    TwoSlot = {promotion, recovery}
    RecoveryOf <- Recoveries
    MaxAttempts = 2
    MaxDeferrals = 1
    MaxInterrupts = 1
SPECIFICATION Spec
SYMMETRY Workers
CHECK_DEADLOCK FALSE
INVARIANTS DoubtHoldsLane
PROPERTIES RequeuedIsUntouched FailedReleaseKeepsLane
