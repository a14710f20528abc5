\* A bootstrap and a restore compete for the lane with synchronous releases and drains.
CONSTANTS
    w1 = w1  w2 = w2  NoWorker = NoWorker
    bootstrap = bootstrap  restore = restore  promotion = promotion
    recovery = recovery
    Worker = {w1, w2}
    Op = {bootstrap, restore}
    KindOf <- Kinds
    ClientRelease = {}
    TwoSlot = {}
    RecoveryOf <- Recoveries
    MaxAttempts = 2
    MaxDeferrals = 0
    MaxInterrupts = 1
SPECIFICATION FairSpec
CHECK_DEADLOCK FALSE
INVARIANTS Inv OneHolder OneExecutor
PROPERTIES TerminalIsFinal OperationsSettle
