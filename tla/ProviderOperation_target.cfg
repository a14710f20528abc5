\* Requests of two keys on one target, with supersession.
CONSTANTS
    p1 = p1  p2 = p2  p3 = p3  k1 = k1  k2 = k2  t1 = t1  f1 = f1  f2 = f2
    NoProc = NoProc
    Proc = {p1, p2, p3}
    Key = {k1, k2}
    Target = {t1}
    Fingerprint = {f1, f2}
    TargetOf <- MCTargetOf
    Requests <- TargetRequests
    IntentKeys = {k2}
    Lease = 2
    Grace = 1
    MaxPhase = 1
    MaxNow = 4
SPECIFICATION Spec
SYMMETRY Requesters
CHECK_DEADLOCK FALSE
INVARIANTS Inv ExclusiveEffect
PROPERTIES ImplementsEffects
