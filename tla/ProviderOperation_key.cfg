\* Retries of one key while another key wants its target; fair, no symmetry.
CONSTANTS
    p1 = p1  p2 = p2  p3 = p3  k1 = k1  k2 = k2  t1 = t1  f1 = f1  f2 = f2
    NoProc = NoProc
    Proc = {p1, p2}
    Key = {k1, k2}
    Target = {t1}
    Fingerprint = {f1, f2}
    TargetOf <- MCTargetOf
    Requests <- MixedRequests
    IntentKeys = {}
    Lease = 2
    Grace = 0
    MaxPhase = 1
    MaxNow = 4
SPECIFICATION FairSpec
CHECK_DEADLOCK FALSE
INVARIANTS NoDuplicateEffect EffectCustody ReplayIsTrue
PROPERTIES LeaseLossIsFinal RequestsEnd
