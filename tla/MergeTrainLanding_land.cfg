\* Two entries, two passes, crashes, stalls, lost answers, outside changes.
CONSTANTS
    N = 2
    Pass = {p1, p2}
    MaxFaults = 2
    MaxOutside = 1
    NoPass = NoPass
SPECIFICATION FairSpec
CHECK_DEADLOCK FALSE
INVARIANTS LandedIsTested OneOpenAttempt Inv
PROPERTIES LandingSettles
