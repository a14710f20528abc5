\* A deploy and its repair against reservations that are released by receipts
\* and by execution locks; no drain lapses (ServiceDeployDrain_requests has the clock).
CONSTANTS
    deploy = deploy  repair = repair  copy = copy
    release = release  web = web  preview = preview  dispatch = dispatch
    image0 = image0  image1 = image1
    Booted = Booted  NoRequest = NoRequest  NoMarker = NoMarker
    Request = {deploy, repair}
    BuildOf <- Builds
    MarkerOf <- Markers
    SupersedesOf <- Supersedes
    Op = {release, preview}
    KindOf <- Kinds
    MaxAttempt = 2
    Pause = 1
    Budget = 1
    MaxNow = 0
SPECIFICATION Spec
CHECK_DEADLOCK FALSE
INVARIANTS Inv ReplacementWaits
