\* Three requests: a deploy, its repair and a copy of its marker.
CONSTANTS
    deploy = deploy  repair = repair  copy = copy
    release = release  web = web  preview = preview  dispatch = dispatch
    image0 = image0  image1 = image1
    Booted = Booted  NoRequest = NoRequest  NoMarker = NoMarker
    Request = {deploy, repair, copy}
    BuildOf <- Builds
    MarkerOf <- Markers
    SupersedesOf <- Supersedes
    Op = {dispatch}
    KindOf <- Kinds
    MaxAttempt = 2
    Pause = 1
    Budget = 2
    MaxNow = 3
SPECIFICATION Spec
CHECK_DEADLOCK FALSE
INVARIANTS DispatchedOnce ReceiptsAreTrue InDoubtIsFenced PauseIsBounded
PROPERTIES NobodyBegins
