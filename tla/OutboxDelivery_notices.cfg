\* A failure notice and the recovery notice that waits for it.
CONSTANTS
    w1 = w1  w2 = w2
    dispatch1 = dispatch1  issue = issue
    failure = failure  recovery = recovery  email = email
    NoWorker = NoWorker
    Worker = {w1, w2}
    Delivery = {failure, recovery}
    KindOf <- Kinds
    FailuresOf <- Incident
    MaxAttempts = 3
SPECIFICATION FairSpec
CHECK_DEADLOCK FALSE
INVARIANTS DiscordSentOnce DeliveredIsReal RecoveryFollowsFailure
PROPERTIES DeliveriesSettle
