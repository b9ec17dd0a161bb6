CONSTANTS
    c1 = c1
    c2 = c2
    b1 = b1
    Consumer = {c1, c2}
    Bead = {b1}
    Outcome = {"completed"}
    Others = {}
    MaxAttempt = 1
    Lease = 1
    QueueSize = 1
    MaxCrashes = 1
    DiskErrors = TRUE
    TimePasses = TRUE
    Replacing = FALSE
    NoRow = NoRow
    NoOne = NoOne
    NoEvent = NoEvent
SPECIFICATION FairSpec
CHECK_DEADLOCK FALSE
PROPERTY OutboxDrains
