CONSTANTS
    c1 = c1
    c2 = c2
    b1 = b1
    Consumer = {c1, c2}
    Bead = {b1}
    Outcome = {"completed", "failed"}
    Others = {"coordinator", "clear"}
    MaxAttempt = 2
    Lease = 1
    QueueSize = 1
    MaxCrashes = 0
    DiskErrors = FALSE
    TimePasses = FALSE
    Replacing = TRUE
    NoRow = NoRow
    NoOne = NoOne
    NoEvent = NoEvent
SPECIFICATION Spec
SYMMETRY Symmetry
CHECK_DEADLOCK FALSE
INVARIANT EventIsHandledBeforeItIsGone
