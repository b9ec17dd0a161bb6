CONSTANTS
    c1 = c1
    c2 = c2
    b1 = b1
    Consumer = {c1, c2}
    Bead = {b1}
    Outcome = {"completed"}
    Others = {"coordinator", "clear"}
    MaxAttempt = 2
    Lease = 1
    QueueSize = 1
    MaxCrashes = 1
    DiskErrors = TRUE
    TimePasses = TRUE
    Replacing = TRUE
    NoRow = NoRow
    NoOne = NoOne
    NoEvent = NoEvent
SPECIFICATION Spec
SYMMETRY Symmetry
CHECK_DEADLOCK FALSE
INVARIANTS
    TypeOK
    RowsAreAcceptable
    EventIsHandledOrReplaced
