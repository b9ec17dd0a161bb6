CONSTANTS
    p1 = p1
    p2 = p2
    b1 = b1
    Store = {p1, p2}
    Bead = {b1}
    MaxGeneration = 4
    MaxAttempt = 2
    MaxRetries = 1
    DiskErrors = FALSE
    NoRow = NoRow
    NoFile = NoFile
    NoStore = NoStore
    NoEvent = NoEvent
SPECIFICATION Spec
SYMMETRY Symmetry
CHECK_DEADLOCK FALSE
INVARIANTS
    TypeOK
    StrictLoadNeverFails
    ConfirmedEventIsDurable
PROPERTIES
    SavesAreAtomic
    StaleWriterKeepsTerminal
    StaleWriterKeepsBarrier
