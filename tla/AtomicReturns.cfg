CONSTANTS
    b1 = b1
    b2 = b2
    x1 = x1
    p1 = p1
    p2 = p2
    Bead = {b1, b2}
    Pane = {x1}
    Process = {p1, p2}
    MaxAttempt = 2
    TrackerMoves = {}
    LeasesLapse = FALSE
    NoRow = NoRow
    NoJob = NoJob
    NoOne = NoOne
    Nobody = Nobody
    Human = Human
SPECIFICATION FairSpec
CHECK_DEADLOCK FALSE
INVARIANTS
    PaneExclusion
    ClaimIsHeld
PROPERTIES
    RequestsReturn
    BeadsAreHandedOver
