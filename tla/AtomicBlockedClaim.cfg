CONSTANTS
    b1 = b1
    x1 = x1
    p1 = p1
    p2 = p2
    Bead = {b1}
    Pane = {x1}
    Process = {p1, p2}
    MaxAttempt = 1
    TrackerMoves = {"block"}
    LeasesLapse = FALSE
    NoRow = NoRow
    NoJob = NoJob
    NoOne = NoOne
    Nobody = Nobody
    Human = Human
SPECIFICATION Spec
CHECK_DEADLOCK FALSE
SYMMETRY Symmetry
PROPERTIES
    RetiredClaimIsReleased
