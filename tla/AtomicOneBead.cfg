CONSTANTS
    b1 = b1
    x1 = x1
    p1 = p1
    p2 = p2
    Bead = {b1}
    Pane = {x1}
    Process = {p1, p2}
    MaxAttempt = 3
    TrackerMoves = {"close", "reopen", "take"}
    LeasesLapse = TRUE
    NoRow = NoRow
    NoJob = NoJob
    NoOne = NoOne
    Nobody = Nobody
    Human = Human
SPECIFICATION Spec
SYMMETRY Symmetry
INVARIANTS
    TypeOK
    AtMostOneDelivery
    NoOrphanLease
    NoOrphanClaim
PROPERTIES
    PromptIsBacked
    RetiredClaimIsReleased
