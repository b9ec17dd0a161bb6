CONSTANTS
    User = {u1, u2, u3}
    Approvers = {u1, u2, u3}
    MaxRequests = 2
    Nobody = Nobody
SPECIFICATION Spec
SYMMETRY Symmetry
INVARIANTS
    TypeOK
    OneRequestIsLive
PROPERTIES
    DecisionsAreFinal
CHECK_DEADLOCK FALSE
