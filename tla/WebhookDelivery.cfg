CONSTANTS
    e1 = e1
    e2 = e2
    w1 = w1
    w2 = w2
    g1 = g1
    Event = {e1, e2}
    Webhook = {w1, w2}
    Matches <- TwoTargets
    Worker = {g1}
    QueueSize = 1
    DeadLetterLimit = 1
    MaxRetries <- ThreeOrOne
    Processor = Processor
    NoDelivery = NoDelivery
SPECIFICATION Spec
INVARIANTS
    TypeOK
    EachDeliveryIsInOnePlace
    PatientStopSettlesAll
PROPERTIES
    OpenDeliveriesEnd
CHECK_DEADLOCK FALSE
