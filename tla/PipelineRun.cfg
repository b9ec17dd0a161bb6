CONSTANTS
    a = a
    b = b
    c = c
    d = d
    x = x
    y = y
    z = z
    Step = {a, b, c, d}
    DependsOn <- Needs
    OnError <- Policy
    RetryCount = 1
    Detached = {a}
    Conditional = {b}
    Recovering = {c}
    Variable = {x, y, z}
    OutputVar <- Writes
    MaxParallel = 2
    MaxRuns = 2
    NoStep = NoStep
    NoState = NoState
SPECIFICATION FairSpec
CHECK_DEADLOCK FALSE
INVARIANTS
    TypeOK
    DependenciesFirst
    InputsAreThere
    CompletedMeansDone
    SidecarsAreMarked
PROPERTIES
    FinishedStaysFinished
    RunEnds
