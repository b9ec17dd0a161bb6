CONSTANTS
    am = am
    bd = bd
    Daemon = {am, bd}
    Probed = {am}
    MaxRestarts = 1
    Plans <- OnceOrAgain
    MaxLaunches = 3
    NoDaemon = NoDaemon
SPECIFICATION Spec
INVARIANTS
    TypeOK
    NothingOutlivesShutdown
    RestartsAreBounded
PROPERTIES
    RecordsDoNotRevive
    ExitIsAnswered
    ShutdownEnds
CHECK_DEADLOCK FALSE
