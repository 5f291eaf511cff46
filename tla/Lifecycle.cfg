CONSTANTS
    Threads = {main, other}
    Io = io
    NoThread = nobody
    MaxStarts = 2
    MaxConnections = 1
SPECIFICATION FairLifecycleSpec
INVARIANTS
    TypeOK
    CrashNeedsMisuse
    ThreadIsOwned
    QuietWhenDown
    OneLoopEach
PROPERTIES
    ShutdownJoins
    AcceptLoopWaits
    ShutdownReturns
