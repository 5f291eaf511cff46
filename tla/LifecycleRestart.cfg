CONSTANTS
    Threads = {main}
    Io = io
    NoThread = nobody
    MaxStarts = 2
    MaxConnections = 1
SPECIFICATION BuiltSpec
INVARIANTS
    StartedServerListens
