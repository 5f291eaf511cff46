CONSTANTS
    Threads = {main}
    Io = io
    NoThread = nobody
    MaxStarts = 1
    MaxConnections = 2
    Clients = {alice, bob}
    Peers = {}
    NoClient = noclient
    NoPeer = nopeer
    Segments = 2
    BufferSize = 1
    Chunks = 2
    MaxDescriptors = 2
    MaxDatagrams = 1
SPECIFICATION TcpSpec
INVARIANTS
    WebserverTypeOK
PROPERTIES
    KeepsPromise
