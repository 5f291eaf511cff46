CONSTANTS
    Threads = {main}
    Io = io
    NoThread = nobody
    MaxStarts = 1
    MaxConnections = 2
    Clients = {alice}
    Peers = {}
    NoClient = noclient
    NoPeer = nopeer
    Segments = 2
    BufferSize = 2
    Chunks = 2
    MaxDescriptors = 1
    MaxDatagrams = 2
SPECIFICATION TcpSpec
INVARIANTS
    ReplyIntact
