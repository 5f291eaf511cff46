CONSTANTS
    Threads = {main}
    Io = io
    NoThread = nobody
    MaxStarts = 1
    MaxConnections = 2
    Clients = {alice, bob}
    Peers = {}
    NoClient = noclient
    NoPeer = nopeer
    Segments = 1
    BufferSize = 1
    Chunks = 1
    MaxDescriptors = 2
    MaxDatagrams = 1
SPECIFICATION FairTcpSpec
PROPERTIES
    TcpServed
