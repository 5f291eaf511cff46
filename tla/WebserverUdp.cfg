CONSTANTS
    Threads = {main}
    Io = io
    NoThread = nobody
    MaxStarts = 1
    MaxConnections = 1
    Clients = {}
    Peers = {carol, dave}
    NoClient = noclient
    NoPeer = nopeer
    Segments = 1
    BufferSize = 1
    Chunks = 1
    MaxDescriptors = 1
    MaxDatagrams = 2
SPECIFICATION FairUdpSpec
INVARIANTS
    UdpReplyToSender
PROPERTIES
    KeepsPromise
    UdpServed
