CONSTANTS
    Objects = {first, second, third}
    NoServer = noserver
    Closed = closed
    TcpPorts = {8080, 8090}
    UdpPorts = {8081}
    DefaultTcpPort = 8080
    DefaultUdpPort = 8081
SYMMETRY Symmetry
SPECIFICATION OwnershipSpec
INVARIANTS
    MovesAreNoexcept
