CONSTANTS
    Fds <- MCFds
    Traffic <- MCTraffic
    MaxWait = 3
    PeerLists <- MCPeerLists
SPECIFICATION SocketSpec
INVARIANTS
    AprsISTypeOK
    DescriptorInv
    InStep
    WaitBound
    SocketTypeOK
    NoSocketIsLost
PROPERTIES
    SearchesInOrder
    ImplementsAprsIS
