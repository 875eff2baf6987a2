SPECIFICATION Spec
CONSTANTS
    ServerPackets <- FewPackets
    MaxReceived = 2
    SocketCapacity = 1
    MaxSessions = 1
    MaxCommands = 0
INVARIANT
    ReadFindsNet
