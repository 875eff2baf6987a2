SPECIFICATION FairSpec
CONSTANTS
    ServerPackets <- FewPackets
    MaxReceived = 3
    SocketCapacity = 1
    MaxSessions = 1
    MaxCommands = 1
PROPERTIES
    HandlersReturn
    EventsHandled
    QueuedIsSent
    WindowGoes
