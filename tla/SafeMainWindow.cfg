SPECIFICATION Spec
CONSTANTS
    ServerPackets <- SomePackets
    MaxReceived = 3
    SocketCapacity = 1
    MaxSessions = 2
    MaxCommands = 1
INVARIANTS
    TypeOK
    NoLockWhileWaiting
    GetFindsPacket
    MenusNeedNet
    ExitAfterWorker
    NoCircularWait
    AnswersAreWritten
PROPERTIES
    AnswersReceived
    ImplementsSession
