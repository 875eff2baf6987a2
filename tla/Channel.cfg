SPECIFICATION Spec
CONSTANTS
    Me = Me
    Others = {Ann, Bob}
    MaxSessions = 2
    MaxItems = 3
    MaxParts = 2
    Spoken = {"ChatMessage", "ChatPrivMessage", "ChatTopic"}
INVARIANTS
    OthersHeard
    WhispersHeard
    OwnOnce
    TopicIsLast
    ListIsUsers
