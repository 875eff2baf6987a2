SPECIFICATION Spec
CONSTANTS
    Processes = {1, 2}
    MaxSessions = 2
    MaxInfos = 3
    MaxParts = 2
INVARIANTS
    RowsArePages
    OneConsoleShown
    CommandsToShown
    InfoIsWhole
    CheckTellsMode
