SPECIFICATION Spec
CONSTANTS
    UnsignedLong = 64
    YYMAXDEPTH = 12
    SizeofLong = 8
    SizeofInt = 4
    SizeofPointer = 8
    SizeofUintmax = 8
    HASHWORDBITS = 16
    Code <- SomeCode
    Files <- SomeFiles
    Msgids <- SomeMsgids
    Numbers = {0, 1, 2, 3, 7}
INVARIANTS
    FindsWhatIsThere
    RightForm
    StaysInTables
