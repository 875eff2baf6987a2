SPECIFICATION Spec
CONSTANTS
    UnsignedLong = 64
    YYMAXDEPTH = 8
    Texts <- SomeTexts
    Memories = {2, 9}
INVARIANTS
    ParsesLikeC
    NodesAreFreed
PROPERTIES
    Returns
