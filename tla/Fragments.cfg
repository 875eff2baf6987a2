SPECIFICATION Spec
CONSTANTS
    Lengths = {0, 1, 255, 256, 257, 511, 512, 700, 65279, 65281}
    Cuts = {0, 2, 4, 100}
    MaxMessages = 2
INVARIANTS
    Reassembled
    BufferEmptied
    HeadersFound
