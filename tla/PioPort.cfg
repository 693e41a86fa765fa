SPECIFICATION PioSpec
CONSTANTS
    WordBits = 3
    FifoDepth = 2
    MaxBits = 7
INVARIANTS
    ClocksAsAsked
    CapturesInPlace
