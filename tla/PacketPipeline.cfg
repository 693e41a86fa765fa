SPECIFICATION Spec
CONSTANTS
    BufferSize = 7
    Header = 1
    MaxPacket = 2
    Sizes = {0, 1, 2}
    MaxSent = 5
INVARIANTS
    RingHoldsQueue
    ReaderIsWoken
    StallsOnlyOnEmpty
PROPERTIES
    WrapStallIsFinal
    ResponsesInOrder
    RequestsAnswered
