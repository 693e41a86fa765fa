SPECIFICATION Spec
CONSTANTS
    BufferSize = 4
    Block = 2
    MaxPacket = 2
    MaxData = 3
    MaxTrace = 5
INVARIANTS
    CountCoversBuffer
    GrantsHold
    BulkIsWoken
    ProducerIsWoken
PROPERTIES
    StallNeedsControl
    DataStreams
    OverrunEnds
