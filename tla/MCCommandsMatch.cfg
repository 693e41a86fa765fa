SPECIFICATION Spec
CONSTANTS
    PacketSize = 24
    VersionSize = 5
    Headers <- AllHeaders
    DataBytes = {0, 2}
    OtherBytes = {0}
    MaxItems = 3
INVARIANT TakenAsSent
