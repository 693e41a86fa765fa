SPECIFICATION Spec
CONSTANTS
    PacketSize = 24
    VersionSize = 5
    Headers <- PlainHeaders
    DataBytes = {0, 2}
    OtherBytes = {0, 2, 7}
    MaxItems = 4
INVARIANTS
    TakenAsSent
    AnswersInPlace
