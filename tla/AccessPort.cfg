SPECIFICATION Spec
CONSTANTS
    MinFreq = 2
    MaxFreq = 4
    DefaultFreq = 3
    HostFreqs = {1, 2, 4, 5}
    Undivided = Undivided
    Bauds = {9600, 115200}
INVARIANTS
    TypeOK
    SwdAlwaysOpens
    JtagAgreement
    CaptureIsReal
    SupportedFreqIsDriven
PROPERTIES
    DesyncOnlyByRefusal
    CaptureUndisturbed
    CaptureFollowsRequest
    ArbitratesWires
