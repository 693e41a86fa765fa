SPECIFICATION Spec
CONSTANTS
    Configs <- FourConfigs
    MeasuredMv = {0, 1700, 5000}
INVARIANT SignalInRange
PROPERTIES
    ConfigGovernsRails
    LedTells
