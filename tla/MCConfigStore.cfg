SPECIFICATION Spec
CONSTANTS
    Nothing = Nothing
    Malformed = Malformed
    Configs <- TwoConfigs
    MaxPending = 3
INVARIANTS
    StoredIsCurrent
    CacheIsCurrent
