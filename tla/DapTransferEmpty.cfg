SPECIFICATION Spec
CONSTANTS
    MaxWaitRetry = 1
    MaxMatchRetry = 1
    MaxTransfers = 1
    Counts = {0, 1}
    Room = 1
    Wanted = {2}
INVARIANT BlockHasWords
