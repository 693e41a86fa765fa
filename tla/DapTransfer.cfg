SPECIFICATION Spec
CONSTANTS
    MaxWaitRetry = 1
    MaxMatchRetry = 1
    MaxTransfers = 2
    Counts = {1, 2, 3}
    Room = 2
    Wanted = {2}
INVARIANT TypeOK
PROPERTIES
    BlockReadsInOrder
    BlockWritesAll
    ReadsOwn
    MatchIsReal
    CommandEnds
