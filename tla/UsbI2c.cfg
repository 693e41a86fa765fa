SPECIFICATION Spec
CONSTANTS
    DataRoom = 2
    Ids = {0, 1}
    MaxCommands = 3
INVARIANT OwnAnswer
