SPECIFICATION FairSpec
CONSTANTS
    Drains = {d1, d2}
    BatchSize = 2
    MaxRows = 4
    MaxFaults = 3
INVARIANTS
    TypeOK
    DuplicatesNeedFaults
PROPERTIES
    ImplementsContract
    EveryRowPublished
