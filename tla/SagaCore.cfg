SPECIFICATION FairSpec
CONSTANTS
    Orders = {o1}
    Deployed <- BusinessGroups
    MaxRedeliver = 1
    MaxFaults = 1
INVARIANTS
    TypeOK
    Causality
    NeverShippedAndRefunded
    OneEventPerOrder
    PublishedIsLogged
    LabelOnlyProgresses
    LabelTellsStage
PROPERTIES
    ImplementsContract
    EveryOrderSettles
\* Nothing is left to do once every order has settled.
CHECK_DEADLOCK FALSE
