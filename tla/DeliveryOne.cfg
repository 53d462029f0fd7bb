SPECIFICATION FairSpec
CONSTANTS
    Runs = {r1}
    Retries = 3
    MaxFaults = 7
INVARIANTS
    TypeOK
    LettersNeedFaults
PROPERTIES
    ImplementsContract
    NeverBlocked
\* Nothing is left to do once the message is acknowledged.
CHECK_DEADLOCK FALSE
