SPECIFICATION FairSpec
CONSTANTS
    Keys = {k1, k2}
    MaxPosts = 3
    MaxFaults = 2
INVARIANTS
    TypeOK
    NoFalseAccept
    AnnouncedOnce
PROPERTIES
    AcceptedIsCreated
\* Nothing is left to do once every request was accepted or given up.
CHECK_DEADLOCK FALSE
