SPECIFICATION FairSpec
CONSTANTS
    Orders = {o1}
    Deployed <- PaidAndAnnounced
    MaxRedeliver = 0
    MaxFaults = 1
INVARIANTS
    NotifiedOnce
    CommittedIsDurable
PROPERTIES
    EveryEventNotified
\* Nothing is left to do once every order has settled.
CHECK_DEADLOCK FALSE
