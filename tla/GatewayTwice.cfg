SPECIFICATION Spec
CONSTANTS
    Keys = {k1}
    MaxPosts = 2
    MaxFaults = 1
INVARIANTS
    OneOrderPerKey
\* Nothing is left to do once every request was accepted or given up.
CHECK_DEADLOCK FALSE
