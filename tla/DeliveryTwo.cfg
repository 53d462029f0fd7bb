SPECIFICATION Spec
CONSTANTS
    Runs = {r1, r2}
    Retries = 3
    MaxFaults = 0
INVARIANTS
    KeyIsBackstop
\* Nothing is left to do once the message is acknowledged.
CHECK_DEADLOCK FALSE
