SPECIFICATION FairSpec
CONSTANTS
    Services = {payment, shipping}
    Topics = {orders}
    Watched = {orders}
    MaxClicks = 1
    MaxEvents = 0
    MaxFaults = 1
PROPERTIES
    StatusTellsPaused
