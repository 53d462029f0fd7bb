SPECIFICATION FairSpec
CONSTANTS
    Services = {order}
    Topics = {create, redeliver}
    Watched = {create}
    MaxClicks = 0
    MaxEvents = 1
    MaxFaults = 1
PROPERTIES
    LagIsTotal
