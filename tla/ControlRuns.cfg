SPECIFICATION FairSpec
CONSTANTS
    Services = {payment}
    Topics = {orders}
    Watched = {orders}
    MaxClicks = 2
    MaxEvents = 2
    MaxFaults = 1
INVARIANTS
    TypeOK
    ServiceObeysLog
    MonitorObeysLog
    CommittedWasHandled
PROPERTIES
    LagNotOverstated
    ResumeDrains
    BacklogShown
    StatusAgrees
