SPECIFICATION FairSpec
CONSTANTS
    Browsers = {b1}
    TopicOrder <- Order
    Singles = {"payment.succeeded", "order.created.DLQ"}
    BoardSize = 3
    DeadLetters = {"order.created.DLQ"}
    MaxEvents = 2
    MaxReplays = 2
    MaxOthers = 1
    MaxFaults = 1
INVARIANTS
    TypeOK
    OneReplay
    Rebuilt
PROPERTIES
    EveryReplayAnswered
\* Nothing is left to do once all events are pushed and all requests answered.
CHECK_DEADLOCK FALSE
