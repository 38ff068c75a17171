SPECIFICATION Spec
CONSTANTS
    Subscribers = {"s1"}
    Failing = {"s1"}
    MaxPackets = 1
    SendQueueBound = 1
PROPERTY RemovalEnds
CHECK_DEADLOCK FALSE
