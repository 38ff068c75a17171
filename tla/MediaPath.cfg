SPECIFICATION Spec
CONSTANTS
    Subscribers = {"s1", "s2"}
    Failing = {"s1"}
    MaxPackets = 2
    SendQueueBound = 1
INVARIANTS  NoDeliveryToDestroyed
PROPERTIES QueuedIsTaken NodeReturns
CHECK_DEADLOCK FALSE
