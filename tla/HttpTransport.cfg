SPECIFICATION FairSpec
CONSTANTS
    e1 = e1
    e2 = e2
    Endpoints = {e1, e2}
    Retries = {0, 2}
    Sizes = {1, 2}
    MaxSendQueueSize = 3
    HasShutdownTimeout = TRUE
    MaxPayloads = 3
    MaxForks = 1
INVARIANTS
    UsageAccounted
    EachPayloadOnce
PROPERTIES
    QueuedIsHandled
    JoinsReturn
