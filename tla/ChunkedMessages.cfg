SPECIFICATION FairSpec
CONSTANTS
    p1 = p1
    p2 = p2
    small = small
    big = big
    huge = huge
    Pids = {p1, p2}
    Payloads = {small, big}
    Size <- MCSize
    ChunkSize = 2
    QueueSize = 2
    MaxAge = 1
    CleanupInterval = 2
    MaxMsgs <- MCMaxMsgs
INVARIANTS
    NoOtherLoss
PROPERTY
    ChannelSpec
    PartialMessagesLeave
    EveryMessageSettles
