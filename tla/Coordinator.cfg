SPECIFICATION FairSpec
CONSTANTS
    w1 = w1
    e1 = e1
    e2 = e2
    Parent = Parent
    Workers = {w1}
    Endpoints = {e1, e2}
    Parsable = {e1}
    MaxMsgs <- MCMaxMsgs
INVARIANTS
    RegistryMirrorsWorkers
    StopsWithoutOldWorkers
    PayloadFindsItsConnection
PROPERTY
    CoordinatorEnds
