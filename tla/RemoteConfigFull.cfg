SPECIFICATION Spec
CHECK_DEADLOCK FALSE
CONSTANTS
    w1 = w1
    w2 = w2
    c1 = c1
    c2 = c2
    Workers = {w1, w2}
    Configs = {c1, c2}
    Files <- MCFiles
    NoHash = NoHash
    MaxRevision = 3
INVARIANT
    FullFileMap
