SPECIFICATION FairSpec
CONSTANTS
    MaxRequests = 3
    MaxForks = 1
    MaxInterrupts = 3
INVARIANTS
    SampledOnlyInRequests
    InterruptsAccounted
    NoThreadAtFork
PROPERTIES
    JoinsReturn
