SPECIFICATION FairSpec
CONSTANTS
    Half = 4
    PerSecond = 2
    Longest = 2
    spoilt = spoilt
    long = long
    Hashes = {spoilt, long}
    OptionsOf <- MCOptionsOf
    StartOptions <- MCStartOptions
    Answers <- MCAnswers
    None = None
    MaxInFlight = 1
INVARIANTS
    StoppedMeansSilent
    HeartbeatsAreSpaced
PROPERTIES
    StopReturns
    PollsContinue
