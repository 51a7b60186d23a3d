SPECIFICATION Spec
CONSTANTS
    Alphabet <- MCAlphabet
    MaxLength <- MCMaxLength
    Elements <- MCElements
    Keys = {"x", "y"}
    Records <- MCRecords
    MaxWrites = 5
    MaxBatch = 4
    Callees <- MCCallees
    Returned <- MCReturned
    PostHooks <- MCPostHooks
    Properties <- MCProperties
    MaxPassed = 3
    MaxHookCalls = 2
    FrameSize = 12
    Sources <- MCSources
    Remotes <- MCRemotes
    DynamicOf <- MCDynamicOf
    VendorPriority = 1
    UrlOf <- MCUrlOf
    ItemsOf <- MCItemsOf
    Unopenable = {"bad.log"}
    SizeLimit = 1073741824
    DurationLimit = 1000000
    Unrepresentable <- MCUnrepresentable
    Nothing = "nothing"
    MaxUpdates = 4
INVARIANTS
    TextAsDefined
    RecordsArrive
    HookValuesArrive
    SnapshotMeansSources
    LoggerFollowsConfig
    TlsStaysHome
CHECK_DEADLOCK FALSE
