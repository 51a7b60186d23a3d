SPECIFICATION Spec
CONSTANTS
    internal = internal
    method = method
    iface = iface
    s1 = s1
    s2 = s2
    Internal = {internal}
    User = {method}
    Interface = {iface}
    Implements <- MCImplements
    Spans = {s1, s2}
    NoSpan = NoSpan
    Deployments <- MCDeployments
    PairKinds <- MCPairKinds
    MaxRequests = 2
    MaxHooks = 2
    MaxDepth = 2
INVARIANTS
    ExceptionTransparent
    PairsRun
    SpanIsCurrent
    OriginalRuns
CHECK_DEADLOCK FALSE
