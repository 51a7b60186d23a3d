SPECIFICATION Spec
CONSTANTS
    Master = master
    master = master
    worker = worker
    Procs = {master, worker}
    SapiNames = {"fpm-fcgi", "embed"}
    Others <- MCOthers
    Configs <- MCConfigs
    OpcacheStates <- MCOpcacheStates
    lib = lib
    loader = loader
    Names = {lib, loader}
    Files <- MCFiles
    Composer = {loader}
    Classes = {lib, loader}
    Functions = {lib}
    MaxRequests = 3
    MaxCompiled = 3
CHECK_DEADLOCK FALSE
INVARIANTS
    OtherHooksStillRun
    OneTimeTaskGivenOnce
    ForkedWorkersAreWhole
    OneCopyOfEachFile
