SPECIFICATION Spec
CONSTANTS
    a1 = a1
    a2 = a2
    t1 = t1
    t2 = t2
    t3 = t3
    NoApp = NoApp
    NoTask = NoTask
    AppId <- OneId
    Task <- ThreeTasks
    InstallSteps <- FullInstallSteps
    RemoveSteps <- FullRemoveSteps
    DevIds = {}
    PwaIds = {}
    Privileged = {}
    LunaDirs = {TRUE, FALSE}
    SendMayFail = TRUE
    MaxCrashes = 0
SYMMETRY TaskSymmetry
INVARIANTS
    NoDanglingCallback
