SPECIFICATION Spec
CONSTANTS
    a1 = a1
    a2 = a2
    t1 = t1
    t2 = t2
    t3 = t3
    NoApp = NoApp
    NoTask = NoTask
    AppId <- TwoIds
    Task <- TwoTasks
    InstallSteps <- FullInstallSteps
    RemoveSteps <- FullRemoveSteps
    DevIds = {}
    PwaIds = {}
    Privileged = {}
    LunaDirs = {TRUE, FALSE}
    SendMayFail = FALSE
    MaxCrashes = 1
SYMMETRY FullSymmetry
INVARIANTS
    OneContinuation
    NoDanglingCallback
    ReleaseOwed
    LockKept
    EndsWithVerdict
    RollbackKeepsData
    OpkgExclusive
PROPERTIES
    NothingAfterError
    ImplementsRegistry
