SPECIFICATION Spec
CONSTANTS
    a1 = a1
    a2 = a2
    t1 = t1
    t2 = t2
    t3 = t3
    NoApp = NoApp
    NoTask = NoTask
    AppId <- TwoIds
    Task <- TwoTasks
    InstallSteps <- FullInstallSteps
    RemoveSteps <- FullRemoveSteps
    DevIds = {a1}
    PwaIds = {a1}
    Privileged = {}
    LunaDirs = {TRUE, FALSE}
    SendMayFail = FALSE
    MaxCrashes = 0
SYMMETRY TaskSymmetry
INVARIANTS
    RollbackUsesSameRoot
