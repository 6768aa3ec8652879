SPECIFICATION Spec
CONSTANTS
    a1 = a1
    a2 = a2
    t1 = t1
    t2 = t2
    t3 = t3
    NoApp = NoApp
    NoTask = NoTask
    AppId <- TwoIds
    Task <- TwoTasks
    InstallSteps <- BareInstallSteps
    RemoveSteps <- BareRemoveSteps
    DevIds = {a1, a2}
    PwaIds = {a1}
    Privileged = {a2}
    LunaDirs = {TRUE, FALSE}
    SendMayFail = FALSE
    MaxCrashes = 0
SYMMETRY TaskSymmetry
INVARIANTS
    NoAppLeftLocked
    CompletedMeansDone
    PrivilegedUntouched
