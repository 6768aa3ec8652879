SPECIFICATION FairSpec
CONSTANTS
    a1 = a1
    a2 = a2
    t1 = t1
    t2 = t2
    t3 = t3
    NoApp = NoApp
    NoTask = NoTask
    AppId <- OneId
    Task <- TwoTasks
    InstallSteps <- BareInstallSteps
    RemoveSteps <- BareRemoveSteps
    DevIds = {a1}
    PwaIds = {a1}
    Privileged = {}
    LunaDirs = {FALSE}
    SendMayFail = TRUE
    MaxCrashes = 0
PROPERTIES
    ImplementsRegistry
    CommandEnds
