SPECIFICATION Spec
CONSTANTS
    InstallConfs <- MCInstallConfs
    RemoveConfs <- MCRemoveConfs
INVARIANTS
    RunsSupportedStages
    NeverJumpsAhead
CHECK_DEADLOCK FALSE
