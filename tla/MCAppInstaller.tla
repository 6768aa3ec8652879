----------------------------- MODULE MCAppInstaller -----------------------------
(***************************************************************************)
(* Instances of AppInstaller for TLC.                                      *)
(***************************************************************************)
EXTENDS AppInstaller, TLC

CONSTANTS a1, a2, t1, t2, t3

OneId == {a1}
TwoIds == {a1, a2}

TwoTasks == {t1, t2}
ThreeTasks == {t1, t2, t3}
TaskSymmetry == Permutations(Task)
\* Where no id is special.
FullSymmetry == Permutations(Task) \cup Permutations(AppId)

\* The step tables of an image with a jail and SMACK.
FullInstallSteps ==
    [Unknown                |-> "IpkParseNeeded",
     IpkParseComplete       |-> "GetIpkInfoNeeded",
     GetIpkInfoComplete     |-> "AppCloseNeeded",
     AppCloseComplete       |-> "IpkInstallNeeded",
     IpkInstallComplete     |-> "ServiceInstallNeeded",
     ServiceInstallComplete |-> "InstallSmackNeeded",
     InstallSmackComplete   |-> "InstallComplete"]

FullRemoveSteps ==
    [Unknown                  |-> "AppCloseNeeded",
     AppCloseComplete         |-> "RemoveNeeded",
     RemoveStarted            |-> "RemoveJailNeeded",
     RemoveJailComplete       |-> "RemoveSmackNeeded",
     RemoveSmackComplete      |-> "ServiceUninstallNeeded",
     ServiceUninstallComplete |-> "IpkRemoveNeeded",
     IpkRemoveComplete        |-> "DataRemoveNeeded",
     DataRemoveComplete       |-> "RemoveComplete"]

\* Of an image with neither.
BareInstallSteps ==
    [Unknown                |-> "IpkParseNeeded",
     IpkParseComplete       |-> "GetIpkInfoNeeded",
     GetIpkInfoComplete     |-> "AppCloseNeeded",
     AppCloseComplete       |-> "IpkInstallNeeded",
     IpkInstallComplete     |-> "ServiceInstallNeeded",
     ServiceInstallComplete |-> "InstallComplete"]

BareRemoveSteps ==
    [Unknown                  |-> "AppCloseNeeded",
     AppCloseComplete         |-> "RemoveNeeded",
     RemoveStarted            |-> "ServiceUninstallNeeded",
     ServiceUninstallComplete |-> "IpkRemoveNeeded",
     IpkRemoveComplete        |-> "DataRemoveNeeded",
     DataRemoveComplete       |-> "RemoveComplete"]

\* They are what StepSettings makes of the shipped configuration.
Tables == INSTANCE StepTables

LoadedInstall(smack) == Tables!LoadInstallTable(smack, Tables!ShippedInstallSteps)
LoadedRemove(has) ==
    Tables!LoadRemoveTable(has, has, LoadedInstall(has).keepStatus, Tables!ShippedRemoveSteps)

ASSUME TablesAreLoaded ==
    /\ FullInstallSteps = LoadedInstall(TRUE).table
    /\ FullRemoveSteps = LoadedRemove(TRUE).table
    /\ BareInstallSteps = LoadedInstall(FALSE).table
    /\ BareRemoveSteps = LoadedRemove(FALSE).table

=============================================================================
