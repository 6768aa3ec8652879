-------------------------------- MODULE TaskSteps --------------------------------
(***************************************************************************)
(* The statuses and stages of a command, and the order the configuration   *)
(* puts them into.  A step table maps the status a command has reached to  *)
(* the stage it starts next.                                               *)
(***************************************************************************)

\* The stages Task::initialize registers a creator for.
StepFactory ==
    {"IpkParseNeeded", "GetIpkInfoNeeded", "AppCloseNeeded", "IpkInstallNeeded",
     "ServiceInstallNeeded", "InstallSmackNeeded", "RemoveNeeded", "RemoveJailNeeded",
     "RemoveSmackNeeded", "ServiceUninstallNeeded", "IpkRemoveNeeded", "DataRemoveNeeded"}

(***************************************************************************)
(* Values of TaskStep.  IpkInstallCurrent stands for the four statuses     *)
(* opkg reports before it is done.                                         *)
(***************************************************************************)
TaskStep ==
    StepFactory \cup
    {"Unknown", "IpkParseComplete", "GetIpkInfoRequested", "GetIpkInfoComplete",
     "AppCloseRequested", "AppCloseComplete", "IpkInstallRequested", "IpkInstallCurrent",
     "IpkInstallComplete", "ServiceInstallRequested", "ServiceInstallComplete",
     "InstallSmackComplete", "InstallComplete", "ErrorInstall", "RemoveStarted",
     "RemoveJailRequested", "RemoveJailComplete", "RemoveSmackComplete",
     "ServiceUninstallComplete", "IpkRemoveRequested", "IpkRemoveComplete",
     "DataRemoveRequested", "DataRemoveComplete", "RemoveComplete", "ErrorRemove"}

ErrorSteps == {"ErrorInstall", "ErrorRemove"}

InstallStages ==
    {"IpkParseNeeded", "GetIpkInfoNeeded", "AppCloseNeeded", "IpkInstallNeeded",
     "ServiceInstallNeeded", "InstallSmackNeeded"}
RemoveStages ==
    {"AppCloseNeeded", "RemoveNeeded", "RemoveJailNeeded", "RemoveSmackNeeded",
     "ServiceUninstallNeeded", "IpkRemoveNeeded", "DataRemoveNeeded"}

\* The status of a stage that is done.
DoneStatus ==
    [IpkParseNeeded         |-> "IpkParseComplete",
     GetIpkInfoNeeded       |-> "GetIpkInfoComplete",
     AppCloseNeeded         |-> "AppCloseComplete",
     IpkInstallNeeded       |-> "IpkInstallComplete",
     ServiceInstallNeeded   |-> "ServiceInstallComplete",
     InstallSmackNeeded     |-> "InstallSmackComplete",
     RemoveNeeded           |-> "RemoveStarted",
     RemoveJailNeeded       |-> "RemoveJailComplete",
     RemoveSmackNeeded      |-> "RemoveSmackComplete",
     ServiceUninstallNeeded |-> "ServiceUninstallComplete",
     IpkRemoveNeeded        |-> "IpkRemoveComplete",
     DataRemoveNeeded       |-> "DataRemoveComplete"]

\* The entries are for the start and for the stages that are done, and each of these
\* is followed by another or by last.
StagesChain(table, stages, last) ==
    /\ "Unknown" \in DOMAIN table
    /\ DOMAIN table \subseteq {"Unknown"} \cup {DoneStatus[stage] : stage \in stages}
    /\ \A s \in DOMAIN table :
           \/ table[s] = last
           \/ table[s] \in stages /\ DoneStatus[table[s]] \in DOMAIN table

(***************************************************************************)
(* What is expected of a loaded table: it maps statuses to statuses, does  *)
(* not continue from a failure, and has the stages in the order of the     *)
(* configuration, whichever of the stages that an image does not support   *)
(* are bypassed.                                                           *)
(***************************************************************************)
IsStepTable(table) ==
    DOMAIN table \subseteq TaskStep /\ \A s \in DOMAIN table : table[s] \in TaskStep

EndsAtErrors(table) == ErrorSteps \cap DOMAIN table = {}

\* A package is parsed once and first, the app is closed before the package is installed,
\* and what makes use of an installed package comes after that.
InstallsInOrder(table) ==
    /\ StagesChain(table, InstallStages, "InstallComplete")
    /\ "GetIpkInfoComplete" \in DOMAIN table
    /\ \A s \in DOMAIN table :
           /\ table[s] = "IpkParseNeeded" <=> s = "Unknown"
           /\ s \in {"IpkParseComplete", "GetIpkInfoComplete"} =>
                  table[s] \in {"GetIpkInfoNeeded", "AppCloseNeeded"}
           /\ table[s] \in {"ServiceInstallNeeded", "InstallSmackNeeded", "InstallComplete"}
              => s \in {"IpkInstallComplete", "ServiceInstallComplete", "InstallSmackComplete"}

\* An app is closed before its package is removed; the package goes right after the
\* services, and the data after the package and last.
RemovesInOrder(table) ==
    /\ StagesChain(table, RemoveStages, "RemoveComplete")
    /\ \A s \in DOMAIN table :
           /\ s = "Unknown" => table[s] = "AppCloseNeeded"
           /\ s = "ServiceUninstallComplete" => table[s] = "IpkRemoveNeeded"
           /\ table[s] = "DataRemoveNeeded" => s = "IpkRemoveComplete"
           /\ s = "DataRemoveComplete" => table[s] = "RemoveComplete"
           /\ table[s] = "RemoveComplete" => s = "DataRemoveComplete"

=============================================================================
